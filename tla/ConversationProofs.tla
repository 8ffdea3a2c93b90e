------------------------- MODULE ConversationProofs -------------------------
(***************************************************************************)
(* Proofs about Conversation, for any messages, sizes of the pane and      *)
(* lengths of texts, and any number of changes.  The first part is the     *)
(* arithmetic of rows, whose sums and walks are recursive functions: they  *)
(* are shown to exist, and their properties to hold, by taking the least   *)
(* index at which they would not.                                          *)
(***************************************************************************)
EXTENDS Conversation, FiniteSetTheorems, WellFoundedInduction, NaturalsInduction, TLAPS



\* A nonempty set of naturals has a least element.
LEMMA LeastExists ==
  ASSUME NEW S \in SUBSET Nat, S # {}
  PROVE  \E m \in S : \A y \in S : m <= y
<1>1. PICK m \in S : \A y \in S : ~(<<y, m>> \in OpToRel(<, Nat))
  BY NatLessThanWellFounded, WFMin
<1>2. ASSUME NEW y \in S, y < m
      PROVE  FALSE
  <2>1. <<y, m>> \in OpToRel(<, Nat)
    BY <1>2, Zenon DEF OpToRel
  <2> QED
    BY <1>1, <2>1
<1> QED
  BY <1>2

\* Induction up to n, for what holds on a set.
LEMMA UpTo ==
  ASSUME NEW n \in Nat, NEW G, 0 \in G, \A m \in 1 .. n : m - 1 \in G => m \in G
  PROVE  \A m \in 0 .. n : m \in G
<1> DEFINE S == (0 .. n) \ G
<1>1. S \in SUBSET Nat
  OBVIOUS
<1> HIDE DEF S
<1>2. SUFFICES ASSUME S # {} PROVE FALSE
  BY DEF S
<1>3. PICK m \in S : \A y \in S : m <= y
  BY <1>1, <1>2, LeastExists
<1>4. m \in 1 .. n /\ m - 1 \in 0 .. n
  BY <1>3 DEF S
<1>5. m - 1 \in G
  BY <1>1, <1>3, <1>4 DEF S
<1> QED
  BY <1>3, <1>4, <1>5 DEF S

\* The greater and the lesser of two.
LEMMA OfTwo ==
  ASSUME NEW a \in Int, NEW b \in Int
  PROVE  /\ Max({a, b}) = IF a >= b THEN a ELSE b
         /\ Min({a, b}) = IF a <= b THEN a ELSE b
<1>1. \A x : (x \in {a, b} /\ \A y \in {a, b} : x >= y) <=> x = IF a >= b THEN a ELSE b
  OBVIOUS
<1>2. \A x : (x \in {a, b} /\ \A y \in {a, b} : x =< y) <=> x = IF a <= b THEN a ELSE b
  OBVIOUS
<1> QED
  BY <1>1, <1>2 DEF Max, Min

-----------------------------------------------------------------------------
(* Sums of rows.                                                           *)

\* What a function that adds up the first i of n numbers is.
Sums(n, rows, sum) ==
  sum = [i \in 0 .. n |-> IF i = 0 THEN 0 ELSE sum[i - 1] + rows[i]]

LEMMA SumsExist ==
  ASSUME NEW n \in Nat, NEW rows, \A i \in 1 .. n : rows[i] \in Nat
  PROVE  \E sum \in [0 .. n -> Nat] : Sums(n, rows, sum)
<1> DEFINE good(m) == \E sum \in [0 .. m -> Nat] : Sums(m, rows, sum)
           G == {m \in 0 .. n : good(m)}
<1>1. good(0)
  <2>1. Sums(0, rows, [i \in 0 .. 0 |-> 0])
    BY DEF Sums
  <2> QED
    BY <2>1
<1>2. ASSUME NEW m \in 1 .. n, good(m - 1)
      PROVE  good(m)
  <2>1. PICK sum \in [0 .. (m - 1) -> Nat] : Sums(m - 1, rows, sum)
    BY <1>2
  <2> DEFINE next == [i \in 0 .. m |-> IF i = m THEN sum[m - 1] + rows[m] ELSE sum[i]]
  <2>2. sum[m - 1] + rows[m] \in Nat /\ \A i \in 0 .. m : i # m => sum[i] \in Nat
    OBVIOUS
  <2>3. next \in [0 .. m -> Nat]
    BY <2>2
  <2>4. Sums(m, rows, next)
    <3>1. \A i \in 0 .. (m - 1) : sum[i] = IF i = 0 THEN 0 ELSE sum[i - 1] + rows[i]
      BY <2>1 DEF Sums
    <3>2. ASSUME NEW i \in 0 .. m
          PROVE  next[i] = IF i = 0 THEN 0 ELSE next[i - 1] + rows[i]
      <4>1. CASE i = m
        BY <4>1
      <4>2. CASE i # m
        <5>1. i \in 0 .. (m - 1) /\ (i # 0 => i - 1 \in 0 .. m /\ i - 1 # m)
          BY <4>2
        <5> QED
          BY <3>1, <4>2, <5>1
      <4> QED
        BY <4>1, <4>2
    <3> QED
      BY <3>2 DEF Sums
  <2> HIDE DEF next
  <2> QED
    BY <2>3, <2>4
<1> HIDE DEF good
<1>3. 0 \in G /\ \A m \in 1 .. n : m - 1 \in G => m \in G
  BY <1>1, <1>2
<1> HIDE DEF G
<1>4. n \in G
  BY <1>3, UpTo
<1> QED
  BY <1>4 DEF G, good

LEMMA TotalsFacts ==
  ASSUME NEW n \in Nat, NEW rows, \A i \in 1 .. n : rows[i] \in Nat
  PROVE  LET sum == Totals(n, rows)
         IN /\ sum[0] = 0
            /\ \A i \in 0 .. n : sum[i] \in Nat
            /\ \A i \in 1 .. n : sum[i] = sum[i - 1] + rows[i]
<1> DEFINE sum == Totals(n, rows)
<1>1. sum = CHOOSE s : Sums(n, rows, s)
  BY DEF Totals, Sums
<1>2. PICK t \in [0 .. n -> Nat] : Sums(n, rows, t)
  BY SumsExist
<1> HIDE DEF sum
<1>3. Sums(n, rows, sum)
  BY <1>1, <1>2
<1>4. \A i \in 0 .. n : sum[i] = IF i = 0 THEN 0 ELSE sum[i - 1] + rows[i]
  BY <1>3 DEF Sums
<1>5. \A i \in 0 .. n : sum[i] \in Nat
  <2> DEFINE G == {i \in 0 .. n : sum[i] \in Nat}
  <2>1. 0 \in G
    BY <1>4
  <2>2. ASSUME NEW m \in 1 .. n, m - 1 \in G
        PROVE  m \in G
    BY <1>4, <2>2
  <2> HIDE DEF G
  <2>3. \A m \in 0 .. n : m \in G
    BY <2>1, <2>2, UpTo
  <2> QED
    BY <2>3 DEF G
<1> QED
  BY <1>4, <1>5 DEF sum

\* The sums grow, and a run of rows sums up to the same in two sums that agree on it.
LEMMA TotalsGrow ==
  ASSUME NEW n \in Nat, NEW rows, \A i \in 1 .. n : rows[i] \in Nat,
         NEW i \in 0 .. n, NEW j \in 0 .. n, i <= j
  PROVE  Totals(n, rows)[i] <= Totals(n, rows)[j]
<1> DEFINE sum == Totals(n, rows)
<1>1. (\A k \in 0 .. n : sum[k] \in Nat) /\ \A k \in 1 .. n : sum[k] = sum[k - 1] + rows[k]
  BY TotalsFacts
<1> HIDE DEF sum
<1> DEFINE G == {k \in 0 .. n : i <= k => sum[i] <= sum[k]}
<1>2. 0 \in G
  BY <1>1
<1>3. ASSUME NEW m \in 1 .. n, m - 1 \in G
      PROVE  m \in G
  <2>1. CASE i = m
    BY <1>1, <2>1
  <2>2. CASE i < m
    <3>1. sum[i] <= sum[m - 1]
      BY <1>3, <2>2
    <3> QED
      BY <1>1, <2>2, <3>1
  <2> QED
    BY <2>1, <2>2
<1> HIDE DEF G
<1>4. j \in G
  BY <1>2, <1>3, UpTo
<1> QED
  BY <1>4 DEF G, sum

LEMMA TotalsAgree ==
  ASSUME NEW n \in Nat, NEW j \in 0 .. n,
         NEW a, \A i \in 1 .. n : a[i] \in Nat,
         NEW b, \A i \in 1 .. n : b[i] \in Nat,
         \A i \in (j + 1) .. n : a[i] = b[i]
  PROVE  \A k \in j .. n : Totals(n, a)[k] - Totals(n, a)[j] = Totals(n, b)[k] - Totals(n, b)[j]
<1> DEFINE s == Totals(n, a)
           t == Totals(n, b)
<1>1. (\A k \in 0 .. n : s[k] \in Nat) /\ \A k \in 1 .. n : s[k] = s[k - 1] + a[k]
  BY TotalsFacts
<1>2. (\A k \in 0 .. n : t[k] \in Nat) /\ \A k \in 1 .. n : t[k] = t[k - 1] + b[k]
  BY TotalsFacts
<1> HIDE DEF s, t
<1> DEFINE G == {k \in 0 .. n : j <= k => s[k] - s[j] = t[k] - t[j]}
<1>3. 0 \in G
  BY <1>1, <1>2
<1>4. ASSUME NEW m \in 1 .. n, m - 1 \in G
      PROVE  m \in G
  <2>1. CASE m <= j
    <3>1. CASE m = j
      <4>1. s[j] - s[j] = 0 /\ t[j] - t[j] = 0
        BY <1>1, <1>2
      <4> QED
        BY <3>1, <4>1
    <3>2. CASE m # j
      BY <2>1, <3>2
    <3> QED
      BY <3>1, <3>2
  <2>2. CASE j < m
    <3>1. s[m - 1] - s[j] = t[m - 1] - t[j] /\ a[m] = b[m]
      BY <1>4, <2>2
    <3> QED
      BY <1>1, <1>2, <2>2, <3>1
  <2> QED
    BY <2>1, <2>2
<1> HIDE DEF G
<1>5. \A m \in 0 .. n : m \in G
  BY <1>3, <1>4, UpTo
<1> QED
  BY <1>5 DEF G, s, t

-----------------------------------------------------------------------------
(* The anchor of the newest message.                                       *)

\* What a function that walks back from the newest message is.
Walks(n, heights, port, walk) ==
  walk = [i \in 0 .. n |->
           [used \in Nat |->
              LET rows == used + heights[i]
              IN IF i = 0 THEN <<0, 0>>
                 ELSE IF rows >= port THEN <<i - 1, rows - port>> ELSE walk[i - 1][rows]]]

LEMMA WalkExists ==
  ASSUME NEW n \in Nat, NEW heights, \A i \in 1 .. n : heights[i] \in Nat, NEW port \in Nat
  PROVE  \E walk : Walks(n, heights, port, walk)
<1> DEFINE step(w, i) ==
             [used \in Nat |->
                LET rows == used + heights[i]
                IN IF i = 0 THEN <<0, 0>>
                   ELSE IF rows >= port THEN <<i - 1, rows - port>> ELSE w[i - 1][rows]]
           good(m) == \E walk : Walks(m, heights, port, walk)
           G == {m \in 0 .. n : good(m)}
<1>1. good(0)
  <2> DEFINE w == [i \in 0 .. 0 |-> [used \in Nat |-> <<0, 0>>]]
  <2>1. Walks(0, heights, port, w)
    BY DEF Walks
  <2> QED
    BY <2>1
<1>2. ASSUME NEW m \in 1 .. n, good(m - 1)
      PROVE  good(m)
  <2>1. PICK walk : Walks(m - 1, heights, port, walk)
    BY <1>2
  <2> HIDE DEF step
  <2> DEFINE next == [i \in 0 .. m |-> IF i = m THEN step(walk, m) ELSE walk[i]]
  <2>2. walk = [i \in 0 .. (m - 1) |-> step(walk, i)]
    BY <2>1 DEF Walks, step
  <2>3. \A i \in 0 .. m : next[i] = step(walk, i)
    BY <2>2
  <2>4. \A i \in 0 .. m : step(next, i) = step(walk, i)
    BY DEF step
  <2>5. next = [i \in 0 .. m |-> step(next, i)]
    BY <2>3, <2>4
  <2> HIDE DEF next
  <2>6. Walks(m, heights, port, next)
    BY <2>5 DEF Walks, step
  <2> QED
    BY <2>6
<1> HIDE DEF good
<1>3. 0 \in G
  BY <1>1
<1>4. ASSUME NEW m \in 1 .. n, m - 1 \in G
      PROVE  m \in G
  BY <1>2, <1>4
<1> HIDE DEF G
<1>5. n \in G
  BY <1>3, <1>4, UpTo
<1> QED
  BY <1>5 DEF G, good

\* The walk stops in the message with which the rows down to the end fill the pane, or at
\* the top if all of them do not.
LEMMA WalkFacts ==
  ASSUME NEW n \in Nat, NEW heights, \A i \in 1 .. n : heights[i] \in Nat,
         NEW port \in Nat \ {0}, NEW walk, Walks(n, heights, port, walk),
         NEW sum, \A i \in 0 .. n : sum[i] \in Nat,
         \A i \in 1 .. n : sum[i] = sum[i - 1] + heights[i]
  PROVE  \/ \E k \in 1 .. n :
              /\ walk[n][0] = <<k - 1, sum[n] - sum[k - 1] - port>>
              /\ sum[n] - sum[k - 1] >= port /\ sum[n] - sum[k] < port
         \/ walk[n][0] = <<0, 0>> /\ sum[n] - sum[0] < port
<1> DEFINE ends(i, used) ==
             \/ \E k \in 1 .. i :
                  /\ walk[i][used] = <<k - 1, sum[n] - sum[k - 1] - port>>
                  /\ sum[n] - sum[k - 1] >= port /\ sum[n] - sum[k] < port
             \/ walk[i][used] = <<0, 0>> /\ sum[n] - sum[0] < port
           G == {i \in 0 .. n : sum[n] - sum[i] \in Nat /\ sum[n] - sum[i] < port
                                  => ends(i, sum[n] - sum[i])}
<1>1. \A i \in 0 .. n, used \in Nat :
        walk[i][used] =
          IF i = 0 THEN <<0, 0>>
          ELSE IF used + heights[i] >= port THEN <<i - 1, used + heights[i] - port>>
          ELSE walk[i - 1][used + heights[i]]
  <2> DEFINE F(i) ==
               [used \in Nat |->
                  LET rows == used + heights[i]
                  IN IF i = 0 THEN <<0, 0>>
                     ELSE IF rows >= port THEN <<i - 1, rows - port>> ELSE walk[i - 1][rows]]
  <2> HIDE DEF F
  <2>1. walk = [i \in 0 .. n |-> F(i)]
    BY DEF Walks, F
  <2>2. \A i \in 0 .. n, used \in Nat : walk[i][used] = F(i)[used]
    <3>1. \A i \in 0 .. n : walk[i] = F(i)
      BY ONLY <2>1, Zenon
    <3> QED
      BY ONLY <3>1, Zenon
  <2>3. ASSUME NEW i \in 0 .. n, NEW used \in Nat
        PROVE  F(i)[used] = IF i = 0 THEN <<0, 0>>
                            ELSE IF used + heights[i] >= port THEN <<i - 1, used + heights[i] - port>>
                            ELSE walk[i - 1][used + heights[i]]
    BY DEF F
  <2> QED
    BY <2>2, <2>3, Zenon
<1>2. 0 \in G
  <2>1. ASSUME NEW used \in Nat PROVE walk[0][used] = <<0, 0>>
    <3>1. 0 \in 0 .. n
      OBVIOUS
    <3> QED
      BY <1>1, <3>1
  <2> QED
    BY <2>1
<1>3. ASSUME NEW m \in 1 .. n, m - 1 \in G
      PROVE  m \in G
  <2>1. SUFFICES ASSUME sum[n] - sum[m] \in Nat, sum[n] - sum[m] < port
                 PROVE  ends(m, sum[n] - sum[m])
    OBVIOUS
  <2> DEFINE used == sum[n] - sum[m]
             rows == sum[n] - sum[m - 1]
  <2>2. used + heights[m] = rows /\ rows \in Nat
    <3>1. sum[m] = sum[m - 1] + heights[m] /\ sum[m] \in Nat /\ sum[m - 1] \in Nat
          /\ sum[n] \in Nat /\ heights[m] \in Nat
      OBVIOUS
    <3> QED
      BY <2>1, <3>1
  <2>3. walk[m][used] = IF rows >= port THEN <<m - 1, rows - port>> ELSE walk[m - 1][rows]
    <3>1. m \in 0 .. n /\ m # 0 /\ used \in Nat
      BY <2>1
    <3> QED
      BY <1>1, <2>2, <3>1
  <2>4. CASE rows >= port
    BY <2>1, <2>3, <2>4
  <2>5. CASE ~(rows >= port)
    <3>1. ends(m - 1, rows)
      BY <1>3, <2>2, <2>5
    <3>2. walk[m][used] = walk[m - 1][rows]
      BY <2>3, <2>5
    <3> QED
      BY <3>1, <3>2
  <2> QED
    BY <2>4, <2>5
<1> HIDE DEF G
<1>4. n \in G
  BY <1>2, <1>3, UpTo
<1> QED
  <2>1. n \in 0 .. n /\ sum[n] - sum[n] = 0
    OBVIOUS
  <2> QED
    BY <1>4, <2>1 DEF G

\* The rows of the history and its anchor, for a view whose messages have n heights.
LEMMA AnchorFacts ==
  ASSUME NEW n \in Nat, NEW heights, \A i \in 1 .. n : heights[i] \in Nat, NEW port \in Nat
  PROVE  LET sum == Totals(n, heights)
         IN \/ port = 0 /\ Anchor(n, heights, port) = <<IF n = 0 THEN 0 ELSE n - 1, 0>>
            \/ \E k \in 1 .. n :
                 /\ port # 0
                 /\ Anchor(n, heights, port) = <<k - 1, sum[n] - sum[k - 1] - port>>
                 /\ sum[n] - sum[k - 1] >= port /\ sum[n] - sum[k] < port
            \/ port # 0 /\ Anchor(n, heights, port) = <<0, 0>> /\ sum[n] < port
<1> DEFINE sum == Totals(n, heights)
           walk == CHOOSE w : Walks(n, heights, port, w)
<1>1. /\ sum[0] = 0
      /\ \A i \in 0 .. n : sum[i] \in Nat
      /\ \A i \in 1 .. n : sum[i] = sum[i - 1] + heights[i]
  BY TotalsFacts
<1>2. Anchor(n, heights, port) = IF port = 0 THEN <<Max({0, n - 1}), 0>> ELSE walk[n][0]
  BY DEF Anchor, Walks
<1>3. Walks(n, heights, port, walk)
  BY WalkExists
<1> HIDE DEF sum, walk
<1>4. CASE port = 0
  <2>1. Max({0, n - 1}) = IF n = 0 THEN 0 ELSE n - 1
    BY OfTwo
  <2> QED
    BY <1>2, <1>4, <2>1
<1>5. CASE port # 0
  <2>1. Anchor(n, heights, port) = walk[n][0]
    BY <1>2, <1>5
  <2>2. \/ \E k \in 1 .. n :
             /\ walk[n][0] = <<k - 1, sum[n] - sum[k - 1] - port>>
             /\ sum[n] - sum[k - 1] >= port /\ sum[n] - sum[k] < port
        \/ walk[n][0] = <<0, 0>> /\ sum[n] - sum[0] < port
    BY <1>1, <1>3, <1>5, WalkFacts
  <2>3. sum[n] - sum[0] = sum[n]
    BY <1>1
  <2> QED
    BY <1>5, <2>1, <2>2, <2>3 DEF sum
<1> QED
  BY <1>4, <1>5

-----------------------------------------------------------------------------
(* The view: its record, its rows and its anchor.                          *)

ViewRecord ==
  [chat : {"a", "b", "none"}, msgs : Seq(MessageRecord), off : Nat, skip : Nat, port : Nat,
   width : Nat, capable : BOOLEAN, files : [Ids -> FileStates],
   rule : {Pending, NoRule} \cup Ids, below : BOOLEAN]

Sorted(msgs) == \A i, j \in DOMAIN msgs : i < j => msgs[i].id < msgs[j].id

\* A view that a pane may have, and one whose cursor is in its history.
Body(v) ==
  v \in ViewRecord /\ Sorted(v.msgs) /\ v.port \in Ports \cup {0} /\ v.width \in Widths \cup {0}
Good(v) == Body(v) /\ v.off \in 0 .. (IF v.msgs = <<>> THEN 0 ELSE Len(v.msgs) - 1)

LEMMA IdsFacts == Ids \subseteq Nat \ {0} /\ Ids = 1 .. Len(Shape) /\ Len(Shape) \in Nat
BY LayoutAssumption DEF Ids

LEMMA ShapeFacts == \A id \in Ids : Shape[id].own \in BOOLEAN /\ Shape[id].re \in Nat
<1>1. \A S, q : q \in Seq(S) => \A id \in DOMAIN q : q[id] \in S
  OBVIOUS
<1>2. \A id \in DOMAIN Shape :
        Shape[id] \in [own : BOOLEAN, kind : {"text", "photo", "still"}, re : Nat]
  BY <1>1, LayoutAssumption
<1> QED
  BY <1>2 DEF Ids

LEMMA WrappedNat ==
  ASSUME NEW len \in Nat, NEW width \in Nat
  PROVE  Wrapped(len, width) \in Nat
<1>1. CASE width = 0 \/ len = 0
  BY <1>1 DEF Wrapped
<1>2. CASE width # 0 /\ len # 0
  <2>1. len + width - 1 \in Nat /\ width \in Nat \ {0}
    BY <1>2
  <2>2. \A a \in Nat, b \in Nat \ {0} : a \div b \in Nat
    OBVIOUS
  <2> QED
    BY <1>2, <2>1, <2>2 DEF Wrapped
<1> QED
  BY <1>1, <1>2

\* A message takes two rows at least: its header and the blank line under it.
LEMMA HeightFacts ==
  ASSUME NEW v, Body(v), NEW m \in MessageRecord
  PROVE  /\ Height(v, m) \in Nat /\ Height(v, m) >= 2
         /\ MessageLines(v, m) = Height(v, m) + Flag(m.failed)
<1>1. v.width \in Nat /\ m.id \in Ids /\ v.files[m.id] \in FileStates
  BY DEF Body, ViewRecord, MessageRecord
<1>2. /\ Shape[m.id].re \in Nat
      /\ {ShortText, LongText, BareQuote, FullQuote, MediaRows} \subseteq Nat
  <2>1. Shape[m.id].re \in Nat
    BY <1>1, ShapeFacts
  <2> QED
    BY <2>1, LayoutAssumption
<1>3. QuoteRows(v, m) \in Nat
  BY <1>1, <1>2, WrappedNat DEF QuoteRows
<1>4. BodyRows(v, m) \in Nat
  <2>1. Wrapped(ShortText, v.width) \in Nat /\ Wrapped(LongText, v.width) \in Nat
    BY <1>1, <1>2, WrappedNat
  <2> QED
    BY <2>1 DEF BodyRows
<1>5. MediaBox(v, m) \in Nat
  BY <1>2 DEF MediaBox
<1>6. \A b : Flag(b) \in Nat
  BY DEF Flag
<1> HIDE DEF Flag
<1> QED
  BY <1>3, <1>4, <1>5, <1>6 DEF Height, MessageLines

LEMMA HeightsFacts ==
  ASSUME NEW v, Body(v)
  PROVE  /\ Len(v.msgs) \in Nat /\ DOMAIN v.msgs = 1 .. Len(v.msgs)
         /\ \A i \in 1 .. Len(v.msgs) :
              /\ v.msgs[i] \in MessageRecord
              /\ Heights(v)[i] = Height(v, v.msgs[i])
              /\ Heights(v)[i] \in Nat /\ Heights(v)[i] >= 2
<1>1. v.msgs \in Seq(MessageRecord)
  BY DEF Body, ViewRecord
<1>2. /\ Len(v.msgs) \in Nat /\ DOMAIN v.msgs = 1 .. Len(v.msgs)
      /\ \A i \in 1 .. Len(v.msgs) : v.msgs[i] \in MessageRecord
  BY <1>1
<1>3. ASSUME NEW i \in 1 .. Len(v.msgs)
      PROVE  Heights(v)[i] = Height(v, v.msgs[i]) /\ Heights(v)[i] \in Nat /\ Heights(v)[i] >= 2
  BY <1>2, HeightFacts DEF Heights
<1> QED
  BY <1>2, <1>3

\* The rows of the history, and where the newest position is among them.
LEMMA RowsFacts ==
  ASSUME NEW v, Body(v)
  PROVE  LET n == Len(v.msgs)
             sum == RowsTo(v)
         IN /\ sum[0] = 0
            /\ \A i \in 0 .. n : sum[i] \in Nat
            /\ \A i \in 1 .. n : sum[i] = sum[i - 1] + Height(v, v.msgs[i])
            /\ \A i, j \in 0 .. n : i <= j => sum[i] <= sum[j]
<1>1. /\ Len(v.msgs) \in Nat
      /\ \A i \in 1 .. Len(v.msgs) :
           Heights(v)[i] = Height(v, v.msgs[i]) /\ Heights(v)[i] \in Nat
  BY HeightsFacts
<1> DEFINE n == Len(v.msgs)
           h == Heights(v)
<1>2. /\ Totals(n, h)[0] = 0
      /\ \A i \in 0 .. n : Totals(n, h)[i] \in Nat
      /\ \A i \in 1 .. n : Totals(n, h)[i] = Totals(n, h)[i - 1] + h[i]
  <2> HIDE DEF n, h
  <2>1. n \in Nat /\ \A i \in 1 .. n : h[i] \in Nat
    BY <1>1 DEF n, h
  <2> QED
    BY <2>1, TotalsFacts
<1>3. \A i, j \in 0 .. n : i <= j => Totals(n, h)[i] <= Totals(n, h)[j]
  <2> HIDE DEF n, h
  <2>1. n \in Nat /\ \A i \in 1 .. n : h[i] \in Nat
    BY <1>1 DEF n, h
  <2> QED
    BY <2>1, TotalsGrow
<1>4. RowsTo(v) = Totals(n, h)
  BY DEF RowsTo
<1> HIDE DEF h
<1>5. \A i \in 1 .. n : h[i] = Height(v, v.msgs[i])
  BY <1>1 DEF h
<1> QED
  BY <1>2, <1>3, <1>4, <1>5

\* The anchor is in the history and skips less than its message has.
LEMMA AnchorPlace ==
  ASSUME NEW v, Body(v)
  PROVE  LET n == Len(v.msgs)
             sum == RowsTo(v)
         IN \E a \in Nat, b \in Nat :
              /\ NewestAnchor(v) = <<a, b>>
              /\ a \in 0 .. (IF v.msgs = <<>> THEN 0 ELSE n - 1)
              /\ n # 0 => b < Height(v, v.msgs[a + 1])
              /\ n # 0 /\ v.port # 0 /\ sum[n] >= v.port => sum[a] + b = sum[n] - v.port
<1> DEFINE n == Len(v.msgs)
           sum == RowsTo(v)
<1>1. /\ n \in Nat
      /\ \A i \in 1 .. n : Height(v, v.msgs[i]) \in Nat /\ Height(v, v.msgs[i]) >= 2
  BY HeightsFacts
<1>2. /\ sum[0] = 0
      /\ \A i \in 0 .. n : sum[i] \in Nat
      /\ \A i \in 1 .. n : sum[i] = sum[i - 1] + Height(v, v.msgs[i])
  BY RowsFacts
<1>3. v.msgs = <<>> <=> n = 0
  BY DEF Body, ViewRecord
<1>4. v.port \in Nat
  BY DEF Body, ViewRecord
<1>5. \/ v.port = 0 /\ NewestAnchor(v) = <<IF n = 0 THEN 0 ELSE n - 1, 0>>
      \/ \E k \in 1 .. n :
           /\ v.port # 0
           /\ NewestAnchor(v) = <<k - 1, sum[n] - sum[k - 1] - v.port>>
           /\ sum[n] - sum[k - 1] >= v.port /\ sum[n] - sum[k] < v.port
      \/ v.port # 0 /\ NewestAnchor(v) = <<0, 0>> /\ sum[n] < v.port
  <2>1. Len(v.msgs) \in Nat /\ \A i \in 1 .. Len(v.msgs) : Heights(v)[i] \in Nat
    BY HeightsFacts
  <2>2. RowsTo(v) = Totals(Len(v.msgs), Heights(v))
    BY DEF RowsTo
  <2>3. NewestAnchor(v) = Anchor(Len(v.msgs), Heights(v), v.port)
    BY DEF NewestAnchor
  <2> QED
    BY <1>4, <2>1, <2>2, <2>3, AnchorFacts, Zenon
<1> DEFINE place(a, b) ==
             /\ NewestAnchor(v) = <<a, b>>
             /\ a \in 0 .. (IF v.msgs = <<>> THEN 0 ELSE n - 1)
             /\ n # 0 => b < Height(v, v.msgs[a + 1])
             /\ n # 0 /\ v.port # 0 /\ sum[n] >= v.port => sum[a] + b = sum[n] - v.port
<1> HIDE DEF n, sum
<1>6. ASSUME v.port = 0, NewestAnchor(v) = <<IF n = 0 THEN 0 ELSE n - 1, 0>>
      PROVE  \E a \in Nat, b \in Nat : place(a, b)
  <2>1. CASE n = 0
    <3>1. place(0, 0)
      BY <1>3, <1>6, <2>1
    <3> QED
      BY <3>1
  <2>2. CASE n # 0
    <3>1. n - 1 + 1 = n /\ n \in 1 .. n /\ n - 1 \in Nat
      BY <1>1, <2>2
    <3>2. 0 < Height(v, v.msgs[n])
      BY <1>1, <3>1
    <3>3. place(n - 1, 0)
      BY <1>3, <1>6, <2>2, <3>1, <3>2
    <3> QED
      BY <3>1, <3>3
  <2> QED
    BY <2>1, <2>2
<1>7. ASSUME NEW k \in 1 .. n, v.port # 0,
             NewestAnchor(v) = <<k - 1, sum[n] - sum[k - 1] - v.port>>,
             sum[n] - sum[k - 1] >= v.port, sum[n] - sum[k] < v.port
      PROVE  \E a \in Nat, b \in Nat : place(a, b)
  <2> DEFINE a == k - 1
             b == sum[n] - sum[k - 1] - v.port
             H == Height(v, v.msgs[k])
  <2>1. /\ n \in Nat /\ n # 0 /\ k \in 1 .. n /\ a \in 0 .. (n - 1) /\ a + 1 = k
        /\ sum[n] \in Nat /\ sum[k - 1] \in Nat /\ sum[k] \in Nat
    <3>1. n \in 0 .. n /\ k - 1 \in 0 .. n /\ k \in 0 .. n
      BY <1>1
    <3> QED
      BY <1>1, <1>2, <3>1
  <2>2. sum[k] = sum[k - 1] + H /\ H \in Nat
    BY <1>1, <1>2
  <2> HIDE DEF H
  <2>3. b \in Nat /\ b < H
    BY <1>4, <1>7, <2>1, <2>2
  <2>4. sum[a] + b = sum[n] - v.port
    BY <1>4, <2>1
  <2>5. NewestAnchor(v) = <<a, b>> /\ b < Height(v, v.msgs[a + 1])
    BY <1>7, <2>1, <2>3 DEF H
  <2>6. a \in 0 .. (IF v.msgs = <<>> THEN 0 ELSE n - 1)
    BY <1>3, <2>1
  <2> HIDE DEF b
  <2>7. place(a, b)
    BY <2>1, <2>4, <2>5, <2>6
  <2>8. a \in Nat /\ b \in Nat
    BY <2>1, <2>3
  <2> HIDE DEF a, place
  <2> QED
    BY <2>7, <2>8
<1>8. ASSUME v.port # 0, NewestAnchor(v) = <<0, 0>>, sum[n] < v.port
      PROVE  \E a \in Nat, b \in Nat : place(a, b)
  <2>1. n # 0 => 0 < Height(v, v.msgs[1])
    BY <1>1
  <2>2. sum[n] \in Nat
    BY <1>1, <1>2
  <2>3. place(0, 0)
    BY <1>1, <1>3, <1>4, <1>8, <2>1, <2>2
  <2> HIDE DEF place
  <2> QED
    BY <2>3
<1>9. \E a \in Nat, b \in Nat : place(a, b)
  <2> HIDE DEF place
  <2> QED
    BY <1>5, <1>6, <1>7, <1>8
<1> QED
  BY <1>9, Zenon DEF n, sum

\* Where the cursor stands changes neither the rows nor the anchor.
LEMMA SameRows ==
  ASSUME NEW v, NEW w, w.msgs = v.msgs, w.width = v.width, w.capable = v.capable,
         w.files = v.files
  PROVE  /\ \A m : Height(w, m) = Height(v, m)
         /\ RowsTo(w) = RowsTo(v)
         /\ w.port = v.port => NewestAnchor(w) = NewestAnchor(v)
<1>1. ASSUME NEW m PROVE Height(w, m) = Height(v, m)
  <2>1. QuoteRows(w, m) = QuoteRows(v, m) /\ BodyRows(w, m) = BodyRows(v, m)
    BY DEF QuoteRows, BodyRows
  <2>2. MediaBox(w, m) = MediaBox(v, m) /\ HasDownloadLine(w, m) = HasDownloadLine(v, m)
    BY DEF MediaBox, MediaReady, HasDownloadLine
  <2> QED
    BY <2>1, <2>2 DEF Height
<1>2. Heights(w) = Heights(v)
  BY <1>1 DEF Heights
<1> QED
  BY <1>1, <1>2 DEF RowsTo, NewestAnchor

\* The view moved or marked, with everything else as it was.
Scrolled(v, w) ==
  /\ w \in ViewRecord
  /\ w.chat = v.chat /\ w.msgs = v.msgs /\ w.port = v.port /\ w.width = v.width
  /\ w.capable = v.capable /\ w.files = v.files /\ w.rule = v.rule

InHistory(v, off) == off \in 0 .. (IF v.msgs = <<>> THEN 0 ELSE Len(v.msgs) - 1)

LEMMA ScrolledFacts ==
  ASSUME NEW v, Body(v), NEW w, Scrolled(v, w)
  PROVE  /\ Body(w) /\ (InHistory(v, w.off) => Good(w))
         /\ \A m : Height(w, m) = Height(v, m)
         /\ RowsTo(w) = RowsTo(v)
         /\ NewestAnchor(w) = NewestAnchor(v)
         /\ NewestId(w) = NewestId(v)
<1>1. Body(w) /\ (InHistory(v, w.off) => Good(w)) /\ NewestId(w) = NewestId(v)
  BY DEF Body, Good, Scrolled, InHistory, NewestId
<1>2. /\ w.msgs = v.msgs /\ w.width = v.width /\ w.capable = v.capable /\ w.files = v.files
      /\ w.port = v.port
  BY DEF Scrolled
<1> QED
  BY <1>1, <1>2, SameRows

\* The moves of the cursor.
LEMMA CursorForms ==
  ASSUME NEW v \in ViewRecord
  PROVE  /\ \A off, skip : [v EXCEPT !.off = off, !.skip = skip]
                             = [v EXCEPT !.off = off, !.skip = skip, !.below = v.below]
         /\ \A skip : [v EXCEPT !.skip = skip]
                        = [v EXCEPT !.off = v.off, !.skip = skip, !.below = v.below]
         /\ \A b : [v EXCEPT !.below = b]
                     = [v EXCEPT !.off = v.off, !.skip = v.skip, !.below = b]
         /\ Scrolled(v, v)
BY DEF ViewRecord, Scrolled

\* At the newest position.
LEMMA AnchoredFacts ==
  ASSUME NEW v, Body(v)
  PROVE  LET w == Anchored(v)
             u == [Anchored(v) EXCEPT !.below = FALSE]
         IN /\ Scrolled(v, w) /\ Good(w) /\ AtNewest(w) /\ w.below = v.below
            /\ Scrolled(v, u) /\ Good(u) /\ AtNewest(u) /\ u.below = FALSE
            /\ Len(v.msgs) # 0 => w.skip < Height(v, Selected(w)) /\ u.skip < Height(v, Selected(u))
<1>1. PICK a \in Nat, b \in Nat :
        /\ NewestAnchor(v) = <<a, b>>
        /\ InHistory(v, a)
        /\ Len(v.msgs) # 0 => b < Height(v, v.msgs[a + 1])
  BY AnchorPlace DEF InHistory
<1> DEFINE w == Anchored(v)
           u == [Anchored(v) EXCEPT !.below = FALSE]
<1>2. v \in ViewRecord /\ v.below \in BOOLEAN
  BY DEF Body, ViewRecord
<1>3. w = [v EXCEPT !.off = a, !.skip = b]
  BY <1>1 DEF Anchored
<1>4. w = [v EXCEPT !.off = a, !.skip = b, !.below = v.below]
  BY <1>2, <1>3, CursorForms
<1>6. u = [v EXCEPT !.off = a, !.skip = b, !.below = FALSE]
  BY <1>4
<1> HIDE DEF w, u
<1>5. Scrolled(v, w) /\ w.off = a /\ w.skip = b /\ w.below = v.below
  BY <1>2, <1>4 DEF ViewRecord, Scrolled
<1>7. Scrolled(v, u) /\ u.off = a /\ u.skip = b /\ u.below = FALSE
  BY <1>2, <1>6 DEF ViewRecord, Scrolled
<1>8. Good(w) /\ Good(u) /\ NewestAnchor(w) = <<a, b>> /\ NewestAnchor(u) = <<a, b>>
  BY <1>1, <1>5, <1>7, ScrolledFacts
<1>9. AtNewest(w) /\ AtNewest(u)
  BY <1>5, <1>7, <1>8 DEF AtNewest
<1>10. w.msgs = v.msgs /\ u.msgs = v.msgs
  BY <1>5, <1>7 DEF Scrolled
<1>11. Len(v.msgs) # 0 => w.skip < Height(v, Selected(w)) /\ u.skip < Height(v, Selected(u))
  BY <1>1, <1>5, <1>7, <1>10 DEF Selected
<1> QED
  BY <1>5, <1>7, <1>8, <1>9, <1>11 DEF w, u

\* What a move of the cursor keeps: its history, and the badge unless it reaches the
\* newest position.
Moves(v, w) ==
  /\ Scrolled(v, w) /\ Good(w)
  /\ v.below => w.below \/ AtNewest(w)

LEMMA CaughtUpFacts ==
  ASSUME NEW v, Body(v), NEW w, Scrolled(v, w), Good(w), w.below = v.below
  PROVE  Moves(v, CaughtUp(w)) /\ CaughtUp(w).off = w.off /\ CaughtUp(w).skip = w.skip
<1> DEFINE u == [w EXCEPT !.below = FALSE]
<1>1. CASE AtNewest(w)
  <2>1. CaughtUp(w) = u
    BY <1>1 DEF CaughtUp
  <2>2. Scrolled(v, u) /\ u.off = w.off /\ u.skip = w.skip
    BY DEF Scrolled, ViewRecord
  <2> HIDE DEF u
  <2>3. InHistory(v, u.off)
    BY <2>2 DEF Good, Scrolled, InHistory
  <2>4. Good(u) /\ NewestAnchor(u) = NewestAnchor(v) /\ NewestAnchor(w) = NewestAnchor(v)
    BY <2>2, <2>3, ScrolledFacts
  <2>5. AtNewest(u)
    BY <1>1, <2>2, <2>4 DEF AtNewest
  <2> QED
    BY <2>1, <2>2, <2>4, <2>5 DEF Moves
<1>2. CASE ~AtNewest(w)
  BY <1>2 DEF CaughtUp, Moves
<1> QED
  BY <1>1, <1>2

LEMMA DownFacts ==
  ASSUME NEW v, Good(v)
  PROVE  /\ Moves(v, Down(v))
         /\ AtNewest(v) => Down(v) = v
<1> DEFINE over == v.msgs = <<>> \/ AtOrPastNewest(v)
           w1 == [v EXCEPT !.skip = @ + 1]
           w2 == [v EXCEPT !.off = @ + 1, !.skip = 0]
<1>1. Body(v) /\ v \in ViewRecord /\ v.off \in Nat /\ v.skip \in Nat
  BY DEF Good, Body, ViewRecord
<1>2. PICK a \in Nat, b \in Nat : NewestAnchor(v) = <<a, b>>
  BY <1>1, AnchorPlace
<1>3. AtNewest(v) => over
  BY <1>1, <1>2 DEF AtNewest, AtOrPastNewest
<1>4. Scrolled(v, v) /\ Moves(v, v)
  BY <1>1, CursorForms DEF Moves
<1>5. Scrolled(v, w1) /\ w1.off = v.off /\ w1.skip = v.skip + 1 /\ w1.below = v.below
  BY <1>1 DEF ViewRecord, Scrolled
<1>6. Scrolled(v, w2) /\ w2.off = v.off + 1 /\ w2.skip = 0 /\ w2.below = v.below
  <2> DEFINE o == v.off + 1
  <2>1. o \in Nat
    BY <1>1
  <2> HIDE DEF o
  <2>2. w2 = [v EXCEPT !.off = o, !.skip = 0]
    BY DEF o
  <2> HIDE DEF w2
  <2> QED
    BY <1>1, <2>1, <2>2 DEF ViewRecord, Scrolled, o
<1>7. Down(v) = IF over THEN v
                ELSE IF v.skip + 1 < Height(v, Selected(v)) THEN CaughtUp(w1)
                ELSE IF v.off + 1 < Len(v.msgs) THEN CaughtUp(w2)
                ELSE CaughtUp(v)
  BY DEF Down
<1> HIDE DEF over, w1, w2
<1>8. Good(w1) /\ Moves(v, CaughtUp(w1))
  <2>1. InHistory(v, w1.off)
    BY <1>5 DEF Good, InHistory
  <2>2. Good(w1)
    BY <1>1, <1>5, <2>1, ScrolledFacts
  <2> QED
    BY <1>1, <1>5, <2>2, CaughtUpFacts
<1>9. ASSUME v.off + 1 < Len(v.msgs)
      PROVE  Good(w2) /\ Moves(v, CaughtUp(w2))
  <2>1. InHistory(v, w2.off)
    <3>1. Len(v.msgs) \in Nat /\ v.msgs # <<>>
      BY <1>1, <1>9 DEF ViewRecord
    <3> QED
      BY <1>1, <1>6, <1>9, <3>1 DEF InHistory
  <2>2. Good(w2)
    BY <1>1, <1>6, <2>1, ScrolledFacts
  <2> QED
    BY <1>1, <1>6, <2>2, CaughtUpFacts
<1>10. Moves(v, CaughtUp(v))
  BY <1>1, <1>4, CaughtUpFacts
<1>11. Moves(v, Down(v))
  BY <1>4, <1>7, <1>8, <1>9, <1>10
<1> QED
  BY <1>3, <1>7, <1>11

LEMMA UpFacts ==
  ASSUME NEW v, Good(v)
  PROVE  Moves(v, Up(v)) /\ Up(v).below = v.below
<1> DEFINE w1 == [v EXCEPT !.skip = @ - 1]
           H == Height(v, v.msgs[v.off])
           w2 == [v EXCEPT !.off = @ - 1, !.skip = H - 1]
<1>1. Body(v) /\ v \in ViewRecord /\ v.off \in Nat /\ v.skip \in Nat
  BY DEF Good, Body, ViewRecord
<1>2. Up(v) = CASE v.skip > 0 -> w1
                [] v.skip = 0 /\ v.off > 0 -> w2
                [] OTHER -> v
  BY DEF Up
<1>3. Scrolled(v, v) /\ Moves(v, v)
  BY <1>1, CursorForms DEF Moves
<1>4. ASSUME v.skip > 0
      PROVE  Moves(v, w1) /\ w1.below = v.below
  <2>1. Scrolled(v, w1) /\ w1.off = v.off /\ w1.below = v.below
    BY <1>1, <1>4 DEF ViewRecord, Scrolled
  <2> HIDE DEF w1
  <2>2. Good(w1)
    BY <1>1, <2>1, ScrolledFacts DEF Good, InHistory
  <2> QED
    BY <2>1, <2>2 DEF Moves
<1>5. ASSUME v.off > 0
      PROVE  Moves(v, w2) /\ w2.below = v.below
  <2>1. /\ v.off \in 1 .. Len(v.msgs) /\ v.msgs # <<>> /\ Len(v.msgs) \in Nat
        /\ v.off < Len(v.msgs)
    BY <1>1, <1>5 DEF Good, ViewRecord
  <2>2. H \in Nat /\ H >= 2
    BY <1>1, <2>1, HeightsFacts
  <2> HIDE DEF H
  <2>3. Scrolled(v, w2) /\ w2.off = v.off - 1 /\ w2.below = v.below
    <3> DEFINE o == v.off - 1
               k == H - 1
    <3>1. o \in Nat /\ k \in Nat
      BY <1>1, <1>5, <2>2
    <3> HIDE DEF o, k
    <3>2. w2 = [v EXCEPT !.off = o, !.skip = k]
      BY DEF o, k
    <3> HIDE DEF w2
    <3> QED
      BY <1>1, <3>1, <3>2 DEF ViewRecord, Scrolled, o
  <2> HIDE DEF w2
  <2>4. InHistory(v, w2.off)
    BY <1>1, <1>5, <2>1, <2>3 DEF InHistory
  <2>5. Good(w2)
    BY <1>1, <2>3, <2>4, ScrolledFacts
  <2> QED
    BY <2>3, <2>5 DEF Moves
<1> HIDE DEF w1, w2
<1> QED
  BY <1>2, <1>3, <1>4, <1>5

\* What is done n times over.
Iterates(n, d, v, at) == at = [i \in 0 .. n |-> IF i = 0 THEN v ELSE d[at[i - 1]]]

LEMMA IteratesExist ==
  ASSUME NEW n \in Nat, NEW d, NEW v
  PROVE  \E at : Iterates(n, d, v, at)
<1> DEFINE good(m) == \E at : Iterates(m, d, v, at)
           G == {m \in 0 .. n : good(m)}
<1>1. good(0)
  <2>1. Iterates(0, d, v, [i \in 0 .. 0 |-> v])
    BY DEF Iterates
  <2> QED
    BY <2>1
<1>2. ASSUME NEW m \in 1 .. n, good(m - 1)
      PROVE  good(m)
  <2>1. PICK at : Iterates(m - 1, d, v, at)
    BY <1>2
  <2> DEFINE next == [i \in 0 .. m |-> IF i = m THEN d[at[m - 1]] ELSE at[i]]
  <2>2. at = [i \in 0 .. (m - 1) |-> IF i = 0 THEN v ELSE d[at[i - 1]]]
    BY <2>1 DEF Iterates
  <2>3. ASSUME NEW i \in 0 .. m
        PROVE  next[i] = IF i = 0 THEN v ELSE d[next[i - 1]]
    <3>1. CASE i = m
      BY <3>1
    <3>2. CASE i # m
      <4>1. i \in 0 .. (m - 1) /\ (i # 0 => i - 1 \in 0 .. m /\ i - 1 # m)
        BY <3>2
      <4> QED
        BY <2>2, <3>2, <4>1
    <3> QED
      BY <3>1, <3>2
  <2>4. Iterates(m, d, v, next)
    BY <2>3 DEF Iterates
  <2> HIDE DEF next
  <2> QED
    BY <2>4
<1> HIDE DEF good
<1>3. 0 \in G
  BY <1>1
<1>4. ASSUME NEW m \in 1 .. n, m - 1 \in G
      PROVE  m \in G
  BY <1>2, <1>4
<1> HIDE DEF G
<1>5. n \in G
  BY <1>3, <1>4, UpTo
<1> QED
  BY <1>5 DEF G, good

LEMMA PageFacts ==
  ASSUME NEW v, Good(v)
  PROVE  \E n \in Nat : PageOf(v) = 0 .. n /\ Max(PageOf(v)) = n
<1>1. v.port \in Nat
  BY DEF Good, Body, ViewRecord
<1>2. PICK n \in Nat : n = Max({1, v.port})
  BY <1>1, OfTwo
<1>3. PageOf(v) = 0 .. n
  BY <1>2 DEF PageOf
<1>4. \A x : (x \in 0 .. n /\ \A y \in 0 .. n : x >= y) <=> x = n
  OBVIOUS
<1>5. Max(0 .. n) = n
  BY <1>4 DEF Max
<1> QED
  BY <1>3, <1>5

LEMMA MovesCompose ==
  ASSUME NEW v, Good(v), NEW w, Moves(v, w)
  PROVE  /\ Moves(w, Down(w)) /\ Moves(v, Down(w))
         /\ Moves(w, Up(w)) /\ (w.below = v.below => Moves(v, Up(w)) /\ Up(w).below = v.below)
<1>1. Good(w) /\ Scrolled(v, w)
  BY DEF Moves
<1>2. Moves(w, Down(w)) /\ (AtNewest(w) => Down(w) = w) /\ Moves(w, Up(w)) /\ Up(w).below = w.below
  BY <1>1, DownFacts, UpFacts
<1>3. ASSUME NEW u, Scrolled(w, u)
      PROVE  Scrolled(v, u)
  BY <1>1, <1>3 DEF Scrolled
<1>4. Moves(v, Down(w))
  <2>1. CASE AtNewest(w)
    BY <1>2, <2>1
  <2>2. CASE ~AtNewest(w)
    BY <1>2, <1>3, <2>2 DEF Moves
  <2> QED
    BY <2>1, <2>2
<1>5. w.below = v.below => Moves(v, Up(w)) /\ Up(w).below = v.below
  BY <1>2, <1>3 DEF Moves
<1> QED
  BY <1>2, <1>4, <1>5

\* A page is as many steps, each of which keeps what a step keeps.
LEMMA PagedDownFacts ==
  ASSUME NEW v, Good(v)
  PROVE  Moves(v, PagedDown(v))
<1>1. PICK n \in Nat : PageOf(v) = 0 .. n /\ Max(PageOf(v)) = n
  BY PageFacts
<1> DEFINE D == {w \in ViewRecord : Good(w)}
           d == [w \in D |-> Down(w)]
           is(at) == at = [i \in PageOf(v) |-> IF i = 0 THEN v ELSE Down(at[i - 1])]
           at == CHOOSE f : is(f)
<1>2. PagedDown(v) = at[n]
  BY <1>1 DEF PagedDown
<1>3. Moves(v, v) /\ v \in D
  <2>1. v \in ViewRecord
    BY DEF Good, Body
  <2> QED
    BY <2>1, CursorForms DEF Moves
<1>4. \A w : Moves(v, w) => Moves(v, Down(w)) /\ w \in D
  <2>1. \A w : Moves(v, w) => w \in D
    BY DEF Moves, Scrolled
  <2> QED
    BY <2>1, MovesCompose
<1>5. \E f : is(f)
  <2>1. PICK f : Iterates(n, d, v, f)
    BY IteratesExist
  <2>2. \A i \in 0 .. n : f[i] = IF i = 0 THEN v ELSE d[f[i - 1]]
    BY <2>1 DEF Iterates
  <2> DEFINE G == {i \in 0 .. n : Moves(v, f[i])}
  <2>3. 0 \in G
    <3> HIDE DEF d, D
    <3>1. 0 \in 0 .. n
      OBVIOUS
    <3>2. f[0] = v
      BY <2>2, <3>1
    <3> QED
      BY <1>3, <3>1, <3>2
  <2>4. ASSUME NEW m \in 1 .. n, m - 1 \in G
        PROVE  m \in G
    <3>1. f[m] = d[f[m - 1]] /\ Moves(v, f[m - 1])
      BY <2>2, <2>4
    <3>2. f[m] = Down(f[m - 1])
      BY <1>4, <3>1
    <3> QED
      BY <1>4, <3>1, <3>2
  <2> HIDE DEF G
  <2>5. \A m \in 0 .. n : m \in G
    BY <2>3, <2>4, UpTo
  <2>6. \A m \in 0 .. n : f[m] \in D
    BY <1>4, <2>5 DEF G
  <2>7. \A i \in 0 .. n : i # 0 => d[f[i - 1]] = Down(f[i - 1])
    BY <2>6
  <2> HIDE DEF d, D
  <2>8. f = [i \in 0 .. n |-> IF i = 0 THEN v ELSE Down(f[i - 1])]
    BY <2>1, <2>7 DEF Iterates
  <2> QED
    BY <1>1, <2>8
<1> HIDE DEF at
<1>6. is(at)
  BY <1>5 DEF at
<1>7. \A i \in 0 .. n : at[i] = IF i = 0 THEN v ELSE Down(at[i - 1])
  BY <1>1, <1>6
<1> HIDE DEF is
<1> DEFINE G == {i \in 0 .. n : Moves(v, at[i])}
<1>8. 0 \in G
  BY <1>3, <1>7
<1>9. ASSUME NEW m \in 1 .. n, m - 1 \in G
      PROVE  m \in G
  BY <1>4, <1>7, <1>9
<1> HIDE DEF G
<1>10. n \in G
  BY <1>8, <1>9, UpTo
<1> QED
  BY <1>2, <1>10 DEF G

LEMMA PagedUpFacts ==
  ASSUME NEW v, Good(v)
  PROVE  Moves(v, PagedUp(v)) /\ PagedUp(v).below = v.below
<1>1. PICK n \in Nat : PageOf(v) = 0 .. n /\ Max(PageOf(v)) = n
  BY PageFacts
<1> DEFINE D == {w \in ViewRecord : Good(w)}
           d == [w \in D |-> Up(w)]
           is(at) == at = [i \in PageOf(v) |-> IF i = 0 THEN v ELSE Up(at[i - 1])]
           at == CHOOSE f : is(f)
           keeps(w) == Moves(v, w) /\ w.below = v.below
<1>2. PagedUp(v) = at[n]
  BY <1>1 DEF PagedUp
<1>3. keeps(v) /\ v \in D
  <2>1. v \in ViewRecord
    BY DEF Good, Body
  <2> QED
    BY <2>1, CursorForms DEF Moves
<1>4. \A w : keeps(w) => keeps(Up(w)) /\ w \in D
  <2>1. \A w : Moves(v, w) => w \in D
    BY DEF Moves, Scrolled
  <2> QED
    BY <2>1, MovesCompose
<1> HIDE DEF keeps
<1>5. \E f : is(f)
  <2>1. PICK f : Iterates(n, d, v, f)
    BY IteratesExist
  <2>2. \A i \in 0 .. n : f[i] = IF i = 0 THEN v ELSE d[f[i - 1]]
    BY <2>1 DEF Iterates
  <2> DEFINE G == {i \in 0 .. n : keeps(f[i])}
  <2>3. 0 \in G
    <3> HIDE DEF d, D
    <3>1. 0 \in 0 .. n
      OBVIOUS
    <3>2. f[0] = v
      BY <2>2, <3>1
    <3> QED
      BY <1>3, <3>1, <3>2
  <2>4. ASSUME NEW m \in 1 .. n, m - 1 \in G
        PROVE  m \in G
    <3>1. f[m] = d[f[m - 1]] /\ keeps(f[m - 1])
      BY <2>2, <2>4
    <3>2. f[m] = Up(f[m - 1])
      BY <1>4, <3>1
    <3> QED
      BY <1>4, <3>1, <3>2
  <2> HIDE DEF G
  <2>5. \A m \in 0 .. n : m \in G
    BY <2>3, <2>4, UpTo
  <2>6. \A m \in 0 .. n : f[m] \in D
    BY <1>4, <2>5 DEF G
  <2>7. \A i \in 0 .. n : i # 0 => d[f[i - 1]] = Up(f[i - 1])
    BY <2>6
  <2> HIDE DEF d, D
  <2>8. f = [i \in 0 .. n |-> IF i = 0 THEN v ELSE Up(f[i - 1])]
    BY <2>1, <2>7 DEF Iterates
  <2> QED
    BY <1>1, <2>8
<1> HIDE DEF at
<1>6. is(at)
  BY <1>5 DEF at
<1>7. \A i \in 0 .. n : at[i] = IF i = 0 THEN v ELSE Up(at[i - 1])
  BY <1>1, <1>6
<1> HIDE DEF is
<1> DEFINE G == {i \in 0 .. n : keeps(at[i])}
<1>8. 0 \in G
  BY <1>3, <1>7
<1>9. ASSUME NEW m \in 1 .. n, m - 1 \in G
      PROVE  m \in G
  BY <1>4, <1>7, <1>9
<1> HIDE DEF G
<1>10. n \in G
  BY <1>8, <1>9, UpTo
<1> QED
  BY <1>2, <1>10 DEF G, keeps

-----------------------------------------------------------------------------
(* What a projection makes of the view.                                    *)

Stores == [arrived : 0 .. Cardinality(Ids), gone : SUBSET Ids, loaded : SUBSET Ids,
           long : SUBSET Ids, failed : SUBSET Ids, others : SUBSET Ids, mine : SUBSET Ids,
           files : [Ids -> FileStates], inbox : {0} \cup Ids]

\* The folded history is sorted.
LEMMA HistoryFacts ==
  ASSUME NEW s \in Stores, NEW chat
  PROVE  History(s, chat) \in Seq(MessageRecord) /\ Sorted(History(s, chat))
<1> DEFINE n == Len(Shape)
           next(at, id) == IF id = 0 THEN <<>>
                           ELSE IF id \in s.loaded THEN Append(at[id - 1], Message(s, id))
                           ELSE at[id - 1]
           is(m, at) == at = [id \in 0 .. m |-> next(at, id)]
           at == CHOOSE f : is(n, f)
<1>1. n \in Nat /\ Ids = 1 .. n
  BY IdsFacts
<1>2. History(s, chat) = IF chat = "a" THEN at[n] ELSE <<>>
  BY DEF History
<1>3. \E f : is(n, f)
  <2> DEFINE G == {m \in 0 .. n : \E f : is(m, f)}
  <2>1. 0 \in G
    <3>1. is(0, [id \in 0 .. 0 |-> <<>>])
      OBVIOUS
    <3>2. \E f : is(0, f)
      BY <3>1
    <3> HIDE DEF is
    <3> QED
      BY <1>1, <3>2
  <2>2. ASSUME NEW m \in 1 .. n, m - 1 \in G
        PROVE  m \in G
    <3>1. PICK f : is(m - 1, f)
      BY <2>2
    <3> DEFINE g == [id \in 0 .. m |-> IF id = m THEN next(f, m) ELSE f[id]]
    <3>2. \A id \in 0 .. (m - 1) : f[id] = next(f, id)
      BY <3>1
    <3>3. ASSUME NEW id \in 0 .. m
          PROVE  g[id] = next(f, id) /\ next(g, id) = next(f, id)
      <4>1. g[id] = next(f, id)
        <5>1. id # m => id \in 0 .. (m - 1)
          BY <1>1
        <5> HIDE DEF next
        <5> QED
          BY <3>2, <5>1
      <4>2. id # 0 => g[id - 1] = f[id - 1]
        <5>1. id # 0 => id - 1 \in 0 .. m /\ id - 1 # m
          BY <1>1
        <5> HIDE DEF next
        <5> QED
          BY <5>1
      <4> HIDE DEF g
      <4> QED
        BY <4>1, <4>2
    <3>4. ASSUME NEW id \in 0 .. m
          PROVE  g[id] = next(g, id)
      <4>1. g[id] = next(f, id) /\ next(g, id) = next(f, id)
        BY <3>3
      <4> HIDE DEF g, next
      <4> QED
        BY <4>1
    <3>5. g = [id \in 0 .. m |-> g[id]]
      OBVIOUS
    <3> HIDE DEF g, next
    <3>6. is(m, g)
      BY <3>4, <3>5
    <3> QED
      BY <1>1, <3>6
  <2> HIDE DEF G
  <2>3. n \in G
    <3> HIDE DEF n
    <3>1. \A m \in 0 .. n : m \in G
      BY <1>1, <2>1, <2>2, UpTo
    <3> QED
      BY <1>1, <3>1
  <2> QED
    BY <2>3 DEF G
<1> HIDE DEF at
<1>4. is(n, at)
  BY <1>3 DEF at
<1>5. \A id \in 0 .. n : at[id] = next(at, id)
  BY <1>4
<1> HIDE DEF is, n
<1> DEFINE fine(q, m) == /\ q \in Seq(MessageRecord) /\ Sorted(q)
                         /\ \A i \in DOMAIN q : q[i].id \in 1 .. m
           G == {m \in 0 .. n : fine(at[m], m)}
<1>6. 0 \in G
  <2>1. at[0] = <<>>
    BY <1>1, <1>5
  <2>2. <<>> \in Seq(MessageRecord) /\ DOMAIN <<>> = {}
    OBVIOUS
  <2>3. Sorted(<<>>)
    BY <2>2 DEF Sorted
  <2>4. fine(<<>>, 0)
    BY <2>2, <2>3
  <2> HIDE DEF fine
  <2> QED
    BY <1>1, <2>1, <2>4
<1>7. ASSUME NEW m \in 1 .. n, m - 1 \in G
      PROVE  m \in G
  <2> DEFINE q == at[m - 1]
             e == Message(s, m)
  <2>1. fine(q, m - 1)
    BY <1>7
  <2>2. at[m] = IF m \in s.loaded THEN Append(q, e) ELSE q
    BY <1>1, <1>5
  <2>3. e \in MessageRecord /\ e.id = m
    BY <1>1 DEF Message, MessageRecord
  <2> HIDE DEF e, q
  <2>4. \A k \in 1 .. (m - 1) : k \in 1 .. m /\ k < m
    BY <1>1
  <2>5. fine(q, m)
    BY <1>1, <2>1, <2>4
  <2>6. fine(Append(q, e), m)
    <3>1. q \in Seq(MessageRecord) /\ Len(q) \in Nat /\ DOMAIN q = 1 .. Len(q)
      BY <2>1
    <3>2. /\ Append(q, e) \in Seq(MessageRecord)
          /\ DOMAIN Append(q, e) = 1 .. (Len(q) + 1)
          /\ \A i \in 1 .. Len(q) : Append(q, e)[i] = q[i]
          /\ Append(q, e)[Len(q) + 1] = e
      BY <2>3, <3>1
    <3>3. \A i \in 1 .. (Len(q) + 1) : i \in 1 .. Len(q) \/ i = Len(q) + 1
      BY <3>1
    <3>4. \A i \in DOMAIN Append(q, e) : Append(q, e)[i].id \in 1 .. m
      BY <1>1, <2>3, <2>5, <3>1, <3>2, <3>3
    <3>5. Sorted(Append(q, e))
      <4>1. ASSUME NEW i \in 1 .. (Len(q) + 1), NEW j \in 1 .. (Len(q) + 1), i < j
            PROVE  Append(q, e)[i].id < Append(q, e)[j].id
        <5>1. i \in 1 .. Len(q)
          BY <3>1, <4>1
        <5>2. CASE j \in 1 .. Len(q)
          BY <2>1, <3>1, <3>2, <4>1, <5>1, <5>2 DEF Sorted
        <5>3. CASE j = Len(q) + 1
          BY <2>1, <2>3, <2>4, <3>1, <3>2, <5>1, <5>3
        <5> QED
          BY <3>3, <5>2, <5>3
      <4> QED
        BY <3>2, <4>1 DEF Sorted
    <3> QED
      BY <3>2, <3>4, <3>5
  <2> HIDE DEF fine
  <2> QED
    BY <1>1, <2>2, <2>5, <2>6
<1> HIDE DEF G
<1>8. n \in G
  <2>1. \A m \in 0 .. n : m \in G
    BY <1>1, <1>6, <1>7, UpTo
  <2> QED
    BY <1>1, <2>1
<1>9. Sorted(<<>>) /\ <<>> \in Seq(MessageRecord)
  BY DEF Sorted
<1> QED
  BY <1>2, <1>8, <1>9 DEF G

LEMMA IndexFacts ==
  ASSUME NEW msgs, NEW id \in IdsOf(msgs)
  PROVE  IndexOf(msgs, id) \in DOMAIN msgs /\ msgs[IndexOf(msgs, id)].id = id
BY DEF IdsOf, IndexOf

LEMMA ClampFacts ==
  ASSUME NEW v, Good(v)
  PROVE  LET w == ClampSkip(v)
         IN /\ Scrolled(v, w) /\ Good(w)
            /\ w.off = v.off /\ w.below = v.below /\ w.skip <= v.skip
            /\ HasSelected(w) => w.skip < Height(w, Selected(w))
            /\ HasSelected(v) /\ v.skip < Height(v, Selected(v)) => w.skip = v.skip
            /\ ~HasSelected(v) => w = v
<1>1. Body(v) /\ v \in ViewRecord /\ v.off \in Nat /\ v.skip \in Nat /\ Len(v.msgs) \in Nat
  BY DEF Good, Body, ViewRecord
<1> DEFINE fits(w) ==
             /\ Scrolled(v, w) /\ Good(w)
             /\ w.off = v.off /\ w.below = v.below /\ w.skip <= v.skip
             /\ HasSelected(w) => w.skip < Height(w, Selected(w))
             /\ HasSelected(v) /\ v.skip < Height(v, Selected(v)) => w.skip = v.skip
             /\ ~HasSelected(v) => w = v
<1>2. ASSUME HasSelected(v) PROVE fits(ClampSkip(v))
  <2> DEFINE H == Height(v, Selected(v))
             k == Min({v.skip, H - 1})
             w == [v EXCEPT !.skip = k]
  <2>1. H \in Nat /\ H >= 2
    <3>1. v.off + 1 \in 1 .. Len(v.msgs)
      BY <1>1, <1>2 DEF HasSelected
    <3> QED
      BY <1>1, <3>1, HeightsFacts DEF Selected
  <2>2. ClampSkip(v) = w
    BY <1>2 DEF ClampSkip
  <2> HIDE DEF H
  <2>3. k = IF v.skip <= H - 1 THEN v.skip ELSE H - 1
    <3> DEFINE b == H - 1
    <3>1. v.skip \in Int /\ b \in Int
      BY <1>1, <2>1
    <3> HIDE DEF b
    <3>2. Min({v.skip, b}) = IF v.skip <= b THEN v.skip ELSE b
      BY <3>1, OfTwo
    <3> QED
      BY <3>2 DEF b
  <2>4. k \in Nat /\ k <= v.skip /\ k < H /\ (v.skip < H => k = v.skip)
    BY <1>1, <2>1, <2>3
  <2> HIDE DEF k
  <2>5. Scrolled(v, w) /\ w.off = v.off /\ w.below = v.below /\ w.skip = k
    BY <1>1, <2>4 DEF Scrolled, ViewRecord
  <2> HIDE DEF w
  <2>6. Good(w)
    BY <1>1, <2>5, ScrolledFacts DEF Good, InHistory
  <2>7. Height(w, Selected(w)) = H
    <3>1. \A m : Height(w, m) = Height(v, m)
      BY <1>1, <2>5, ScrolledFacts
    <3>2. Selected(w) = Selected(v)
      BY <2>5 DEF Selected, Scrolled
    <3> QED
      BY <3>1, <3>2 DEF H
  <2>8. fits(w)
    BY <1>1, <1>2, <2>1, <2>4, <2>5, <2>6, <2>7 DEF H
  <2> QED
    BY <2>2, <2>8
<1>3. ASSUME ~HasSelected(v) PROVE fits(ClampSkip(v))
  <2>1. ClampSkip(v) = v
    BY <1>3 DEF ClampSkip
  <2>2. Scrolled(v, v)
    BY <1>1 DEF Scrolled
  <2>3. v.skip <= v.skip
    BY <1>1
  <2> QED
    BY <1>3, <2>1, <2>2, <2>3
<1> QED
  BY <1>2, <1>3

LEMMA SelectFacts ==
  ASSUME NEW v, Good(v), NEW id
  PROVE  LET w == Select(v, id)
         IN /\ Scrolled(v, w) /\ Good(w) /\ w.below = v.below /\ Moves(v, w)
            /\ id = 0 => w = v
            /\ id \in IdsOf(v.msgs) => HasSelected(w) /\ Selected(w).id = id
<1>1. Body(v) /\ v \in ViewRecord /\ v.off \in Nat /\ v.skip \in Nat
  BY DEF Good, Body, ViewRecord
<1>2. /\ Len(v.msgs) \in Nat /\ DOMAIN v.msgs = 1 .. Len(v.msgs)
      /\ \A i \in 1 .. Len(v.msgs) : v.msgs[i] \in MessageRecord
  BY <1>1, HeightsFacts
<1>3. id \in IdsOf(v.msgs) => id # 0
  BY <1>2, IdsFacts DEF IdsOf, MessageRecord
<1>4. CASE id \in IdsOf(v.msgs)
  <2> DEFINE i == IndexOf(v.msgs, id)
             w == [v EXCEPT !.off = i - 1, !.skip = 0]
  <2>1. i \in 1 .. Len(v.msgs) /\ v.msgs[i].id = id
    BY <1>2, <1>4, IndexFacts
  <2>2. Select(v, id) = w
    BY <1>4 DEF Select
  <2> HIDE DEF i
  <2>3. Scrolled(v, w) /\ w.off = i - 1 /\ w.below = v.below
    <3> DEFINE o == i - 1
    <3>1. o \in Nat
      BY <2>1
    <3> HIDE DEF o
    <3>2. w = [v EXCEPT !.off = o, !.skip = 0]
      BY DEF o
    <3> HIDE DEF w
    <3> QED
      BY <1>1, <3>1, <3>2 DEF ViewRecord, Scrolled, o
  <2> HIDE DEF w
  <2>4. w.msgs = v.msgs /\ i - 1 + 1 = i /\ v.msgs # <<>>
    BY <1>2, <2>1, <2>3 DEF Scrolled
  <2>5. Good(w)
    <3>1. InHistory(v, w.off)
      BY <1>2, <2>1, <2>3, <2>4 DEF InHistory
    <3> QED
      BY <1>1, <2>3, <3>1, ScrolledFacts
  <2>6. HasSelected(w) /\ Selected(w).id = id
    BY <1>2, <2>1, <2>3, <2>4 DEF HasSelected, Selected
  <2> QED
    BY <1>3, <1>4, <2>2, <2>3, <2>5, <2>6 DEF Moves
<1>5. CASE id \notin IdsOf(v.msgs)
  <2>1. Select(v, id) = v
    BY <1>5 DEF Select
  <2> QED
    BY <1>1, <1>5, <2>1, CursorForms DEF Moves
<1> QED
  BY <1>4, <1>5

\* The same messages under a reader away from the newest one.
LEMMA HeldFacts ==
  ASSUME NEW v, Good(v), NEW w, Body(w)
  PROVE  LET u == Held(v, w)
         IN /\ Scrolled(w, u) /\ Good(u) /\ u.below = w.below
            /\ HasSelected(v) /\ Selected(v).id \in IdsOf(w.msgs)
                 => HasSelected(u) /\ Selected(u).id = Selected(v).id /\ u.skip = v.skip
<1> DEFINE kept == HasSelected(v) /\ Selected(v).id \in IdsOf(w.msgs)
           n == Len(w.msgs)
           o == IF kept THEN IndexOf(w.msgs, Selected(v).id) - 1
                ELSE Min({v.off, Max({0, n - 1})})
           k == IF kept THEN v.skip ELSE 0
           u == [w EXCEPT !.off = o, !.skip = k]
<1>1. Held(v, w) = u
  BY DEF Held
<1>2. v.off \in Nat /\ v.skip \in Nat
  BY DEF Good, Body, ViewRecord
<1>3. w \in ViewRecord /\ n \in Nat /\ DOMAIN w.msgs = 1 .. n /\ (w.msgs = <<>> <=> n = 0)
  BY DEF Body, ViewRecord
<1>4. kept => IndexOf(w.msgs, Selected(v).id) \in 1 .. n
                /\ w.msgs[IndexOf(w.msgs, Selected(v).id)].id = Selected(v).id
  BY <1>3, IndexFacts
<1>5. ~kept => o = IF v.off <= (IF 0 >= n - 1 THEN 0 ELSE n - 1) THEN v.off
                   ELSE (IF 0 >= n - 1 THEN 0 ELSE n - 1)
  <2> DEFINE b == n - 1
             c == Max({0, b})
  <2>1. b \in Int
    BY <1>3
  <2> HIDE DEF b
  <2>2. c = IF 0 >= b THEN 0 ELSE b
    BY <2>1, OfTwo
  <2>3. c \in Int
    BY <2>1, <2>2
  <2> HIDE DEF c
  <2>4. Min({v.off, c}) = IF v.off <= c THEN v.off ELSE c
    <3> HIDE DEF o, k, kept
    <3>1. v.off \in Int
      BY <1>2
    <3> QED
      BY <2>3, <3>1, OfTwo
  <2> QED
    BY <2>2, <2>4 DEF b, c
<1> HIDE DEF n
<1>6. o \in Nat /\ InHistory(w, o)
  <2>1. CASE kept
    <3> DEFINE i == IndexOf(w.msgs, Selected(v).id)
    <3>1. i \in 1 .. n /\ o = i - 1
      BY <1>4, <2>1
    <3> HIDE DEF i, o
    <3> QED
      BY <1>3, <3>1 DEF InHistory, n
  <2>2. CASE ~kept
    <3> HIDE DEF o, kept
    <3>1. o \in Nat /\ (n = 0 => o = 0) /\ (n # 0 => o <= n - 1)
      BY <1>2, <1>3, <1>5, <2>2
    <3> QED
      BY <1>3, <3>1 DEF InHistory, n
  <2> QED
    BY <2>1, <2>2
<1>7. k \in Nat
  BY <1>2
<1>8. kept => w.msgs[o + 1].id = Selected(v).id /\ o < n /\ k = v.skip
  <2> DEFINE i == IndexOf(w.msgs, Selected(v).id)
  <2>1. kept => i \in 1 .. n /\ o = i - 1 /\ w.msgs[i].id = Selected(v).id /\ k = v.skip
    BY <1>4
  <2> HIDE DEF i, o, k, kept
  <2>2. kept => o + 1 = i /\ o < n
    BY <1>3, <2>1
  <2> QED
    BY <2>1, <2>2
<1> HIDE DEF o, k
<1>9. Scrolled(w, u) /\ u.off = o /\ u.skip = k /\ u.below = w.below
  BY <1>3, <1>6, <1>7 DEF Scrolled, ViewRecord
<1> HIDE DEF u
<1>10. Good(u)
  BY <1>6, <1>9, ScrolledFacts
<1>11. kept => HasSelected(u) /\ Selected(u).id = Selected(v).id /\ u.skip = v.skip
  BY <1>8, <1>9 DEF HasSelected, Selected, Scrolled, n
<1> QED
  BY <1>1, <1>9, <1>10, <1>11

\* The same view with other messages.
Reloads(v, msgs, u) ==
  /\ Good(u) /\ u.msgs = msgs
  /\ u.chat = v.chat /\ u.port = v.port /\ u.width = v.width /\ u.capable = v.capable
  /\ u.files = v.files /\ u.rule = v.rule

LEMMA RefreshedFacts ==
  ASSUME NEW v, Good(v), NEW msgs \in Seq(MessageRecord), Sorted(msgs)
  PROVE  LET u == Refreshed(v, msgs)
         IN /\ Reloads(v, msgs, u)
            /\ AtNewest(v) => /\ AtNewest(u)
                              /\ HasSelected(u) => u.skip < Height(u, Selected(u))
            /\ ~AtNewest(v) => u.below = (v.below \/ NewestId(u) # NewestId(v))
            /\ ~AtNewest(v) /\ HasSelected(v) /\ Selected(v).id \in IdsOf(msgs)
                 => /\ HasSelected(u) /\ Selected(u).id = Selected(v).id
                    /\ u.skip <= v.skip
<1> DEFINE w == [v EXCEPT !.msgs = msgs]
           u == Refreshed(v, msgs)
<1>1. v \in ViewRecord /\ Body(v) /\ v.below \in BOOLEAN
  BY DEF Good, Body, ViewRecord
<1>2. /\ w \in ViewRecord /\ w.msgs = msgs
      /\ w.chat = v.chat /\ w.port = v.port /\ w.width = v.width /\ w.capable = v.capable
      /\ w.files = v.files /\ w.rule = v.rule /\ w.below = v.below
  BY <1>1 DEF ViewRecord
<1>3. u = IF AtNewest(v) THEN [Anchored(w) EXCEPT !.below = FALSE]
          ELSE [ClampSkip(Held(v, w)) EXCEPT !.below = UnseenBelow(v, w)]
  BY DEF Refreshed
<1> HIDE DEF w, u
<1>4. Body(w)
  BY <1>1, <1>2 DEF Body
<1>5. \A x : Scrolled(w, x) /\ Good(x) => Reloads(v, msgs, x)
  BY <1>2 DEF Scrolled, Reloads
<1>6. ASSUME AtNewest(v)
      PROVE  /\ Reloads(v, msgs, u) /\ AtNewest(u)
             /\ HasSelected(u) => u.skip < Height(u, Selected(u))
  <2>1. /\ Scrolled(w, u) /\ Good(u) /\ AtNewest(u)
        /\ Len(w.msgs) # 0 => u.skip < Height(w, Selected(u))
    BY <1>3, <1>4, <1>6, AnchoredFacts
  <2>2. \A m : Height(u, m) = Height(w, m)
    BY <1>4, <2>1, ScrolledFacts
  <2>3. HasSelected(u) => Len(w.msgs) # 0
    BY <2>1 DEF HasSelected, Scrolled, ViewRecord
  <2> QED
    BY <1>5, <2>1, <2>2, <2>3
<1>7. ASSUME ~AtNewest(v)
      PROVE  /\ Reloads(v, msgs, u)
             /\ u.below = (v.below \/ NewestId(u) # NewestId(v))
             /\ HasSelected(v) /\ Selected(v).id \in IdsOf(msgs)
                 => /\ HasSelected(u) /\ Selected(u).id = Selected(v).id
                    /\ u.skip <= v.skip
  <2> DEFINE h == Held(v, w)
             c == ClampSkip(h)
             b == UnseenBelow(v, w)
             kept == HasSelected(v) /\ Selected(v).id \in IdsOf(msgs)
  <2>1. /\ Scrolled(w, h) /\ Good(h)
        /\ kept => HasSelected(h) /\ Selected(h).id = Selected(v).id /\ h.skip = v.skip
    BY <1>2, <1>4, HeldFacts
  <2> HIDE DEF h
  <2>2. Scrolled(h, c) /\ Good(c) /\ c.off = h.off /\ c.skip <= h.skip
    BY <2>1, ClampFacts
  <2> HIDE DEF c
  <2>3. b \in BOOLEAN /\ b = (v.below \/ NewestId(w) # NewestId(v))
    BY <1>1 DEF UnseenBelow
  <2> HIDE DEF b
  <2>4. u = [c EXCEPT !.below = b]
    BY <1>3, <1>7 DEF c, h, b
  <2>5. Scrolled(c, u) /\ u.off = c.off /\ u.skip = c.skip /\ u.below = b
    BY <2>2, <2>3, <2>4 DEF Scrolled, ViewRecord
  <2>6. Scrolled(w, u)
    BY <2>1, <2>2, <2>5 DEF Scrolled
  <2>7. Good(u)
    <3>1. InHistory(c, u.off)
      BY <2>2, <2>5 DEF Good, InHistory
    <3>2. Body(c)
      BY <2>2 DEF Good
    <3> QED
      BY <2>5, <3>1, <3>2, ScrolledFacts
  <2>8. NewestId(u) = NewestId(w)
    BY <2>6 DEF Scrolled, NewestId
  <2>9. u.msgs = h.msgs /\ u.off = h.off /\ u.skip <= h.skip
    BY <2>2, <2>5 DEF Scrolled
  <2>10. kept => HasSelected(u) /\ Selected(u).id = Selected(v).id /\ u.skip <= v.skip
    BY <2>1, <2>9 DEF HasSelected, Selected
  <2> QED
    BY <1>5, <2>3, <2>5, <2>6, <2>7, <2>8, <2>10
<1> QED
  BY <1>6, <1>7 DEF u

\* The rule alone is set.
Ruled(v, w) ==
  /\ Good(w)
  /\ w.chat = v.chat /\ w.msgs = v.msgs /\ w.port = v.port /\ w.width = v.width
  /\ w.capable = v.capable /\ w.files = v.files
  /\ w.off = v.off /\ w.skip = v.skip /\ w.below = v.below

LEMMA RuleResolvedFacts ==
  ASSUME NEW v, Good(v), NEW inbox \in Nat, NEW fresh \in BOOLEAN
  PROVE  LET w == RuleResolved(v, inbox, fresh)
         IN /\ Ruled(v, w)
            /\ w.rule \in Ids =>
                 \/ ~fresh /\ w.rule = v.rule
                 \/ ~Shape[w.rule].own /\ w.rule > inbox
<1> DEFINE unread == {id \in IdsOf(v.msgs) : ~Shape[id].own /\ id > inbox}
           first == IF unread = {} THEN NoRule ELSE Min(unread)
           pending == fresh \/ v.rule = Pending
           w == RuleResolved(v, inbox, fresh)
<1>1. v \in ViewRecord /\ Body(v)
  BY DEF Good, Body
<1>2. unread \subseteq Ids
  <2>1. DOMAIN v.msgs = 1 .. Len(v.msgs) /\ \A i \in 1 .. Len(v.msgs) : v.msgs[i] \in MessageRecord
    BY <1>1, HeightsFacts
  <2> QED
    BY <2>1 DEF IdsOf, MessageRecord
<1>3. unread # {} => Min(unread) \in unread
  <2>1. ASSUME unread # {} PROVE \E m \in unread : \A y \in unread : m <= y
    <3> DEFINE S == unread
    <3>1. S \in SUBSET Nat /\ S # {}
      BY <1>2, <2>1, IdsFacts
    <3> HIDE DEF S
    <3>2. \E m \in S : \A y \in S : m <= y
      BY <3>1, LeastExists
    <3> QED
      BY <3>2 DEF S
  <2> HIDE DEF unread
  <2> QED
    BY <2>1 DEF Min
<1>4. first = NoRule \/ (first \in Ids /\ ~Shape[first].own /\ first > inbox)
  BY <1>2, <1>3
<1>5. NoRule \notin Ids /\ Pending \notin Ids
  BY IdsFacts DEF NoRule, Pending
<1> HIDE DEF first
<1>6. ASSUME NEW r \in {Pending, NoRule} \cup Ids, NEW x, x = [v EXCEPT !.rule = r]
      PROVE  Ruled(v, x) /\ x.rule = r
  <2>1. /\ x \in ViewRecord /\ x.rule = r
        /\ x.chat = v.chat /\ x.msgs = v.msgs /\ x.port = v.port /\ x.width = v.width
        /\ x.capable = v.capable /\ x.files = v.files
        /\ x.off = v.off /\ x.skip = v.skip /\ x.below = v.below
    BY <1>1, <1>6 DEF ViewRecord
  <2> QED
    BY <2>1 DEF Ruled, Good, Body
<1>7. CASE ~pending
  <2>1. w = v
    BY <1>7 DEF RuleResolved
  <2> QED
    BY <1>7, <2>1 DEF Ruled
<1>8. CASE pending /\ v.msgs = <<>>
  <2>1. w = [v EXCEPT !.rule = Pending]
    BY <1>8 DEF RuleResolved
  <2>2. Ruled(v, w) /\ w.rule = Pending
    BY <1>6, <2>1
  <2> QED
    BY <1>5, <2>2
<1>9. CASE pending /\ v.msgs # <<>>
  <2>1. w = [v EXCEPT !.rule = first]
    BY <1>9 DEF RuleResolved, first
  <2> HIDE DEF w
  <2>2. Ruled(v, w) /\ w.rule = first
    BY <1>4, <1>6, <2>1
  <2> QED
    BY <1>4, <1>5, <2>2 DEF w
<1> QED
  BY <1>7, <1>8, <1>9

LEMMA SetDownloadsFacts ==
  ASSUME NEW v, Good(v), NEW files \in [Ids -> FileStates]
  PROVE  LET u == SetDownloads(v, files)
         IN /\ Good(u) /\ u.files = files
            /\ u.chat = v.chat /\ u.msgs = v.msgs /\ u.rule = v.rule /\ u.below = v.below
            /\ u.port = v.port /\ u.width = v.width /\ u.capable = v.capable
            /\ u.off = v.off /\ u.skip <= v.skip
            /\ HasSelected(u) => u.skip < Height(u, Selected(u))
            /\ files = v.files /\ (HasSelected(v) => v.skip < Height(v, Selected(v)))
                 => u.skip = v.skip
<1> DEFINE w == [v EXCEPT !.files = files]
           u == SetDownloads(v, files)
<1>1. v \in ViewRecord
  BY DEF Good, Body
<1>2. /\ w \in ViewRecord /\ w.files = files
      /\ w.chat = v.chat /\ w.msgs = v.msgs /\ w.rule = v.rule /\ w.below = v.below
      /\ w.port = v.port /\ w.width = v.width /\ w.capable = v.capable
      /\ w.off = v.off /\ w.skip = v.skip
  BY <1>1 DEF ViewRecord
<1>3. u = ClampSkip(w)
  BY DEF SetDownloads
<1> HIDE DEF u, w
<1>4. Good(w)
  BY <1>2 DEF Good, Body
<1>5. /\ Scrolled(w, u) /\ Good(u)
      /\ u.off = w.off /\ u.below = w.below /\ u.skip <= w.skip
      /\ HasSelected(u) => u.skip < Height(u, Selected(u))
      /\ HasSelected(w) /\ w.skip < Height(w, Selected(w)) => u.skip = w.skip
      /\ ~HasSelected(w) => u = w
  BY <1>3, <1>4, ClampFacts
<1>6. HasSelected(w) = HasSelected(v) /\ Selected(w) = Selected(v)
  BY <1>2 DEF HasSelected, Selected
<1>7. files = v.files => \A m : Height(w, m) = Height(v, m)
  BY <1>2, SameRows
<1>8. files = v.files /\ (HasSelected(v) => v.skip < Height(v, Selected(v))) => u.skip = v.skip
  BY <1>2, <1>5, <1>6, <1>7
<1>9. /\ u.files = files
      /\ u.chat = v.chat /\ u.msgs = v.msgs /\ u.rule = v.rule /\ u.below = v.below
      /\ u.port = v.port /\ u.width = v.width /\ u.capable = v.capable
      /\ u.off = v.off /\ u.skip <= v.skip
  BY <1>2, <1>5 DEF Scrolled
<1> QED
  BY <1>5, <1>8, <1>9 DEF u

LEMMA NewViewFacts ==
  ASSUME NEW v, Good(v), NEW chat \in {"a", "b", "none"},
         NEW msgs \in Seq(MessageRecord), Sorted(msgs)
  PROVE  LET w == [NewView(chat, v) EXCEPT !.msgs = msgs]
         IN Body(w) /\ w.chat = chat /\ w.msgs = msgs /\ w.rule = Pending
<1> DEFINE w == [NewView(chat, v) EXCEPT !.msgs = msgs]
<1>1. v \in ViewRecord /\ v.port \in Ports \cup {0} /\ v.width \in Widths \cup {0}
  BY DEF Good, Body
<1>2. v.port \in Nat /\ v.width \in Nat /\ v.capable \in BOOLEAN
  BY <1>1 DEF ViewRecord
<1>3. [id \in Ids |-> "none"] \in [Ids -> FileStates]
  BY DEF FileStates
<1> DEFINE x == NewView(chat, v)
<1>4. /\ x \in ViewRecord /\ x.chat = chat /\ x.port = v.port /\ x.width = v.width
      /\ x.rule = Pending
  <2>1. <<>> \in Seq(MessageRecord)
    OBVIOUS
  <2> QED
    BY <1>2, <1>3, <2>1 DEF ViewRecord, NewView
<1> HIDE DEF x
<1>5. w = [x EXCEPT !.msgs = msgs]
  BY DEF x
<1> HIDE DEF w
<1>6. /\ w \in ViewRecord /\ w.chat = chat /\ w.msgs = msgs /\ w.rule = Pending
      /\ w.port = v.port /\ w.width = v.width
  BY <1>4, <1>5 DEF ViewRecord
<1> QED
  BY <1>1, <1>6 DEF Body, w

\* A projection of the chat shown already, and of another.
LEMMA ProjectedFacts ==
  ASSUME NEW v, Good(v), NEW chat \in {"a", "b", "none"},
         NEW msgs \in Seq(MessageRecord), Sorted(msgs),
         NEW inbox \in Nat, NEW fresh \in BOOLEAN
  PROVE  LET p == Projected(v, chat, msgs, inbox, fresh)
         IN /\ Good(p) /\ p.chat = chat /\ p.msgs = msgs
            /\ p.rule \in Ids =>
                 \/ ~fresh /\ v.chat = chat /\ p.rule = v.rule
                 \/ ~Shape[p.rule].own /\ p.rule > inbox
            /\ v.chat = chat =>
                 /\ p.files = v.files
                 /\ AtNewest(v) => /\ AtNewest(p)
                                   /\ HasSelected(p) => p.skip < Height(p, Selected(p))
                 /\ ~AtNewest(v) => p.below = (v.below \/ NewestId(p) # NewestId(v))
                 /\ ~AtNewest(v) /\ HasSelected(v) /\ Selected(v).id \in IdsOf(msgs)
                      => /\ HasSelected(p) /\ Selected(p).id = Selected(v).id
                         /\ p.skip <= v.skip
<1> DEFINE r == IF v.chat = chat THEN Refreshed(v, msgs)
                ELSE Anchored([NewView(chat, v) EXCEPT !.msgs = msgs])
           p == Projected(v, chat, msgs, inbox, fresh)
<1>1. p = RuleResolved(r, inbox, fresh)
  BY DEF Projected
<1>2. v.chat = chat =>
        /\ Good(r) /\ r.chat = chat /\ r.msgs = msgs /\ r.rule = v.rule
        /\ r.files = v.files
        /\ AtNewest(v) => /\ AtNewest(r)
                          /\ HasSelected(r) => r.skip < Height(r, Selected(r))
        /\ ~AtNewest(v) => r.below = (v.below \/ NewestId(r) # NewestId(v))
        /\ ~AtNewest(v) /\ HasSelected(v) /\ Selected(v).id \in IdsOf(msgs)
             => /\ HasSelected(r) /\ Selected(r).id = Selected(v).id
                /\ r.skip <= v.skip
  BY RefreshedFacts DEF Reloads
<1>3. v.chat # chat => Good(r) /\ r.chat = chat /\ r.msgs = msgs /\ r.rule = Pending
  <2> DEFINE w == [NewView(chat, v) EXCEPT !.msgs = msgs]
  <2>1. Body(w) /\ w.chat = chat /\ w.msgs = msgs /\ w.rule = Pending
    BY NewViewFacts
  <2> HIDE DEF w
  <2>2. Scrolled(w, Anchored(w)) /\ Good(Anchored(w))
    BY <2>1, AnchoredFacts
  <2>3. v.chat # chat => r = Anchored(w)
    BY DEF w
  <2> HIDE DEF r
  <2> QED
    BY <2>1, <2>2, <2>3 DEF Scrolled
<1> HIDE DEF r, p
<1>4. /\ Ruled(r, p)
      /\ p.rule \in Ids => \/ ~fresh /\ p.rule = r.rule
                           \/ ~Shape[p.rule].own /\ p.rule > inbox
  BY <1>1, <1>2, <1>3, RuleResolvedFacts
<1>5. /\ Good(p) /\ p.chat = r.chat /\ p.msgs = r.msgs /\ p.port = r.port /\ p.width = r.width
      /\ p.capable = r.capable /\ p.files = r.files
      /\ p.off = r.off /\ p.skip = r.skip /\ p.below = r.below
  BY <1>4 DEF Ruled
<1>6. /\ \A m : Height(p, m) = Height(r, m)
      /\ NewestAnchor(p) = NewestAnchor(r)
  BY <1>5, SameRows
<1>7. /\ AtNewest(r) = AtNewest(p) /\ HasSelected(r) = HasSelected(p)
      /\ Selected(r) = Selected(p) /\ NewestId(r) = NewestId(p)
  BY <1>5, <1>6 DEF AtNewest, HasSelected, Selected, NewestId
<1>8. p.rule \in Ids => \/ ~fresh /\ v.chat = chat /\ p.rule = v.rule
                        \/ ~Shape[p.rule].own /\ p.rule > inbox
  <2>1. Pending \notin Ids
    BY IdsFacts DEF Pending
  <2> QED
    BY <1>2, <1>3, <1>4, <2>1
<1>9. Good(p) /\ p.chat = chat /\ p.msgs = msgs
  BY <1>2, <1>3, <1>5
<1>10. v.chat = chat =>
         /\ p.files = v.files
         /\ AtNewest(v) => /\ AtNewest(p)
                           /\ HasSelected(p) => p.skip < Height(p, Selected(p))
         /\ ~AtNewest(v) => p.below = (v.below \/ NewestId(p) # NewestId(v))
         /\ ~AtNewest(v) /\ HasSelected(v) /\ Selected(v).id \in IdsOf(msgs)
              => /\ HasSelected(p) /\ Selected(p).id = Selected(v).id
                 /\ p.skip <= v.skip
  BY <1>2, <1>5, <1>6, <1>7
<1> QED
  BY <1>8, <1>9, <1>10 DEF p

-----------------------------------------------------------------------------
(* The inductive invariant: the chat was opened no further than it is read *)
(* now, so what is unread at a later projection was unread then.           *)

Typed ==
  /\ store \in Stores /\ store.loaded \subseteq Existing /\ store.gone \subseteq 1 .. store.arrived
  /\ Good(view)
  /\ open \in {"a", "b", "none"} /\ jump \in {0} \cup Ids /\ picker \in {0} \cup Ids
  /\ changes \in 0 .. MaxChanges /\ openedAt \in {0} \cup Ids /\ seen \in {0} \cup Ids

IInv ==
  /\ Typed
  /\ RuleIsUnread /\ openedAt <= store.inbox
  /\ UnseenIsMarked

LEMMA TypedIsTypeOK == Typed => TypeOK
<1> SUFFICES ASSUME Typed PROVE TypeOK
  OBVIOUS
<1>1. view \in ViewRecord /\ Body(view) /\ Good(view)
  BY DEF Typed, Good, Body
<1>2. /\ Len(view.msgs) \in Nat /\ DOMAIN view.msgs = 1 .. Len(view.msgs)
      /\ \A i \in 1 .. Len(view.msgs) : view.msgs[i] \in MessageRecord
  BY <1>1, HeightsFacts
<1>3. view.off \in 0 .. Max({0, Len(view.msgs) - 1})
  <2> DEFINE b == Len(view.msgs) - 1
  <2>1. b \in Int
    BY <1>2
  <2> HIDE DEF b
  <2>2. Max({0, b}) = IF 0 >= b THEN 0 ELSE b
    BY <2>1, OfTwo
  <2>3. view.off \in 0 .. (IF view.msgs = <<>> THEN 0 ELSE b) /\ (view.msgs = <<>> => b = 0 - 1)
    BY <1>1 DEF Good, b
  <2>4. view.msgs # <<>> => b >= 0
    BY <1>1, <1>2 DEF b, ViewRecord
  <2>5. 0 .. Max({0, b}) = 0 .. (IF view.msgs = <<>> THEN 0 ELSE b)
    <3>1. CASE view.msgs = <<>>
      BY <2>2, <2>3, <3>1
    <3>2. CASE view.msgs # <<>>
      <4>1. Max({0, b}) = b
        BY <2>1, <2>2, <2>4, <3>2
      <4> QED
        BY <3>2, <4>1
    <3> QED
      BY <3>1, <3>2
  <2> QED
    BY <2>3, <2>5 DEF b
<1>4. /\ view.chat \in {"a", "b", "none"} /\ view.skip \in Nat
      /\ view.capable \in BOOLEAN /\ view.below \in BOOLEAN
      /\ view.files \in [Ids -> FileStates] /\ view.rule \in {Pending, NoRule} \cup Ids
  BY <1>1 DEF ViewRecord
<1>5. /\ view.port \in Ports \cup {0} /\ view.width \in Widths \cup {0}
      /\ \A i, j \in DOMAIN view.msgs : i < j => view.msgs[i].id < view.msgs[j].id
  BY <1>1 DEF Body, Sorted
<1> QED
  BY <1>2, <1>3, <1>4, <1>5 DEF Typed, TypeOK, Stores

LEMMA NewestIdFacts ==
  ASSUME NEW v, Good(v)
  PROVE  NewestId(v) \in {0} \cup Ids
<1>1. /\ Len(v.msgs) \in Nat
      /\ \A i \in 1 .. Len(v.msgs) : v.msgs[i] \in MessageRecord
  BY HeightsFacts DEF Good
<1>2. v.msgs # <<>> => Len(v.msgs) \in 1 .. Len(v.msgs)
  BY <1>1 DEF Good, Body, ViewRecord
<1> QED
  BY <1>1, <1>2 DEF NewestId, MessageRecord

\* What a change of the view must keep for the badge: it is lit by what is new, and put
\* out at the newest position only.
LEMMA ShowFacts ==
  ASSUME Good(view), seen \in {0} \cup Ids, UnseenIsMarked,
         NEW v, Good(v), Show(v),
         v.chat = view.chat /\ ~AtNewest(view) /\ ~AtNewest(v)
           => (view.below \/ NewestId(v) # NewestId(view) => v.below)
  PROVE  view' = v /\ Good(view)' /\ seen' \in {0} \cup Ids /\ UnseenIsMarked'
<1>1. view' = v
  BY DEF Show
<1>2. NewestId(v) \in {0} \cup Ids /\ NewestId(v) \in Nat /\ seen \in Nat
  BY NewestIdFacts, IdsFacts
<1>3. seen' \in {0} \cup Ids
  BY <1>2 DEF Show
<1>4. ASSUME v.chat = "a", NewestId(v) > seen'
      PROVE  v.below
  <2>1. seen' # NewestId(v)
    BY <1>2, <1>4
  <2>2. seen' = seen /\ NewestId(v) # seen /\ v.chat = view.chat /\ ~AtNewest(view) /\ ~AtNewest(v)
    BY <2>1 DEF Show
  <2>3. CASE NewestId(v) # NewestId(view)
    BY <2>2, <2>3
  <2>4. CASE NewestId(v) = NewestId(view)
    <3>1. view.chat = "a" /\ NewestId(view) > seen
      BY <1>4, <2>2, <2>4
    <3>2. view.below
      BY <3>1 DEF UnseenIsMarked
    <3> QED
      BY <2>2, <3>2
  <2> QED
    BY <2>3, <2>4
<1>5. UnseenIsMarked'
  BY <1>1, <1>4 DEF UnseenIsMarked
<1>6. Good(view)'
  BY <1>1
<1> QED
  BY <1>1, <1>3, <1>5, <1>6

\* A step that only moves the view, or lights and puts out its badge.
LEMMA BrowseStep ==
  ASSUME IInv, NEW v, Moves(view, v), Browse(v)
  PROVE  /\ IInv'
         /\ view'.msgs = view.msgs /\ view'.files = view.files
<1>1. Good(view) /\ seen \in {0} \cup Ids /\ UnseenIsMarked
  BY DEF IInv, Typed
<1>2. Good(v) /\ Scrolled(view, v) /\ (view.below => v.below \/ AtNewest(v))
  BY DEF Moves
<1>3. NewestId(v) = NewestId(view)
  BY <1>2 DEF Scrolled, NewestId
<1>4. Show(v) /\ UNCHANGED <<store, open, jump, picker, changes, openedAt>>
  BY DEF Browse
<1>5. view' = v /\ Good(view)' /\ seen' \in {0} \cup Ids /\ UnseenIsMarked'
  BY <1>1, <1>2, <1>3, <1>4, ShowFacts
<1>6. view'.chat = view.chat /\ view'.rule = view.rule
  BY <1>2, <1>5 DEF Scrolled
<1>7. Typed'
  BY <1>4, <1>5 DEF IInv, Typed, Existing
<1>8. RuleIsUnread' /\ (openedAt <= store.inbox)'
  BY <1>4, <1>6 DEF IInv, RuleIsUnread
<1> QED
  BY <1>2, <1>5, <1>7, <1>8 DEF IInv, Scrolled

\* Steps that leave the view alone: the account's, and those of the loop's own fields.
LEMMA QuietStep ==
  ASSUME IInv, UNCHANGED <<view, openedAt, seen>>,
         store' \in Stores, (store.loaded \subseteq Existing)',
         (store.gone \subseteq 1 .. store.arrived)', store'.inbox >= store.inbox,
         open' \in {"a", "b", "none"}, jump' \in {0} \cup Ids, picker' \in {0} \cup Ids,
         changes' \in 0 .. MaxChanges
  PROVE  IInv'
<1>1. Typed'
  BY DEF IInv, Typed
<1>2. RuleIsUnread' /\ UnseenIsMarked'
  BY DEF IInv, RuleIsUnread, UnseenIsMarked
<1>3. (openedAt <= store.inbox)'
  <2>1. store.inbox \in Nat /\ store'.inbox \in Nat /\ openedAt \in Nat
    BY IdsFacts DEF IInv, Typed, Stores
  <2> QED
    BY <2>1 DEF IInv
<1> QED
  BY <1>1, <1>2, <1>3 DEF IInv

\* The scrolling keys, the click and the quote.
LEMMA UserStep ==
  ASSUME IInv,
         \/ ScrollDown \/ ScrollUp \/ PageDown \/ PageUp \/ JumpToNewest \/ Click \/ JumpToQuoted
  PROVE  IInv' /\ view'.msgs = view.msgs /\ view'.files = view.files
<1>1. Good(view) /\ Body(view)
  BY DEF IInv, Typed, Good
<1>2. \A v : Moves(view, v) /\ Browse(v) => IInv' /\ view'.msgs = view.msgs /\ view'.files = view.files
  BY BrowseStep
<1>3. Moves(view, Down(view)) /\ Moves(view, Up(view))
  BY <1>1, DownFacts, UpFacts
<1>4. Moves(view, PagedDown(view)) /\ Moves(view, PagedUp(view))
  BY <1>1, PagedDownFacts, PagedUpFacts
<1>5. Moves(view, [Anchored(view) EXCEPT !.below = FALSE])
  BY <1>1, AnchoredFacts DEF Moves
<1>6. \A id : Moves(view, Select(view, id))
  BY <1>1, SelectFacts
<1>7. CASE ScrollDown
  BY <1>2, <1>3, <1>7 DEF ScrollDown
<1>8. CASE ScrollUp
  BY <1>2, <1>3, <1>8 DEF ScrollUp
<1>9. CASE PageDown
  BY <1>2, <1>4, <1>9 DEF PageDown
<1>10. CASE PageUp
  BY <1>2, <1>4, <1>10 DEF PageUp
<1>11. CASE JumpToNewest
  BY <1>2, <1>5, <1>11 DEF JumpToNewest
<1>12. CASE Click
  <2>1. PICK id : Browse(Select(view, id))
    BY <1>12 DEF Click
  <2> QED
    BY <1>2, <1>6, <2>1
<1>13. CASE JumpToQuoted
  <2>1. PICK id : Browse(Select(view, id))
    BY <1>13 DEF JumpToQuoted
  <2> QED
    BY <1>2, <1>6, <2>1
<1> QED
  BY <1>7, <1>8, <1>9, <1>10, <1>11, <1>12, <1>13

\* A step that shows the view of the same chat, with the same newest message and badge.
LEMMA ResizeLike ==
  ASSUME IInv, NEW v, Good(v), Show(v),
         v.chat = view.chat, v.rule = view.rule, v.below = view.below,
         NewestId(v) = NewestId(view),
         UNCHANGED <<store, open, openedAt>>,
         jump' \in {0} \cup Ids, picker' \in {0} \cup Ids, changes' \in 0 .. MaxChanges
  PROVE  IInv'
<1>1. Good(view) /\ seen \in {0} \cup Ids /\ UnseenIsMarked
  BY DEF IInv, Typed
<1>2. view' = v /\ Good(view)' /\ seen' \in {0} \cup Ids /\ UnseenIsMarked'
  BY <1>1, ShowFacts
<1>3. Typed'
  BY <1>2 DEF IInv, Typed, Existing
<1>4. RuleIsUnread' /\ (openedAt <= store.inbox)'
  BY <1>2 DEF IInv, RuleIsUnread
<1> QED
  BY <1>2, <1>3, <1>4 DEF IInv

LEMMA FollowingFacts ==
  ASSUME NEW v, NEW w, Good(w), w.chat = v.chat, w.rule = v.rule, w.below = v.below, w.msgs = v.msgs
  PROVE  LET u == Following(v, w)
         IN /\ Good(u) /\ u.chat = v.chat /\ u.rule = v.rule /\ u.below = v.below
            /\ u.msgs = v.msgs /\ u.files = w.files /\ u.port = w.port /\ u.width = w.width
<1>1. Body(w)
  BY DEF Good
<1>2. Scrolled(w, Anchored(w)) /\ Good(Anchored(w)) /\ Anchored(w).below = w.below
  BY <1>1, AnchoredFacts
<1> QED
  BY <1>2 DEF Following, Scrolled

LEMMA ResizeStep ==
  ASSUME IInv, NEW port \in Ports, NEW width \in Widths, Resize(port, width)
  PROVE  IInv' /\ view'.msgs = view.msgs /\ view'.files = view.files
<1> DEFINE w1 == [view EXCEPT !.port = port]
           tall == IF port = view.port THEN view ELSE Following(view, w1)
           w2 == [tall EXCEPT !.width = width]
           v == IF width = tall.width THEN tall ELSE Following(tall, w2)
           same(x) == Good(x) /\ x.chat = view.chat /\ x.rule = view.rule
                        /\ x.below = view.below /\ x.msgs = view.msgs /\ x.files = view.files
<1>1. same(view)
  BY DEF IInv, Typed
<1>2. port \in Nat /\ width \in Nat
  BY ConversationAssumption
<1>3. same(w1)
  <2>1. view \in ViewRecord
    BY <1>1 DEF Good, Body
  <2>2. /\ w1 \in ViewRecord /\ w1.port = port /\ w1.width = view.width /\ w1.off = view.off
        /\ w1.chat = view.chat /\ w1.rule = view.rule
        /\ w1.below = view.below /\ w1.msgs = view.msgs /\ w1.files = view.files
    BY <1>2, <2>1 DEF ViewRecord
  <2> HIDE DEF w1
  <2> QED
    BY <1>1, <2>2 DEF Good, Body
<1>4. same(tall)
  <2>1. same(Following(view, w1))
    <3> HIDE DEF w1
    <3> QED
      BY <1>3, FollowingFacts
  <2> HIDE DEF w1, same
  <2> QED
    BY <1>1, <2>1
<1> HIDE DEF tall
<1>5. same(w2)
  <2>1. tall \in ViewRecord
    BY <1>4 DEF Good, Body
  <2>2. /\ w2 \in ViewRecord /\ w2.port = tall.port /\ w2.width = width /\ w2.off = tall.off
        /\ w2.chat = tall.chat /\ w2.rule = tall.rule
        /\ w2.below = tall.below /\ w2.msgs = tall.msgs /\ w2.files = tall.files
    BY <1>2, <2>1 DEF ViewRecord
  <2> HIDE DEF w2
  <2> QED
    BY <1>4, <2>2 DEF Good, Body
<1>6. same(v)
  <2>1. same(Following(tall, w2))
    <3> HIDE DEF w2
    <3> QED
      BY <1>4, <1>5, FollowingFacts
  <2> HIDE DEF w2, same
  <2> QED
    BY <1>4, <2>1
<1>7. Show(v) /\ UNCHANGED <<store, open, jump, picker, changes, openedAt>>
  BY DEF Resize, tall
<1> HIDE DEF v
<1>8. NewestId(v) = NewestId(view)
  BY <1>6 DEF NewestId
<1>9. jump' \in {0} \cup Ids /\ picker' \in {0} \cup Ids /\ changes' \in 0 .. MaxChanges
  BY <1>7 DEF IInv, Typed
<1>10. IInv'
  BY <1>6, <1>7, <1>8, <1>9, ResizeLike
<1> QED
  BY <1>6, <1>7, <1>10 DEF Show

LEMMA GraphicsStep ==
  ASSUME IInv, SetGraphicsCapable
  PROVE  IInv' /\ view'.msgs = view.msgs /\ view'.files = view.files
<1> DEFINE w == [view EXCEPT !.capable = ~@]
           v == Following(view, w)
<1>1. Good(view) /\ view \in ViewRecord
  BY DEF IInv, Typed, Good, Body
<1>2. Good(w) /\ w.chat = view.chat /\ w.rule = view.rule /\ w.below = view.below
      /\ w.msgs = view.msgs /\ w.files = view.files
  <2> DEFINE b == ~view.capable
  <2>1. b \in BOOLEAN
    OBVIOUS
  <2>2. w = [view EXCEPT !.capable = b]
    OBVIOUS
  <2> HIDE DEF b, w
  <2>3. /\ w \in ViewRecord /\ w.port = view.port /\ w.width = view.width /\ w.off = view.off
        /\ w.chat = view.chat /\ w.rule = view.rule
        /\ w.below = view.below /\ w.msgs = view.msgs /\ w.files = view.files
    BY <1>1, <2>1, <2>2 DEF ViewRecord
  <2> QED
    BY <1>1, <2>3 DEF Good, Body
<1>3. Show(v) /\ UNCHANGED <<store, open, jump, picker, openedAt>> /\ Change
  BY DEF SetGraphicsCapable
<1> HIDE DEF w
<1>4. Good(v) /\ v.chat = view.chat /\ v.rule = view.rule /\ v.below = view.below
      /\ v.msgs = view.msgs /\ v.files = view.files
  BY <1>2, FollowingFacts
<1> HIDE DEF v
<1>5. NewestId(v) = NewestId(view)
  BY <1>4 DEF NewestId
<1>6. jump' \in {0} \cup Ids /\ picker' \in {0} \cup Ids /\ changes' \in 0 .. MaxChanges
  BY <1>3, ConversationAssumption DEF IInv, Typed, Change
<1>7. IInv'
  BY <1>3, <1>4, <1>5, <1>6, ResizeLike
<1> QED
  BY <1>3, <1>4, <1>7 DEF Show

\* The chip of the selected message changes at once: its message is the same one.
LEMMA ReactionStep ==
  ASSUME IInv, ReactionConfirm
  PROVE  IInv' /\ picker # 0 /\ picker' = 0
<1>1. Good(view) /\ view \in ViewRecord /\ Body(view) /\ view.off \in Nat
  BY DEF IInv, Typed, Good, Body, ViewRecord
<1>2. /\ picker # 0 /\ picker' = 0
      /\ UNCHANGED <<store, open, jump, changes, openedAt>>
      /\ jump' \in {0} \cup Ids /\ picker' \in {0} \cup Ids /\ changes' \in 0 .. MaxChanges
  BY DEF ReactionConfirm, IInv, Typed
<1>3. CASE ~HasSelected(view)
  <2>1. Show(view)
    BY <1>3 DEF ReactionConfirm
  <2> QED
    BY <1>1, <1>2, <2>1, ResizeLike
<1>4. CASE HasSelected(view)
  <2> DEFINE o == view.off + 1
             m == view.msgs[o]
             e == [m EXCEPT !.mine = ~@]
             msgs == [view.msgs EXCEPT ![o] = e]
             v == [view EXCEPT !.msgs = msgs]
  <2>1. Show(v)
    BY <1>4 DEF ReactionConfirm
  <2>2. /\ Len(view.msgs) \in Nat /\ DOMAIN view.msgs = 1 .. Len(view.msgs)
        /\ \A i \in 1 .. Len(view.msgs) : view.msgs[i] \in MessageRecord
        /\ o \in 1 .. Len(view.msgs) /\ view.msgs \in Seq(MessageRecord)
    <3>1. o \in 1 .. Len(view.msgs)
      BY <1>1, <1>4, HeightsFacts DEF HasSelected
    <3> QED
      BY <1>1, <3>1, HeightsFacts DEF ViewRecord
  <2>3. e \in MessageRecord /\ e.id = m.id
    BY <2>2 DEF MessageRecord
  <2> HIDE DEF e
  <2>4. /\ msgs \in Seq(MessageRecord) /\ Len(msgs) = Len(view.msgs)
        /\ DOMAIN msgs = DOMAIN view.msgs
        /\ \A i \in DOMAIN view.msgs : msgs[i].id = view.msgs[i].id
    BY <2>2, <2>3
  <2> HIDE DEF msgs
  <2>5. Sorted(msgs)
    <3>1. Sorted(view.msgs)
      BY <1>1 DEF Body
    <3> QED
      BY <2>4, <3>1 DEF Sorted
  <2>6. /\ v \in ViewRecord /\ v.msgs = msgs /\ v.off = view.off
        /\ v.chat = view.chat /\ v.rule = view.rule /\ v.below = view.below
        /\ v.port = view.port /\ v.width = view.width
    BY <1>1, <2>4 DEF ViewRecord
  <2> HIDE DEF v
  <2>7. msgs = <<>> <=> view.msgs = <<>>
    BY <2>2, <2>4
  <2>8. Good(v)
    BY <1>1, <2>4, <2>5, <2>6, <2>7 DEF Good, Body
  <2>9. NewestId(v) = NewestId(view)
    BY <2>2, <2>4, <2>6, <2>7 DEF NewestId
  <2> QED
    BY <1>2, <2>1, <2>6, <2>8, <2>9, ResizeLike
<1> QED
  BY <1>2, <1>3, <1>4

\* What the account does to the chat beside the loop.
LEMMA AccountStep ==
  ASSUME IInv,
         \/ Arrive \/ PageMerged \/ Delete \/ Edit \/ SendFails \/ Reactions
         \/ FileMoves \/ FileGoes \/ Read
  PROVE  IInv' /\ view' = view
<1> DEFINE okay(s) == /\ s \in Stores /\ s.loaded \subseteq (1 .. s.arrived) \ s.gone
                      /\ s.gone \subseteq 1 .. s.arrived
                      /\ s.inbox >= store.inbox
<1>1. /\ store \in Stores /\ store.loaded \subseteq (1 .. store.arrived) \ store.gone
      /\ store.gone \subseteq 1 .. store.arrived
      /\ store.inbox \in Nat
  BY IdsFacts DEF IInv, Typed, Existing, Stores
<1>2. ASSUME store' \in Stores, store'.loaded \subseteq (1 .. store'.arrived) \ store'.gone,
             store'.gone \subseteq 1 .. store'.arrived, store'.inbox >= store.inbox,
             UNCHANGED <<view, open, jump, picker, openedAt, seen>>, changes' = changes \/ Change
      PROVE  IInv' /\ view' = view
  <2>1. changes' \in 0 .. MaxChanges
    BY <1>2, ConversationAssumption DEF IInv, Typed, Change
  <2>2. (store.loaded \subseteq Existing)'
    BY <1>2 DEF Existing
  <2>3. open' \in {"a", "b", "none"} /\ jump' \in {0} \cup Ids /\ picker' \in {0} \cup Ids
    BY <1>2 DEF IInv, Typed
  <2> QED
    BY <1>2, <2>1, <2>2, <2>3, QuietStep
<1>3. ASSUME NEW s, okay(s), Fold(s)
      PROVE  IInv' /\ view' = view
  BY <1>2, <1>3 DEF Fold
<1>4. Existing \subseteq Ids /\ Cardinality(Ids) = Len(Shape)
  <2>1. Cardinality(Ids) = Len(Shape)
    <3> DEFINE n == Len(Shape)
    <3>1. Ids = 1 .. n /\ n \in Nat
      BY IdsFacts
    <3> HIDE DEF n
    <3>2. Cardinality(1 .. n) = IF 1 > n THEN 0 ELSE n - 1 + 1
      BY <3>1, FS_Interval
    <3> QED
      BY <3>1, <3>2 DEF n
  <2>2. store.arrived \in 0 .. Len(Shape)
    BY <1>1, <2>1 DEF Stores
  <2> QED
    BY <2>1, <2>2, IdsFacts DEF Existing
<1>5. store.inbox >= store.inbox
  BY <1>1
<1>6. CASE Arrive
  <2> DEFINE n == store.arrived + 1
             s == [store EXCEPT !.arrived = @ + 1, !.loaded = @ \cup {store.arrived + 1}]
  <2>1. n \in Ids /\ Fold(s)
    BY <1>6 DEF Arrive
  <2>2. n \in 0 .. Cardinality(Ids) /\ store.arrived \in Nat
    BY <1>1, <1>4, <2>1, IdsFacts DEF Stores
  <2>3. n \notin store.gone /\ 1 .. store.arrived \subseteq 1 .. n /\ n \in 1 .. n
    BY <1>1, <2>2
  <2>4. s = [store EXCEPT !.arrived = n, !.loaded = @ \cup {n}]
    OBVIOUS
  <2> HIDE DEF n, s
  <2>5. okay(s)
    BY <1>1, <1>5, <2>1, <2>2, <2>3, <2>4 DEF Stores
  <2> QED
    BY <1>3, <2>1, <2>5
<1>7. CASE PageMerged
  <2>1. PICK low \in Existing \ store.loaded :
          /\ store' = [store EXCEPT !.loaded = @ \cup {id \in Existing : id >= low}]
          /\ UNCHANGED <<view, open, jump, picker, changes, openedAt, seen>>
    BY <1>7 DEF PageMerged
  <2>2. okay(store')
    BY <1>1, <1>4, <1>5, <2>1 DEF Stores, Existing
  <2> QED
    BY <1>2, <2>1, <2>2
<1>8. CASE Delete
  <2>1. PICK id \in Existing : Fold([store EXCEPT !.gone = @ \cup {id}, !.loaded = @ \ {id}])
    BY <1>8 DEF Delete
  <2>2. okay([store EXCEPT !.gone = @ \cup {id}, !.loaded = @ \ {id}])
    <3> DEFINE gone == store.gone \cup {id}
               loaded == store.loaded \ {id}
    <3>1. /\ gone \in SUBSET Ids /\ loaded \in SUBSET Ids
          /\ loaded \subseteq (1 .. store.arrived) \ gone /\ gone \subseteq 1 .. store.arrived
      BY <1>1, <1>4 DEF Stores, Existing
    <3> HIDE DEF gone, loaded
    <3>2. okay([store EXCEPT !.gone = gone, !.loaded = loaded])
      BY <1>1, <1>5, <3>1 DEF Stores
    <3> QED
      BY <3>2 DEF gone, loaded
  <2> QED
    BY <1>3, <2>1, <2>2
<1>9. CASE Edit
  <2>1. PICK id \in store.loaded : Fold([store EXCEPT !.long = SymDiff(@, {id})])
    BY <1>9 DEF Edit
  <2>2. okay([store EXCEPT !.long = SymDiff(@, {id})])
    BY <1>1, <1>5 DEF Stores, SymDiff
  <2> QED
    BY <1>3, <2>1, <2>2
<1>10. CASE SendFails
  <2>1. PICK id \in store.loaded : Fold([store EXCEPT !.failed = @ \cup {id}])
    BY <1>10 DEF SendFails
  <2>2. okay([store EXCEPT !.failed = @ \cup {id}])
    BY <1>1, <1>5 DEF Stores
  <2> QED
    BY <1>3, <2>1, <2>2
<1>11. CASE Reactions
  <2>1. PICK id \in store.loaded :
          \/ Fold([store EXCEPT !.others = SymDiff(@, {id})])
          \/ Fold([store EXCEPT !.mine = SymDiff(@, {id})])
    BY <1>11 DEF Reactions
  <2>2. okay([store EXCEPT !.others = SymDiff(@, {id})])
    BY <1>1, <1>5 DEF Stores, SymDiff
  <2>3. okay([store EXCEPT !.mine = SymDiff(@, {id})])
    BY <1>1, <1>5 DEF Stores, SymDiff
  <2> QED
    BY <1>3, <2>1, <2>2, <2>3
<1>12. CASE FileMoves
  <2>1. PICK id \in Existing, f \in FileStates : Fold([store EXCEPT !.files[id] = f])
    BY <1>12 DEF FileMoves
  <2>2. okay([store EXCEPT !.files[id] = f])
    BY <1>1, <1>4, <1>5 DEF Stores
  <2> QED
    BY <1>3, <2>1, <2>2
<1>13. CASE FileGoes
  <2>1. PICK id \in Existing : Fold([store EXCEPT !.files[id] = "none"])
    BY <1>13 DEF FileGoes
  <2>2. okay([store EXCEPT !.files[id] = "none"])
    BY <1>1, <1>4, <1>5 DEF Stores, FileStates
  <2> QED
    BY <1>3, <2>1, <2>2
<1>14. CASE Read
  <2>1. PICK id \in Existing : id > store.inbox /\ Fold([store EXCEPT !.inbox = id])
    BY <1>14 DEF Read
  <2>2. okay([store EXCEPT !.inbox = id])
    <3>1. id \in Ids /\ id >= store.inbox
      BY <1>1, <1>4, <2>1, IdsFacts
    <3> QED
      BY <1>1, <3>1 DEF Stores
  <2> QED
    BY <1>3, <2>1, <2>2
<1> QED
  BY <1>6, <1>7, <1>8, <1>9, <1>10, <1>11, <1>12, <1>13, <1>14

\* A projection: the invariant, and the place it leaves the reader in.
LEMMA ProjectStep ==
  ASSUME IInv, NEW chat \in {"a", "b"}, NEW fresh \in BOOLEAN, NEW target \in {0} \cup Ids,
         Project(chat, fresh, target), UNCHANGED <<store, changes>>,
         open' \in {"a", "b", "none"}, picker' \in {0} \cup Ids
  PROVE  /\ IInv' /\ view'.chat = chat
         /\ HasSelected(view') => view'.skip < Height(view', Selected(view'))
         /\ target = 0 /\ view.chat = chat =>
              /\ AtNewest(view) /\ view'.files = view.files => AtNewest(view')
              /\ ~AtNewest(view) /\ HasSelected(view) /\ Selected(view).id \in IdsOf(view'.msgs)
                   => Selected(view').id = Selected(view).id /\ view'.skip <= view.skip
<1> DEFINE msgs == History(store, chat)
           p == Projected(view, chat, msgs, Inbox(chat), fresh)
           q == IF chat = "a" THEN Select(p, target) ELSE p
           files == [id \in Ids |-> IF id \in IdsOf(p.msgs) THEN store.files[id] ELSE "none"]
           u == SetDownloads(q, files)
<1>1. /\ Good(view) /\ store \in Stores /\ seen \in {0} \cup Ids /\ UnseenIsMarked
      /\ RuleIsUnread /\ openedAt <= store.inbox
  BY DEF IInv, Typed
<1>2. msgs \in Seq(MessageRecord) /\ Sorted(msgs)
  BY <1>1, HistoryFacts
<1>3. /\ Show(u)
      /\ jump' = IF chat = "a" /\ target \notin IdsOf(p.msgs) THEN target ELSE 0
      /\ openedAt' = IF fresh THEN Inbox(chat) ELSE openedAt
  BY DEF Project
<1>4. Inbox(chat) \in Nat /\ Inbox(chat) <= store.inbox /\ Inbox(chat) \in {0} \cup Ids
      /\ (chat = "a" => Inbox(chat) = store.inbox)
  BY <1>1, IdsFacts DEF Inbox, Stores
<1>5. files \in [Ids -> FileStates]
  BY <1>1 DEF Stores, FileStates
<1> HIDE DEF msgs, files
<1>6. /\ Good(p) /\ p.chat = chat /\ p.msgs = msgs
      /\ p.rule \in Ids => \/ ~fresh /\ view.chat = chat /\ p.rule = view.rule
                           \/ ~Shape[p.rule].own /\ p.rule > Inbox(chat)
      /\ view.chat = chat =>
           /\ p.files = view.files
           /\ AtNewest(view) => /\ AtNewest(p)
                                /\ HasSelected(p) => p.skip < Height(p, Selected(p))
           /\ ~AtNewest(view) => p.below = (view.below \/ NewestId(p) # NewestId(view))
           /\ ~AtNewest(view) /\ HasSelected(view) /\ Selected(view).id \in IdsOf(msgs)
                => /\ HasSelected(p) /\ Selected(p).id = Selected(view).id
                   /\ p.skip <= view.skip
  <2>1. chat \in {"a", "b", "none"}
    OBVIOUS
  <2> QED
    BY <1>1, <1>2, <1>4, <2>1, ProjectedFacts
<1> HIDE DEF p
<1>7. Scrolled(p, q) /\ Good(q) /\ q.below = p.below /\ (target = 0 => q = p)
  <2>1. /\ Scrolled(p, Select(p, target)) /\ Good(Select(p, target))
        /\ Select(p, target).below = p.below /\ (target = 0 => Select(p, target) = p)
    BY <1>6, SelectFacts
  <2>2. Scrolled(p, p)
    BY <1>6 DEF Scrolled, Good, Body
  <2> QED
    BY <1>6, <2>1, <2>2
<1> HIDE DEF q
<1>8. /\ Good(u) /\ u.files = files
      /\ u.chat = q.chat /\ u.msgs = q.msgs /\ u.rule = q.rule /\ u.below = q.below
      /\ u.port = q.port /\ u.width = q.width /\ u.capable = q.capable
      /\ u.off = q.off /\ u.skip <= q.skip
      /\ HasSelected(u) => u.skip < Height(u, Selected(u))
      /\ files = q.files /\ (HasSelected(q) => q.skip < Height(q, Selected(q)))
           => u.skip = q.skip
  BY <1>5, <1>7, SetDownloadsFacts
<1> HIDE DEF u
<1>9. /\ u.chat = chat /\ u.msgs = msgs /\ u.rule = p.rule /\ u.below = p.below
      /\ q.files = p.files
  BY <1>6, <1>7, <1>8 DEF Scrolled
<1>10. NewestId(u) = NewestId(p)
  BY <1>6, <1>9 DEF NewestId
<1>11. view' = u /\ Good(view)' /\ seen' \in {0} \cup Ids /\ UnseenIsMarked'
  <2>1. u.chat = view.chat /\ ~AtNewest(view) =>
          (view.below \/ NewestId(u) # NewestId(view) => u.below)
    BY <1>6, <1>9, <1>10
  <2> QED
    BY <1>1, <1>3, <1>8, <2>1, ShowFacts
<1>12. Typed'
  <2>1. jump' \in {0} \cup Ids /\ openedAt' \in {0} \cup Ids
    BY <1>3, <1>4 DEF IInv, Typed
  <2> QED
    BY <1>11, <2>1 DEF IInv, Typed, Existing
<1>13. (openedAt <= store.inbox)'
  BY <1>1, <1>3, <1>4
<1>14. RuleIsUnread'
  <2>1. SUFFICES ASSUME u.chat = "a", u.rule \in Ids
                 PROVE  ~Shape[u.rule].own /\ u.rule > openedAt'
    BY <1>11 DEF RuleIsUnread
  <2>2. chat = "a" /\ p.rule = u.rule
    BY <1>9, <2>1
  <2>3. CASE ~fresh /\ view.chat = chat /\ p.rule = view.rule
    BY <1>1, <1>3, <2>1, <2>2, <2>3 DEF RuleIsUnread
  <2>4. CASE ~Shape[p.rule].own /\ p.rule > Inbox(chat)
    <3>1. openedAt' <= Inbox(chat) /\ openedAt' \in Nat /\ u.rule \in Nat
      BY <1>1, <1>3, <1>4, <1>12, <2>1, <2>2, IdsFacts DEF Typed
    <3> QED
      BY <1>4, <2>2, <2>4, <3>1
  <2> QED
    BY <1>6, <2>1, <2>2, <2>3, <2>4
<1>15. IInv'
  BY <1>11, <1>12, <1>13, <1>14 DEF IInv
<1>16. HasSelected(view') => view'.skip < Height(view', Selected(view'))
  BY <1>8, <1>11
<1>17. ASSUME target = 0, view.chat = chat, AtNewest(view), view'.files = view.files
       PROVE  AtNewest(view')
  <2>1. q = p /\ AtNewest(p) /\ (HasSelected(p) => p.skip < Height(p, Selected(p)))
    BY <1>6, <1>7, <1>17
  <2>2. files = q.files
    BY <1>6, <1>8, <1>11, <1>17, <2>1
  <2>3. u.off = p.off /\ u.skip = p.skip
    BY <1>8, <2>1, <2>2
  <2>4. NewestAnchor(u) = NewestAnchor(p)
    <3>1. u.msgs = p.msgs /\ u.width = p.width /\ u.capable = p.capable /\ u.files = p.files
          /\ u.port = p.port
      BY <1>8, <2>1, <2>2
    <3> QED
      BY <3>1, SameRows
  <2> QED
    BY <1>11, <2>1, <2>3, <2>4 DEF AtNewest
<1>18. ASSUME target = 0, view.chat = chat, ~AtNewest(view), HasSelected(view),
              Selected(view).id \in IdsOf(view'.msgs)
       PROVE  Selected(view').id = Selected(view).id /\ view'.skip <= view.skip
  <2>1. /\ HasSelected(p) /\ Selected(p).id = Selected(view).id
        /\ p.skip <= view.skip
    BY <1>6, <1>9, <1>11, <1>18
  <2>2. Selected(u) = Selected(p) /\ u.skip <= p.skip
    BY <1>7, <1>8, <1>18 DEF Selected
  <2>3. u.skip \in Nat /\ p.skip \in Nat /\ view.skip \in Nat
    BY <1>1, <1>6, <1>8 DEF Good, Body, ViewRecord
  <2> QED
    BY <1>11, <2>1, <2>2, <2>3
<1> QED
  BY <1>9, <1>11, <1>15, <1>16, <1>17, <1>18

\* What a projection may not do to the place read, and no other step does.
PlaceKept ==
  /\ HasSelected(view') => view'.skip < Height(view', Selected(view'))
  /\ jump = 0 =>
       /\ AtNewest(view) /\ view'.files = view.files => AtNewest(view')
       /\ ~AtNewest(view) /\ HasSelected(view) /\ Selected(view).id \in IdsOf(view'.msgs)
            => Selected(view').id = Selected(view).id /\ view'.skip <= view.skip

LEMMA NextStep ==
  ASSUME IInv, Next
  PROVE  IInv' /\ (Refreshes => PlaceKept)
<1>1. /\ store \in Stores /\ store.loaded \subseteq Existing /\ Existing \subseteq Ids
      /\ store.gone \subseteq 1 .. store.arrived /\ store.inbox >= store.inbox
      /\ open \in {"a", "b", "none"} /\ jump \in {0} \cup Ids /\ picker \in {0} \cup Ids
      /\ changes \in 0 .. MaxChanges
  <2>1. store \in Stores /\ store.inbox \in Nat
    BY IdsFacts DEF IInv, Typed, Stores
  <2>2. 1 .. store.arrived \subseteq Ids
    <3> DEFINE n == Len(Shape)
    <3>1. Ids = 1 .. n /\ n \in Nat
      BY IdsFacts
    <3> HIDE DEF n
    <3>2. Cardinality(1 .. n) = IF 1 > n THEN 0 ELSE n - 1 + 1
      BY <3>1, FS_Interval
    <3>3. store.arrived \in 0 .. n
      BY <2>1, <3>1, <3>2 DEF Stores
    <3> QED
      BY <3>1, <3>3
  <2> QED
    BY <2>1, <2>2 DEF IInv, Typed, Existing
<1>2. view'.msgs = view.msgs /\ view'.files = view.files => ~Refreshes
  BY DEF Refreshes
<1>3. ASSUME UNCHANGED <<store, view, openedAt, seen>>,
             open' \in {"a", "b", "none"}, jump' \in {0} \cup Ids, picker' \in {0} \cup Ids,
             changes' \in 0 .. MaxChanges
      PROVE  IInv' /\ ~Refreshes
  <2>1. (store.loaded \subseteq Existing)' /\ (store.gone \subseteq 1 .. store.arrived)'
        /\ store' \in Stores /\ store'.inbox >= store.inbox
    BY <1>1, <1>3 DEF Existing
  <2> QED
    BY <1>2, <1>3, <2>1, QuietStep
<1>4. CASE Reproject
  <2>1. open \in {"a", "b"} /\ Project(open, FALSE, jump)
        /\ UNCHANGED <<store, open, picker, changes>>
    BY <1>1, <1>4 DEF Reproject
  <2>2. /\ IInv' /\ view'.chat = open
        /\ HasSelected(view') => view'.skip < Height(view', Selected(view'))
        /\ jump = 0 /\ view.chat = open =>
              /\ AtNewest(view) /\ view'.files = view.files => AtNewest(view')
              /\ ~AtNewest(view) /\ HasSelected(view) /\ Selected(view).id \in IdsOf(view'.msgs)
                   => Selected(view').id = Selected(view).id /\ view'.skip <= view.skip
    <3>1. open' \in {"a", "b", "none"} /\ picker' \in {0} \cup Ids /\ FALSE \in BOOLEAN
      BY <1>1, <2>1
    <3> QED
      BY <1>1, <2>1, <3>1, ProjectStep
  <2> QED
    BY <2>2 DEF Refreshes, PlaceKept
<1>5. ASSUME NEW chat \in {"a", "b"}, OpenChat(chat)
      PROVE  IInv' /\ ~Refreshes
  <2>1. Project(chat, TRUE, jump) /\ UNCHANGED <<store, picker, changes>>
        /\ open' \in {"a", "b", "none"} /\ picker' \in {0} \cup Ids /\ open' # open
    BY <1>1, <1>5 DEF OpenChat
  <2>2. IInv'
    BY <1>1, <2>1, ProjectStep
  <2> QED
    BY <2>1, <2>2 DEF Refreshes
<1>6. CASE CloseChat
  BY <1>1, <1>3, <1>6 DEF CloseChat
<1>7. ASSUME NEW id \in Existing, OpenHit(id)
      PROVE  IInv' /\ ~Refreshes
  <2>1. CASE open = "a"
    <3>1. UNCHANGED <<store, view, openedAt, seen>> /\ open' = "a" /\ jump' = id
          /\ UNCHANGED <<picker, changes>>
      BY <1>7, <2>1 DEF OpenHit
    <3> QED
      BY <1>1, <1>3, <3>1
  <2>2. CASE open # "a"
    <3>1. Project("a", TRUE, id) /\ UNCHANGED <<store, picker, changes>>
          /\ open' \in {"a", "b", "none"} /\ picker' \in {0} \cup Ids /\ open' # open
          /\ id \in {0} \cup Ids
      BY <1>1, <1>7, <2>2 DEF OpenHit
    <3>2. IInv'
      BY <3>1, ProjectStep
    <3> QED
      BY <3>1, <3>2 DEF Refreshes
  <2> QED
    BY <2>1, <2>2
<1>8. CASE ScrollDown \/ ScrollUp \/ PageDown \/ PageUp \/ JumpToNewest \/ Click \/ JumpToQuoted
  BY <1>2, <1>8, UserStep
<1>9. CASE ReactionOpen
  <2>1. Selected(view).id \in Ids
    <3>1. Body(view) /\ view.off + 1 \in 1 .. Len(view.msgs)
      <4>1. Good(view) /\ Len(view.msgs) \in Nat /\ view.off \in Nat
        BY DEF IInv, Typed, Good, Body, ViewRecord
      <4> QED
        BY <1>9, <4>1 DEF ReactionOpen, HasSelected, Good
    <3> QED
      BY <3>1, HeightsFacts DEF Selected, MessageRecord
  <2> QED
    BY <1>1, <1>3, <1>9, <2>1 DEF ReactionOpen
<1>10. CASE ReactionCancel
  BY <1>1, <1>3, <1>10 DEF ReactionCancel
<1>11. CASE ReactionConfirm
  BY <1>11, ReactionStep DEF Refreshes
<1>12. ASSUME NEW port \in Ports, NEW width \in Widths, Resize(port, width)
       PROVE  IInv' /\ ~Refreshes
  BY <1>2, <1>12, ResizeStep
<1>13. CASE SetGraphicsCapable
  BY <1>2, <1>13, GraphicsStep
<1>14. CASE Arrive \/ PageMerged \/ Delete \/ Edit \/ SendFails \/ Reactions
              \/ FileMoves \/ FileGoes \/ Read
  BY <1>2, <1>14, AccountStep
<1> QED
  BY <1>4, <1>5, <1>6, <1>7, <1>8, <1>9, <1>10, <1>11, <1>12, <1>13, <1>14 DEF Next

LEMMA InitInv == Init => IInv
<1> SUFFICES ASSUME Init PROVE IInv
  OBVIOUS
<1> DEFINE v0 == [port |-> 0, width |-> 0, capable |-> FALSE]
<1>1. [id \in Ids |-> "none"] \in [Ids -> FileStates]
  BY DEF FileStates
<1>2. store \in Stores /\ store.loaded = {} /\ store.gone = {} /\ store.inbox = 0
  BY <1>1, ConversationAssumption DEF Init, Stores
<1>3. /\ view.chat = "none" /\ view.msgs = <<>> /\ view.off = 0 /\ view.skip = 0
      /\ view.port = 0 /\ view.width = 0
      /\ view.below = FALSE /\ view.rule = Pending
  BY DEF Init, NewView
<1>4. view \in ViewRecord
  <2>1. <<>> \in Seq(MessageRecord)
    OBVIOUS
  <2> QED
    BY <1>1, <2>1 DEF Init, NewView, ViewRecord
<1>5. Good(view)
  <2>1. Sorted(<<>>)
    BY DEF Sorted
  <2> QED
    BY <1>3, <1>4, <2>1 DEF Good, Body
<1>6. Typed
  BY <1>2, <1>5, ConversationAssumption DEF Init, Typed, Existing
<1>7. RuleIsUnread /\ UnseenIsMarked /\ openedAt <= store.inbox
  BY <1>2, <1>3 DEF Init, RuleIsUnread, UnseenIsMarked
<1> QED
  BY <1>6, <1>7 DEF IInv

LEMMA StepInv ==
  ASSUME IInv, [Next]_vars
  PROVE  IInv'
<1>1. CASE Next
  BY <1>1, NextStep
<1>2. CASE UNCHANGED vars
  BY <1>2 DEF vars, IInv, Typed, Existing, RuleIsUnread, UnseenIsMarked
<1> QED
  BY <1>1, <1>2

\* The inductive invariant holds in every behaviour of the specification.
THEOREM Invariance == Spec => []IInv
<1>1. Init => IInv
  BY InitInv
<1>2. IInv /\ [Next]_vars => IInv'
  BY StepInv
<1> QED
  BY <1>1, <1>2, PTL DEF Spec

\* The rule stands above a message that was unread when the chat was opened, and what the
\* reader has not had on screen is announced (ConversationView::project, scroll_down).
THEOREM UnreadIsToldHolds == Spec => []UnreadIsTold
<1>1. IInv => UnreadIsTold
  BY DEF IInv, UnreadIsTold
<1> QED
  BY <1>1, Invariance, PTL

\* No projection moves a reader from the message read, or off the newest position
\* (ConversationView::project, set_downloads).
THEOREM PlaceHeldHolds == Spec => PlaceHeld
<1> DEFINE A == Refreshes =>
                  /\ jump = 0 /\ ~AtNewest(view) /\ HasSelected(view)
                       /\ Selected(view).id \in IdsOf(view'.msgs)
                     => Selected(view').id = Selected(view).id /\ view'.skip <= view.skip
                  /\ RowOnScreen
           B == Refreshes /\ jump = 0 /\ AtNewest(view) /\ view'.files = view.files
                  => AtNewest(view')
<1>1. IInv /\ [Next]_vars => [A]_vars /\ [B]_vars
  <2>1. IInv /\ Next => A /\ B
    BY NextStep DEF PlaceKept, RowOnScreen
  <2> HIDE DEF A, B
  <2> QED
    BY <2>1
<1>2. Spec => [][A]_vars /\ [][B]_vars
  BY <1>1, Invariance, PTL DEF Spec
<1>3. ([][A]_vars /\ [][B]_vars) => PlaceHeld
  BY DEF PlaceHeld, SelectionHeld, TailHeld
<1> QED
  BY <1>2, <1>3, PTL

-----------------------------------------------------------------------------
(* The rows that are counted and the rows that are drawn.                  *)

\* What is drawn of a message: what is counted, and the two lines that are not.
LEMMA BlockFacts ==
  ASSUME NEW v, Body(v), NEW i \in 1 .. Len(v.msgs)
  PROVE  /\ Block(v, i) \in Nat
         /\ ~v.msgs[i].failed /\ v.msgs[i].id # v.rule => Block(v, i) = Height(v, v.msgs[i])
<1>1. v.msgs[i] \in MessageRecord
  BY HeightsFacts
<1> DEFINE m == v.msgs[i]
<1>2. Height(v, m) \in Nat /\ MessageLines(v, m) = Height(v, m) + Flag(m.failed)
  BY <1>1, HeightFacts
<1> HIDE DEF m
<1>3. Block(v, i) = Flag(v.rule = m.id) + MessageLines(v, m)
  BY DEF Block, m
<1>4. \A b : Flag(b) \in Nat
  BY DEF Flag
<1>5. Flag(FALSE) = 0
  BY DEF Flag
<1>6. Block(v, i) \in Nat
  BY <1>2, <1>3, <1>4
<1>7. ASSUME ~m.failed, m.id # v.rule
      PROVE  Block(v, i) = Height(v, m)
  <2>1. Flag(m.failed) = 0 /\ Flag(v.rule = m.id) = 0
    BY <1>7 DEF Flag
  <2> QED
    BY <1>2, <1>3, <2>1
<1> QED
  BY <1>6, <1>7 DEF m

LEMMA BlocksFacts ==
  ASSUME NEW v, Body(v), NEW j \in 1 .. Len(v.msgs),
         \A i \in (j + 1) .. Len(v.msgs) : Block(v, i) = Height(v, v.msgs[i])
  PROVE  \A k \in j .. Len(v.msgs) :
           BlocksTo(v)[k] - BlocksTo(v)[j] = RowsTo(v)[k] - RowsTo(v)[j]
<1> DEFINE n == Len(v.msgs)
           a == [i \in DOMAIN v.msgs |-> Block(v, i)]
           b == Heights(v)
<1>1. n \in Nat /\ DOMAIN v.msgs = 1 .. n /\ \A i \in 1 .. n : b[i] = Height(v, v.msgs[i]) /\ b[i] \in Nat
  BY HeightsFacts
<1>2. \A i \in 1 .. n : a[i] = Block(v, i) /\ a[i] \in Nat
  BY <1>1, BlockFacts
<1>3. BlocksTo(v) = Totals(n, a) /\ RowsTo(v) = Totals(n, b)
  BY DEF BlocksTo, RowsTo
<1>4. \A i \in (j + 1) .. n : a[i] = b[i]
  BY <1>1, <1>2
<1>5. j \in 0 .. n
  BY <1>1
<1> HIDE DEF a, b, n
<1>6. \A k \in j .. n : Totals(n, a)[k] - Totals(n, a)[j] = Totals(n, b)[k] - Totals(n, b)[j]
  BY <1>1, <1>2, <1>4, <1>5, TotalsAgree
<1> QED
  BY <1>3, <1>6 DEF n

LEMMA BlocksNat ==
  ASSUME NEW v, Body(v)
  PROVE  \A k \in 0 .. Len(v.msgs) : BlocksTo(v)[k] \in Nat
<1> DEFINE n == Len(v.msgs)
           a == [i \in DOMAIN v.msgs |-> Block(v, i)]
<1>1. n \in Nat /\ DOMAIN v.msgs = 1 .. n
  BY HeightsFacts
<1>2. \A i \in 1 .. n : a[i] \in Nat
  BY <1>1, BlockFacts
<1>3. BlocksTo(v) = Totals(n, a)
  BY DEF BlocksTo
<1> HIDE DEF a, n
<1>4. \A k \in 0 .. n : Totals(n, a)[k] \in Nat
  BY <1>1, <1>2, TotalsFacts
<1> QED
  BY <1>3, <1>4 DEF n

LEMMA NewestOnLastRowHolds == Good(view) => NewestOnLastRow
<1> DEFINE n == Len(view.msgs)
           sum == RowsTo(view)
           o == view.off
           k == o + 1
<1>1. SUFFICES ASSUME Good(view), n > 0, view.port > 0, AtNewest(view), AllRows(view) >= view.port,
                      \A i \in k .. n : ~view.msgs[i].failed /\ view.msgs[i].id # view.rule
               PROVE  EndRow(view, n) = view.port
  BY DEF NewestOnLastRow
<1>2. /\ Body(view) /\ n \in Nat /\ o \in Nat /\ view.skip \in Nat /\ view.port \in Nat
      /\ o \in 0 .. (n - 1) /\ k \in 1 .. n /\ k - 1 = o
  BY <1>1 DEF Good, Body, ViewRecord
<1>3. view.skip < Height(view, view.msgs[k]) /\ sum[o] + view.skip = sum[n] - view.port
  <2>1. PICK a \in Nat, b \in Nat :
          /\ NewestAnchor(view) = <<a, b>>
          /\ n # 0 => b < Height(view, view.msgs[a + 1])
          /\ n # 0 /\ view.port # 0 /\ sum[n] >= view.port => sum[a] + b = sum[n] - view.port
    BY <1>2, AnchorPlace
  <2>2. a = o /\ b = view.skip
    BY <1>1, <2>1 DEF AtNewest
  <2>3. sum[n] >= view.port
    BY <1>1 DEF AllRows
  <2> QED
    BY <1>1, <2>1, <2>2, <2>3
<1>4. \A i \in k .. n : Block(view, i) = Height(view, view.msgs[i])
  BY <1>1, <1>2, BlockFacts
<1>5. /\ \A i \in 0 .. n : sum[i] \in Nat
      /\ \A i \in 1 .. n : sum[i] = sum[i - 1] + Height(view, view.msgs[i])
      /\ \A i \in 1 .. n : Height(view, view.msgs[i]) \in Nat
  BY <1>2, RowsFacts, HeightsFacts
<1>6. \A i \in k .. n : BlocksTo(view)[i] - BlocksTo(view)[k] = sum[i] - sum[k]
  <2>1. \A i \in (k + 1) .. n : Block(view, i) = Height(view, view.msgs[i])
    BY <1>2, <1>4
  <2> HIDE DEF k
  <2> QED
    BY <1>2, <2>1, BlocksFacts
<1> DEFINE H == Height(view, view.msgs[k])
<1>7. Max({0, Block(view, k) - view.skip}) = H - view.skip
  <2> DEFINE b == H - view.skip
  <2>1. Block(view, k) = H /\ H \in Nat
    BY <1>2, <1>4, <1>5
  <2>2. b \in Int /\ b > 0
    BY <1>2, <1>3, <2>1
  <2>3. Block(view, k) - view.skip = b
    BY <2>1
  <2> HIDE DEF b
  <2>4. Max({0, b}) = b
    BY <2>2, OfTwo
  <2> QED
    BY <2>3, <2>4 DEF b
<1>8. sum[k] = sum[o] + H /\ sum[k] \in Nat /\ sum[o] \in Nat /\ sum[n] \in Nat /\ H \in Nat
  <2>1. k \in 0 .. n /\ o \in 0 .. n /\ n \in 0 .. n /\ k \in 1 .. n
    BY <1>2
  <2> QED
    BY <1>2, <1>5, <2>1
<1>9. CASE n = k
  <2>1. EndRow(view, n) = H - view.skip
    BY <1>7, <1>9 DEF EndRow
  <2>2. sum[n] = sum[o] + H
    BY <1>8, <1>9
  <2> HIDE DEF H, sum, n, o, k
  <2> QED
    BY <1>2, <1>3, <1>8, <2>1, <2>2
<1>10. CASE n # k
  <2> DEFINE B == BlocksTo(view)
  <2>1. EndRow(view, n) = StartRow(view, n) + Block(view, n)
    BY <1>10 DEF EndRow
  <2>2. StartRow(view, n) = (H - view.skip) + B[n - 1] - B[k]
    BY <1>7, <1>10 DEF StartRow
  <2>3. n - 1 \in k .. n /\ n \in k .. n /\ n \in 1 .. n
    BY <1>2, <1>10
  <2>4. B[n - 1] - B[k] = sum[n - 1] - sum[k]
    BY <1>6, <2>3
  <2>5. B[n - 1] \in Nat /\ B[k] \in Nat
    <3>1. n - 1 \in 0 .. n /\ k \in 0 .. n
      BY <1>2, <2>3
    <3> QED
      BY <1>2, <3>1, BlocksNat
  <2>6. Block(view, n) = Height(view, view.msgs[n]) /\ sum[n] = sum[n - 1] + Height(view, view.msgs[n])
        /\ sum[n - 1] \in Nat /\ Height(view, view.msgs[n]) \in Nat
    <3>1. n - 1 \in 0 .. n
      BY <1>2, <2>3
    <3> QED
      BY <1>4, <1>5, <2>3, <3>1
  <2> DEFINE Hn == Height(view, view.msgs[n])
             start == StartRow(view, n)
  <2>7. /\ EndRow(view, n) = start + Hn /\ start = (H - view.skip) + B[n - 1] - B[k]
        /\ sum[n] = sum[n - 1] + Hn /\ sum[n - 1] \in Nat /\ Hn \in Nat
    BY <2>1, <2>2, <2>6
  <2>8. view.skip \in Nat /\ view.port \in Nat /\ sum[o] + view.skip = sum[n] - view.port
        /\ sum[k] = sum[o] + H /\ sum[k] \in Nat /\ sum[o] \in Nat /\ sum[n] \in Nat /\ H \in Nat
    BY <1>2, <1>3, <1>8
  <2> DEFINE sn == sum[n]
             sm == sum[n - 1]
             sk == sum[k]
             so == sum[o]
             bm == B[n - 1]
             bk == B[k]
  <2>9. /\ EndRow(view, n) = start + Hn /\ start = (H - view.skip) + bm - bk
        /\ sn = sm + Hn /\ sm \in Nat /\ Hn \in Nat /\ bm - bk = sm - sk
        /\ so + view.skip = sn - view.port /\ sk = so + H
        /\ bm \in Nat /\ bk \in Nat /\ sk \in Nat /\ so \in Nat /\ sn \in Nat /\ H \in Nat
        /\ view.skip \in Nat /\ view.port \in Nat
    BY <2>4, <2>5, <2>7, <2>8
  <2> HIDE DEF H, Hn, start, sn, sm, sk, so, bm, bk
  <2> QED
    BY ONLY <2>9
<1> QED
  BY <1>9, <1>10

\* One step of the cursor is one row, and the newest position stops it.
LEMMA StepIsOneRowHolds == Good(view) => StepIsOneRow
<1> DEFINE n == Len(view.msgs)
           sum == RowsTo(view)
           o == view.off
           k == o + 1
           s == view.skip
           H == Height(view, view.msgs[k])
<1>1. SUFFICES ASSUME Good(view), HasSelected(view), s < Height(view, Selected(view))
               PROVE  /\ Position(Down(view))
                           = IF Position(view) < Position(Anchored(view)) THEN Position(view) + 1
                             ELSE Position(view)
                      /\ Position(Up(view)) = Max({0, Position(view) - 1})
  BY DEF StepIsOneRow
<1>2. /\ Body(view) /\ view \in ViewRecord /\ n \in Nat /\ o \in Nat /\ s \in Nat
      /\ o < n /\ k \in 1 .. n /\ k - 1 = o /\ Selected(view) = view.msgs[k] /\ s < H
      /\ view.msgs # <<>>
  BY <1>1 DEF Good, Body, ViewRecord, HasSelected, Selected
<1>3. /\ \A i \in 0 .. n : sum[i] \in Nat
      /\ \A i \in 1 .. n : sum[i] = sum[i - 1] + Height(view, view.msgs[i])
      /\ \A i \in 1 .. n : Height(view, view.msgs[i]) \in Nat /\ Height(view, view.msgs[i]) >= 2
      /\ \A i, j \in 0 .. n : i <= j => sum[i] <= sum[j]
      /\ sum[0] = 0
  BY <1>2, RowsFacts, HeightsFacts
<1>4. \A w : Scrolled(view, w) => Position(w) = sum[w.off] + w.skip
  <2>1. \A w : Scrolled(view, w) => RowsTo(w) = sum
    BY <1>2, ScrolledFacts
  <2> QED
    BY <2>1 DEF Position
<1>5. sum[k] = sum[o] + H /\ sum[k] \in Nat /\ sum[o] \in Nat /\ H \in Nat /\ H >= 2
  <2>1. k \in 0 .. n /\ o \in 0 .. n
    BY <1>2
  <2> QED
    BY <1>2, <1>3, <2>1
<1> HIDE DEF H
<1> DEFINE here == sum[o] + s
<1>6. Position(view) = here /\ here \in Nat
  BY <1>2, <1>5 DEF Position
<1>7. PICK a \in Nat, b \in Nat :
        /\ NewestAnchor(view) = <<a, b>>
        /\ a \in 0 .. (n - 1)
        /\ b < Height(view, view.msgs[a + 1])
  <2>1. PICK a \in Nat, b \in Nat :
          /\ NewestAnchor(view) = <<a, b>>
          /\ a \in 0 .. (IF view.msgs = <<>> THEN 0 ELSE n - 1)
          /\ n # 0 => b < Height(view, view.msgs[a + 1])
    BY <1>2, AnchorPlace
  <2> QED
    BY <1>2, <2>1
<1> DEFINE newest == sum[a] + b
           past == o > a \/ (o = a /\ s >= b)
<1>8. Position(Anchored(view)) = newest /\ newest \in Nat
  <2>1. Scrolled(view, Anchored(view))
    BY <1>2, AnchoredFacts
  <2>2. Anchored(view).off = a /\ Anchored(view).skip = b
    <3>1. Anchored(view) = [view EXCEPT !.off = a, !.skip = b]
      BY <1>7 DEF Anchored
    <3> QED
      BY <1>2, <3>1 DEF ViewRecord
  <2>3. a \in 0 .. n
    BY <1>2, <1>7
  <2> QED
    BY <1>3, <1>4, <1>7, <2>1, <2>2, <2>3
<1>9. past <=> ~(here < newest)
  <2> DEFINE HA == Height(view, view.msgs[a + 1])
  <2>1. /\ a \in 0 .. n /\ a + 1 \in 0 .. n /\ a + 1 \in 1 .. n /\ a + 1 - 1 = a
        /\ o \in 0 .. n /\ k \in 0 .. n
    BY <1>2, <1>7
  <2>2. /\ sum[a + 1] = sum[a] + HA /\ b < HA /\ sum[a] \in Nat /\ sum[a + 1] \in Nat /\ HA \in Nat
        /\ (a + 1 <= o => sum[a + 1] <= sum[o])
        /\ (k <= a => sum[k] <= sum[a])
    BY <1>3, <1>7, <2>1
  <2> DEFINE so == sum[o]
             sa == sum[a]
             sk == sum[k]
             sb == sum[a + 1]
  <2>3. /\ sb = sa + HA /\ b < HA /\ sa \in Nat /\ sb \in Nat /\ HA \in Nat
        /\ (a + 1 <= o => sb <= so) /\ (k <= a => sk <= sa) /\ k = o + 1
        /\ sk = so + H /\ so \in Nat /\ sk \in Nat /\ H \in Nat /\ s < H
        /\ o \in Nat /\ s \in Nat /\ a \in Nat /\ b \in Nat
        /\ here = so + s /\ newest = sa + b
        /\ (o = a => so = sa)
    BY <1>2, <1>5, <1>7, <2>1, <2>2
  <2> HIDE DEF so, sa, sk, sb, HA, sum, o, k, s, here, newest
  <2> QED
    BY ONLY <2>3
<1>10. AtOrPastNewest(view) <=> past
  BY <1>7 DEF AtOrPastNewest
<1>11. ASSUME NEW x, Scrolled(view, x), Good(x)
       PROVE  Position(CaughtUp(x)) = sum[x.off] + x.skip
  <2>1. Scrolled(view, CaughtUp(x)) /\ CaughtUp(x).off = x.off /\ CaughtUp(x).skip = x.skip
    <3>1. CASE AtNewest(x)
      BY <1>11, <3>1 DEF CaughtUp, Scrolled, ViewRecord
    <3>2. CASE ~AtNewest(x)
      BY <1>11, <3>2 DEF CaughtUp
    <3> QED
      BY <3>1, <3>2
  <2> QED
    BY <1>4, <2>1
<1>12. Position(Down(view)) = IF here < newest THEN here + 1 ELSE here
  <2> DEFINE w1 == [view EXCEPT !.skip = @ + 1]
             w2 == [view EXCEPT !.off = @ + 1, !.skip = 0]
             Hs == Height(view, Selected(view))
  <2>1. Down(view) = IF past THEN view
                     ELSE IF s + 1 < Hs THEN CaughtUp(w1)
                     ELSE IF o + 1 < n THEN CaughtUp(w2)
                     ELSE CaughtUp(view)
    BY <1>2, <1>10 DEF Down
  <2>2. Hs = H
    BY <1>2 DEF H
  <2> HIDE DEF Hs
  <2>3. CASE past
    BY <1>6, <1>9, <2>1, <2>3
  <2>4. CASE ~past /\ s + 1 < H
    <3>1. Scrolled(view, w1) /\ w1.off = o /\ w1.skip = s + 1
      <4> DEFINE y == s + 1
      <4>1. y \in Nat /\ w1 = [view EXCEPT !.skip = y]
        BY <1>2
      <4> HIDE DEF y, w1
      <4>2. Scrolled(view, w1) /\ w1.off = view.off /\ w1.skip = y
        BY <1>2, <4>1 DEF Scrolled, ViewRecord
      <4> QED
        BY <4>2 DEF y
    <3>2. Down(view) = CaughtUp(w1)
      BY <2>1, <2>2, <2>4
    <3> HIDE DEF w1
    <3>3. InHistory(view, w1.off)
      BY <1>1, <3>1 DEF Good, InHistory
    <3>4. Good(w1)
      BY <1>2, <3>1, <3>3, ScrolledFacts
    <3>5. Position(Down(view)) = sum[o] + (s + 1)
      BY <1>11, <3>1, <3>2, <3>4
    <3>6. sum[o] + (s + 1) = here + 1
      BY <1>2, <1>5
    <3> QED
      BY <1>9, <2>4, <3>5, <3>6
  <2>5. CASE ~past /\ ~(s + 1 < H)
    <3>1. s + 1 = H
      BY <1>2, <1>5, <2>5 DEF H
    <3>2. k < n
      <4>1. CASE o < a
        BY <1>2, <1>7, <4>1
      <4>2. CASE o = a /\ s < b
        <5>1. b < H /\ s + 1 <= b
          BY <1>2, <1>7, <4>2 DEF H
        <5> QED
          BY <1>2, <1>7, <3>1, <5>1
      <4> QED
        BY <1>2, <1>7, <2>5, <4>1, <4>2
    <3>3. Down(view) = CaughtUp(w2)
      BY <2>1, <2>2, <2>5, <3>2
    <3>4. Scrolled(view, w2) /\ w2.off = k /\ w2.skip = 0
      <4> HIDE DEF sum
      <4>1. k \in Nat /\ w2 = [view EXCEPT !.off = k, !.skip = 0]
        BY <1>2
      <4> HIDE DEF k, w2
      <4> QED
        BY <1>2, <4>1 DEF Scrolled, ViewRecord
    <3> HIDE DEF w2
    <3>5. InHistory(view, w2.off)
      BY <1>2, <3>2, <3>4 DEF InHistory
    <3>6. Good(w2)
      BY <1>2, <3>4, <3>5, ScrolledFacts
    <3>7. Position(Down(view)) = sum[k] + 0
      BY <1>11, <3>3, <3>4, <3>6
    <3>8. sum[k] + 0 = here + 1
      <4> HIDE DEF sum
      <4> QED
        BY <1>2, <1>5, <3>1
    <3> QED
      BY <1>9, <2>5, <3>7, <3>8
  <2> QED
    BY <2>3, <2>4, <2>5
<1>13. Position(Up(view)) = Max({0, here - 1})
  <2> DEFINE w1 == [view EXCEPT !.skip = @ - 1]
             HU == Height(view, view.msgs[o])
             w2 == [view EXCEPT !.off = @ - 1, !.skip = HU - 1]
  <2>1. Up(view) = CASE s > 0 -> w1
                     [] s = 0 /\ o > 0 -> w2
                     [] OTHER -> view
    BY DEF Up
  <2>2. Max({0, here - 1}) = IF 0 >= here - 1 THEN 0 ELSE here - 1
    <3> DEFINE e == here - 1
    <3>1. e \in Int
      BY <1>6
    <3> HIDE DEF e
    <3>2. Max({0, e}) = IF 0 >= e THEN 0 ELSE e
      BY <3>1, OfTwo
    <3> QED
      BY <3>2 DEF e
  <2>3. CASE s > 0
    <3>1. Scrolled(view, w1) /\ w1.off = o /\ w1.skip = s - 1
      BY <1>2, <2>3 DEF Scrolled, ViewRecord
    <3>2. Position(w1) = sum[o] + (s - 1)
      BY <1>4, <3>1
    <3>3. Up(view) = w1
      BY <1>2, <2>1, <2>3
    <3> HIDE DEF w1, sum
    <3> QED
      BY <1>2, <1>5, <2>2, <2>3, <3>2, <3>3
  <2>4. CASE s = 0 /\ o > 0
    <3>1. o \in 1 .. n /\ HU \in Nat /\ HU >= 2 /\ sum[o] = sum[o - 1] + HU /\ sum[o - 1] \in Nat
      <4>1. o \in 1 .. n /\ o - 1 \in 0 .. n
        BY <1>2, <2>4
      <4> QED
        BY <1>3, <4>1
    <3> HIDE DEF HU
    <3>2. Scrolled(view, w2) /\ w2.off = o - 1 /\ w2.skip = HU - 1
      <4> DEFINE x == o - 1
                 y == HU - 1
      <4>1. x \in Nat /\ y \in Nat
        BY <1>2, <2>4, <3>1
      <4>2. w2 = [view EXCEPT !.off = x, !.skip = y]
        OBVIOUS
      <4>3. w2.off = o - 1 => w2.off = x
        OBVIOUS
      <4> HIDE DEF x, y, w2
      <4>4. Scrolled(view, w2) /\ w2.off = x /\ w2.skip = y
        BY <1>2, <4>1, <4>2 DEF Scrolled, ViewRecord
      <4> QED
        BY <4>4 DEF x, y
    <3>3. Position(w2) = sum[o - 1] + (HU - 1)
      BY <1>4, <3>2
    <3>4. Up(view) = w2
      BY <1>2, <2>1, <2>4
    <3> DEFINE so == sum[o]
               sm == sum[o - 1]
               top == Max({0, here - 1})
               at == Position(Up(view))
    <3>5. /\ at = sm + (HU - 1) /\ so = sm + HU /\ sm \in Nat /\ HU \in Nat /\ HU >= 2
          /\ here = so /\ top = IF 0 >= here - 1 THEN 0 ELSE here - 1
      BY <1>2, <1>5, <2>2, <2>4, <3>1, <3>3, <3>4
    <3> HIDE DEF so, sm, top, at, here
    <3>6. at = top
      BY ONLY <3>5
    <3> QED
      BY <3>6 DEF at, top
  <2>5. CASE s = 0 /\ o = 0
    <3>1. Up(view) = view
      BY <1>2, <2>1, <2>5
    <3>2. here = 0
      BY <1>3, <2>5
    <3> QED
      BY <1>6, <2>2, <3>1, <3>2
  <2> QED
    BY <1>2, <2>3, <2>4, <2>5
<1> QED
  BY <1>6, <1>8, <1>12, <1>13

\* The rows the view counts, steps by and anchors to are the rows that are drawn
\* (newest_anchor and message_height, and the renderer's blocks).
THEOREM RowsAgreeHolds == Spec => []RowsAgree
<1>1. IInv => RowsAgree
  BY TypedIsTypeOK, NewestOnLastRowHolds, StepIsOneRowHolds DEF IInv, Typed, RowsAgree
<1> QED
  BY <1>1, Invariance, PTL
=============================================================================
