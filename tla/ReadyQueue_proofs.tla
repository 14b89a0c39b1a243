------------------------- MODULE ReadyQueue_proofs -------------------------
(***************************************************************************)
(* What the list operations of ReadyQueue do to the threads a list holds,  *)
(* to their uniqueness and to the emptiness of the lists.  The proofs      *)
(* about the scheduler use these facts and never look into a sequence.     *)
(***************************************************************************)
EXTENDS ReadyQueue, SequenceTheorems, TLAPS

\* An empty list is one that holds nothing.
LEMMA EmptyHoldsNothing ==
    ASSUME NEW S, NEW s \in Seq(S)
    PROVE  /\ s = <<>> <=> \A x : ~In(s, x)
           /\ \A x : In(s, x) => x \in S
<1>1. DOMAIN s = 1 .. Len(s) /\ Len(s) \in Nat
  BY LenProperties
<1>2. s = <<>> <=> Len(s) = 0
  BY EmptySeq
<1>3. ASSUME s # <<>> PROVE In(s, s[1])
  BY <1>1, <1>2, <1>3 DEF In
<1>4. ASSUME NEW x, In(s, x) PROVE x \in S /\ s # <<>>
  BY <1>1, <1>2, <1>4, ElementOfSeq DEF In
<1>5. QED
  BY <1>3, <1>4

\* OS_ListAppend of a thread.
LEMMA AppendHolds ==
    ASSUME NEW S, NEW s \in Seq(S), NEW t \in S
    PROVE  /\ Append(s, t) \in Seq(S)
           /\ \A x : In(Append(s, t), x) <=> In(s, x) \/ x = t
           /\ Distinct(s) /\ ~In(s, t) => Distinct(Append(s, t))
<1> DEFINE u == Append(s, t)
<1>1. /\ u \in Seq(S) /\ Len(u) = Len(s) + 1 /\ Len(s) \in Nat
      /\ \A i \in 1 .. Len(s) : u[i] = s[i]
      /\ u[Len(s) + 1] = t
  BY AppendProperties, LenProperties
<1>2. DOMAIN s = 1 .. Len(s) /\ DOMAIN u = 1 .. (Len(s) + 1)
  BY <1>1, LenProperties
<1> HIDE DEF u
<1>3. ASSUME NEW x PROVE In(u, x) <=> In(s, x) \/ x = t
  <2>1. ASSUME In(u, x) PROVE In(s, x) \/ x = t
    <3>1. PICK i \in 1 .. (Len(s) + 1) : u[i] = x
      BY <1>2, <2>1 DEF In
    <3>2. CASE i \in 1 .. Len(s)
      BY <1>1, <1>2, <3>1, <3>2 DEF In
    <3>3. CASE i = Len(s) + 1
      BY <1>1, <3>1, <3>3
    <3>4. QED
      BY <1>1, <3>2, <3>3
  <2>2. ASSUME In(s, x) PROVE In(u, x)
    <3>1. PICK i \in 1 .. Len(s) : s[i] = x
      BY <1>2, <2>2 DEF In
    <3>2. i \in 1 .. (Len(s) + 1) /\ u[i] = x
      BY <1>1, <3>1
    <3>3. QED
      BY <1>2, <3>2 DEF In
  <2>3. In(u, t)
    BY <1>1, <1>2 DEF In
  <2>4. QED
    BY <2>1, <2>2, <2>3
<1>4. ASSUME Distinct(s), ~In(s, t),
             NEW i \in 1 .. (Len(s) + 1), NEW j \in 1 .. (Len(s) + 1), u[i] = u[j]
      PROVE  i = j
  <2>1. \A k \in 1 .. Len(s) : s[k] # t
    BY <1>2, <1>4 DEF In
  <2>2. CASE i \in 1 .. Len(s) /\ j \in 1 .. Len(s)
    BY <1>1, <1>2, <1>4, <2>2 DEF Distinct
  <2>3. CASE i = Len(s) + 1 /\ j \in 1 .. Len(s)
    BY <1>1, <1>4, <2>1, <2>3
  <2>4. CASE j = Len(s) + 1 /\ i \in 1 .. Len(s)
    BY <1>1, <1>4, <2>1, <2>4
  <2>5. QED
    BY <1>1, <2>2, <2>3, <2>4
<1>5. Distinct(s) /\ ~In(s, t) => Distinct(u)
  BY <1>2, <1>4 DEF Distinct
<1>6. QED
  BY <1>1, <1>3, <1>5 DEF u

\* OS_ListInsert of a thread.
LEMMA ConsHolds ==
    ASSUME NEW S, NEW s \in Seq(S), NEW t \in S
    PROVE  /\ <<t>> \o s \in Seq(S)
           /\ \A x : In(<<t>> \o s, x) <=> In(s, x) \/ x = t
           /\ Distinct(s) /\ ~In(s, t) => Distinct(<<t>> \o s)
<1> DEFINE u == <<t>> \o s
<1>1. <<t>> \in Seq(S) /\ Len(<<t>>) = 1 /\ <<t>>[1] = t
  OBVIOUS
<1>2. /\ u \in Seq(S) /\ Len(u) = Len(s) + 1 /\ Len(s) \in Nat
      /\ \A i \in 1 .. (Len(s) + 1) : u[i] = IF i = 1 THEN t ELSE s[i - 1]
  BY <1>1, ConcatProperties, LenProperties
<1>3. DOMAIN s = 1 .. Len(s) /\ DOMAIN u = 1 .. (Len(s) + 1)
  BY <1>2, LenProperties
<1> HIDE DEF u
<1>4. ASSUME NEW x PROVE In(u, x) <=> In(s, x) \/ x = t
  <2>1. ASSUME In(u, x) PROVE In(s, x) \/ x = t
    <3>1. PICK i \in 1 .. (Len(s) + 1) : u[i] = x
      BY <1>3, <2>1 DEF In
    <3>2. CASE i = 1
      BY <1>2, <3>1, <3>2
    <3>3. CASE i # 1
      <4>1. i - 1 \in 1 .. Len(s) /\ s[i - 1] = x
        BY <1>2, <3>1, <3>3
      <4>2. QED
        BY <1>3, <4>1 DEF In
    <3>4. QED
      BY <3>2, <3>3
  <2>2. ASSUME In(s, x) PROVE In(u, x)
    <3>1. PICK i \in 1 .. Len(s) : s[i] = x
      BY <1>3, <2>2 DEF In
    <3>2. i + 1 \in 1 .. (Len(s) + 1) /\ u[i + 1] = x
      BY <1>2, <3>1
    <3>3. QED
      BY <1>3, <3>2 DEF In
  <2>3. In(u, t)
    BY <1>2, <1>3 DEF In
  <2>4. QED
    BY <2>1, <2>2, <2>3
<1>5. ASSUME Distinct(s), ~In(s, t),
             NEW i \in 1 .. (Len(s) + 1), NEW j \in 1 .. (Len(s) + 1), u[i] = u[j]
      PROVE  i = j
  <2>1. \A k \in 1 .. Len(s) : s[k] # t
    BY <1>3, <1>5 DEF In
  <2>2. CASE i # 1 /\ j # 1
    <3>1. /\ i - 1 \in 1 .. Len(s) /\ j - 1 \in 1 .. Len(s)
          /\ s[i - 1] = s[j - 1]
      BY <1>2, <1>5, <2>2
    <3>2. i - 1 = j - 1
      BY <1>3, <1>5, <3>1 DEF Distinct
    <3>3. QED
      BY <3>2
  <2>3. CASE i = 1 /\ j # 1
    BY <1>2, <1>5, <2>1, <2>3
  <2>4. CASE j = 1 /\ i # 1
    BY <1>2, <1>5, <2>1, <2>4
  <2>5. QED
    BY <2>2, <2>3, <2>4
<1>6. Distinct(s) /\ ~In(s, t) => Distinct(u)
  BY <1>3, <1>5 DEF Distinct
<1>7. QED
  BY <1>2, <1>4, <1>6 DEF u

\* OS_ListGetNode takes the first node.
LEMMA TailHolds ==
    ASSUME NEW S, NEW s \in Seq(S), s # <<>>
    PROVE  /\ Tail(s) \in Seq(S) /\ Head(s) \in S
           /\ In(s, Head(s))
           /\ \A x : In(Tail(s), x) => In(s, x)
           /\ \A x : In(s, x) => In(Tail(s), x) \/ x = Head(s)
           /\ Distinct(s) => Distinct(Tail(s)) /\ ~In(Tail(s), Head(s))
<1> DEFINE u == Tail(s)
<1>1. /\ Len(s) \in Nat /\ Len(s) > 0 /\ DOMAIN s = 1 .. Len(s)
      /\ Head(s) = s[1] /\ Head(s) \in S
  BY LenProperties, EmptySeq, HeadTailProperties
<1>2. /\ u \in Seq(S) /\ Len(u) = Len(s) - 1
      /\ \A i \in 1 .. Len(u) : u[i] = s[i + 1]
  BY HeadTailProperties
<1>3. DOMAIN u = 1 .. (Len(s) - 1)
  BY <1>2, LenProperties
<1> HIDE DEF u
<1>4. In(s, Head(s))
  BY <1>1 DEF In
<1>5. ASSUME NEW x, In(u, x) PROVE In(s, x)
  <2>1. PICK i \in 1 .. (Len(s) - 1) : u[i] = x
    BY <1>3, <1>5 DEF In
  <2>2. i + 1 \in 1 .. Len(s) /\ s[i + 1] = x
    BY <1>1, <1>2, <2>1
  <2>3. QED
    BY <1>1, <2>2 DEF In
<1>6. ASSUME NEW x, In(s, x), x # Head(s) PROVE In(u, x)
  <2>1. PICK i \in 1 .. Len(s) : s[i] = x
    BY <1>1, <1>6 DEF In
  <2>2. i - 1 \in 1 .. (Len(s) - 1) /\ u[i - 1] = x
    BY <1>1, <1>2, <1>6, <2>1
  <2>3. QED
    BY <1>3, <2>2 DEF In
<1>7. ASSUME Distinct(s),
             NEW i \in 1 .. (Len(s) - 1), NEW j \in 1 .. (Len(s) - 1), u[i] = u[j]
      PROVE  i = j
  <2>1. /\ i + 1 \in 1 .. Len(s) /\ j + 1 \in 1 .. Len(s)
        /\ s[i + 1] = s[j + 1]
    BY <1>1, <1>2, <1>7
  <2>2. i + 1 = j + 1
    BY <1>1, <1>7, <2>1 DEF Distinct
  <2>3. QED
    BY <2>2
<1>8. ASSUME Distinct(s) PROVE ~In(u, Head(s))
  <2>1. ASSUME NEW i \in 1 .. (Len(s) - 1), u[i] = Head(s) PROVE FALSE
    <3>1. /\ i + 1 \in 1 .. Len(s) /\ 1 \in 1 .. Len(s)
          /\ s[i + 1] = s[1]
      BY <1>1, <1>2, <2>1
    <3>2. i + 1 = 1
      BY <1>1, <1>8, <3>1 DEF Distinct
    <3>3. QED
      BY <3>2
  <2>2. QED
    BY <1>3, <2>1 DEF In
<1>9. Distinct(s) => Distinct(u)
  BY <1>3, <1>7 DEF Distinct
<1>10. QED
  BY <1>1, <1>2, <1>4, <1>5, <1>6, <1>8, <1>9 DEF u

\* The nodes before place n + 1, and those from place m on.
LEMMA PrefixIs ==
    ASSUME NEW S, NEW s \in Seq(S), NEW n \in 0 .. Len(s)
    PROVE  LET a == SubSeq(s, 1, n)
           IN  /\ a \in Seq(S) /\ Len(a) = n
               /\ \A i \in 1 .. n : a[i] = s[i]
<1> DEFINE a == SubSeq(s, 1, n)
<1>1. /\ Len(s) \in Nat /\ n \in Int
      /\ \A i \in 1 .. n : s[i] \in S
  BY LenProperties, ElementOfSeq
<1>2. /\ a \in Seq(S) /\ Len(a) = IF 1 <= n THEN n - 1 + 1 ELSE 0
      /\ \A i \in 1 .. (n - 1 + 1) : a[i] = s[1 + i - 1]
  BY <1>1, SubSeqProperties
<1> HIDE DEF a
<1>3. Len(a) = n /\ \A i \in 1 .. n : a[i] = s[i]
  BY <1>1, <1>2
<1>4. QED
  BY <1>2, <1>3 DEF a

LEMMA SuffixIs ==
    ASSUME NEW S, NEW s \in Seq(S), NEW m \in 1 .. (Len(s) + 1)
    PROVE  LET b == SubSeq(s, m, Len(s))
           IN  /\ b \in Seq(S) /\ Len(b) = Len(s) + 1 - m
               /\ \A i \in 1 .. (Len(s) + 1 - m) : b[i] = s[m - 1 + i]
<1> DEFINE b == SubSeq(s, m, Len(s))
<1>1. /\ Len(s) \in Int /\ m \in Int /\ m <= Len(s) + 1
      /\ \A i \in m .. Len(s) : s[i] \in S
  BY LenProperties, ElementOfSeq
<1>2. /\ b \in Seq(S) /\ Len(b) = IF m <= Len(s) THEN Len(s) - m + 1 ELSE 0
      /\ \A i \in 1 .. (Len(s) - m + 1) : b[i] = s[m + i - 1]
  BY <1>1, SubSeqProperties
<1> HIDE DEF b
<1>3. Len(b) = Len(s) + 1 - m
  <2>1. CASE m <= Len(s)
    BY <1>1, <1>2, <2>1
  <2>2. CASE ~(m <= Len(s))
    <3>1. m = Len(s) + 1 /\ Len(b) = 0
      BY <1>1, <1>2, <2>2
    <3>2. QED
      BY <1>1, <3>1
  <2>3. QED
    BY <2>1, <2>2
<1>4. ASSUME NEW i \in 1 .. (Len(s) + 1 - m) PROVE b[i] = s[m - 1 + i]
  <2>1. i \in 1 .. (Len(s) - m + 1) /\ m + i - 1 = m - 1 + i
    BY <1>1
  <2>2. QED
    BY <1>2, <2>1
<1>5. QED
  BY <1>2, <1>3, <1>4 DEF b

\* OS_ListExtract of a node in the list: those behind it move up.
LEMMA WithoutIs ==
    ASSUME NEW S, NEW s \in Seq(S), NEW t, In(s, t)
    PROVE  LET u == Without(s, t)
           IN  /\ u \in Seq(S) /\ Len(u) = Len(s) - 1
               /\ \E k \in 1 .. Len(s) :
                     /\ s[k] = t
                     /\ \A i \in 1 .. (Len(s) - 1) : u[i] = IF i < k THEN s[i] ELSE s[i + 1]
<1> DEFINE k == CHOOSE j \in DOMAIN s : s[j] = t
           a == SubSeq(s, 1, k - 1)
           b == SubSeq(s, k + 1, Len(s))
           u == a \o b
<1>1. Len(s) \in Nat /\ DOMAIN s = 1 .. Len(s)
  BY LenProperties
<1>2. k \in 1 .. Len(s) /\ s[k] = t
  BY <1>1 DEF In
<1>3. Without(s, t) = u
  BY DEF Without
<1> HIDE DEF k
<1>4. /\ a \in Seq(S) /\ Len(a) = k - 1
      /\ \A i \in 1 .. (k - 1) : a[i] = s[i]
  <2>1. k - 1 \in 0 .. Len(s)
    BY <1>1, <1>2
  <2>2. QED
    BY <2>1, PrefixIs
<1>5. /\ b \in Seq(S) /\ Len(b) = Len(s) - k
      /\ \A i \in 1 .. (Len(s) - k) : b[i] = s[k + i]
  <2> HIDE DEF a, b
  <2>1. /\ k + 1 \in 1 .. (Len(s) + 1)
        /\ Len(s) + 1 - (k + 1) = Len(s) - k /\ (k + 1) - 1 = k
    <3>1. k \in Int /\ Len(s) \in Int /\ 1 <= k /\ k <= Len(s)
      BY <1>1, <1>2
    <3>2. QED
      BY <3>1
  <2>2. /\ b \in Seq(S) /\ Len(b) = Len(s) + 1 - (k + 1)
        /\ \A i \in 1 .. (Len(s) + 1 - (k + 1)) : b[i] = s[(k + 1) - 1 + i]
    BY <2>1, SuffixIs DEF b
  <2>3. QED
    BY <2>1, <2>2
<1> HIDE DEF a, b
<1>6. /\ u \in Seq(S) /\ Len(u) = Len(a) + Len(b)
      /\ \A i \in 1 .. (Len(a) + Len(b)) :
            u[i] = IF i <= Len(a) THEN a[i] ELSE b[i - Len(a)]
  BY <1>4, <1>5, ConcatProperties
<1>7. Len(a) + Len(b) = Len(s) - 1
  BY <1>1, <1>2, <1>4, <1>5
<1>8. ASSUME NEW i \in 1 .. (Len(s) - 1)
      PROVE  u[i] = IF i < k THEN s[i] ELSE s[i + 1]
  <2>1. CASE i < k
    <3>1. u[i] = a[i] /\ i \in 1 .. (k - 1)
      BY <1>1, <1>2, <1>4, <1>6, <1>7, <2>1
    <3>2. QED
      BY <1>4, <2>1, <3>1
  <2>2. CASE ~(i < k)
    <3>1. /\ u[i] = b[i - (k - 1)] /\ i - (k - 1) \in 1 .. (Len(s) - k)
          /\ k + (i - (k - 1)) = i + 1
      BY <1>1, <1>2, <1>4, <1>6, <1>7, <2>2
    <3>2. QED
      BY <1>5, <2>2, <3>1
  <2>3. QED
    BY <2>1, <2>2
<1>9. QED
  BY <1>2, <1>3, <1>6, <1>7, <1>8

LEMMA WithoutHolds ==
    ASSUME NEW S, NEW s \in Seq(S), NEW t
    PROVE  /\ Without(s, t) \in Seq(S)
           /\ \A x : In(Without(s, t), x) => In(s, x)
           /\ \A x : In(s, x) => In(Without(s, t), x) \/ x = t
           /\ Distinct(s) => Distinct(Without(s, t)) /\ ~In(Without(s, t), t)
<1>1. CASE ~In(s, t)
  BY <1>1 DEF Without
<1>2. CASE In(s, t)
  <2> DEFINE u == Without(s, t)
  <2>1. Len(s) \in Nat /\ DOMAIN s = 1 .. Len(s)
    BY LenProperties
  <2>2. /\ u \in Seq(S) /\ Len(u) = Len(s) - 1
        /\ \E k \in 1 .. Len(s) :
              /\ s[k] = t
              /\ \A i \in 1 .. (Len(s) - 1) : u[i] = IF i < k THEN s[i] ELSE s[i + 1]
    BY <1>2, WithoutIs
  <2> HIDE DEF u
  <2>3. PICK k \in 1 .. Len(s) :
          /\ s[k] = t
          /\ \A i \in 1 .. (Len(s) - 1) : u[i] = IF i < k THEN s[i] ELSE s[i + 1]
    BY <2>2
  <2>4. DOMAIN u = 1 .. (Len(s) - 1)
    BY <2>2, LenProperties
  <2>5. ASSUME NEW x, In(u, x) PROVE In(s, x)
    <3>1. PICK i \in 1 .. (Len(s) - 1) : u[i] = x
      BY <2>4, <2>5 DEF In
    <3>2. i \in 1 .. Len(s) /\ i + 1 \in 1 .. Len(s) /\ (s[i] = x \/ s[i + 1] = x)
      BY <2>1, <2>3, <3>1
    <3>3. QED
      BY <2>1, <3>2 DEF In
  <2>6. ASSUME NEW x, In(s, x), x # t PROVE In(u, x)
    <3>1. PICK i \in 1 .. Len(s) : s[i] = x
      BY <2>1, <2>6 DEF In
    <3>2. CASE i < k
      <4>1. i \in 1 .. (Len(s) - 1) /\ u[i] = x
        BY <2>1, <2>3, <3>1, <3>2
      <4>2. QED
        BY <2>4, <4>1 DEF In
    <3>3. CASE i > k
      <4>1. i - 1 \in 1 .. (Len(s) - 1) /\ u[i - 1] = x
        BY <2>1, <2>3, <3>1, <3>3
      <4>2. QED
        BY <2>4, <4>1 DEF In
    <3>4. i # k
      BY <2>3, <2>6, <3>1
    <3>5. QED
      BY <2>3, <3>1, <3>2, <3>3, <3>4
  <2>7. ASSUME Distinct(s) PROVE Distinct(u)
    <3> DEFINE f(i) == IF i < k THEN i ELSE i + 1
    <3>1. ASSUME NEW i \in 1 .. (Len(s) - 1), NEW j \in 1 .. (Len(s) - 1), u[i] = u[j]
          PROVE  i = j
      <4>1. /\ f(i) \in 1 .. Len(s) /\ f(j) \in 1 .. Len(s)
            /\ s[f(i)] = s[f(j)]
        BY <2>1, <2>3, <3>1
      <4>2. f(i) = f(j)
        BY <2>1, <2>7, <4>1 DEF Distinct
      <4>3. QED
        BY <2>1, <2>3, <4>2
    <3>2. QED
      BY <2>4, <3>1 DEF Distinct
  <2>8. ASSUME Distinct(s) PROVE ~In(u, t)
    <3>1. ASSUME NEW i \in 1 .. (Len(s) - 1), u[i] = t PROVE FALSE
      <4>1. PICK j \in 1 .. Len(s) : s[j] = t /\ j # k
        BY <2>1, <2>3, <3>1
      <4>2. QED
        BY <2>1, <2>3, <2>8, <4>1 DEF Distinct
    <3>2. QED
      BY <2>4, <3>1 DEF In
  <2>9. QED
    BY <2>2, <2>5, <2>6, <2>7, <2>8 DEF u
<1>3. QED
  BY <1>1, <1>2

\* s with t before the node at place i, or at the tail: OS_ListAdd behind the
\* node before it, OS_ListInsert or OS_ListAppend.
Insertion(s, i, t) == SubSeq(s, 1, i - 1) \o <<t>> \o SubSeq(s, i, Len(s))

LEMMA InsertIs ==
    ASSUME NEW S, NEW s \in Seq(S), NEW t \in S, NEW i \in 1 .. (Len(s) + 1)
    PROVE  LET u == Insertion(s, i, t)
           IN  /\ u \in Seq(S) /\ Len(u) = Len(s) + 1
               /\ \A j \in 1 .. (Len(s) + 1) :
                     u[j] = IF j < i THEN s[j] ELSE IF j = i THEN t ELSE s[j - 1]
<1> DEFINE a == SubSeq(s, 1, i - 1)
           b == SubSeq(s, i, Len(s))
           c == a \o <<t>>
           u == c \o b
<1>1. Len(s) \in Nat /\ i \in Int /\ 1 <= i /\ i <= Len(s) + 1
  BY LenProperties
<1>2. /\ a \in Seq(S) /\ Len(a) = i - 1
      /\ \A j \in 1 .. (i - 1) : a[j] = s[j]
  <2>1. i - 1 \in 0 .. Len(s)
    BY <1>1
  <2>2. QED
    BY <2>1, PrefixIs
<1>3. /\ b \in Seq(S) /\ Len(b) = Len(s) + 1 - i
      /\ \A j \in 1 .. (Len(s) + 1 - i) : b[j] = s[i - 1 + j]
  BY SuffixIs
<1> HIDE DEF a, b
<1>4. /\ c \in Seq(S) /\ Len(c) = i
      /\ \A j \in 1 .. i : c[j] = IF j < i THEN s[j] ELSE t
  <2>1. <<t>> \in Seq(S) /\ Len(<<t>>) = 1 /\ <<t>>[1] = t
    OBVIOUS
  <2>2. /\ c \in Seq(S) /\ Len(c) = Len(a) + 1
        /\ \A j \in 1 .. (Len(a) + 1) :
              c[j] = IF j <= Len(a) THEN a[j] ELSE <<t>>[j - Len(a)]
    BY <1>2, <2>1, ConcatProperties
  <2>3. ASSUME NEW j \in 1 .. i PROVE c[j] = IF j < i THEN s[j] ELSE t
    <3>1. CASE j < i
      BY <1>1, <1>2, <2>2, <3>1
    <3>2. CASE ~(j < i)
      <4>1. j - Len(a) = 1 /\ ~(j <= Len(a)) /\ j \in 1 .. (Len(a) + 1)
        BY <1>1, <1>2, <3>2
      <4>2. QED
        BY <2>1, <2>2, <3>2, <4>1
    <3>3. QED
      BY <3>1, <3>2
  <2> HIDE DEF c
  <2>4. QED
    BY <1>1, <1>2, <2>2, <2>3
<1> HIDE DEF c
<1>5. /\ u \in Seq(S) /\ Len(u) = Len(c) + Len(b)
      /\ \A j \in 1 .. (Len(c) + Len(b)) :
            u[j] = IF j <= Len(c) THEN c[j] ELSE b[j - Len(c)]
  BY <1>3, <1>4, ConcatProperties
<1>6. Len(c) + Len(b) = Len(s) + 1
  BY <1>1, <1>3, <1>4
<1>7. ASSUME NEW j \in 1 .. (Len(s) + 1)
      PROVE  u[j] = IF j < i THEN s[j] ELSE IF j = i THEN t ELSE s[j - 1]
  <2>1. CASE j <= i
    <3>1. j \in 1 .. i /\ u[j] = c[j]
      BY <1>1, <1>4, <1>5, <1>6, <2>1
    <3>2. QED
      BY <1>1, <1>4, <2>1, <3>1
  <2>2. CASE ~(j <= i)
    <3>1. /\ u[j] = b[j - i] /\ j - i \in 1 .. (Len(s) + 1 - i)
          /\ i - 1 + (j - i) = j - 1
      BY <1>1, <1>4, <1>5, <1>6, <2>2
    <3>2. QED
      BY <1>1, <1>3, <2>2, <3>1
  <2>3. QED
    BY <2>1, <2>2
<1>8. Insertion(s, i, t) = u
  BY DEF Insertion, a, b, c
<1> HIDE DEF u
<1>9. QED
  BY <1>5, <1>6, <1>7, <1>8

LEMMA InsertHolds ==
    ASSUME NEW S, NEW s \in Seq(S), NEW t \in S, NEW i \in 1 .. (Len(s) + 1)
    PROVE  LET u == Insertion(s, i, t)
           IN  /\ u \in Seq(S)
               /\ \A x : In(u, x) <=> In(s, x) \/ x = t
               /\ Distinct(s) /\ ~In(s, t) => Distinct(u)
<1> DEFINE u == Insertion(s, i, t)
<1>1. /\ u \in Seq(S) /\ Len(u) = Len(s) + 1 /\ Len(s) \in Nat
      /\ \A j \in 1 .. (Len(s) + 1) :
            u[j] = IF j < i THEN s[j] ELSE IF j = i THEN t ELSE s[j - 1]
  BY InsertIs, LenProperties
<1> HIDE DEF u
<1>2. DOMAIN s = 1 .. Len(s) /\ DOMAIN u = 1 .. (Len(s) + 1)
  BY <1>1, LenProperties
<1>3. ASSUME NEW x, In(u, x), x # t PROVE In(s, x)
  <2>1. PICK j \in 1 .. (Len(s) + 1) : u[j] = x
    BY <1>2, <1>3 DEF In
  <2>2. CASE j < i
    BY <1>1, <1>2, <2>1, <2>2 DEF In
  <2>3. CASE ~(j < i)
    <3>1. j - 1 \in 1 .. Len(s) /\ s[j - 1] = x
      BY <1>1, <1>3, <2>1, <2>3
    <3>2. QED
      BY <1>2, <3>1 DEF In
  <2>4. QED
    BY <2>2, <2>3
<1>4. In(u, t)
  BY <1>1, <1>2 DEF In
<1>5. ASSUME NEW x, In(s, x) PROVE In(u, x)
  <2>1. PICK j \in 1 .. Len(s) : s[j] = x
    BY <1>2, <1>5 DEF In
  <2>2. CASE j < i
    <3>1. j \in 1 .. (Len(s) + 1) /\ u[j] = x
      BY <1>1, <2>1, <2>2
    <3>2. QED
      BY <1>2, <3>1 DEF In
  <2>3. CASE ~(j < i)
    <3>1. j + 1 \in 1 .. (Len(s) + 1) /\ u[j + 1] = x
      BY <1>1, <2>1, <2>3
    <3>2. QED
      BY <1>2, <3>1 DEF In
  <2>4. QED
    BY <2>2, <2>3
<1>6. ASSUME Distinct(s), ~In(s, t),
             NEW j \in 1 .. (Len(s) + 1), NEW k \in 1 .. (Len(s) + 1), u[j] = u[k]
      PROVE  j = k
  <2> DEFINE f(n) == IF n < i THEN n ELSE n - 1
  <2>1. \A n \in 1 .. Len(s) : s[n] # t
    BY <1>2, <1>6 DEF In
  <2>2. ASSUME NEW n \in 1 .. (Len(s) + 1), n # i
        PROVE  f(n) \in 1 .. Len(s) /\ u[n] = s[f(n)]
    BY <1>1, <2>2
  <2>3. u[i] = t
    BY <1>1
  <2>4. CASE j # i /\ k # i
    <3>1. f(j) = f(k)
      BY <1>2, <1>6, <2>2, <2>4 DEF Distinct
    <3>2. QED
      BY <2>4, <3>1
  <2>5. CASE j = i \/ k = i
    <3>1. \A n \in 1 .. (Len(s) + 1) : n # i => u[n] # t
      BY <2>1, <2>2
    <3>2. QED
      BY <1>6, <2>3, <2>5, <3>1
  <2>6. QED
    BY <2>4, <2>5
<1>7. Distinct(s) /\ ~In(s, t) => Distinct(u)
  BY <1>2, <1>6 DEF Distinct
<1>8. QED
  BY <1>1, <1>3, <1>4, <1>5, <1>7 DEF u

----------------------------------------------------------------------------
(* Lists in the order of the values f of their threads.                    *)

Sorted(s, f) == \A i, j \in DOMAIN s : i < j => f[s[i]] <= f[s[j]]

\* The order only depends on the values of those in the list.
LEMMA SortedBySameValues ==
    ASSUME NEW s, NEW f, NEW g, Sorted(s, f), \A x : In(s, x) => g[x] = f[x]
    PROVE  Sorted(s, g)
<1>1. \A i \in DOMAIN s : g[s[i]] = f[s[i]]
  BY DEF In
<1>2. QED
  BY <1>1 DEF Sorted

\* OS_ListExtract keeps the order of the others.
LEMMA WithoutKeepsOrder ==
    ASSUME NEW S, NEW s \in Seq(S), NEW t, NEW f, Sorted(s, f)
    PROVE  Sorted(Without(s, t), f)
<1>1. CASE ~In(s, t)
  BY <1>1 DEF Without
<1>2. CASE In(s, t)
  <2> DEFINE u == Without(s, t)
             g(k, i) == IF i < k THEN i ELSE i + 1
  <2>1. Len(s) \in Nat /\ DOMAIN s = 1 .. Len(s)
    BY LenProperties
  <2>2. /\ u \in Seq(S) /\ Len(u) = Len(s) - 1
        /\ \E k \in 1 .. Len(s) :
              /\ s[k] = t
              /\ \A i \in 1 .. (Len(s) - 1) : u[i] = IF i < k THEN s[i] ELSE s[i + 1]
    BY <1>2, WithoutIs
  <2> HIDE DEF u
  <2>3. PICK k \in 1 .. Len(s) :
          \A i \in 1 .. (Len(s) - 1) : u[i] = IF i < k THEN s[i] ELSE s[i + 1]
    BY <2>2
  <2>4. DOMAIN u = 1 .. (Len(s) - 1)
    BY <2>2, LenProperties
  <2>5. ASSUME NEW i \in 1 .. (Len(s) - 1), NEW j \in 1 .. (Len(s) - 1), i < j
        PROVE  f[u[i]] <= f[u[j]]
    <3>1. /\ g(k, i) \in DOMAIN s /\ g(k, j) \in DOMAIN s /\ g(k, i) < g(k, j)
          /\ u[i] = s[g(k, i)] /\ u[j] = s[g(k, j)]
      BY <2>1, <2>3, <2>5
    <3>2. QED
      BY <3>1 DEF Sorted
  <2>6. QED
    BY <2>4, <2>5 DEF Sorted, u
<1>3. QED
  BY <1>1, <1>2

\* So does OS_ListGetNode.
LEMMA TailKeepsOrder ==
    ASSUME NEW S, NEW s \in Seq(S), s # <<>>, NEW f, Sorted(s, f)
    PROVE  Sorted(Tail(s), f)
<1> DEFINE u == Tail(s)
<1>1. /\ Len(s) \in Nat /\ DOMAIN s = 1 .. Len(s)
      /\ u \in Seq(S) /\ Len(u) = Len(s) - 1
      /\ \A i \in 1 .. Len(u) : u[i] = s[i + 1]
  BY LenProperties, EmptySeq, HeadTailProperties
<1>2. DOMAIN u = 1 .. (Len(s) - 1)
  BY <1>1, LenProperties
<1> HIDE DEF u
<1>3. ASSUME NEW i \in 1 .. (Len(s) - 1), NEW j \in 1 .. (Len(s) - 1), i < j
      PROVE  f[u[i]] <= f[u[j]]
  <2>1. /\ i + 1 \in DOMAIN s /\ j + 1 \in DOMAIN s /\ i + 1 < j + 1
        /\ u[i] = s[i + 1] /\ u[j] = s[j + 1]
    BY <1>1, <1>3
  <2>2. QED
    BY <2>1 DEF Sorted
<1>4. QED
  BY <1>2, <1>3 DEF Sorted, u

\* A thread inserted between those that are not later and a later one.
LEMMA InsertKeepsOrder ==
    ASSUME NEW S, NEW s \in Seq(S), NEW t \in S, NEW i \in 1 .. (Len(s) + 1),
           NEW f, \A x \in S : f[x] \in Int, Sorted(s, f),
           \A j \in 1 .. (i - 1) : f[s[j]] <= f[t],
           i <= Len(s) => f[t] < f[s[i]]
    PROVE  Sorted(Insertion(s, i, t), f)
<1> DEFINE u == Insertion(s, i, t)
           g(n) == IF n < i THEN n ELSE n - 1
<1>1. /\ u \in Seq(S) /\ Len(u) = Len(s) + 1 /\ Len(s) \in Nat
      /\ \A j \in 1 .. (Len(s) + 1) :
            u[j] = IF j < i THEN s[j] ELSE IF j = i THEN t ELSE s[j - 1]
  BY InsertIs, LenProperties
<1> HIDE DEF u
<1>2. DOMAIN s = 1 .. Len(s) /\ DOMAIN u = 1 .. (Len(s) + 1)
  BY <1>1, LenProperties
<1>3. \A n \in 1 .. Len(s) : f[s[n]] \in Int
  BY ElementOfSeq
<1>4. \A n \in 1 .. Len(s) : i <= n => f[t] <= f[s[n]]
  <2>1. ASSUME NEW n \in 1 .. Len(s), i <= n PROVE f[t] <= f[s[n]]
    <3>1. i \in 1 .. Len(s) /\ f[t] < f[s[i]]
      BY <1>1, <2>1
    <3>2. i = n \/ f[s[i]] <= f[s[n]]
      BY <1>2, <2>1, <3>1 DEF Sorted
    <3>3. f[t] \in Int /\ f[s[i]] \in Int /\ f[s[n]] \in Int
      BY <1>3, <3>1
    <3>4. QED
      BY <3>1, <3>2, <3>3
  <2>2. QED
    BY <2>1
<1>5. ASSUME NEW n \in 1 .. (Len(s) + 1), n # i
      PROVE  g(n) \in 1 .. Len(s) /\ u[n] = s[g(n)]
  BY <1>1, <1>5
<1>6. ASSUME NEW j \in 1 .. (Len(s) + 1), NEW k \in 1 .. (Len(s) + 1), j < k
      PROVE  f[u[j]] <= f[u[k]]
  <2>1. CASE j # i /\ k # i
    <3>1. /\ g(j) \in DOMAIN s /\ g(k) \in DOMAIN s /\ g(j) < g(k)
          /\ u[j] = s[g(j)] /\ u[k] = s[g(k)]
      BY <1>2, <1>5, <1>6, <2>1
    <3>2. QED
      BY <3>1 DEF Sorted
  <2>2. CASE j = i
    <3>1. /\ g(k) \in 1 .. Len(s) /\ i <= g(k) /\ u[k] = s[g(k)]
      BY <1>5, <1>6, <2>2
    <3>2. u[j] = t
      BY <1>1, <2>2
    <3>3. QED
      BY <1>4, <3>1, <3>2
  <2>3. CASE k = i
    <3>1. j \in 1 .. (i - 1) /\ u[j] = s[j]
      BY <1>1, <1>6, <2>3
    <3>2. u[k] = t
      BY <1>1, <2>3
    <3>3. QED
      BY <3>1, <3>2
  <2>4. QED
    BY <2>1, <2>2, <2>3
<1>7. QED
  BY <1>2, <1>6 DEF Sorted, u

----------------------------------------------------------------------------
(* The queues.  Inserted and Removed are all the scheduler's proofs need   *)
(* to know of an insertion into, and of a removal from, the list of p.     *)

\* n is q with t put into the list of p, unless t was queued already.
Inserted(S, q, n, t, p) ==
    /\ n \in [Prio -> Seq(S)]
    /\ \A x : Queued(n, x) <=> Queued(q, x) \/ x = t
    /\ \A r \in Prio : \A x : In(n[r], x) => In(q[r], x) \/ (x = t /\ r = p /\ ~Queued(q, t))
    /\ \A r \in Prio : Distinct(q[r]) => Distinct(n[r])
    /\ \A r \in Prio : q[r] = <<>> /\ r # p => n[r] = <<>>

\* n is q with t taken out of the list of p.
Removed(S, q, n, t, p) ==
    /\ n \in [Prio -> Seq(S)]
    /\ \A r \in Prio : \A x : In(n[r], x) => In(q[r], x)
    /\ \A r \in Prio : \A x : In(q[r], x) => In(n[r], x) \/ (x = t /\ r = p)
    /\ Distinct(q[p]) => ~In(n[p], t)
    /\ \A r \in Prio : Distinct(q[r]) => Distinct(n[r])
    /\ \A r \in Prio : q[r] = <<>> => n[r] = <<>>

\* An insertion at either end of one list is an insertion into the queues.
LEMMA InsertInserts ==
    ASSUME NEW S, NEW q \in [Prio -> Seq(S)], NEW t \in S, NEW p \in Prio, ~Queued(q, t),
           NEW s \in Seq(S),
           \A x : In(s, x) <=> In(q[p], x) \/ x = t,
           Distinct(q[p]) /\ ~In(q[p], t) => Distinct(s)
    PROVE  Inserted(S, q, [q EXCEPT ![p] = s], t, p)
<1> DEFINE n == [q EXCEPT ![p] = s]
<1>1. /\ n \in [Prio -> Seq(S)]
      /\ \A r \in Prio : n[r] = IF r = p THEN s ELSE q[r]
  OBVIOUS
<1>2. ~In(q[p], t)
  BY DEF Queued
<1> HIDE DEF n
<1>3. ASSUME NEW x PROVE Queued(n, x) <=> Queued(q, x) \/ x = t
  BY <1>1 DEF Queued
<1>4. ASSUME NEW r \in Prio, NEW x, In(n[r], x)
      PROVE  In(q[r], x) \/ (x = t /\ r = p /\ ~Queued(q, t))
  BY <1>1, <1>4
<1>5. \A r \in Prio : Distinct(q[r]) => Distinct(n[r])
  BY <1>1, <1>2
<1>6. \A r \in Prio : q[r] = <<>> /\ r # p => n[r] = <<>>
  BY <1>1
<1>7. QED
  BY <1>1, <1>3, <1>4, <1>5, <1>6 DEF Inserted, n

\* A thread that is queued already is not inserted.
LEMMA NoInsert ==
    ASSUME NEW S, NEW q \in [Prio -> Seq(S)], NEW t, NEW p, Queued(q, t)
    PROVE  Inserted(S, q, q, t, p)
BY DEF Inserted

\* OS_SchedAddQueueTail.
LEMMA AddTailInserts ==
    ASSUME NEW S, NEW q \in [Prio -> Seq(S)], NEW t \in S, NEW p \in Prio
    PROVE  Inserted(S, q, AddTail(q, t, p), t, p)
<1>1. CASE Queued(q, t)
  BY <1>1, NoInsert DEF AddTail
<1>2. CASE ~Queued(q, t)
  <2>1. q[p] \in Seq(S)
    OBVIOUS
  <2> DEFINE s == Append(q[p], t)
  <2>2. AddTail(q, t, p) = [q EXCEPT ![p] = s]
    BY <1>2 DEF AddTail
  <2>3. /\ s \in Seq(S)
        /\ \A x : In(s, x) <=> In(q[p], x) \/ x = t
        /\ Distinct(q[p]) /\ ~In(q[p], t) => Distinct(s)
    BY <2>1, AppendHolds
  <2> HIDE DEF s
  <2>4. Inserted(S, q, [q EXCEPT ![p] = s], t, p)
    BY <1>2, <2>3, InsertInserts
  <2>5. QED
    BY <2>2, <2>4
<1>3. QED
  BY <1>1, <1>2

\* OS_SchedAddQueueHead.
LEMMA AddHeadInserts ==
    ASSUME NEW S, NEW q \in [Prio -> Seq(S)], NEW t \in S, NEW p \in Prio
    PROVE  Inserted(S, q, AddHead(q, t, p), t, p)
<1>1. CASE Queued(q, t)
  BY <1>1, NoInsert DEF AddHead
<1>2. CASE ~Queued(q, t)
  <2>1. q[p] \in Seq(S)
    OBVIOUS
  <2> DEFINE s == <<t>> \o q[p]
  <2>2. AddHead(q, t, p) = [q EXCEPT ![p] = s]
    BY <1>2 DEF AddHead
  <2>3. /\ s \in Seq(S)
        /\ \A x : In(s, x) <=> In(q[p], x) \/ x = t
        /\ Distinct(q[p]) /\ ~In(q[p], t) => Distinct(s)
    BY <2>1, ConsHolds
  <2> HIDE DEF s
  <2>4. Inserted(S, q, [q EXCEPT ![p] = s], t, p)
    BY <1>2, <2>3, InsertInserts
  <2>5. QED
    BY <2>2, <2>4
<1>3. QED
  BY <1>1, <1>2

LEMMA AddTypes ==
    ASSUME NEW S, NEW q \in [Prio -> Seq(S)], NEW t \in S, NEW p \in Prio
    PROVE  /\ AddTail(q, t, p) \in [Prio -> Seq(S)]
           /\ AddHead(q, t, p) \in [Prio -> Seq(S)]
<1>1. /\ Inserted(S, q, AddTail(q, t, p), t, p)
      /\ Inserted(S, q, AddHead(q, t, p), t, p)
  BY AddTailInserts, AddHeadInserts
<1>2. QED
  BY <1>1 DEF Inserted

\* A removal from one list is a removal from the queues.
LEMMA RemoveRemoves ==
    ASSUME NEW S, NEW q \in [Prio -> Seq(S)], NEW t, NEW p \in Prio,
           NEW s \in Seq(S),
           \A x : In(s, x) => In(q[p], x),
           \A x : In(q[p], x) => In(s, x) \/ x = t,
           Distinct(q[p]) => Distinct(s) /\ ~In(s, t)
    PROVE  Removed(S, q, [q EXCEPT ![p] = s], t, p)
<1> DEFINE n == [q EXCEPT ![p] = s]
<1>1. /\ n \in [Prio -> Seq(S)]
      /\ \A r \in Prio : n[r] = IF r = p THEN s ELSE q[r]
  OBVIOUS
<1> HIDE DEF n
<1>2. q[p] = <<>> => s = <<>>
  <2>1. q[p] \in Seq(S)
    OBVIOUS
  <2>2. q[p] = <<>> => \A x : ~In(q[p], x)
    BY <2>1, EmptyHoldsNothing
  <2>3. (\A x : ~In(s, x)) => s = <<>>
    BY EmptyHoldsNothing
  <2>4. QED
    BY <2>2, <2>3
<1>3. ASSUME NEW r \in Prio, NEW x
      PROVE  /\ In(n[r], x) => In(q[r], x)
             /\ In(q[r], x) => In(n[r], x) \/ (x = t /\ r = p)
  BY <1>1
<1>4. \A r \in Prio : /\ Distinct(q[r]) => Distinct(n[r])
                      /\ q[r] = <<>> => n[r] = <<>>
  BY <1>1, <1>2
<1>5. Distinct(q[p]) => ~In(n[p], t)
  BY <1>1
<1>6. QED
  BY <1>1, <1>3, <1>4, <1>5 DEF Removed, n

\* OS_SchedRemoveThread.
LEMMA RemoveThreadRemoves ==
    ASSUME NEW S, NEW q \in [Prio -> Seq(S)], NEW t, NEW p \in Prio
    PROVE  Removed(S, q, RemoveThread(q, t, p), t, p)
<1>1. q[p] \in Seq(S)
  OBVIOUS
<1> DEFINE s == Without(q[p], t)
<1>2. RemoveThread(q, t, p) = [q EXCEPT ![p] = s]
  BY DEF RemoveThread
<1>3. /\ s \in Seq(S)
      /\ \A x : In(s, x) => In(q[p], x)
      /\ \A x : In(q[p], x) => In(s, x) \/ x = t
      /\ Distinct(q[p]) => Distinct(s) /\ ~In(s, t)
  BY <1>1, WithoutHolds
<1> HIDE DEF s
<1>4. Removed(S, q, [q EXCEPT ![p] = s], t, p)
  BY <1>3, RemoveRemoves
<1>5. QED
  BY <1>2, <1>4

\* OS_Schedule takes the first thread of the list of p.
LEMMA TakeRemoves ==
    ASSUME NEW S, NEW q \in [Prio -> Seq(S)], NEW p \in Prio, q[p] # <<>>
    PROVE  /\ Removed(S, q, [q EXCEPT ![p] = Tail(@)], Head(q[p]), p)
           /\ Head(q[p]) \in S /\ In(q[p], Head(q[p]))
<1>1. q[p] \in Seq(S)
  OBVIOUS
<1>2. [q EXCEPT ![p] = Tail(@)] = [q EXCEPT ![p] = Tail(q[p])]
  OBVIOUS
<1>3. /\ Tail(q[p]) \in Seq(S) /\ Head(q[p]) \in S
      /\ In(q[p], Head(q[p]))
      /\ \A x : In(Tail(q[p]), x) => In(q[p], x)
      /\ \A x : In(q[p], x) => In(Tail(q[p]), x) \/ x = Head(q[p])
      /\ Distinct(q[p]) => Distinct(Tail(q[p])) /\ ~In(Tail(q[p]), Head(q[p]))
  BY <1>1, TailHolds
<1>4. QED
  BY <1>2, <1>3, RemoveRemoves
----------------------------------------------------------------------------
(* QueuesOK: the queues, the scan index and the priorities stay in order.  *)

LEMMA PrioInt == Prio \subseteq Int /\ MinPriority \in Prio /\ MaxPriority \in Prio
BY MaxPrioAssumption DEF Prio, MinPriority, MaxPriority

LEMMA LowerBoundLowered ==
    ASSUME NEW i \in Prio, NEW p \in Prio
    PROVE  /\ Lower(i, p) \in Prio
           /\ \A r \in Prio : r < Lower(i, p) => r < i /\ r # p
BY PrioInt DEF Lower

\* A thread put into the list of its own priority, with the index lowered.
LEMMA InsertKeepsQueues ==
    ASSUME NEW S, NEW T, NEW q, NEW i, NEW pr, QueuesOK(S, T, q, i, pr), NEW t \in S,
           NEW n, Inserted(S, q, n, t, pr[t])
    PROVE  /\ QueuesOK(S, T, n, Lower(i, pr[t]), pr)
           /\ \A x : Queued(n, x) <=> Queued(q, x) \/ x = t
<1>1. pr[t] \in Prio /\ i \in Prio
  BY DEF QueuesOK
<1>2. /\ Lower(i, pr[t]) \in Prio
      /\ \A r \in Prio : r < Lower(i, pr[t]) => r < i /\ r # pr[t]
  BY <1>1, LowerBoundLowered
<1> DEFINE l == Lower(i, pr[t])
<1> HIDE DEF l
<1>3. \A r \in Prio : r < l => n[r] = <<>>
  BY <1>2 DEF QueuesOK, Inserted, l
<1>4. QED
  BY <1>2, <1>3 DEF QueuesOK, Inserted, l

\* OS_SchedAddQueueTail and OS_SchedAddQueueHead.
LEMMA AddTailKeepsQueues ==
    ASSUME NEW S, NEW T, NEW q, NEW i, NEW pr, QueuesOK(S, T, q, i, pr), NEW t \in S
    PROVE  /\ QueuesOK(S, T, AddTail(q, t, pr[t]), Lower(i, pr[t]), pr)
           /\ \A x : Queued(AddTail(q, t, pr[t]), x) <=> Queued(q, x) \/ x = t
<1>1. pr[t] \in Prio /\ q \in [Prio -> Seq(S)]
  BY DEF QueuesOK
<1>2. Inserted(S, q, AddTail(q, t, pr[t]), t, pr[t])
  BY <1>1, AddTailInserts
<1>3. QED
  BY <1>2, InsertKeepsQueues

LEMMA AddHeadKeepsQueues ==
    ASSUME NEW S, NEW T, NEW q, NEW i, NEW pr, QueuesOK(S, T, q, i, pr), NEW t \in S
    PROVE  /\ QueuesOK(S, T, AddHead(q, t, pr[t]), Lower(i, pr[t]), pr)
           /\ \A x : Queued(AddHead(q, t, pr[t]), x) <=> Queued(q, x) \/ x = t
<1>1. pr[t] \in Prio /\ q \in [Prio -> Seq(S)]
  BY DEF QueuesOK
<1>2. Inserted(S, q, AddHead(q, t, pr[t]), t, pr[t])
  BY <1>1, AddHeadInserts
<1>3. QED
  BY <1>2, InsertKeepsQueues

\* A thread in no list may change its priority.
LEMMA NewPriorityKeepsQueues ==
    ASSUME NEW S, NEW T, NEW q, NEW i, NEW pr, QueuesOK(S, T, q, i, pr), NEW t \in S,
           ~Queued(q, t), NEW p \in Prio
    PROVE  QueuesOK(S, T, q, i, [pr EXCEPT ![t] = p])
<1> DEFINE pn == [pr EXCEPT ![t] = p]
<1>1. pn \in [T -> Prio] /\ \A x \in S : x # t => pn[x] = pr[x]
  BY DEF QueuesOK
<1>2. \A r \in Prio : ~In(q[r], t)
  BY DEF Queued
<1> HIDE DEF pn
<1>3. \A r \in Prio : \A x \in S : In(q[r], x) => pn[x] = r
  BY <1>1, <1>2 DEF QueuesOK
<1>4. QED
  BY <1>1, <1>3 DEF QueuesOK, pn

\* A thread taken out of the list it is in.
LEMMA RemoveKeepsQueues ==
    ASSUME NEW S, NEW T, NEW q, NEW i, NEW pr, QueuesOK(S, T, q, i, pr), NEW t \in S,
           NEW p \in Prio, In(q[p], t) \/ p = pr[t],
           NEW n, Removed(S, q, n, t, p)
    PROVE  /\ QueuesOK(S, T, n, i, pr)
           /\ \A x : Queued(n, x) <=> Queued(q, x) /\ x # t
<1>1. /\ n \in [Prio -> Seq(S)]
      /\ \A r \in Prio : \A x : In(n[r], x) => In(q[r], x)
      /\ \A r \in Prio : \A x : In(q[r], x) => In(n[r], x) \/ (x = t /\ r = p)
      /\ ~In(n[p], t)
      /\ \A r \in Prio : Distinct(n[r])
      /\ \A r \in Prio : q[r] = <<>> => n[r] = <<>>
  BY DEF Removed, QueuesOK
<1>2. p = pr[t]
  BY DEF QueuesOK
<1>3. \A r \in Prio : ~In(n[r], t)
  BY <1>1, <1>2 DEF QueuesOK
<1>4. ASSUME NEW x PROVE Queued(n, x) <=> Queued(q, x) /\ x # t
  BY <1>1, <1>3 DEF Queued
<1>5. QueuesOK(S, T, n, i, pr)
  BY <1>1 DEF QueuesOK
<1>6. QED
  BY <1>4, <1>5

\* SYS_SetPriority and SYS_SetTmpPriority of another ready thread.
LEMMA RequeueKeepsQueues ==
    ASSUME NEW S, NEW T, NEW q, NEW i, NEW pr, QueuesOK(S, T, q, i, pr), NEW t \in S,
           NEW p \in Prio, NEW pn \in [T -> Prio], pn[t] = p,
           \A x \in S : x # t => pn[x] = pr[x]
    PROVE  LET n == AddTail(RemoveThread(q, t, pr[t]), t, p)
           IN  /\ QueuesOK(S, T, n, Lower(i, p), pn)
               /\ \A x : Queued(n, x) <=> Queued(q, x) \/ x = t
<1> DEFINE m == RemoveThread(q, t, pr[t])
<1>1. pr[t] \in Prio /\ q \in [Prio -> Seq(S)]
  BY DEF QueuesOK
<1>2. Removed(S, q, m, t, pr[t])
  BY <1>1, RemoveThreadRemoves
<1> HIDE DEF m
<1>3. QueuesOK(S, T, m, i, pr) /\ \A x : Queued(m, x) <=> Queued(q, x) /\ x # t
  BY <1>1, <1>2, RemoveKeepsQueues
<1>4. QueuesOK(S, T, m, i, pn)
  <2>1. \A r \in Prio : ~In(m[r], t)
    BY <1>3 DEF Queued
  <2>2. \A r \in Prio : \A x \in S : In(m[r], x) => pn[x] = r
    BY <1>3, <2>1 DEF QueuesOK
  <2>3. QED
    BY <1>3, <2>2 DEF QueuesOK
<1>5. /\ QueuesOK(S, T, AddTail(m, t, pn[t]), Lower(i, pn[t]), pn)
      /\ \A x : Queued(AddTail(m, t, pn[t]), x) <=> Queued(m, x) \/ x = t
  BY <1>4, AddTailKeepsQueues
<1>6. QED
  BY <1>3, <1>5 DEF m

\* OS_Schedule takes the head of the list where its scan stops, and the index
\* stays there: it never has to wrap round, and what is left agrees.
LEMMA ScanKeepsQueues ==
    ASSUME NEW S, NEW T, NEW q, NEW i, NEW pr, QueuesOK(S, T, q, i, pr),
           NEW p \in Prio, ScanStops(q, i, p),
           NEW n, NEW t \in S, Removed(S, q, n, t, p), In(q[p], t)
    PROVE  /\ i <= p /\ \A r \in Prio : r < p => q[r] = <<>>
           /\ Queued(q, t)
           /\ QueuesOK(S, T, n, p, pr)
           /\ \A x : Queued(n, x) <=> Queued(q, x) /\ x # t
<1>1. /\ i \in Int /\ p \in Int /\ Prio \subseteq Int /\ i \in Prio
      /\ q \in [Prio -> Seq(S)] /\ q[p] # <<>>
  BY PrioInt DEF QueuesOK, ScanStops
<1>2. i <= p /\ \A r \in Prio : r < p => q[r] = <<>>
  <2>1. ~(p < i)
    BY <1>1 DEF QueuesOK
  <2>2. \A r \in Prio : i <= r /\ r < p => q[r] = <<>>
    BY <1>1, <2>1 DEF ScanStops
  <2>3. \A r \in Prio : r < i => q[r] = <<>>
    BY DEF QueuesOK
  <2>4. QED
    BY <1>1, <2>1, <2>2, <2>3
<1>3. Queued(q, t)
  BY DEF Queued
<1>4. /\ QueuesOK(S, T, n, i, pr)
      /\ \A x : Queued(n, x) <=> Queued(q, x) /\ x # t
  BY RemoveKeepsQueues
<1>5. \A r \in Prio : r < p => n[r] = <<>>
  BY <1>2 DEF Removed
<1>6. QueuesOK(S, T, n, p, pr)
  BY <1>4, <1>5 DEF QueuesOK
<1>7. QED
  BY <1>2, <1>3, <1>4, <1>6
=============================================================================
