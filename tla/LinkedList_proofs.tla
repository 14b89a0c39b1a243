-------------------------- MODULE LinkedList_proofs --------------------------
(***************************************************************************)
(* Proofs about the lists of list.c, that an ISR changes between two       *)
(* statements of a thread, for any nodes and any deadlines of theirs.      *)
(*                                                                         *)
(* A list with its header is a ring: Null stands for the header, whose     *)
(* next is the first node and whose prev the last.  The invariant (Sound)  *)
(* says, for each statement of each operation, in which links the list     *)
(* differs from the ring of its queue, what the operation has read into r  *)
(* and h and written into its node, how far the count and the flags lag    *)
(* behind, and, in the time queue, where the sleeper belongs.              *)
(***************************************************************************)
EXTENDS LinkedList, SequenceTheorems, FiniteSetTheorems, TLAPS

LOCAL INSTANCE SequencesExt

----------------------------------------------------------------------------
(* The ring, and the links of an operation under way.                      *)

Pointer == Node \cup {Null}
Lists == [first : Pointer, last : Pointer, num : Int,
          next : [Node -> Pointer], prev : [Node -> Pointer], inside : [Node -> BOOLEAN]]
ListOps == {"none", "walk", "append", "insert", "add", "extract", "getnode"}
ListCalls == [op : ListOps, n : Pointer, at : 1..7, r : Pointer, h : Pointer]

Nxt(l, x) == IF x = Null THEN l.first ELSE l.next[x]
Prv(l, x) == IF x = Null THEN l.last ELSE l.prev[x]

\* The ring of the sequence q.
Place(q, i) == IF i \in 1..Len(q) THEN q[i] ELSE Null
Follows(q, x, y) == \E i \in 0..Len(q) : x = Place(q, i) /\ y = Place(q, i + 1)
Holds(q, x) == \E i \in 1..Len(q) : q[i] = x
Once(q) == \A i, j \in 1..Len(q) : q[i] = q[j] => i = j

\* The operation puts c.n in or takes it out; it has had its effect.
Puts(c) == c.op \in {"append", "insert", "add"}
Takes(c) == c.op \in {"extract", "getnode"}
HadEffect(c) == c.at >= IF c.op = "add" THEN 6 ELSE 5

\* What each list is used for, and the node of the call.
CallOf(role, c, q) ==
    /\ role = "ready" => c.op \in {"none", "append", "insert", "extract"}
    /\ role = "time" => c.op \in {"none", "walk", "append", "insert", "add", "extract"}
    /\ role = "sem" => c.op \in {"none", "append", "getnode"}
    /\ c.op = "none" => c = NoCall
    /\ c.op # "none" => c.n \in Node /\ c.at \in 1..Length(c)
    /\ Puts(c) => (Holds(q, c.n) <=> HadEffect(c))
    /\ Takes(c) => (Holds(q, c.n) <=> ~HadEffect(c))
    /\ c.op = "walk" => ~Holds(q, c.n)

\* The links of the ring that are there, but for those of a started operation.
Forward(role, l, c, q) ==
    \A x, y \in Pointer :
        Follows(q, x, y) /\ ~(role = "ready" /\ c.op = "insert" /\ c.at = 4 /\ x = Null)
            => Nxt(l, x) = IF c.op = "append" /\ c.at = 4 /\ y = Null THEN c.n ELSE y
Backward(l, c, q) ==
    \A x, y \in Pointer :
        Follows(q, x, y) =>
            Prv(l, y) = IF \/ c.op = "insert" /\ c.at = 4 /\ x = Null
                           \/ c.op = "add" /\ c.at \in 3..5 /\ x = c.h
                        THEN c.n
                        ELSE IF Takes(c) /\ c.at \in 3..4 /\ x = c.n THEN l.prev[c.n]
                        ELSE x

\* What the operation has read, and written into its node.
AppendLinks(l, c, q) ==
    /\ c.at \in 2..4 => l.next[c.n] = Null
    /\ c.at \in 3..4 => l.prev[c.n] = c.r /\ Follows(q, c.r, Null)
InsertLinks(l, c, q) ==
    /\ c.at \in 2..4 => l.prev[c.n] = Null
    /\ c.at \in 3..4 => Follows(q, Null, l.next[c.n])
    /\ c.at = 3 => c.r = l.next[c.n]
AddLinks(l, c, q) ==
    /\ c.at \in 1..5 => Holds(q, c.h)
    /\ c.at \in 2..5 => Follows(q, c.h, c.r)
    /\ c.at \in 4..5 => l.next[c.n] = c.r
    /\ c.at = 5 => l.prev[c.n] = c.h
TakeLinks(c, q) ==
    /\ c.at = 2 => Follows(q, c.n, c.r)
    /\ c.at = 4 => Follows(q, c.r, c.n)
NodeLinks(l, c, q) ==
    /\ c.op = "append" => AppendLinks(l, c, q)
    /\ c.op = "insert" => InsertLinks(l, c, q)
    /\ c.op = "add" => AddLinks(l, c, q)
    /\ Takes(c) => TakeLinks(c, q)

\* The count and the flags, up to the statements that set them.
Lag(c) ==
    CASE c.op \in {"append", "insert"} /\ c.at = 5 -> -1
      [] c.op = "add" /\ c.at \in 6..7 -> -1
      [] c.op = "extract" /\ c.at \in 5..7 -> 1
      [] c.op = "getnode" /\ c.at \in 5..6 -> 1
      [] OTHER -> 0
Marked(c) ==
    \/ c.op = "getnode"
    \/ c.op = "extract" /\ c.at # 7
    \/ c.op = "add" /\ c.at = 7
Marks(l, c, q) ==
    /\ l.num = Len(q) + Lag(c)
    /\ \A x \in Node : x # c.n => (l.inside[x] <=> Holds(q, x))
    /\ c.op # "none" => (l.inside[c.n] <=> Marked(c))

\* The order of the time queue, and the place of the sleeper in it.
NoLater(q, n, p) == \A i \in 1..Len(q) : i <= p => Deadline[q[i]] <= Deadline[n]
Later(q, n, p) == \A i \in 1..Len(q) : i > p => Deadline[q[i]] > Deadline[n]
Due(c, q) ==
    /\ \A i, j \in 1..Len(q) : i < j => Deadline[q[i]] <= Deadline[q[j]]
    /\ c.op = "walk" => \E p \in 1..(Len(q) + 1) :
                            c.r = Place(q, p) /\ NoLater(q, c.n, p - 1)
    /\ c.op = "append" /\ c.at <= 4 => NoLater(q, c.n, Len(q))
    /\ c.op = "insert" /\ c.at <= 4 => Later(q, c.n, 0)
    /\ c.op = "add" /\ c.at <= 5 =>
           \E p \in 1..Len(q) : c.h = q[p] /\ NoLater(q, c.n, p) /\ Later(q, c.n, p)

ListTypes(role, l, c, q) ==
    /\ role \in {"ready", "time", "sem"} /\ l \in Lists /\ c \in ListCalls
    /\ q \in Seq(Node) /\ Once(q)

Sound(role, l, c, q) ==
    /\ ListTypes(role, l, c, q) /\ CallOf(role, c, q)
    /\ Forward(role, l, c, q) /\ Backward(l, c, q) /\ NodeLinks(l, c, q)
    /\ Marks(l, c, q)
    /\ role = "time" => Due(c, q)

ListInv == hit \in BOOLEAN /\ (~hit => Sound(listRole, list, call, queue))

LEMMA NodeFacts ==
    /\ Null \notin Node /\ Null \in Pointer /\ \A n \in Node : n # Null /\ n \in Pointer
    /\ \A x \in Pointer : x # Null => x \in Node
    /\ \A n \in Node : Deadline[n] \in Nat
  BY ListAssumption DEF Pointer

\* The elements of a sequence of nodes.
LEMMA PlaceIs ==
    ASSUME NEW q \in Seq(Node)
    PROVE  /\ Len(q) \in Nat /\ Place(q, 0) = Null /\ Place(q, Len(q) + 1) = Null
           /\ \A i \in 1..Len(q) : Place(q, i) = q[i] /\ q[i] \in Node /\ q[i] # Null
                                   /\ Holds(q, q[i])
           /\ \A i \in Int : Place(q, i) = Null => i \notin 1..Len(q)
           /\ \A i \in Int : Place(q, i) \in Pointer
           /\ ~Holds(q, Null)
<1>1. Len(q) \in Nat /\ \A i \in 1..Len(q) : q[i] \in Node
  OBVIOUS
<1>2. \A i \in 1..Len(q) : q[i] # Null
  BY <1>1, NodeFacts
<1> QED
  BY <1>1, <1>2, NodeFacts DEF Place, Holds

\* Every node of the ring has one behind it and one before it.
LEMMA RingTotal ==
    ASSUME NEW q \in Seq(Node), NEW x, x = Null \/ Holds(q, x)
    PROVE  /\ \E y \in Pointer : Follows(q, x, y)
           /\ \E y \in Pointer : Follows(q, y, x)
<1> DEFINE k == Len(q)
<1>1. /\ k \in Nat /\ Place(q, 0) = Null /\ Place(q, k + 1) = Null
      /\ \A i \in 1..k : Place(q, i) = q[i]
      /\ \A i \in Int : Place(q, i) \in Pointer
  BY PlaceIs
<1>2. PICK i \in 0..k : x = Place(q, i)
  BY <1>1 DEF Holds
<1>3. PICK j \in 1..(k + 1) : x = Place(q, j)
  BY <1>1 DEF Holds
<1>4. Follows(q, x, Place(q, i + 1)) /\ Place(q, i + 1) \in Pointer
  BY <1>1, <1>2 DEF Follows
<1>5. j - 1 \in 0..k /\ (j - 1) + 1 = j /\ Place(q, j - 1) \in Pointer
  BY <1>1, <1>3
<1>6. Follows(q, Place(q, j - 1), x)
  BY <1>3, <1>5 DEF Follows
<1> QED
  BY <1>4, <1>5, <1>6

LEMMA RingIn ==
    ASSUME NEW q \in Seq(Node), NEW x, NEW y, Follows(q, x, y)
    PROVE  /\ x \in Pointer /\ y \in Pointer
           /\ x = Null \/ Holds(q, x)
           /\ y = Null \/ Holds(q, y)
<1> DEFINE k == Len(q)
<1>1. /\ k \in Nat /\ Place(q, 0) = Null /\ Place(q, k + 1) = Null
      /\ \A i \in 1..k : Place(q, i) = q[i] /\ Holds(q, q[i])
      /\ \A i \in Int : Place(q, i) \in Pointer
  BY PlaceIs
<1>2. PICK i \in 0..k : x = Place(q, i) /\ y = Place(q, i + 1)
  BY DEF Follows
<1>3. i = 0 \/ i \in 1..k
  BY <1>1
<1>4. i + 1 \in 1..k \/ i + 1 = k + 1
  BY <1>1
<1> QED
  BY <1>1, <1>2, <1>3, <1>4

LEMMA RingUnique ==
    ASSUME NEW q \in Seq(Node), Once(q), NEW x, NEW y, NEW z
    PROVE  /\ Follows(q, x, y) /\ Follows(q, x, z) => y = z
           /\ Follows(q, y, x) /\ Follows(q, z, x) => y = z
<1> DEFINE k == Len(q)
<1>1. /\ k \in Nat /\ Place(q, 0) = Null /\ Place(q, k + 1) = Null
      /\ \A i \in 1..k : Place(q, i) = q[i] /\ q[i] # Null
  BY PlaceIs
<1>2. \A i, j \in 0..k : Place(q, i) = Place(q, j) => i = j
  <2> SUFFICES ASSUME NEW i \in 0..k, NEW j \in 0..k, Place(q, i) = Place(q, j) PROVE i = j
    OBVIOUS
  <2>1. CASE i = 0
    BY <1>1, <2>1
  <2>2. CASE j = 0
    BY <1>1, <2>2
  <2>3. CASE i \in 1..k /\ j \in 1..k
    BY <1>1, <2>3 DEF Once
  <2> QED
    BY <1>1, <2>1, <2>2, <2>3
<1>3. \A i, j \in 1..(k + 1) : Place(q, i) = Place(q, j) => i = j
  <2> SUFFICES ASSUME NEW i \in 1..(k + 1), NEW j \in 1..(k + 1), Place(q, i) = Place(q, j)
               PROVE  i = j
    OBVIOUS
  <2>1. CASE i = k + 1
    BY <1>1, <2>1
  <2>2. CASE j = k + 1
    BY <1>1, <2>2
  <2>3. CASE i \in 1..k /\ j \in 1..k
    BY <1>1, <2>3 DEF Once
  <2> QED
    BY <1>1, <2>1, <2>2, <2>3
<1>4. Follows(q, x, y) /\ Follows(q, x, z) => y = z
  BY <1>2 DEF Follows
<1>5. ASSUME Follows(q, y, x), Follows(q, z, x) PROVE y = z
  <2>1. PICK i \in 0..k : y = Place(q, i) /\ x = Place(q, i + 1)
    BY <1>5 DEF Follows
  <2>2. PICK j \in 0..k : z = Place(q, j) /\ x = Place(q, j + 1)
    BY <1>5 DEF Follows
  <2>3. i + 1 \in 1..(k + 1) /\ j + 1 \in 1..(k + 1)
    BY <1>1
  <2>4. i + 1 = j + 1
    BY <1>3, <2>1, <2>2, <2>3
  <2> QED
    BY <2>1, <2>2, <2>4
<1> QED
  BY <1>4, <1>5

\* Only the header of an empty list follows itself.
LEMMA RingSelf ==
    ASSUME NEW q \in Seq(Node), Once(q), NEW x, Follows(q, x, x)
    PROVE  x = Null /\ Len(q) = 0
<1> DEFINE k == Len(q)
<1>1. /\ k \in Nat /\ Place(q, 0) = Null /\ Place(q, k + 1) = Null
      /\ \A i \in 1..k : Place(q, i) = q[i] /\ q[i] # Null
  BY PlaceIs
<1>2. PICK i \in 0..k : x = Place(q, i) /\ x = Place(q, i + 1)
  BY DEF Follows
<1>3. CASE i = 0
  <2>1. x = Null /\ Place(q, 1) = Null
    <3>1. i + 1 = 1
      BY <1>3
    <3> QED
      BY ONLY <1>1, <1>2, <1>3, <3>1
  <2>2. 1 \notin 1..k
    BY <1>1, <2>1
  <2> QED
    BY <1>1, <2>1, <2>2
<1>4. CASE i \in 1..k
  <2>1. q[i] # Null /\ x = q[i]
    BY <1>1, <1>2, <1>4
  <2>2. i + 1 \in 1..k
    BY <1>1, <1>2, <1>4, <2>1
  <2>3. q[i + 1] = q[i]
    BY <1>1, <1>2, <2>1, <2>2
  <2> QED
    BY <1>1, <1>4, <2>2, <2>3 DEF Once
<1> QED
  BY <1>1, <1>3, <1>4

----------------------------------------------------------------------------
\* s is q with n put in behind place p.
Grown(q, p, n, s) ==
    /\ p \in 0..Len(q) /\ s \in Seq(Node) /\ Len(s) = Len(q) + 1
    /\ \A i \in 1..Len(s) : s[i] = IF i <= p THEN q[i] ELSE IF i = p + 1 THEN n ELSE q[i - 1]

\* s is q without place p.
Shrunk(q, p, s) ==
    /\ p \in 1..Len(q) /\ s \in Seq(Node) /\ Len(s) = Len(q) - 1
    /\ \A i \in 1..Len(s) : s[i] = IF i < p THEN q[i] ELSE q[i + 1]

LEMMA GrownPlaces ==
    ASSUME NEW q \in Seq(Node), NEW p, NEW n \in Node, NEW s, Grown(q, p, n, s)
    PROVE  \A i \in 0..(Len(q) + 2) :
               Place(s, i) = IF i <= p THEN Place(q, i) ELSE IF i = p + 1 THEN n
                             ELSE Place(q, i - 1)
<1> DEFINE k == Len(q)
<1>1. k \in Nat /\ Len(s) = k + 1 /\ p \in 0..k
  BY PlaceIs DEF Grown
<1>2. ASSUME NEW i \in 0..(k + 2)
      PROVE  Place(s, i) = IF i <= p THEN Place(q, i) ELSE IF i = p + 1 THEN n
                           ELSE Place(q, i - 1)
  <2>1. CASE i = 0
    BY <1>1, <2>1 DEF Place
  <2>2. CASE i = k + 2
    BY <1>1, <2>2 DEF Place
  <2>3. CASE i \in 1..(k + 1)
    <3>1. s[i] = IF i <= p THEN q[i] ELSE IF i = p + 1 THEN n ELSE q[i - 1]
      BY <1>1, <2>3 DEF Grown
    <3> QED
      BY <1>1, <2>3, <3>1 DEF Place
  <2> QED
    BY <1>1, <2>1, <2>2, <2>3
<1> QED
  BY <1>2

\* The ring of a sequence that has got a node.
LEMMA RingGrown ==
    ASSUME NEW q \in Seq(Node), Once(q), NEW p, NEW n \in Node, ~Holds(q, n), NEW s,
           Grown(q, p, n, s), NEW a, NEW b, a = Place(q, p), b = Place(q, p + 1)
    PROVE  /\ Follows(q, a, b) /\ Once(s)
           /\ \A x : Holds(s, x) <=> Holds(q, x) \/ x = n
           /\ \A x, y : Follows(s, x, y) =>
                  \/ x = a /\ y = n
                  \/ x = n /\ y = b
                  \/ x # a /\ y # b /\ x # n /\ y # n /\ Follows(q, x, y)
           /\ Follows(s, a, n) /\ Follows(s, n, b)
<1> DEFINE k == Len(q)
<1>1. /\ k \in Nat /\ Len(s) = k + 1 /\ p \in 0..k /\ s \in Seq(Node)
      /\ \A i \in 1..(k + 1) : s[i] = IF i <= p THEN q[i] ELSE IF i = p + 1 THEN n
                                      ELSE q[i - 1]
  BY PlaceIs DEF Grown
<1>2. Follows(q, a, b)
  BY <1>1 DEF Follows
<1>3. \A i \in 1..k : q[i] # n
  BY DEF Holds
<1>4. Once(s)
  <2> SUFFICES ASSUME NEW i \in 1..(k + 1), NEW j \in 1..(k + 1), s[i] = s[j], i < j
               PROVE  FALSE
    BY <1>1 DEF Once
  <2>1. CASE i <= p /\ j <= p
    <3>1. i \in 1..k /\ j \in 1..k /\ q[i] = q[j]
      BY <1>1, <2>1
    <3> QED
      BY <3>1 DEF Once
  <2>2. CASE i <= p /\ j = p + 1
    <3>1. i \in 1..k /\ q[i] = n
      BY <1>1, <2>2
    <3> QED
      BY <1>3, <3>1
  <2>3. CASE i <= p /\ j > p + 1
    <3>1. i \in 1..k /\ j - 1 \in 1..k /\ q[i] = q[j - 1] /\ i # j - 1
      BY <1>1, <2>3
    <3> QED
      BY <3>1 DEF Once
  <2>4. CASE i = p + 1
    <3>1. j - 1 \in 1..k /\ q[j - 1] = n
      BY <1>1, <2>4
    <3> QED
      BY <1>3, <3>1
  <2>5. CASE i > p + 1
    <3>1. i - 1 \in 1..k /\ j - 1 \in 1..k /\ q[i - 1] = q[j - 1] /\ i - 1 # j - 1
      BY <1>1, <2>5
    <3> QED
      BY <3>1 DEF Once
  <2> QED
    BY <1>1, <2>1, <2>2, <2>3, <2>4, <2>5
<1>5. ASSUME NEW x PROVE Holds(s, x) <=> Holds(q, x) \/ x = n
  <2>1. ASSUME Holds(s, x) PROVE Holds(q, x) \/ x = n
    <3>1. PICK i \in 1..(k + 1) : s[i] = x
      BY <1>1, <2>1 DEF Holds
    <3>2. CASE i <= p
      BY <1>1, <3>1, <3>2 DEF Holds
    <3>3. CASE i = p + 1
      BY <1>1, <3>1, <3>3
    <3>4. CASE i > p + 1
      <4>1. i - 1 \in 1..k /\ q[i - 1] = x
        BY <1>1, <3>1, <3>4
      <4> QED
        BY <4>1 DEF Holds
    <3> QED
      BY <1>1, <3>2, <3>3, <3>4
  <2>2. ASSUME Holds(q, x) PROVE Holds(s, x)
    <3>1. PICK i \in 1..k : q[i] = x
      BY <2>2 DEF Holds
    <3>2. CASE i <= p
      <4>1. i \in 1..Len(s) /\ s[i] = x
        BY <1>1, <3>1, <3>2
      <4> QED
        BY <4>1 DEF Holds
    <3>3. CASE i > p
      <4>1. i + 1 \in 1..Len(s) /\ i + 1 > p + 1 /\ (i + 1) - 1 = i
        BY <1>1, <3>3
      <4>2. s[i + 1] = x
        BY <1>1, <3>1, <4>1
      <4> QED
        BY <4>1, <4>2 DEF Holds
    <3> QED
      BY <1>1, <3>2, <3>3
  <2>3. Holds(s, n)
    <3>1. p + 1 \in 1..Len(s) /\ s[p + 1] = n
      BY <1>1
    <3> QED
      BY <3>1 DEF Holds
  <2> QED
    BY <2>1, <2>2, <2>3
<1>6. \A i \in 0..(k + 2) :
          Place(s, i) = IF i <= p THEN Place(q, i) ELSE IF i = p + 1 THEN n
                        ELSE Place(q, i - 1)
  BY GrownPlaces
<1>7. ASSUME NEW x, NEW y, Follows(s, x, y)
      PROVE  \/ x = a /\ y = n
             \/ x = n /\ y = b
             \/ x # a /\ y # b /\ x # n /\ y # n /\ Follows(q, x, y)
  <2>1. PICK i \in 0..(k + 1) : x = Place(s, i) /\ y = Place(s, i + 1)
    BY <1>1, <1>7 DEF Follows
  <2>2. CASE i = p
    <3>1. x = a /\ y = n
      BY <1>1, <1>6, <2>1, <2>2
    <3> QED
      BY <3>1
  <2>3. CASE i = p + 1
    <3>1. i + 1 \in 0..(k + 2) /\ ~(i + 1 <= p) /\ i + 1 # p + 1 /\ (i + 1) - 1 = p + 1
      BY <1>1, <2>3
    <3>2. x = n /\ y = b
      BY <1>1, <1>6, <2>1, <2>3, <3>1
    <3> QED
      BY <3>2
  <2>4. CASE i < p \/ i > p + 1
    <3>1. PICK j \in 0..k : j # p /\ x = Place(q, j) /\ y = Place(q, j + 1)
      <4>1. CASE i < p
        <5>1. i \in 0..k /\ i # p /\ x = Place(q, i) /\ y = Place(q, i + 1)
          BY <1>1, <1>6, <2>1, <4>1
        <5> QED
          BY <5>1
      <4>2. CASE i > p + 1
        <5>1. /\ i - 1 \in 0..k /\ i - 1 # p /\ (i - 1) + 1 = i
              /\ i \in 0..(k + 2) /\ i + 1 \in 0..(k + 2)
              /\ (i + 1) - 1 = i
              /\ ~(i <= p) /\ i # p + 1 /\ ~(i + 1 <= p) /\ i + 1 # p + 1
          BY <1>1, <4>2
        <5>2. x = Place(q, i - 1) /\ y = Place(q, i)
          BY <1>6, <2>1, <5>1
        <5> QED
          BY <5>1, <5>2
      <4> QED
        BY <2>4, <4>1, <4>2
    <3>2. Follows(q, x, y)
      BY <3>1 DEF Follows
    <3>3. x # n /\ y # n
      BY <3>2, RingIn, NodeFacts
    <3>4. x # a
      <4>1. ASSUME x = a PROVE FALSE
        <5>1. y = b
          BY <1>2, <3>2, <4>1, RingUnique
        <5>2. Place(q, j) = Place(q, p) /\ Place(q, j + 1) = Place(q, p + 1)
          BY <3>1, <4>1, <5>1
        <5>3. CASE j = 0
          <6>1. p \in 1..k /\ q[p] # Null /\ Place(q, p) = q[p] /\ Place(q, 0) = Null
            BY <1>1, <3>1, <5>3, PlaceIs
          <6> QED
            BY <5>2, <5>3, <6>1
        <5>4. CASE p = 0
          <6>1. j \in 1..k /\ q[j] # Null /\ Place(q, j) = q[j] /\ Place(q, 0) = Null
            BY <1>1, <3>1, <5>4, PlaceIs
          <6> QED
            BY <5>2, <5>4, <6>1
        <5>5. CASE j \in 1..k /\ p \in 1..k
          BY <3>1, <5>2, <5>5, PlaceIs DEF Once
        <5> QED
          BY <1>1, <5>3, <5>4, <5>5
      <4> QED
        BY <4>1
    <3>5. y # b
      BY <1>2, <3>2, <3>4, RingUnique
    <3> QED
      BY <3>2, <3>3, <3>4, <3>5
  <2> QED
    BY <1>1, <2>2, <2>3, <2>4
<1>8. Follows(s, a, n)
  <2>1. p \in 0..Len(s) /\ Place(s, p) = a /\ Place(s, p + 1) = n
    BY <1>1, <1>6
  <2> QED
    BY <2>1 DEF Follows
<1>9. Follows(s, n, b)
  <2>1. p + 1 \in 0..Len(s) /\ Place(s, p + 1) = n
    BY <1>1, <1>6
  <2>2. /\ (p + 1) + 1 \in 0..(k + 2) /\ ~((p + 1) + 1 <= p) /\ (p + 1) + 1 # p + 1
        /\ ((p + 1) + 1) - 1 = p + 1
    BY <1>1
  <2>3. Place(s, (p + 1) + 1) = b
    BY <1>6, <2>2
  <2> QED
    BY <2>1, <2>3 DEF Follows
<1> QED
  BY <1>2, <1>4, <1>5, <1>7, <1>8, <1>9
LEMMA ShrunkPlaces ==
    ASSUME NEW q \in Seq(Node), NEW p, NEW s, Shrunk(q, p, s)
    PROVE  \A i \in 0..Len(q) : Place(s, i) = IF i < p THEN Place(q, i) ELSE Place(q, i + 1)
<1> DEFINE k == Len(q)
<1>1. k \in Nat /\ Len(s) = k - 1 /\ p \in 1..k
  BY PlaceIs DEF Shrunk
<1>2. ASSUME NEW i \in 0..k
      PROVE  Place(s, i) = IF i < p THEN Place(q, i) ELSE Place(q, i + 1)
  <2>1. CASE i = 0
    BY <1>1, <2>1 DEF Place
  <2>2. CASE i = k
    BY <1>1, <2>2 DEF Place
  <2>3. CASE i \in 1..(k - 1)
    <3>1. s[i] = IF i < p THEN q[i] ELSE q[i + 1]
      BY <1>1, <2>3 DEF Shrunk
    <3> QED
      BY <1>1, <2>3, <3>1 DEF Place
  <2> QED
    BY <1>1, <2>1, <2>2, <2>3
<1> QED
  BY <1>2

\* The ring of a sequence that has lost a node.
LEMMA RingShrunk ==
    ASSUME NEW q \in Seq(Node), Once(q), NEW p, NEW n \in Node, NEW s,
           Shrunk(q, p, s), q[p] = n, NEW a, NEW b, a = Place(q, p - 1), b = Place(q, p + 1)
    PROVE  /\ Follows(q, a, n) /\ Follows(q, n, b) /\ Once(s)
           /\ \A x : Holds(s, x) <=> Holds(q, x) /\ x # n
           /\ \A x, y : Follows(s, x, y) =>
                  \/ x = a /\ y = b
                  \/ x # a /\ y # b /\ x # n /\ y # n /\ Follows(q, x, y)
           /\ Follows(s, a, b) /\ Len(s) = Len(q) - 1 /\ Holds(q, n)
<1> DEFINE k == Len(q)
<1>1. /\ k \in Nat /\ Len(s) = k - 1 /\ p \in 1..k /\ s \in Seq(Node)
      /\ \A i \in 1..(k - 1) : s[i] = IF i < p THEN q[i] ELSE q[i + 1]
  BY PlaceIs DEF Shrunk
<1>0. n = Place(q, p)
  BY <1>1, PlaceIs
<1>2. Follows(q, a, n) /\ Follows(q, n, b)
  <2>1. p - 1 \in 0..k /\ (p - 1) + 1 = p /\ p \in 0..k
    BY <1>1
  <2> QED
    BY <2>1, <1>0 DEF Follows
<1>4. Once(s)
  <2>1. ASSUME NEW i \in 1..(k - 1), NEW j \in 1..(k - 1), s[i] = s[j], i < j
        PROVE  FALSE
    <3>0. k \in Nat /\ p \in Int /\ i \in Int /\ j \in Int
      BY <1>1
    <3>1. /\ i < p => s[i] = q[i]
          /\ i >= p => s[i] = q[i + 1]
          /\ j < p => s[j] = q[j]
          /\ j >= p => s[j] = q[j + 1]
      BY <1>1, <3>0
    <3>2. i \in 1..k /\ j \in 1..k /\ i + 1 \in 1..k /\ j + 1 \in 1..k
      BY <1>1
    <3>3. CASE j < p
      <4>1. i < p
        BY <2>1, <3>0, <3>3
      <4>2. q[i] = q[j]
        BY <2>1, <3>1, <3>3, <4>1, Zenon
      <4> QED
        BY <2>1, <3>0, <3>2, <4>2 DEF Once
    <3>4. CASE i < p /\ j >= p
      <4>1. q[i] = q[j + 1]
        BY <2>1, <3>1, <3>4, Zenon
      <4>2. i # j + 1
        BY <2>1, <3>0
      <4> QED
        BY <3>2, <4>1, <4>2 DEF Once
    <3>5. CASE i >= p
      <4>1. j >= p
        BY <2>1, <3>0, <3>5
      <4>2. q[i + 1] = q[j + 1]
        BY <2>1, <3>1, <3>5, <4>1, Zenon
      <4>3. i + 1 # j + 1
        BY <2>1, <3>0
      <4> QED
        BY <3>2, <4>2, <4>3 DEF Once
    <3>6. j < p \/ (i < p /\ j >= p) \/ i >= p
      BY <3>0
    <3> QED
      BY <3>3, <3>4, <3>5, <3>6
  <2> SUFFICES ASSUME NEW i \in 1..Len(s), NEW j \in 1..Len(s), s[i] = s[j]
               PROVE  i = j
    BY DEF Once
  <2>2. i \in 1..(k - 1) /\ j \in 1..(k - 1)
    BY <1>1
  <2>3. ~(i < j) /\ ~(j < i)
    BY <2>1, <2>2
  <2> QED
    BY <1>1, <2>2, <2>3
<1>5. ASSUME NEW x PROVE Holds(s, x) <=> Holds(q, x) /\ x # n
  <2>1. ASSUME Holds(s, x) PROVE Holds(q, x) /\ x # n
    <3>1. PICK i \in 1..(k - 1) : s[i] = x
      BY <1>1, <2>1 DEF Holds
    <3>2. PICK j \in 1..k : j # p /\ q[j] = x
      <4>1. CASE i < p
        BY <1>1, <3>1, <4>1
      <4>2. CASE i >= p
        <5>1. i + 1 \in 1..k /\ i + 1 # p /\ q[i + 1] = x
          BY <1>1, <3>1, <4>2
        <5> QED
          BY <5>1
      <4> QED
        BY <1>1, <4>1, <4>2
    <3> QED
      BY <1>1, <3>2 DEF Once, Holds
  <2>2. ASSUME Holds(q, x), x # n PROVE Holds(s, x)
    <3>1. PICK i \in 1..k : q[i] = x
      BY <2>2 DEF Holds
    <3>2. i # p
      BY <2>2, <3>1
    <3>3. CASE i < p
      <4>0. i \in 1..(k - 1)
        BY <1>1, <3>1, <3>3
      <4>1. i \in 1..Len(s) /\ s[i] = x
        BY <1>1, <3>1, <3>3, <4>0
      <4> QED
        BY <4>1 DEF Holds
    <3>4. CASE i > p
      <4>1. i - 1 \in 1..(k - 1) /\ ~(i - 1 < p) /\ (i - 1) + 1 = i
        BY <1>1, <3>4
      <4>2. s[i - 1] = x
        BY <1>1, <3>1, <4>1
      <4> QED
        BY <1>1, <4>1, <4>2 DEF Holds
    <3> QED
      BY <1>1, <3>2, <3>3, <3>4
  <2> QED
    BY <2>1, <2>2
<1>6. \A i \in 0..k : Place(s, i) = IF i < p THEN Place(q, i) ELSE Place(q, i + 1)
  BY ShrunkPlaces
<1>7. ASSUME NEW x, NEW y, Follows(s, x, y)
      PROVE  \/ x = a /\ y = b
             \/ x # a /\ y # b /\ x # n /\ y # n /\ Follows(q, x, y)
  <2>1. PICK i \in 0..(k - 1) : x = Place(s, i) /\ y = Place(s, i + 1)
    BY <1>1, <1>7 DEF Follows
  <2>2. CASE i = p - 1
    <3>1. i < p /\ i \in 0..k /\ i + 1 \in 0..k /\ ~(i + 1 < p) /\ i + 1 = p
      BY <1>1, <2>2
    <3>2. x = Place(q, p - 1) /\ y = Place(q, p + 1)
      BY <1>6, <2>1, <2>2, <3>1
    <3> QED
      BY <3>2
  <2>3. CASE i # p - 1
    <3>1. PICK j \in 0..k : j # p /\ j # p - 1 /\ x = Place(q, j) /\ y = Place(q, j + 1)
      <4>1. CASE i < p - 1
        <5>1. i \in 0..k /\ i < p /\ i + 1 \in 0..k /\ i + 1 < p /\ i # p
          BY <1>1, <4>1
        <5>2. x = Place(q, i) /\ y = Place(q, i + 1)
          BY <1>6, <2>1, <5>1
        <5> QED
          BY <2>3, <5>1, <5>2
      <4>2. CASE i > p - 1
        <5>1. /\ i \in 0..k /\ ~(i < p) /\ i + 1 \in 0..k /\ ~(i + 1 < p)
              /\ i + 1 # p /\ i + 1 # p - 1
          BY <1>1, <4>2
        <5>2. x = Place(q, i + 1) /\ y = Place(q, (i + 1) + 1)
          BY <1>6, <2>1, <5>1
        <5> QED
          BY <5>1, <5>2
      <4> QED
        BY <1>1, <2>3, <4>1, <4>2
    <3>2. Follows(q, x, y)
      BY <3>1 DEF Follows
    <3>3. \A i1, i2 \in 0..k : Place(q, i1) = Place(q, i2) => i1 = i2
      <4> SUFFICES ASSUME NEW i1 \in 0..k, NEW i2 \in 0..k, Place(q, i1) = Place(q, i2)
                   PROVE  i1 = i2
        OBVIOUS
      <4>1. \A i3 \in 1..k : Place(q, i3) = q[i3] /\ q[i3] # Null
        BY PlaceIs
      <4>2. Place(q, 0) = Null
        BY PlaceIs
      <4>3. CASE i1 = 0
        BY <1>1, <4>1, <4>2, <4>3
      <4>4. CASE i2 = 0
        BY <1>1, <4>1, <4>2, <4>4
      <4>5. CASE i1 \in 1..k /\ i2 \in 1..k
        BY <1>1, <4>1, <4>5 DEF Once
      <4> QED
        BY <1>1, <4>3, <4>4, <4>5
    <3>4. x # n
      <4>1. p \in 0..k
        BY <1>1
      <4> QED
        BY <1>0, <3>1, <3>3, <4>1
    <3>5. x # a
      <4>1. p - 1 \in 0..k
        BY <1>1
      <4> QED
        BY <3>1, <3>3, <4>1
    <3>6. y # n /\ y # b
      BY <1>2, <3>2, <3>4, <3>5, RingUnique
    <3> QED
      BY <3>2, <3>4, <3>5, <3>6
  <2> QED
    BY <2>2, <2>3
<1>8. Follows(s, a, b)
  <2>1. /\ p - 1 \in 0..Len(s) /\ p - 1 \in 0..k /\ p - 1 < p
        /\ (p - 1) + 1 \in 0..k /\ ~((p - 1) + 1 < p) /\ (p - 1) + 1 = p
    BY <1>1
  <2>2. Place(s, p - 1) = a /\ Place(s, (p - 1) + 1) = b
    BY <1>6, <2>1
  <2> QED
    BY <2>1, <2>2 DEF Follows
<1> QED
  BY <1>0, <1>1, <1>2, <1>4, <1>5, <1>7, <1>8 DEF Holds

----------------------------------------------------------------------------
(* What the operations make of the queue.                                  *)

LEMMA AppendGrows ==
    ASSUME NEW q \in Seq(Node), NEW n \in Node
    PROVE  Grown(q, Len(q), n, Append(q, n))
<1>1. /\ Append(q, n) \in Seq(Node) /\ Len(Append(q, n)) = Len(q) + 1 /\ Len(q) \in Nat
      /\ \A i \in 1..Len(q) : Append(q, n)[i] = q[i]
      /\ Append(q, n)[Len(q) + 1] = n
  OBVIOUS
<1> QED
  BY <1>1 DEF Grown

LEMMA ConsGrows ==
    ASSUME NEW q \in Seq(Node), NEW n \in Node
    PROVE  Grown(q, 0, n, <<n>> \o q)
<1> DEFINE h == <<n>>
           s == h \o q
<1>1. h \in Seq(Node) /\ Len(h) = 1 /\ h[1] = n
  OBVIOUS
<1>2. h \o q \in Seq(Node) /\ Len(h \o q) = Len(h) + Len(q) /\ Len(q) \in Nat
      /\ \A i \in 1..(Len(h) + Len(q)) : (h \o q)[i] = IF i <= Len(h) THEN h[i] ELSE q[i - Len(h)]
  <2>0. h \in Seq(Node)
    BY <1>1
  <2> HIDE DEF h
  <2> QED
    BY <2>0, ConcatProperties, LenProperties, Zenon
<1> HIDE DEF h
<1>3. /\ s \in Seq(Node) /\ Len(s) = Len(q) + 1 /\ Len(q) \in Nat
      /\ \A i \in 1..Len(s) : s[i] = IF i <= 0 THEN q[i] ELSE IF i = 0 + 1 THEN n ELSE q[i - 1]
  BY <1>1, <1>2
<1> HIDE DEF s
<1>4. Grown(q, 0, n, s)
  BY <1>3 DEF Grown
<1> QED
  BY <1>4 DEF s, h
\* A sequence put together from the parts of q before and behind place p.
LEMMA SplitIs ==
    ASSUME NEW q \in Seq(Node), NEW p \in 0..Len(q), NEW m \in (p + 1)..(Len(q) + 1)
    PROVE  /\ SubSeq(q, 1, p) \in Seq(Node) /\ Len(SubSeq(q, 1, p)) = p
           /\ \A i \in 1..p : SubSeq(q, 1, p)[i] = q[i]
           /\ SubSeq(q, m, Len(q)) \in Seq(Node) /\ Len(SubSeq(q, m, Len(q))) = Len(q) + 1 - m
           /\ \A i \in 1..(Len(q) + 1 - m) : SubSeq(q, m, Len(q))[i] = q[m - 1 + i]
  OBVIOUS

LEMMA NodeConcat ==
    \A s, t \in Seq(Node) :
        /\ s \o t \in Seq(Node) /\ Len(s \o t) = Len(s) + Len(t)
        /\ \A i \in 1..(Len(s) + Len(t)) :
              (s \o t)[i] = IF i <= Len(s) THEN s[i] ELSE t[i - Len(s)]
  BY ConcatProperties, Zenon

LEMMA InsertGrows ==
    ASSUME NEW q \in Seq(Node), NEW p \in 0..Len(q), NEW n \in Node
    PROVE  Grown(q, p, n, InsertAt(q, p + 1, n))
<1> DEFINE k == Len(q)
           a == SubSeq(q, 1, p)
           b == SubSeq(q, p + 1, Len(q))
           h == <<n>>
<1>0. k \in Nat /\ p \in Nat /\ p <= k /\ p + 1 \in (p + 1)..(k + 1)
  BY PlaceIs
<1>1. /\ a \in Seq(Node) /\ Len(a) = p /\ \A i \in 1..p : a[i] = q[i]
      /\ b \in Seq(Node) /\ Len(b) = k + 1 - (p + 1)
      /\ \A i \in 1..(k + 1 - (p + 1)) : b[i] = q[p + 1 - 1 + i]
  BY <1>0, SplitIs
<1>2. h \in Seq(Node) /\ Len(h) = 1 /\ h[1] = n
  OBVIOUS
<1>3. InsertAt(q, p + 1, n) = a \o h \o b
  <2>1. (p + 1) - 1 = p
    BY <1>0
  <2> QED
    BY <2>1 DEF InsertAt
<1> HIDE DEF a, b, h
<1> DEFINE ah == a \o h
<1>4. /\ ah \in Seq(Node) /\ Len(ah) = p + 1
      /\ \A i \in 1..(p + 1) : ah[i] = IF i <= p THEN a[i] ELSE h[i - p]
  <2>0. a \in Seq(Node) /\ h \in Seq(Node)
    BY <1>1, <1>2
  <2>1. /\ a \o h \in Seq(Node) /\ Len(a \o h) = Len(a) + Len(h)
        /\ \A i \in 1..(Len(a) + Len(h)) :
              (a \o h)[i] = IF i <= Len(a) THEN a[i] ELSE h[i - Len(a)]
    BY ONLY <2>0, NodeConcat, Zenon
  <2> QED
    BY ONLY <2>1, <1>1, <1>2
<1> HIDE DEF ah
<1> DEFINE s == ah \o b
<1>5. /\ s \in Seq(Node) /\ Len(s) = k + 1
      /\ \A i \in 1..(k + 1) : s[i] = IF i <= p + 1 THEN ah[i] ELSE b[i - (p + 1)]
  <2>0. ah \in Seq(Node) /\ b \in Seq(Node)
    BY <1>1, <1>4
  <2>1. /\ ah \o b \in Seq(Node) /\ Len(ah \o b) = Len(ah) + Len(b)
        /\ \A i \in 1..(Len(ah) + Len(b)) :
              (ah \o b)[i] = IF i <= Len(ah) THEN ah[i] ELSE b[i - Len(ah)]
    BY ONLY <2>0, NodeConcat, Zenon
  <2>2. Len(ah) = p + 1 /\ Len(b) = k + 1 - (p + 1) /\ Len(ah) + Len(b) = k + 1
    BY <1>0, <1>1, <1>4
  <2> QED
    BY ONLY <2>1, <2>2
<1> HIDE DEF s
<1>6. ASSUME NEW i \in 1..(k + 1)
      PROVE  s[i] = IF i <= p THEN q[i] ELSE IF i = p + 1 THEN n ELSE q[i - 1]
  <2>1. CASE i <= p
    BY <1>0, <1>1, <1>4, <1>5, <2>1
  <2>2. CASE i = p + 1
    <3>1. i - p = 1 /\ s[i] = h[1]
      BY <1>0, <1>4, <1>5, <2>2
    <3> QED
      BY <1>0, <1>2, <2>2, <3>1
  <2>3. CASE i > p + 1
    <3>1. /\ i - (p + 1) \in 1..(k + 1 - (p + 1)) /\ p + 1 - 1 + (i - (p + 1)) = i - 1
      BY <1>0, <2>3
    <3>2. s[i] = q[i - 1]
      BY <1>0, <1>1, <1>5, <2>3, <3>1
    <3> QED
      BY <1>0, <2>3, <3>2
  <2> QED
    BY <1>0, <2>1, <2>2, <2>3
<1>7. Grown(q, p, n, s)
  BY <1>5, <1>6 DEF Grown
<1>8. InsertAt(q, p + 1, n) = s
  BY <1>3 DEF s, ah
<1> QED
  BY <1>7, <1>8

LEMMA RemoveShrinks ==
    ASSUME NEW q \in Seq(Node), NEW p \in 1..Len(q)
    PROVE  Shrunk(q, p, RemoveAt(q, p))
<1> DEFINE k == Len(q)
           a == SubSeq(q, 1, p - 1)
           b == SubSeq(q, p + 1, Len(q))
<1>0. k \in Nat /\ p \in Nat /\ p <= k /\ p >= 1 /\ p - 1 \in 0..k
      /\ p + 1 \in ((p - 1) + 1)..(k + 1)
  BY PlaceIs
<1>1. /\ a \in Seq(Node) /\ Len(a) = p - 1 /\ \A i \in 1..(p - 1) : a[i] = q[i]
      /\ b \in Seq(Node) /\ Len(b) = k + 1 - (p + 1)
      /\ \A i \in 1..(k + 1 - (p + 1)) : b[i] = q[p + 1 - 1 + i]
  <2>1. PICK o, m : /\ o \in 0..Len(q) /\ m \in (o + 1)..(Len(q) + 1)
                   /\ o = p - 1 /\ m = p + 1
    BY <1>0
  <2>2. a = SubSeq(q, 1, o) /\ b = SubSeq(q, m, Len(q))
    BY <2>1
  <2> HIDE DEF k, a, b
  <2>3. /\ a \in Seq(Node) /\ Len(a) = o /\ \A i \in 1..o : a[i] = q[i]
        /\ b \in Seq(Node) /\ Len(b) = Len(q) + 1 - m
        /\ \A i \in 1..(Len(q) + 1 - m) : b[i] = q[m - 1 + i]
    BY ONLY q \in Seq(Node), <2>1, <2>2, SplitIs
  <2>4. o = p - 1 /\ m - 1 = p + 1 - 1 /\ Len(q) + 1 - m = k + 1 - (p + 1)
    BY <1>0, <2>1 DEF k
  <2> QED
    BY ONLY <2>3, <2>4, Zenon
<1>3. RemoveAt(q, p) = a \o b
  BY DEF RemoveAt
<1> HIDE DEF a, b
<1> DEFINE s == a \o b
<1>5. /\ s \in Seq(Node) /\ Len(s) = k - 1
      /\ \A i \in 1..(k - 1) : s[i] = IF i <= p - 1 THEN a[i] ELSE b[i - (p - 1)]
  <2>0. a \in Seq(Node) /\ b \in Seq(Node)
    BY <1>1
  <2>1. /\ a \o b \in Seq(Node) /\ Len(a \o b) = Len(a) + Len(b)
        /\ \A i \in 1..(Len(a) + Len(b)) :
              (a \o b)[i] = IF i <= Len(a) THEN a[i] ELSE b[i - Len(a)]
    BY ONLY <2>0, NodeConcat, Zenon
  <2>2. Len(a) = p - 1 /\ Len(b) = k + 1 - (p + 1) /\ Len(a) + Len(b) = k - 1
    BY <1>0, <1>1
  <2> QED
    BY ONLY <2>1, <2>2
<1> HIDE DEF s
<1>6. ASSUME NEW i \in 1..(k - 1) PROVE s[i] = IF i < p THEN q[i] ELSE q[i + 1]
  <2>1. CASE i < p
    BY <1>0, <1>1, <1>5, <2>1
  <2>2. CASE i >= p
    <3>1. i - (p - 1) \in 1..(k + 1 - (p + 1)) /\ p + 1 - 1 + (i - (p - 1)) = i + 1
      BY <1>0, <2>2
    <3>2. s[i] = b[i - (p - 1)]
      <4>1. ~(i <= p - 1)
        BY <1>0, <2>2
      <4> QED
        BY ONLY <1>5, <4>1, i \in 1..(k - 1)
    <3>3. b[i - (p - 1)] = q[p + 1 - 1 + (i - (p - 1))]
      BY ONLY <1>1, <3>1
    <3>4. ~(i < p)
      BY <1>0, <2>2
    <3> QED
      BY ONLY <3>1, <3>2, <3>3, <3>4
  <2> QED
    BY <1>0, <2>1, <2>2
<1>7. Shrunk(q, p, s)
  BY <1>5, <1>6 DEF Shrunk
<1> QED
  BY <1>3, <1>7 DEF s

LEMMA WithoutShrinks ==
    ASSUME NEW q \in Seq(Node), NEW n, Holds(q, n)
    PROVE  \E p \in 1..Len(q) : q[p] = n /\ Shrunk(q, p, Without(q, n))
<1> DEFINE p == CHOOSE i \in DOMAIN q : q[i] = n
<1>1. DOMAIN q = 1..Len(q)
  OBVIOUS
<1>2. \E i \in DOMAIN q : q[i] = n
  BY <1>1 DEF Holds
<1>3. p \in 1..Len(q) /\ q[p] = n
  BY <1>1, <1>2
<1>4. Without(q, n) = RemoveAt(q, p)
  BY <1>2 DEF Without
<1> HIDE DEF p
<1> QED
  BY <1>3, <1>4, RemoveShrinks

LEMMA TailShrinks ==
    ASSUME NEW q \in Seq(Node), Len(q) # 0
    PROVE  Shrunk(q, 1, Tail(q))
<1>1. Len(q) \in Nat /\ q # << >>
  OBVIOUS
<1>2. /\ Tail(q) \in Seq(Node) /\ Len(Tail(q)) = Len(q) - 1
      /\ \A i \in 1..Len(Tail(q)) : Tail(q)[i] = q[i + 1]
  BY <1>1, HeadTailProperties
<1>3. 1 \in 1..Len(q) /\ \A i \in 1..Len(Tail(q)) : ~(i < 1)
  BY <1>1
<1> QED
  BY <1>2, <1>3 DEF Shrunk

\* A sleeper is put behind those that are due no later.
LEMMA SortedGrows ==
    ASSUME queue \in Seq(Node), NEW n \in Node, NEW p \in 0..Len(queue),
           NoLater(queue, n, p), Later(queue, n, p)
    PROVE  Grown(queue, p, n, Sorted(n))
<1> DEFINE S == {i \in DOMAIN queue : Deadline[queue[i]] <= Deadline[n]}
<1>0. Len(queue) \in Nat /\ p \in Nat /\ \A i \in 1..Len(queue) : queue[i] \in Node
  BY PlaceIs
<1>1. S = 1..p
  <2>1. DOMAIN queue = 1..Len(queue)
    OBVIOUS
  <2>2. ASSUME NEW i \in 1..Len(queue) PROVE Deadline[queue[i]] <= Deadline[n] <=> i <= p
    <3>1. Deadline[queue[i]] \in Nat /\ Deadline[n] \in Nat
      BY <1>0, NodeFacts
    <3> QED
      BY <1>0, <3>1 DEF NoLater, Later
  <2> QED
    BY <1>0, <2>1, <2>2
<1>2. Cardinality(1..p) = p
  BY <1>0, FS_Interval
<1> HIDE DEF S
<1>3. 1 + Cardinality(S) = p + 1
  BY <1>0, <1>1, <1>2
<1>4. Sorted(n) = InsertAt(queue, p + 1, n)
  BY <1>3 DEF Sorted, S
<1> QED
  BY <1>4, InsertGrows
----------------------------------------------------------------------------
(* The statements.                                                         *)

\* What a statement does: k is l with one link, the count or a flag set.
NextSet(l, x, v, k) ==
    /\ k \in Lists /\ k.num = l.num /\ k.inside = l.inside
    /\ \A y \in Pointer : Nxt(k, y) = IF y = x THEN v ELSE Nxt(l, y)
    /\ \A y \in Pointer : Prv(k, y) = Prv(l, y)
PrevSet(l, x, v, k) ==
    /\ k \in Lists /\ k.num = l.num /\ k.inside = l.inside
    /\ \A y \in Pointer : Prv(k, y) = IF y = x THEN v ELSE Prv(l, y)
    /\ \A y \in Pointer : Nxt(k, y) = Nxt(l, y)
NumSet(l, v, k) ==
    /\ k \in Lists /\ k.num = v /\ k.inside = l.inside
    /\ \A y \in Pointer : Nxt(k, y) = Nxt(l, y) /\ Prv(k, y) = Prv(l, y)
FlagSet(l, n, b, k) ==
    /\ k \in Lists /\ k.num = l.num /\ k.inside = [l.inside EXCEPT ![n] = b]
    /\ \A y \in Pointer : Nxt(k, y) = Nxt(l, y) /\ Prv(k, y) = Prv(l, y)

LEMMA SetNextIs ==
    ASSUME NEW l \in Lists, NEW x \in Pointer, NEW v \in Pointer
    PROVE  NextSet(l, x, v, SetNext(l, x, v))
<1>1. CASE x = Null
  <2>1. SetNext(l, x, v) = [l EXCEPT !.first = v]
    BY <1>1 DEF SetNext
  <2> QED
    BY <1>1, <2>1, NodeFacts DEF Lists, Nxt, Prv, NextSet
<1>2. CASE x # Null
  <2>0. x \in Node
    BY <1>2, NodeFacts
  <2>1. SetNext(l, x, v) = [l EXCEPT !.next[x] = v]
    BY <1>2 DEF SetNext
  <2> QED
    BY <1>2, <2>0, <2>1, NodeFacts DEF Lists, Nxt, Prv, NextSet
<1> QED
  BY <1>1, <1>2

LEMMA SetPrevIs ==
    ASSUME NEW l \in Lists, NEW x \in Pointer, NEW v \in Pointer
    PROVE  PrevSet(l, x, v, SetPrev(l, x, v))
<1>1. CASE x = Null
  <2>1. SetPrev(l, x, v) = [l EXCEPT !.last = v]
    BY <1>1 DEF SetPrev
  <2> QED
    BY <1>1, <2>1, NodeFacts DEF Lists, Nxt, Prv, PrevSet
<1>2. CASE x # Null
  <2>0. x \in Node
    BY <1>2, NodeFacts
  <2>1. SetPrev(l, x, v) = [l EXCEPT !.prev[x] = v]
    BY <1>2 DEF SetPrev
  <2> QED
    BY <1>2, <2>0, <2>1, NodeFacts DEF Lists, Nxt, Prv, PrevSet
<1> QED
  BY <1>1, <1>2

\* A link that is written without a test for Null.
LEMMA WrittenIs ==
    ASSUME NEW l \in Lists, NEW n \in Node, NEW v \in Pointer
    PROVE  /\ NextSet(l, n, v, [l EXCEPT !.next[n] = v])
           /\ PrevSet(l, n, v, [l EXCEPT !.prev[n] = v])
           /\ NextSet(l, Null, v, [l EXCEPT !.first = v])
           /\ PrevSet(l, Null, v, [l EXCEPT !.last = v])
<1>1. /\ SetNext(l, n, v) = [l EXCEPT !.next[n] = v]
      /\ SetPrev(l, n, v) = [l EXCEPT !.prev[n] = v]
      /\ SetNext(l, Null, v) = [l EXCEPT !.first = v]
      /\ SetPrev(l, Null, v) = [l EXCEPT !.last = v]
  BY NodeFacts DEF SetNext, SetPrev
<1>2. n \in Pointer /\ Null \in Pointer
  BY NodeFacts
<1> QED
  BY <1>1, <1>2, SetNextIs, SetPrevIs

LEMMA CountIs ==
    ASSUME NEW l \in Lists, NEW k \in Int
    PROVE  NumSet(l, k, [l EXCEPT !.num = k])
  BY DEF Lists, Nxt, Prv, NumSet

LEMMA FlagIs ==
    ASSUME NEW l \in Lists, NEW n \in Node, NEW b \in BOOLEAN
    PROVE  FlagSet(l, n, b, [l EXCEPT !.inside[n] = b])
  BY DEF Lists, Nxt, Prv, FlagSet

LEMMA LinkTypes ==
    ASSUME NEW l \in Lists
    PROVE  /\ \A x \in Pointer : Nxt(l, x) \in Pointer /\ Prv(l, x) \in Pointer
           /\ \A n \in Node : Nxt(l, n) = l.next[n] /\ Prv(l, n) = l.prev[n]
                              /\ l.next[n] \in Pointer /\ l.prev[n] \in Pointer
           /\ Nxt(l, Null) = l.first /\ Prv(l, Null) = l.last
           /\ l.first \in Pointer /\ l.last \in Pointer /\ l.num \in Int
           /\ l.inside \in [Node -> BOOLEAN]
  BY NodeFacts DEF Lists, Nxt, Prv


LEMMA AppendStatement ==
    ASSUME NEW l \in Lists, NEW c \in ListCalls, c.op = "append", c.n \in Node
    PROVE  /\ c.at = 1 => NextSet(l, c.n, Null, Statement(l, c))
           /\ c.at = 2 => PrevSet(l, c.n, l.last, Statement(l, c))
           /\ c.at = 3 => NextSet(l, c.r, c.n, Statement(l, c))
           /\ c.at = 4 => PrevSet(l, Null, c.n, Statement(l, c))
           /\ c.at = 5 => NumSet(l, l.num + 1, Statement(l, c))
           /\ c.at = 6 => FlagSet(l, c.n, TRUE, Statement(l, c))
           /\ Read(l, c) = IF c.at = 2 THEN l.last ELSE c.r
           /\ Length(c) = 6
<1>0. /\ c.n \in Pointer /\ Null \in Pointer /\ c.r \in Pointer
      /\ l.last \in Pointer /\ l.num + 1 \in Int /\ TRUE \in BOOLEAN
  BY NodeFacts, LinkTypes DEF ListCalls
<1>1. /\ c.at = 1 => Statement(l, c) = [l EXCEPT !.next[c.n] = Null]
      /\ c.at = 2 => Statement(l, c) = [l EXCEPT !.prev[c.n] = l.last]
      /\ c.at = 3 => Statement(l, c) = SetNext(l, c.r, c.n)
      /\ c.at = 4 => Statement(l, c) = [l EXCEPT !.last = c.n]
      /\ c.at = 5 => Statement(l, c) = [l EXCEPT !.num = l.num + 1]
      /\ c.at = 6 => Statement(l, c) = [l EXCEPT !.inside[c.n] = TRUE]
  BY DEF Statement, OS_ListAppend, Linked
<1>2. /\ c.at = 1 => NextSet(l, c.n, Null, Statement(l, c))
      /\ c.at = 2 => PrevSet(l, c.n, l.last, Statement(l, c))
      /\ c.at = 3 => NextSet(l, c.r, c.n, Statement(l, c))
      /\ c.at = 4 => PrevSet(l, Null, c.n, Statement(l, c))
      /\ c.at = 5 => NumSet(l, l.num + 1, Statement(l, c))
      /\ c.at = 6 => FlagSet(l, c.n, TRUE, Statement(l, c))
  <2>1. c.at = 1 => NextSet(l, c.n, Null, Statement(l, c))
    <3>1. NextSet(l, c.n, Null, [l EXCEPT !.next[c.n] = Null])
      BY <1>0, WrittenIs
    <3> QED
      BY <1>1, <3>1, Zenon
  <2>2. c.at = 2 => PrevSet(l, c.n, l.last, Statement(l, c))
    <3>1. PrevSet(l, c.n, l.last, [l EXCEPT !.prev[c.n] = l.last])
      BY <1>0, WrittenIs
    <3> QED
      BY <1>1, <3>1, Zenon
  <2>3. c.at = 3 => NextSet(l, c.r, c.n, Statement(l, c))
    <3>1. NextSet(l, c.r, c.n, SetNext(l, c.r, c.n))
      BY <1>0, SetNextIs
    <3> QED
      BY <1>1, <3>1, Zenon
  <2>4. c.at = 4 => PrevSet(l, Null, c.n, Statement(l, c))
    <3>1. PrevSet(l, Null, c.n, [l EXCEPT !.last = c.n])
      BY <1>0, WrittenIs
    <3> QED
      BY <1>1, <3>1, Zenon
  <2>5. c.at = 5 => NumSet(l, l.num + 1, Statement(l, c))
    <3>1. NumSet(l, l.num + 1, [l EXCEPT !.num = l.num + 1])
      BY <1>0, CountIs
    <3> QED
      BY <1>1, <3>1, Zenon
  <2>6. c.at = 6 => FlagSet(l, c.n, TRUE, Statement(l, c))
    <3>1. FlagSet(l, c.n, TRUE, [l EXCEPT !.inside[c.n] = TRUE])
      BY <1>0, FlagIs
    <3> QED
      BY <1>1, <3>1, Zenon
  <2> QED
    BY <2>1, <2>2, <2>3, <2>4, <2>5, <2>6
<1>5. Read(l, c) = IF c.at = 2 THEN l.last ELSE c.r
  BY DEF Read
<1> QED
  BY <1>2, <1>5 DEF Length

LEMMA InsertStatement ==
    ASSUME NEW l \in Lists, NEW c \in ListCalls, c.op = "insert", c.n \in Node
    PROVE  /\ c.at = 1 => PrevSet(l, c.n, Null, Statement(l, c))
           /\ c.at = 2 => NextSet(l, c.n, l.first, Statement(l, c))
           /\ c.at = 3 => PrevSet(l, c.r, c.n, Statement(l, c))
           /\ c.at = 4 => NextSet(l, Null, c.n, Statement(l, c))
           /\ c.at = 5 => NumSet(l, l.num + 1, Statement(l, c))
           /\ c.at = 6 => FlagSet(l, c.n, TRUE, Statement(l, c))
           /\ Read(l, c) = IF c.at = 2 THEN l.first ELSE c.r
           /\ Length(c) = 6
<1>0. /\ c.n \in Pointer /\ Null \in Pointer /\ c.r \in Pointer
      /\ l.first \in Pointer /\ l.num + 1 \in Int /\ TRUE \in BOOLEAN
  BY NodeFacts, LinkTypes DEF ListCalls
<1>1. /\ c.at = 1 => Statement(l, c) = [l EXCEPT !.prev[c.n] = Null]
      /\ c.at = 2 => Statement(l, c) = [l EXCEPT !.next[c.n] = l.first]
      /\ c.at = 3 => Statement(l, c) = SetPrev(l, c.r, c.n)
      /\ c.at = 4 => Statement(l, c) = [l EXCEPT !.first = c.n]
      /\ c.at = 5 => Statement(l, c) = [l EXCEPT !.num = l.num + 1]
      /\ c.at = 6 => Statement(l, c) = [l EXCEPT !.inside[c.n] = TRUE]
  BY DEF Statement, OS_ListInsert, Linked
<1>2. /\ c.at = 1 => PrevSet(l, c.n, Null, Statement(l, c))
      /\ c.at = 2 => NextSet(l, c.n, l.first, Statement(l, c))
      /\ c.at = 3 => PrevSet(l, c.r, c.n, Statement(l, c))
      /\ c.at = 4 => NextSet(l, Null, c.n, Statement(l, c))
      /\ c.at = 5 => NumSet(l, l.num + 1, Statement(l, c))
      /\ c.at = 6 => FlagSet(l, c.n, TRUE, Statement(l, c))
  <2>1. c.at = 1 => PrevSet(l, c.n, Null, Statement(l, c))
    <3>1. PrevSet(l, c.n, Null, [l EXCEPT !.prev[c.n] = Null])
      BY <1>0, WrittenIs
    <3> QED
      BY <1>1, <3>1, Zenon
  <2>2. c.at = 2 => NextSet(l, c.n, l.first, Statement(l, c))
    <3>1. NextSet(l, c.n, l.first, [l EXCEPT !.next[c.n] = l.first])
      BY <1>0, WrittenIs
    <3> QED
      BY <1>1, <3>1, Zenon
  <2>3. c.at = 3 => PrevSet(l, c.r, c.n, Statement(l, c))
    <3>1. PrevSet(l, c.r, c.n, SetPrev(l, c.r, c.n))
      BY <1>0, SetPrevIs
    <3> QED
      BY <1>1, <3>1, Zenon
  <2>4. c.at = 4 => NextSet(l, Null, c.n, Statement(l, c))
    <3>1. NextSet(l, Null, c.n, [l EXCEPT !.first = c.n])
      BY <1>0, WrittenIs
    <3> QED
      BY <1>1, <3>1, Zenon
  <2>5. c.at = 5 => NumSet(l, l.num + 1, Statement(l, c))
    <3>1. NumSet(l, l.num + 1, [l EXCEPT !.num = l.num + 1])
      BY <1>0, CountIs
    <3> QED
      BY <1>1, <3>1, Zenon
  <2>6. c.at = 6 => FlagSet(l, c.n, TRUE, Statement(l, c))
    <3>1. FlagSet(l, c.n, TRUE, [l EXCEPT !.inside[c.n] = TRUE])
      BY <1>0, FlagIs
    <3> QED
      BY <1>1, <3>1, Zenon
  <2> QED
    BY <2>1, <2>2, <2>3, <2>4, <2>5, <2>6
<1>5. Read(l, c) = IF c.at = 2 THEN l.first ELSE c.r
  BY DEF Read
<1> QED
  BY <1>2, <1>5 DEF Length

LEMMA AddStatement ==
    ASSUME NEW l \in Lists, NEW c \in ListCalls, c.op = "add", c.n \in Node, c.h \in Node
    PROVE  /\ c.at = 1 => Statement(l, c) = l
           /\ c.at = 2 => PrevSet(l, c.r, c.n, Statement(l, c))
           /\ c.at = 3 => NextSet(l, c.n, c.r, Statement(l, c))
           /\ c.at = 4 => PrevSet(l, c.n, c.h, Statement(l, c))
           /\ c.at = 5 => NextSet(l, c.h, c.n, Statement(l, c))
           /\ c.at = 6 => FlagSet(l, c.n, TRUE, Statement(l, c))
           /\ c.at = 7 => NumSet(l, l.num + 1, Statement(l, c))
           /\ Read(l, c) = IF c.at = 1 THEN l.next[c.h] ELSE c.r
           /\ Length(c) = 7
<1>0. /\ c.n \in Pointer /\ c.h \in Pointer /\ c.r \in Pointer /\ l.num + 1 \in Int
      /\ TRUE \in BOOLEAN
  BY NodeFacts, LinkTypes DEF ListCalls
<1>1. /\ c.at = 1 => Statement(l, c) = l
      /\ c.at = 2 => Statement(l, c) = SetPrev(l, c.r, c.n)
      /\ c.at = 3 => Statement(l, c) = [l EXCEPT !.next[c.n] = c.r]
      /\ c.at = 4 => Statement(l, c) = [l EXCEPT !.prev[c.n] = c.h]
      /\ c.at = 5 => Statement(l, c) = SetNext(l, c.h, c.n)
      /\ c.at = 6 => Statement(l, c) = [l EXCEPT !.inside[c.n] = TRUE]
      /\ c.at = 7 => Statement(l, c) = [l EXCEPT !.num = l.num + 1]
  BY DEF Statement, OS_ListAdd, Linked
<1>2. /\ c.at = 2 => PrevSet(l, c.r, c.n, Statement(l, c))
      /\ c.at = 3 => NextSet(l, c.n, c.r, Statement(l, c))
      /\ c.at = 4 => PrevSet(l, c.n, c.h, Statement(l, c))
      /\ c.at = 5 => NextSet(l, c.h, c.n, Statement(l, c))
      /\ c.at = 6 => FlagSet(l, c.n, TRUE, Statement(l, c))
      /\ c.at = 7 => NumSet(l, l.num + 1, Statement(l, c))
  <2>2. c.at = 2 => PrevSet(l, c.r, c.n, Statement(l, c))
    <3>1. PrevSet(l, c.r, c.n, SetPrev(l, c.r, c.n))
      BY <1>0, SetPrevIs
    <3> QED
      BY <1>1, <3>1, Zenon
  <2>3. c.at = 3 => NextSet(l, c.n, c.r, Statement(l, c))
    <3>1. NextSet(l, c.n, c.r, [l EXCEPT !.next[c.n] = c.r])
      BY <1>0, WrittenIs
    <3> QED
      BY <1>1, <3>1, Zenon
  <2>4. c.at = 4 => PrevSet(l, c.n, c.h, Statement(l, c))
    <3>1. PrevSet(l, c.n, c.h, [l EXCEPT !.prev[c.n] = c.h])
      BY <1>0, WrittenIs
    <3> QED
      BY <1>1, <3>1, Zenon
  <2>5. c.at = 5 => NextSet(l, c.h, c.n, Statement(l, c))
    <3>1. NextSet(l, c.h, c.n, SetNext(l, c.h, c.n))
      BY <1>0, SetNextIs
    <3> QED
      BY <1>1, <3>1, Zenon
  <2>6. c.at = 6 => FlagSet(l, c.n, TRUE, Statement(l, c))
    <3>1. FlagSet(l, c.n, TRUE, [l EXCEPT !.inside[c.n] = TRUE])
      BY <1>0, FlagIs
    <3> QED
      BY <1>1, <3>1, Zenon
  <2>7. c.at = 7 => NumSet(l, l.num + 1, Statement(l, c))
    <3>1. NumSet(l, l.num + 1, [l EXCEPT !.num = l.num + 1])
      BY <1>0, CountIs
    <3> QED
      BY <1>1, <3>1, Zenon
  <2> QED
    BY <2>2, <2>3, <2>4, <2>5, <2>6, <2>7
<1>5. Read(l, c) = IF c.at = 1 THEN l.next[c.h] ELSE c.r
  BY DEF Read
<1> QED
  BY <1>1, <1>2, <1>5 DEF Length

\* next and prev of a node that is taken out are reset in one statement.
BothReset(l, n, k) ==
    /\ k \in Lists /\ k.num = l.num /\ k.inside = l.inside
    /\ \A y \in Pointer : Nxt(k, y) = IF y = n THEN Null ELSE Nxt(l, y)
    /\ \A y \in Pointer : Prv(k, y) = IF y = n THEN Null ELSE Prv(l, y)

LEMMA TakeStatement ==
    ASSUME NEW l \in Lists, NEW c \in ListCalls, c.op \in {"extract", "getnode"}, c.n \in Node
    PROVE  /\ c.at \in {1, 3} => Statement(l, c) = l
           /\ c.at = 2 => PrevSet(l, c.r, l.prev[c.n], Statement(l, c))
           /\ c.at = 4 => NextSet(l, c.r, l.next[c.n], Statement(l, c))
           /\ c.at = 5 => BothReset(l, c.n, Statement(l, c))
           /\ c.at = (IF c.op = "extract" THEN 6 ELSE 7) =>
                  FlagSet(l, c.n, FALSE, Statement(l, c))
           /\ c.at = (IF c.op = "extract" THEN 7 ELSE 6) =>
                  NumSet(l, l.num - 1, Statement(l, c))
           /\ Read(l, c) = IF c.at = 1 THEN l.next[c.n] ELSE IF c.at = 3 THEN l.prev[c.n]
                           ELSE c.r
           /\ Length(c) = 7
<1>0. /\ c.n \in Pointer /\ c.r \in Pointer /\ l.num - 1 \in Int /\ Null \in Pointer
      /\ l.prev[c.n] \in Pointer /\ l.next[c.n] \in Pointer
  BY NodeFacts, LinkTypes DEF ListCalls
<1> DEFINE i == IF c.op = "extract" THEN 6 ELSE 7
<1>a. Statement(l, c) = Unlink(l, c, i)
  BY DEF Statement, OS_ListExtract, OS_ListGetNode
<1>1. /\ c.at \in {1, 3} => Statement(l, c) = l
      /\ c.at = 2 => Statement(l, c) = SetPrev(l, c.r, l.prev[c.n])
      /\ c.at = 4 => Statement(l, c) = SetNext(l, c.r, l.next[c.n])
      /\ c.at = 5 => Statement(l, c) = [l EXCEPT !.next[c.n] = Null, !.prev[c.n] = Null]
      /\ c.at = i => Statement(l, c) = [l EXCEPT !.inside[c.n] = FALSE]
      /\ c.at = (IF c.op = "extract" THEN 7 ELSE 6) =>
             Statement(l, c) = [l EXCEPT !.num = l.num - 1]
  BY <1>a DEF Unlink
<1>2. c.at = 5 => BothReset(l, c.n, Statement(l, c))
  <2> SUFFICES ASSUME c.at = 5 PROVE BothReset(l, c.n, Statement(l, c))
    OBVIOUS
  <2>1. PICK k : k = [l EXCEPT !.next[c.n] = Null]
    OBVIOUS
  <2>2. NextSet(l, c.n, Null, k)
    BY <1>0, <2>1, WrittenIs
  <2>3. k \in Lists
    BY <2>2 DEF NextSet
  <2>4. PrevSet(k, c.n, Null, [k EXCEPT !.prev[c.n] = Null])
    BY <1>0, <2>3, WrittenIs
  <2>5. Statement(l, c) = [k EXCEPT !.prev[c.n] = Null]
    BY <1>1, <2>1
  <2> QED
    BY <2>2, <2>4, <2>5 DEF NextSet, PrevSet, BothReset
<1>3. /\ c.at = 2 => PrevSet(l, c.r, l.prev[c.n], Statement(l, c))
      /\ c.at = 4 => NextSet(l, c.r, l.next[c.n], Statement(l, c))
  BY <1>0, <1>1, SetPrevIs, SetNextIs
<1>4. /\ c.at = i => FlagSet(l, c.n, FALSE, Statement(l, c))
      /\ c.at = (IF c.op = "extract" THEN 7 ELSE 6) => NumSet(l, l.num - 1, Statement(l, c))
  BY <1>0, <1>1, CountIs, FlagIs
<1>5. Read(l, c) = IF c.at = 1 THEN l.next[c.n] ELSE IF c.at = 3 THEN l.prev[c.n] ELSE c.r
  BY DEF Read
<1> QED
  BY <1>1, <1>2, <1>3, <1>4, <1>5 DEF Length

LEMMA OnwardIs ==
    ASSUME NEW l, NEW c \in ListCalls, c.at < 7, Read(l, c) \in Pointer
    PROVE  /\ Onward(l, c) \in ListCalls
           /\ Onward(l, c).op = c.op /\ Onward(l, c).n = c.n /\ Onward(l, c).h = c.h
           /\ Onward(l, c).at = c.at + 1 /\ Onward(l, c).r = Read(l, c)
<1> DEFINE x == Read(l, c)
           w == c.at + 1
<1>1. x \in Pointer /\ w \in 1..7
  BY DEF ListCalls
<1>2. Onward(l, c) = [c EXCEPT !.at = w, !.r = x]
  BY DEF Onward
<1> HIDE DEF x, w
<1>3. /\ [c EXCEPT !.at = w, !.r = x] \in ListCalls
      /\ [c EXCEPT !.at = w, !.r = x].op = c.op
      /\ [c EXCEPT !.at = w, !.r = x].n = c.n
      /\ [c EXCEPT !.at = w, !.r = x].h = c.h
      /\ [c EXCEPT !.at = w, !.r = x].at = w
      /\ [c EXCEPT !.at = w, !.r = x].r = x
  BY ONLY <1>1, c \in ListCalls DEF ListCalls
<1> QED
  BY <1>2, <1>3 DEF x, w

LEMMA CallIs ==
    ASSUME NEW op \in ListOps, NEW n \in Pointer
    PROVE  /\ ListCall(op, n) \in ListCalls /\ ListCall(op, n).op = op
           /\ ListCall(op, n).n = n /\ ListCall(op, n).at = 1
           /\ ListCall(op, n).r = Null /\ ListCall(op, n).h = Null
  BY NodeFacts DEF ListCall, ListCalls

LEMMA OneStatement ==
    ASSUME NEW l, NEW c \in ListCalls, c.at < 7, Read(l, c) \in Pointer
    PROVE  \E d \in ListCalls :
               /\ Further(<<l, c>>) = <<Statement(l, c), d>>
               /\ d.op = c.op /\ d.n = c.n /\ d.at = c.at + 1 /\ d.r = Read(l, c)
<1>1. PICK s : s = <<l, c>>
  OBVIOUS
<1>2. s[1] = l /\ s[2] = c
  BY <1>1
<1>3. Further(s) = <<Statement(l, c), Onward(l, c)>>
  BY <1>2 DEF Further
<1> QED
  BY <1>1, <1>3, OnwardIs

LEMMA ReadByAppend ==
    ASSUME NEW l, NEW c, c.op = "append"
    PROVE  /\ c.at = 2 => Read(l, c) = l.last
           /\ c.at # 2 => Read(l, c) = c.r
  BY DEF Read

LEMMA ReadByTake ==
    ASSUME NEW l, NEW c, c.op \in {"extract", "getnode"}
    PROVE  /\ c.at = 1 => Read(l, c) = l.next[c.n]
           /\ c.at = 3 => Read(l, c) = l.prev[c.n]
           /\ c.at \notin {1, 3} => Read(l, c) = c.r
  BY DEF Read

----------------------------------------------------------------------------
(* What an ISR does to the links.                                          *)

Appended(l, m, k) ==
    /\ k \in Lists /\ k.num = l.num + 1 /\ k.inside = [l.inside EXCEPT ![m] = TRUE]
    /\ \A x \in Pointer : Nxt(k, x) = IF x = m THEN Null
                                      ELSE IF x = l.last THEN m ELSE Nxt(l, x)
    /\ \A x \in Pointer : Prv(k, x) = IF x = Null THEN m
                                      ELSE IF x = m THEN l.last ELSE Prv(l, x)

LEMMA WholeAppends ==
    ASSUME NEW l \in Lists, NEW m \in Node, l.last # m
    PROVE  Appended(l, m, Whole(l, "append", m))
<1>0. /\ l.last \in Pointer /\ m # Null /\ m \in Pointer /\ Null \in Pointer
      /\ "append" \in ListOps /\ Prv(l, Null) = l.last
  BY LinkTypes, NodeFacts DEF ListOps
<1>c. PICK c1 : c1 = ListCall("append", m)
  OBVIOUS
<1>d. /\ c1 \in ListCalls /\ c1.op = "append" /\ c1.n = m /\ c1.at = 1 /\ c1.r = Null
      /\ c1.at < 7
  BY <1>c, <1>0, CallIs
<1>1. PICK l1 : l1 = Statement(l, c1)
  OBVIOUS
<1>1a. l1 \in Lists /\ NextSet(l, m, Null, l1) /\ l1.last = l.last
  <2>1. NextSet(l, m, Null, l1)
    BY <1>0, <1>d, <1>1, AppendStatement
  <2>2. l1 \in Lists /\ Prv(l1, Null) = l.last
    BY <1>0, <2>1 DEF NextSet
  <2> QED
    BY <2>1, <2>2, LinkTypes
<1>1b. PICK c2 \in ListCalls :
          /\ Further(<<l, c1>>) = <<l1, c2>>
          /\ c2.op = "append" /\ c2.n = m /\ c2.at = 2 /\ c2.r = Null
          /\ c2.at < 7
  <2>1. Read(l, c1) = Null
    <3>1. c1.at = 1 /\ c1.op = "append"
      BY <1>0, <1>d
    <3> QED
      BY <3>1, <1>0, <1>d, ReadByAppend
  <2>2. c1.at = 1 /\ c1.at < 7 /\ Read(l, c1) \in Pointer /\ c1.op = "append" /\ c1.n = m
    BY <1>0, <1>d, <2>1
  <2> QED
    BY <1>d, <1>1, <2>1, <2>2, OneStatement
<1>2. PICK l2 : l2 = Statement(l1, c2)
  OBVIOUS
<1>2a. l2 \in Lists /\ PrevSet(l1, m, l.last, l2)
  <2>1. PrevSet(l1, m, l.last, l2)
    BY <1>0, <1>1a, <1>1b, <1>2, AppendStatement
  <2> QED
    BY <2>1 DEF PrevSet
<1>2b. PICK c3 \in ListCalls :
          /\ Further(<<l1, c2>>) = <<l2, c3>>
          /\ c3.op = "append" /\ c3.n = m /\ c3.at = 3 /\ c3.r = l.last
          /\ c3.at < 7
  <2>1. Read(l1, c2) = l.last
    <3>1. c2.at = 2 /\ c2.op = "append"
      BY <1>0, <1>1b, <1>1a
    <3> QED
      BY <3>1, <1>0, <1>1b, <1>1a, ReadByAppend
  <2>2. c2.at = 2 /\ c2.at < 7 /\ Read(l1, c2) \in Pointer /\ c2.op = "append" /\ c2.n = m
    BY <1>0, <1>1b, <2>1
  <2> QED
    BY <1>1b, <1>2, <2>1, <2>2, OneStatement
<1>3. PICK l3 : l3 = Statement(l2, c3)
  OBVIOUS
<1>3a. l3 \in Lists /\ NextSet(l2, l.last, m, l3)
  <2>1. NextSet(l2, l.last, m, l3)
    BY <1>0, <1>2a, <1>2b, <1>3, AppendStatement
  <2> QED
    BY <2>1 DEF NextSet
<1>3b. PICK c4 \in ListCalls :
          /\ Further(<<l2, c3>>) = <<l3, c4>>
          /\ c4.op = "append" /\ c4.n = m /\ c4.at = 4 /\ c4.r = l.last
          /\ c4.at < 7
  <2>1. Read(l2, c3) = l.last
    <3>1. c3.at = 3 /\ c3.op = "append"
      BY <1>0, <1>2b, <1>2a
    <3> QED
      BY <3>1, <1>0, <1>2b, <1>2a, ReadByAppend
  <2>2. c3.at = 3 /\ c3.at < 7 /\ Read(l2, c3) \in Pointer /\ c3.op = "append" /\ c3.n = m
    BY <1>0, <1>2b, <2>1
  <2> QED
    BY <1>2b, <1>3, <2>1, <2>2, OneStatement
<1>4. PICK l4 : l4 = Statement(l3, c4)
  OBVIOUS
<1>4a. l4 \in Lists /\ PrevSet(l3, Null, m, l4) /\ l4.num = l.num
  <2>1. PrevSet(l3, Null, m, l4)
    BY <1>3a, <1>3b, <1>4, AppendStatement
  <2>2. l4 \in Lists /\ l4.num = l.num
    BY <1>1a, <1>2a, <1>3a, <2>1 DEF NextSet, PrevSet
  <2> QED
    BY <2>1, <2>2
<1>4b. PICK c5 \in ListCalls :
          /\ Further(<<l3, c4>>) = <<l4, c5>>
          /\ c5.op = "append" /\ c5.n = m /\ c5.at = 5 /\ c5.r = l.last
          /\ c5.at < 7
  <2>1. Read(l3, c4) = l.last
    <3>1. c4.at = 4 /\ c4.op = "append"
      BY <1>0, <1>3b, <1>3a
    <3> QED
      BY <3>1, <1>0, <1>3b, <1>3a, ReadByAppend
  <2>2. c4.at = 4 /\ c4.at < 7 /\ Read(l3, c4) \in Pointer /\ c4.op = "append" /\ c4.n = m
    BY <1>0, <1>3b, <2>1
  <2> QED
    BY <1>3b, <1>4, <2>1, <2>2, OneStatement
<1>5. PICK l5 : l5 = Statement(l4, c5)
  OBVIOUS
<1>5a. l5 \in Lists /\ NumSet(l4, l.num + 1, l5)
  <2>1. NumSet(l4, l.num + 1, l5)
    BY <1>0, <1>4a, <1>4b, <1>5, AppendStatement
  <2> QED
    BY <2>1 DEF NumSet
<1>5b. PICK c6 \in ListCalls :
          /\ Further(<<l4, c5>>) = <<l5, c6>>
          /\ c6.op = "append" /\ c6.n = m /\ c6.at = 6 /\ c6.r = l.last
          /\ c6.at < 7
  <2>1. Read(l4, c5) = l.last
    <3>1. c5.at = 5 /\ c5.op = "append"
      BY <1>0, <1>4b, <1>4a
    <3> QED
      BY <3>1, <1>0, <1>4b, <1>4a, ReadByAppend
  <2>2. c5.at = 5 /\ c5.at < 7 /\ Read(l4, c5) \in Pointer /\ c5.op = "append" /\ c5.n = m
    BY <1>0, <1>4b, <2>1
  <2> QED
    BY <1>4b, <1>5, <2>1, <2>2, OneStatement
<1>6. PICK l6 : l6 = Statement(l5, c6)
  OBVIOUS
<1>6a. l6 \in Lists /\ FlagSet(l5, m, TRUE, l6)
  <2>1. FlagSet(l5, m, TRUE, l6)
    BY <1>0, <1>5a, <1>5b, <1>6, AppendStatement
  <2> QED
    BY <2>1 DEF FlagSet
<1>7. Whole(l, "append", m) = l6
  <2>1. Length(c1) = 6
    BY <1>d DEF Length
  <2>2. Further(<<l5, c6>>)[1] = l6
    <3>1. PICK s : s = <<l5, c6>>
      OBVIOUS
    <3>2. s[1] = l5 /\ s[2] = c6
      BY <3>1
    <3>3. Further(s)[1] = Statement(l5, c6)
      BY <3>2 DEF Further
    <3> QED
      BY <3>1, <3>3, <1>6
  <2> QED
    BY <2>1, <2>2, <1>c, <1>1b, <1>2b, <1>3b, <1>4b, <1>5b DEF Whole
<1>8. l6.num = l.num + 1 /\ l6.inside = [l.inside EXCEPT ![m] = TRUE]
  BY <1>1a, <1>2a, <1>3a, <1>4a, <1>5a, <1>6a DEF NextSet, PrevSet, NumSet, FlagSet
<1>9. ASSUME NEW x \in Pointer
      PROVE  Nxt(l6, x) = IF x = m THEN Null ELSE IF x = l.last THEN m ELSE Nxt(l, x)
  <2>1. Nxt(l6, x) = Nxt(l3, x)
    BY <1>4a, <1>5a, <1>6a DEF PrevSet, NumSet, FlagSet
  <2>2. Nxt(l3, x) = IF x = l.last THEN m ELSE Nxt(l1, x)
    BY <1>2a, <1>3a DEF PrevSet, NextSet
  <2>3. Nxt(l1, x) = IF x = m THEN Null ELSE Nxt(l, x)
    BY <1>1a DEF NextSet
  <2> QED
    BY <2>1, <2>2, <2>3
<1>10. ASSUME NEW x \in Pointer
       PROVE  Prv(l6, x) = IF x = Null THEN m ELSE IF x = m THEN l.last ELSE Prv(l, x)
  <2>1. Prv(l6, x) = Prv(l4, x)
    BY <1>5a, <1>6a DEF NumSet, FlagSet
  <2>2. Prv(l4, x) = IF x = Null THEN m ELSE Prv(l2, x)
    BY <1>3a, <1>4a DEF PrevSet, NextSet
  <2>3. Prv(l2, x) = IF x = m THEN l.last ELSE Prv(l, x)
    BY <1>1a, <1>2a DEF NextSet, PrevSet
  <2> QED
    BY <2>1, <2>2, <2>3
<1> QED
  BY <1>6a, <1>7, <1>8, <1>9, <1>10 DEF Appended

TakenOut(l, n, k) ==
    /\ k \in Lists /\ k.num = l.num - 1 /\ k.inside = [l.inside EXCEPT ![n] = FALSE]
    /\ \A x \in Pointer : Nxt(k, x) = IF x = n THEN Null
                                      ELSE IF x = l.prev[n] THEN l.next[n] ELSE Nxt(l, x)
    /\ \A x \in Pointer : Prv(k, x) = IF x = n THEN Null
                                      ELSE IF x = l.next[n] THEN l.prev[n] ELSE Prv(l, x)

LEMMA WholeTakes ==
    ASSUME NEW l \in Lists, NEW op \in {"extract", "getnode"}, NEW n \in Node,
           l.prev[n] # n, l.next[n] # n
    PROVE  TakenOut(l, n, Whole(l, op, n))
<1>z. PICK a \in Pointer, b \in Pointer : a = l.prev[n] /\ b = l.next[n] /\ a # n /\ b # n
  BY LinkTypes
<1>0. /\ n # Null /\ n \in Pointer /\ Null \in Pointer /\ op \in ListOps
      /\ Nxt(l, n) = b /\ Prv(l, n) = a
  BY <1>z, LinkTypes, NodeFacts DEF ListOps
<1>c. PICK c1 : c1 = ListCall(op, n)
  OBVIOUS
<1>d. /\ c1 \in ListCalls /\ c1.op = op /\ c1.n = n /\ c1.at = 1 /\ c1.r = Null
      /\ c1.at < 7
  BY <1>c, <1>0, CallIs
<1>1. PICK l1 : l1 = Statement(l, c1)
  OBVIOUS
<1>1a. l1 \in Lists /\ l1 = l
  BY <1>d, <1>1, TakeStatement
<1>1b. PICK c2 \in ListCalls :
          /\ Further(<<l, c1>>) = <<l1, c2>>
          /\ c2.op = op /\ c2.n = n /\ c2.at = 2 /\ c2.r = b /\ c2.at < 7
  <2>1. Read(l, c1) = b
    <3>1. c1.at = 1 /\ c1.op \in {"extract", "getnode"}
      BY <1>0, <1>z, <1>d
    <3> QED
      BY <3>1, <1>0, <1>z, <1>d, ReadByTake
  <2>2. c1.at = 1 /\ c1.at < 7 /\ Read(l, c1) \in Pointer /\ c1.op = op /\ c1.n = n
    BY <1>0, <1>z, <1>d, <2>1
  <2> QED
    BY <1>d, <1>1, <2>1, <2>2, OneStatement
<1>2. PICK l2 : l2 = Statement(l1, c2)
  OBVIOUS
<1>2a. l2 \in Lists /\ PrevSet(l, b, a, l2) /\ l2.prev[n] = a /\ l2.next[n] = b
  <2>1. PrevSet(l1, b, l1.prev[n], l2)
    BY <1>1a, <1>1b, <1>2, TakeStatement
  <2>2. PrevSet(l, b, a, l2)
    BY <1>1a, <1>z, <2>1
  <2>3. l2 \in Lists /\ Prv(l2, n) = a /\ Nxt(l2, n) = b
    BY <1>0, <1>z, <2>2 DEF PrevSet
  <2> QED
    BY <2>2, <2>3, LinkTypes
<1>2b. PICK c3 \in ListCalls :
          /\ Further(<<l1, c2>>) = <<l2, c3>>
          /\ c3.op = op /\ c3.n = n /\ c3.at = 3 /\ c3.r = b /\ c3.at < 7
  <2>1. Read(l1, c2) = b
    <3>1. c2.at = 2 /\ c2.op \in {"extract", "getnode"}
      BY <1>0, <1>z, <1>1b, <1>1a
    <3> QED
      BY <3>1, <1>0, <1>z, <1>1b, <1>1a, ReadByTake
  <2>2. c2.at = 2 /\ c2.at < 7 /\ Read(l1, c2) \in Pointer /\ c2.op = op /\ c2.n = n
    BY <1>0, <1>z, <1>1b, <2>1
  <2> QED
    BY <1>1b, <1>2, <2>1, <2>2, OneStatement
<1>3. PICK l3 : l3 = Statement(l2, c3)
  OBVIOUS
<1>3a. l3 \in Lists /\ l3 = l2
  BY <1>2a, <1>2b, <1>3, TakeStatement
<1>3b. PICK c4 \in ListCalls :
          /\ Further(<<l2, c3>>) = <<l3, c4>>
          /\ c4.op = op /\ c4.n = n /\ c4.at = 4 /\ c4.r = a /\ c4.at < 7
  <2>1. Read(l2, c3) = a
    <3>1. c3.at = 3 /\ c3.op \in {"extract", "getnode"}
      BY <1>0, <1>z, <1>2b, <1>2a, <1>2a
    <3> QED
      BY <3>1, <1>0, <1>z, <1>2b, <1>2a, <1>2a, ReadByTake
  <2>2. c3.at = 3 /\ c3.at < 7 /\ Read(l2, c3) \in Pointer /\ c3.op = op /\ c3.n = n
    BY <1>0, <1>z, <1>2b, <2>1
  <2> QED
    BY <1>2b, <1>3, <2>1, <2>2, OneStatement
<1>4. PICK l4 : l4 = Statement(l3, c4)
  OBVIOUS
<1>4a. l4 \in Lists /\ NextSet(l2, a, b, l4)
  <2>1. NextSet(l3, a, l3.next[n], l4)
    BY <1>3a, <1>3b, <1>4, TakeStatement
  <2> QED
    BY <1>2a, <1>3a, <2>1 DEF NextSet
<1>4b. PICK c5 \in ListCalls :
          /\ Further(<<l3, c4>>) = <<l4, c5>>
          /\ c5.op = op /\ c5.n = n /\ c5.at = 5 /\ c5.r = a /\ c5.at < 7
  <2>1. Read(l3, c4) = a
    <3>1. c4.at = 4 /\ c4.op \in {"extract", "getnode"}
      BY <1>0, <1>z, <1>3b, <1>3a
    <3> QED
      BY <3>1, <1>0, <1>z, <1>3b, <1>3a, ReadByTake
  <2>2. c4.at = 4 /\ c4.at < 7 /\ Read(l3, c4) \in Pointer /\ c4.op = op /\ c4.n = n
    BY <1>0, <1>z, <1>3b, <2>1
  <2> QED
    BY <1>3b, <1>4, <2>1, <2>2, OneStatement
<1>5. PICK l5 : l5 = Statement(l4, c5)
  OBVIOUS
<1>5a. l5 \in Lists /\ BothReset(l4, n, l5)
  <2>1. BothReset(l4, n, l5)
    BY <1>4a, <1>4b, <1>5, TakeStatement
  <2> QED
    BY <2>1 DEF BothReset
<1>5b. PICK c6 \in ListCalls :
          /\ Further(<<l4, c5>>) = <<l5, c6>>
          /\ c6.op = op /\ c6.n = n /\ c6.at = 6 /\ c6.r = a /\ c6.at < 7
  <2>1. Read(l4, c5) = a
    <3>1. c5.at = 5 /\ c5.op \in {"extract", "getnode"}
      BY <1>0, <1>z, <1>4b, <1>4a
    <3> QED
      BY <3>1, <1>0, <1>z, <1>4b, <1>4a, ReadByTake
  <2>2. c5.at = 5 /\ c5.at < 7 /\ Read(l4, c5) \in Pointer /\ c5.op = op /\ c5.n = n
    BY <1>0, <1>z, <1>4b, <2>1
  <2> QED
    BY <1>4b, <1>5, <2>1, <2>2, OneStatement
<1>6. PICK l6 : l6 = Statement(l5, c6)
  OBVIOUS
<1>6a. /\ l6 \in Lists
       /\ IF op = "extract" THEN FlagSet(l5, n, FALSE, l6) ELSE NumSet(l5, l5.num - 1, l6)
  <2>1. IF op = "extract" THEN FlagSet(l5, n, FALSE, l6) ELSE NumSet(l5, l5.num - 1, l6)
    <3>1. CASE op = "extract"
      BY <3>1, <1>5a, <1>5b, <1>6, TakeStatement
    <3>2. CASE op = "getnode"
      BY <3>2, <1>5a, <1>5b, <1>6, TakeStatement
    <3> QED
      BY <3>1, <3>2
  <2> QED
    BY <2>1 DEF FlagSet, NumSet
<1>6b. PICK c7 \in ListCalls :
          /\ Further(<<l5, c6>>) = <<l6, c7>>
          /\ c7.op = op /\ c7.n = n /\ c7.at = 7 /\ c7.r = a
  <2>1. Read(l5, c6) = a
    <3>1. c6.at = 6 /\ c6.op \in {"extract", "getnode"}
      BY <1>0, <1>z, <1>5b, <1>5a
    <3> QED
      BY <3>1, <1>0, <1>z, <1>5b, <1>5a, ReadByTake
  <2>2. c6.at = 6 /\ c6.at < 7 /\ Read(l5, c6) \in Pointer /\ c6.op = op /\ c6.n = n
    BY <1>0, <1>z, <1>5b, <2>1
  <2> QED
    BY <1>5b, <1>6, <2>1, <2>2, OneStatement
<1>7. PICK l7 : l7 = Statement(l6, c7)
  OBVIOUS
<1>7a. /\ l7 \in Lists
       /\ IF op = "extract" THEN NumSet(l6, l6.num - 1, l7) ELSE FlagSet(l6, n, FALSE, l7)
  <2>1. IF op = "extract" THEN NumSet(l6, l6.num - 1, l7) ELSE FlagSet(l6, n, FALSE, l7)
    <3>1. CASE op = "extract"
      BY <3>1, <1>6a, <1>6b, <1>7, TakeStatement
    <3>2. CASE op = "getnode"
      BY <3>2, <1>6a, <1>6b, <1>7, TakeStatement
    <3> QED
      BY <3>1, <3>2
  <2> QED
    BY <2>1 DEF FlagSet, NumSet
<1>8. Whole(l, op, n) = l7
  <2>1. Length(c1) # 6
    BY <1>d DEF Length
  <2>2. Further(<<l6, c7>>)[1] = l7
    <3>1. PICK s : s = <<l6, c7>>
      OBVIOUS
    <3>2. s[1] = l6 /\ s[2] = c7
      BY <3>1
    <3>3. Further(s)[1] = Statement(l6, c7)
      BY <3>2 DEF Further
    <3> QED
      BY <3>1, <3>3, <1>7
  <2> QED
    BY <2>1, <2>2, <1>c, <1>1b, <1>2b, <1>3b, <1>4b, <1>5b, <1>6b DEF Whole
<1>9. l5.num = l.num /\ l5.inside = l.inside
  BY <1>2a, <1>3a, <1>4a, <1>5a DEF NextSet, PrevSet, BothReset
<1>10. l7.num = l.num - 1 /\ l7.inside = [l.inside EXCEPT ![n] = FALSE]
  BY <1>6a, <1>7a, <1>9 DEF NumSet, FlagSet
<1>11. \A x \in Pointer : Nxt(l7, x) = Nxt(l5, x) /\ Prv(l7, x) = Prv(l5, x)
  BY <1>6a, <1>7a DEF NumSet, FlagSet
<1>12. ASSUME NEW x \in Pointer
       PROVE  /\ Nxt(l7, x) = IF x = n THEN Null ELSE IF x = a THEN b ELSE Nxt(l, x)
              /\ Prv(l7, x) = IF x = n THEN Null ELSE IF x = b THEN a ELSE Prv(l, x)
  <2>1. /\ Nxt(l5, x) = IF x = n THEN Null ELSE Nxt(l4, x)
        /\ Prv(l5, x) = IF x = n THEN Null ELSE Prv(l4, x)
    BY <1>5a DEF BothReset
  <2>2. Nxt(l4, x) = IF x = a THEN b ELSE Nxt(l2, x)
    BY <1>4a DEF NextSet
  <2>3. Prv(l4, x) = Prv(l2, x)
    BY <1>4a DEF NextSet
  <2>4. Nxt(l2, x) = Nxt(l, x) /\ Prv(l2, x) = IF x = b THEN a ELSE Prv(l, x)
    BY <1>2a DEF PrevSet
  <2> QED
    BY <1>11, <2>1, <2>2, <2>3, <2>4
<1> QED
  BY <1>7a, <1>8, <1>10, <1>12, <1>z DEF TakenOut

----------------------------------------------------------------------------
(* The parts of the invariant that are not links.                          *)

Rest(role, l, c, q) ==
    /\ ListTypes(role, l, c, q) /\ CallOf(role, c, q) /\ Marks(l, c, q)
    /\ role = "time" => Due(c, q)

\* d is the call c one statement further.
NextCall(c, d) ==
    /\ d \in ListCalls /\ d.op = c.op /\ d.n = c.n /\ d.h = c.h /\ d.at = c.at + 1

LEMMA SoundIs ==
    \A role, l, c, q :
        Sound(role, l, c, q) <=> /\ Rest(role, l, c, q) /\ Forward(role, l, c, q)
                                 /\ Backward(l, c, q) /\ NodeLinks(l, c, q)
  BY DEF Sound, Rest

\* What the invariant says of the node of a call.
LEMMA StartedFacts ==
    ASSUME NEW role, NEW l, NEW c, NEW q, Rest(role, l, c, q), c.op \notin {"none", "walk"}
    PROVE  /\ c \in ListCalls /\ l \in Lists /\ q \in Seq(Node) /\ Once(q)
           /\ c.n \in Node /\ c.n # Null /\ c.n \in Pointer /\ c.r \in Pointer
           /\ c.at \in 1..Length(c) /\ c.at \in 1..7
           /\ Puts(c) => (Holds(q, c.n) <=> HadEffect(c))
           /\ Takes(c) => (Holds(q, c.n) <=> ~HadEffect(c))
<1>1. c \in ListCalls /\ l \in Lists /\ q \in Seq(Node) /\ Once(q) /\ CallOf(role, c, q)
  BY DEF Rest, ListTypes
<1>2. c.r \in Pointer /\ c.at \in 1..7
  BY <1>1 DEF ListCalls
<1> QED
  BY <1>1, <1>2, NodeFacts DEF CallOf

\* A statement that writes links of the node before it is in the list, or
\* after it is out of it, or that only reads.
LEMMA QuietRest ==
    ASSUME NEW role, NEW l, NEW c, NEW q, NEW d, NEW k,
           Rest(role, l, c, q), NextCall(c, d),
           k \in Lists, k.num = l.num, k.inside = l.inside,
           \/ c.op \in {"append", "insert"} /\ c.at \in 1..3
           \/ c.op = "add" /\ c.at \in 1..4
           \/ c.op \in {"extract", "getnode"} /\ c.at \in {1, 2, 3, 5}
    PROVE  Rest(role, k, d, q)
<1>0. c.op \notin {"none", "walk"}
  OBVIOUS
<1>1. /\ c \in ListCalls /\ c.n \in Node /\ c.at \in Int
      /\ d.op = c.op /\ d.n = c.n /\ d.h = c.h /\ d.at = c.at + 1
  BY <1>0, StartedFacts DEF NextCall
<1>2. HadEffect(d) <=> HadEffect(c)
  BY <1>1 DEF HadEffect
<1>3. (Puts(d) <=> Puts(c)) /\ (Takes(d) <=> Takes(c))
  BY <1>1 DEF Puts, Takes
<1>4. Length(d) = Length(c) /\ d.at \in 1..Length(d)
  BY <1>1 DEF Length
<1>5. ListTypes(role, k, d, q)
  BY DEF Rest, ListTypes, NextCall
<1>6. CallOf(role, d, q)
  BY <1>1, <1>2, <1>3, <1>4 DEF Rest, CallOf
<1>7. Marks(k, d, q)
  <2>1. Lag(d) = Lag(c) /\ (Marked(d) <=> Marked(c))
    BY <1>1 DEF Lag, Marked
  <2> QED
    BY <1>1, <2>1 DEF Rest, Marks
<1>8. role = "time" => Due(d, q)
  BY <1>1 DEF Rest, Due
<1> QED
  BY <1>5, <1>6, <1>7, <1>8 DEF Rest

LEMMA GrownHolds ==
    ASSUME NEW q \in Seq(Node), Once(q), NEW p, NEW n \in Node, ~Holds(q, n), NEW s,
           Grown(q, p, n, s)
    PROVE  /\ s \in Seq(Node) /\ Once(s) /\ Len(s) = Len(q) + 1 /\ Len(q) \in Nat
           /\ \A x : Holds(s, x) <=> Holds(q, x) \/ x = n
<1>1. PICK a, b : a = Place(q, p) /\ b = Place(q, p + 1)
  OBVIOUS
<1>2. /\ Follows(q, a, b) /\ Once(s)
      /\ \A z : Holds(s, z) <=> Holds(q, z) \/ z = n
      /\ \A z, w : Follows(s, z, w) =>
             \/ z = a /\ w = n
             \/ z = n /\ w = b
             \/ z # a /\ w # b /\ z # n /\ w # n /\ Follows(q, z, w)
      /\ Follows(s, a, n) /\ Follows(s, n, b)
  BY <1>1, RingGrown
<1>3. s \in Seq(Node) /\ Len(s) = Len(q) + 1 /\ Len(q) \in Nat
  BY DEF Grown
<1> QED
  BY <1>2, <1>3

LEMMA ShrunkHolds ==
    ASSUME NEW q \in Seq(Node), Once(q), NEW p, NEW n \in Node, NEW s,
           Shrunk(q, p, s), q[p] = n
    PROVE  /\ s \in Seq(Node) /\ Once(s) /\ Len(s) = Len(q) - 1 /\ Len(q) \in Nat
           /\ \A x : Holds(s, x) <=> Holds(q, x) /\ x # n
<1>1. PICK a, b : a = Place(q, p - 1) /\ b = Place(q, p + 1)
  OBVIOUS
<1>2. /\ Follows(q, a, n) /\ Follows(q, n, b) /\ Once(s)
      /\ \A z : Holds(s, z) <=> Holds(q, z) /\ z # n
      /\ \A z, w : Follows(s, z, w) =>
             \/ z = a /\ w = b
             \/ z # a /\ w # b /\ z # n /\ w # n /\ Follows(q, z, w)
      /\ Follows(s, a, b) /\ Len(s) = Len(q) - 1 /\ Holds(q, n)
  BY <1>1, RingShrunk
<1>3. s \in Seq(Node) /\ Len(s) = Len(q) - 1 /\ Len(q) \in Nat
  BY DEF Shrunk
<1> QED
  BY <1>2, <1>3

\* The order of the time queue, with a sleeper put in its place or taken out.
InOrder(q) == \A i, j \in 1..Len(q) : i < j => Deadline[q[i]] <= Deadline[q[j]]

LEMMA OrderGrown ==
    ASSUME NEW q \in Seq(Node), NEW p, NEW n \in Node, NEW s, Grown(q, p, n, s),
           InOrder(q), NoLater(q, n, p), Later(q, n, p)
    PROVE  InOrder(s)
<1> DEFINE k == Len(q)
<1>1. /\ k \in Nat /\ p \in 0..k /\ Len(s) = k + 1
      /\ \A i \in 1..(k + 1) : s[i] = IF i <= p THEN q[i] ELSE IF i = p + 1 THEN n ELSE q[i - 1]
  BY PlaceIs DEF Grown
<1>2. \A i \in 1..k : Deadline[q[i]] \in Nat
  BY PlaceIs, NodeFacts
<1>3. Deadline[n] \in Nat
  BY NodeFacts
<1>4. \A i \in 1..k : IF i <= p THEN Deadline[q[i]] <= Deadline[n] ELSE Deadline[q[i]] > Deadline[n]
  BY <1>1 DEF NoLater, Later
<1>5. ASSUME NEW i \in 1..(k + 1), NEW j \in 1..(k + 1), i < j
      PROVE  Deadline[s[i]] <= Deadline[s[j]]
  <2>1. CASE j <= p
    BY <1>1, <1>5, <2>1 DEF InOrder
  <2>2. CASE j = p + 1
    <3>1. s[j] = n /\ s[i] = q[i] /\ i \in 1..k /\ i <= p
      BY <1>1, <1>5, <2>2
    <3> QED
      BY <1>4, <3>1
  <2>3. CASE j > p + 1 /\ i = p + 1
    <3>1. s[i] = n /\ s[j] = q[j - 1] /\ j - 1 \in 1..k /\ ~(j - 1 <= p)
      BY <1>1, <1>5, <2>3
    <3> QED
      BY <1>2, <1>3, <1>4, <3>1
  <2>4. CASE j > p + 1 /\ i <= p
    <3>1. s[i] = q[i] /\ s[j] = q[j - 1] /\ i \in 1..k /\ j - 1 \in 1..k /\ i < j - 1
      BY <1>1, <1>5, <2>4
    <3> QED
      BY <3>1 DEF InOrder
  <2>5. CASE j > p + 1 /\ i > p + 1
    <3>1. s[i] = q[i - 1] /\ s[j] = q[j - 1] /\ i - 1 \in 1..k /\ j - 1 \in 1..k /\ i - 1 < j - 1
      BY <1>1, <1>5, <2>5
    <3> QED
      BY <3>1 DEF InOrder
  <2> QED
    BY <1>1, <1>5, <2>1, <2>2, <2>3, <2>4, <2>5
<1> QED
  BY <1>1, <1>5 DEF InOrder

LEMMA OrderShrunk ==
    ASSUME NEW q \in Seq(Node), NEW p, NEW s, Shrunk(q, p, s), InOrder(q)
    PROVE  InOrder(s)
<1> DEFINE k == Len(q)
<1>1. /\ k \in Nat /\ p \in 1..k /\ Len(s) = k - 1
      /\ \A i \in 1..(k - 1) : s[i] = IF i < p THEN q[i] ELSE q[i + 1]
  BY PlaceIs DEF Shrunk
<1>5. ASSUME NEW i \in 1..(k - 1), NEW j \in 1..(k - 1), i < j
      PROVE  Deadline[s[i]] <= Deadline[s[j]]
  <2>1. PICK u \in 1..k, v \in 1..k : u < v /\ s[i] = q[u] /\ s[j] = q[v]
    <3>1. CASE j < p
      BY <1>1, <1>5, <3>1, SMTT(30)
    <3>2. CASE i < p /\ ~(j < p)
      <4>1. s[i] = q[i] /\ s[j] = q[j + 1] /\ i \in 1..k /\ j + 1 \in 1..k /\ i < j + 1
        BY <1>1, <1>5, <3>2
      <4> QED
        BY <4>1
    <3>3. CASE ~(i < p)
      <4>1. s[i] = q[i + 1] /\ s[j] = q[j + 1] /\ i + 1 \in 1..k /\ j + 1 \in 1..k /\ i + 1 < j + 1
        BY <1>1, <1>5, <3>3
      <4> QED
        BY <4>1
    <3> QED
      BY <1>1, <1>5, <3>1, <3>2, <3>3
  <2> QED
    BY <2>1 DEF InOrder
<1> QED
  BY <1>1, <1>5 DEF InOrder

\* The statement that puts the node in.
LEMMA PutRest ==
    ASSUME NEW role, NEW l, NEW c, NEW q, NEW d, NEW k, NEW p, NEW s,
           Rest(role, l, c, q), NextCall(c, d),
           k \in Lists, k.num = l.num, k.inside = l.inside,
           \/ c.op \in {"append", "insert"} /\ c.at = 4
           \/ c.op = "add" /\ c.at = 5,
           Grown(q, p, c.n, s),
           role = "time" => NoLater(q, c.n, p) /\ Later(q, c.n, p)
    PROVE  Rest(role, k, d, s) /\ ~Holds(q, c.n)
<1>0. c.op \notin {"none", "walk"}
  OBVIOUS
<1>1. /\ c \in ListCalls /\ c.n \in Node /\ c.at \in Int
      /\ q \in Seq(Node) /\ Once(q)
      /\ d.op = c.op /\ d.n = c.n /\ d.h = c.h /\ d.at = c.at + 1
      /\ Puts(c) => (Holds(q, c.n) <=> HadEffect(c))
  BY <1>0, StartedFacts DEF NextCall
<1>2. HadEffect(d) /\ ~HadEffect(c)
  BY <1>1 DEF HadEffect
<1>3. Puts(d) /\ Puts(c) /\ ~Takes(c) /\ ~Takes(d)
  BY <1>1 DEF Puts, Takes
<1>4. Length(d) = Length(c) /\ d.at \in 1..Length(d)
  BY <1>1 DEF Length
<1>a. ~Holds(q, c.n)
  BY <1>1, <1>2, <1>3
<1>b. /\ s \in Seq(Node) /\ Once(s) /\ Len(s) = Len(q) + 1 /\ Len(q) \in Nat
      /\ \A x : Holds(s, x) <=> Holds(q, x) \/ x = c.n
  BY <1>1, <1>a, GrownHolds
<1>5. ListTypes(role, k, d, s)
  BY <1>b DEF Rest, ListTypes, NextCall
<1>6. CallOf(role, d, s)
  BY <1>1, <1>2, <1>3, <1>4, <1>b DEF Rest, CallOf
<1>7. Marks(k, d, s)
  <2>1. Lag(d) = -1 /\ Lag(c) = 0 /\ ~Marked(d) /\ ~Marked(c)
    BY <1>1 DEF Lag, Marked
  <2>2. l.num = Len(q)
    BY <1>b, <2>1 DEF Rest, Marks
  <2> QED
    BY <1>1, <1>b, <2>1, <2>2 DEF Rest, Marks
<1>8. role = "time" => Due(d, s)
  <2>1. role = "time" => InOrder(s)
    <3>1. role = "time" => InOrder(q)
      BY DEF Rest, Due, InOrder
    <3> QED
      BY <1>1, <3>1, OrderGrown
  <2> QED
    BY <1>1, <2>1 DEF Due, InOrder
<1> QED
  BY <1>5, <1>6, <1>7, <1>8, <1>a DEF Rest

\* The statement that takes it out.
LEMMA TakeRest ==
    ASSUME NEW role, NEW l, NEW c, NEW q, NEW d, NEW k, NEW p, NEW s,
           Rest(role, l, c, q), NextCall(c, d),
           k \in Lists, k.num = l.num, k.inside = l.inside,
           c.op \in {"extract", "getnode"} /\ c.at = 4,
           Shrunk(q, p, s), q[p] = c.n
    PROVE  Rest(role, k, d, s)
<1>0. c.op \notin {"none", "walk"}
  OBVIOUS
<1>1. /\ c \in ListCalls /\ c.n \in Node /\ c.at \in Int
      /\ q \in Seq(Node) /\ Once(q)
      /\ d.op = c.op /\ d.n = c.n /\ d.h = c.h /\ d.at = c.at + 1
  BY <1>0, StartedFacts DEF NextCall
<1>2. HadEffect(d)
  BY <1>1 DEF HadEffect
<1>3. ~Puts(d) /\ Takes(d)
  BY <1>1 DEF Puts, Takes
<1>4. Length(d) = Length(c) /\ d.at \in 1..Length(d)
  BY <1>1 DEF Length
<1>b. /\ s \in Seq(Node) /\ Once(s) /\ Len(s) = Len(q) - 1 /\ Len(q) \in Nat
      /\ \A x : Holds(s, x) <=> Holds(q, x) /\ x # c.n
  BY <1>1, ShrunkHolds
<1>5. ListTypes(role, k, d, s)
  BY <1>b DEF Rest, ListTypes, NextCall
<1>6. CallOf(role, d, s)
  BY <1>1, <1>2, <1>3, <1>4, <1>b DEF Rest, CallOf
<1>7. Marks(k, d, s)
  <2>1. Lag(d) = 1 /\ Lag(c) = 0 /\ Marked(d) /\ Marked(c)
    BY <1>1 DEF Lag, Marked
  <2>2. l.num = Len(q)
    BY <1>b, <2>1 DEF Rest, Marks
  <2> QED
    BY <1>1, <1>b, <2>1, <2>2 DEF Rest, Marks
<1>8. role = "time" => Due(d, s)
  <2>1. role = "time" => InOrder(s)
    <3>1. role = "time" => InOrder(q)
      BY DEF Rest, Due, InOrder
    <3> QED
      BY <1>1, <3>1, OrderShrunk
  <2> QED
    BY <1>1, <2>1 DEF Due, InOrder
<1> QED
  BY <1>5, <1>6, <1>7, <1>8 DEF Rest

LEMMA NoCallIs == NoCall \in ListCalls /\ NoCall.op = "none" /\ NoCall.n = Null
  BY NodeFacts, CallIs DEF NoCall, ListOps

\* The statements after that: the count and the flag.
LEMMA MarksRest ==
    ASSUME NEW role, NEW l, NEW c, NEW q, NEW d, NEW k, NEW last \in BOOLEAN, NEW flag \in BOOLEAN,
           Rest(role, l, c, q),
           last => d = NoCall, ~last => NextCall(c, d),
           IF flag THEN FlagSet(l, c.n, Puts(c), k)
           ELSE NumSet(l, IF Puts(c) THEN l.num + 1 ELSE l.num - 1, k),
           \/ c.op \in {"append", "insert"} /\ c.at = 5 /\ ~flag /\ ~last
           \/ c.op \in {"append", "insert"} /\ c.at = 6 /\ flag /\ last
           \/ c.op = "add" /\ c.at = 6 /\ flag /\ ~last
           \/ c.op = "add" /\ c.at = 7 /\ ~flag /\ last
           \/ c.op = "extract" /\ c.at = 6 /\ flag /\ ~last
           \/ c.op = "extract" /\ c.at = 7 /\ ~flag /\ last
           \/ c.op = "getnode" /\ c.at = 6 /\ ~flag /\ ~last
           \/ c.op = "getnode" /\ c.at = 7 /\ flag /\ last
    PROVE  Rest(role, k, d, q)
<1>0. c.op \notin {"none", "walk"}
  OBVIOUS
<1>1. /\ c \in ListCalls /\ c.n \in Node /\ c.at \in Int /\ l \in Lists
      /\ q \in Seq(Node) /\ Once(q) /\ Len(q) \in Nat
      /\ Puts(c) => (Holds(q, c.n) <=> HadEffect(c))
      /\ Takes(c) => (Holds(q, c.n) <=> ~HadEffect(c))
      /\ l.num \in Int /\ l.inside \in [Node -> BOOLEAN]
  BY <1>0, StartedFacts, LinkTypes
<1>2. HadEffect(c)
  BY <1>1 DEF HadEffect
<1>3. /\ Puts(c) <=> c.op \in {"append", "insert", "add"}
      /\ Takes(c) <=> c.op \in {"extract", "getnode"}
      /\ Puts(c) \in BOOLEAN
  BY DEF Puts, Takes
<1>4. Puts(c) <=> Holds(q, c.n)
  BY <1>1, <1>2, <1>3
<1>5. k \in Lists
  BY DEF FlagSet, NumSet
<1>6. d \in ListCalls
  BY NoCallIs DEF NextCall
<1>7. ListTypes(role, k, d, q)
  BY <1>5, <1>6 DEF Rest, ListTypes
<1>8. /\ l.num = Len(q) + Lag(c)
      /\ \A x \in Node : x # c.n => (l.inside[x] <=> Holds(q, x))
      /\ l.inside[c.n] <=> Marked(c)
  BY <1>0 DEF Rest, Marks
<1>9. /\ Lag(c) = IF (c.op \in {"append", "insert"} /\ c.at = 5) \/ c.op = "add" THEN -1
                  ELSE IF c.op = "extract" \/ (c.op = "getnode" /\ c.at = 6) THEN 1 ELSE 0
      /\ Marked(c) <=> \/ c.op = "getnode"
                       \/ c.op = "extract" /\ c.at # 7
                       \/ c.op = "add" /\ c.at = 7
  BY <1>1 DEF Lag, Marked
<1>10. /\ k.num = IF flag THEN l.num ELSE IF Puts(c) THEN l.num + 1 ELSE l.num - 1
       /\ \A x \in Node : k.inside[x] = IF flag /\ x = c.n THEN Puts(c) ELSE l.inside[x]
  BY <1>1 DEF FlagSet, NumSet
<1>11. CASE last
  <2>1. d = NoCall /\ d.op = "none" /\ d.n = Null
    BY <1>11, NoCallIs
  <2>2. CallOf(role, d, q)
    BY <2>1, NodeFacts DEF CallOf, Puts, Takes
  <2>3. k.num = Len(q)
    BY <1>1, <1>3, <1>8, <1>9, <1>10, <1>11
  <2>4. ASSUME NEW x \in Node PROVE k.inside[x] <=> Holds(q, x)
    <3>1. CASE x # c.n
      BY <1>8, <1>10, <3>1
    <3>2. CASE x = c.n
      BY <1>3, <1>4, <1>8, <1>9, <1>10, <1>11, <3>2
    <3> QED
      BY <3>1, <3>2
  <2>5. Marks(k, d, q)
    <3>1. Lag(d) = 0
      BY <2>1 DEF Lag
    <3> QED
      BY <1>1, <2>1, <2>3, <2>4, <3>1 DEF Marks
  <2>6. role = "time" => Due(d, q)
    BY <2>1 DEF Rest, Due
  <2> QED
    BY <1>7, <2>2, <2>5, <2>6 DEF Rest
<1>12. CASE ~last
  <2>1. d.op = c.op /\ d.n = c.n /\ d.h = c.h /\ d.at = c.at + 1
    BY <1>12 DEF NextCall
  <2>a. HadEffect(d) /\ (Puts(d) <=> Puts(c)) /\ (Takes(d) <=> Takes(c))
    BY <1>1, <1>2, <2>1 DEF HadEffect, Puts, Takes
  <2>b. Length(d) = Length(c) /\ d.at \in 1..Length(d)
    BY <1>1, <1>12, <2>1 DEF Length
  <2>2. CallOf(role, d, q)
    BY <1>0, <1>1, <1>2, <2>1, <2>a, <2>b DEF Rest, CallOf
  <2>3. /\ Lag(d) = IF c.op = "add" THEN -1 ELSE IF c.op = "extract" THEN 1 ELSE 0
        /\ Marked(d) <=> \/ c.op = "getnode"
                         \/ c.op = "extract" /\ d.at # 7
                         \/ c.op = "add" /\ d.at = 7
    BY <1>1, <1>12, <2>1 DEF Lag, Marked
  <2>4. k.num = Len(q) + Lag(d)
    BY <1>1, <1>3, <1>8, <1>9, <1>10, <1>12, <2>3
  <2>5. \A x \in Node : x # c.n => (k.inside[x] <=> Holds(q, x))
    BY <1>8, <1>10
  <2>6. k.inside[c.n] <=> Marked(d)
    BY <1>1, <1>3, <1>8, <1>9, <1>10, <1>12, <2>1, <2>3
  <2>7. Marks(k, d, q)
    BY <2>1, <2>4, <2>5, <2>6 DEF Marks
  <2>8. role = "time" => Due(d, q)
    BY <1>1, <1>12, <2>1 DEF Rest, Due
  <2> QED
    BY <1>7, <2>2, <2>7, <2>8 DEF Rest
<1> QED
  BY <1>11, <1>12

----------------------------------------------------------------------------
(* The links.                                                              *)

NextPlain(l, q) == \A x, y \in Pointer : Follows(q, x, y) => Nxt(l, x) = y
PrevPlain(l, q) == \A x, y \in Pointer : Follows(q, x, y) => Prv(l, y) = x

LEMMA PlainLinks ==
    ASSUME NEW role, NEW l, NEW c, NEW q
    PROVE  /\ ~(c.op \in {"append", "insert"} /\ c.at = 4) =>
                  (Forward(role, l, c, q) <=> NextPlain(l, q))
           /\ /\ ~(c.op = "insert" /\ c.at = 4) /\ ~(c.op = "add" /\ c.at \in 3..5)
              /\ ~(c.op \in {"extract", "getnode"} /\ c.at \in 3..4)
              => (Backward(l, c, q) <=> PrevPlain(l, q))
<1>1. ~(c.op \in {"append", "insert"} /\ c.at = 4) =>
          (Forward(role, l, c, q) <=> NextPlain(l, q))
  BY DEF Forward, NextPlain
<1>2. ASSUME ~(c.op = "insert" /\ c.at = 4), ~(c.op = "add" /\ c.at \in 3..5),
             ~(c.op \in {"extract", "getnode"} /\ c.at \in 3..4)
      PROVE  Backward(l, c, q) <=> PrevPlain(l, q)
  BY <1>2 DEF Backward, PrevPlain, Takes
<1> QED
  BY <1>1, <1>2

\* The nodes next to one another in a list that gets or loses a node elsewhere.
LEMMA GrownKeeps ==
    ASSUME NEW q \in Seq(Node), Once(q), NEW p, NEW n \in Node, ~Holds(q, n), NEW s,
           Grown(q, p, n, s), NEW x, NEW y, Follows(q, x, y), x # Place(q, p)
    PROVE  Follows(s, x, y)
<1>1. PICK a, b : a = Place(q, p) /\ b = Place(q, p + 1)
  OBVIOUS
<1>2. /\ Follows(q, a, b) /\ Once(s)
      /\ \A z : Holds(s, z) <=> Holds(q, z) \/ z = n
      /\ \A z, w : Follows(s, z, w) =>
             \/ z = a /\ w = n
             \/ z = n /\ w = b
             \/ z # a /\ w # b /\ z # n /\ w # n /\ Follows(q, z, w)
      /\ Follows(s, a, n) /\ Follows(s, n, b)
  BY <1>1, RingGrown
<1>3. s \in Seq(Node)
  BY DEF Grown
<1>4. (x = Null \/ Holds(q, x)) /\ x # n
  BY RingIn, NodeFacts
<1>5. PICK w \in Pointer : Follows(s, x, w)
  BY <1>2, <1>3, <1>4, RingTotal
<1>6. Follows(q, x, w)
  BY <1>1, <1>2, <1>4, <1>5
<1> QED
  BY <1>5, <1>6, RingUnique

LEMMA ShrunkKeeps ==
    ASSUME NEW q \in Seq(Node), Once(q), NEW p, NEW n \in Node, NEW s,
           Shrunk(q, p, s), q[p] = n, NEW x, NEW y, Follows(q, x, y), x # n, y # n
    PROVE  Follows(s, x, y)
<1>1. PICK a, b : a = Place(q, p - 1) /\ b = Place(q, p + 1)
  OBVIOUS
<1>2. /\ Follows(q, a, n) /\ Follows(q, n, b) /\ Once(s)
      /\ \A z : Holds(s, z) <=> Holds(q, z) /\ z # n
      /\ \A z, w : Follows(s, z, w) =>
             \/ z = a /\ w = b
             \/ z # a /\ w # b /\ z # n /\ w # n /\ Follows(q, z, w)
      /\ Follows(s, a, b) /\ Len(s) = Len(q) - 1 /\ Holds(q, n)
  BY <1>1, RingShrunk
<1>3. s \in Seq(Node)
  BY DEF Shrunk
<1>4. x = Null \/ Holds(q, x)
  BY RingIn
<1>5. PICK w \in Pointer : Follows(s, x, w)
  BY <1>2, <1>3, <1>4, RingTotal
<1>6. x # a
  <2>1. Follows(q, x, n) => y = n
    BY RingUnique
  <2> QED
    BY <1>2, <2>1
<1>7. Follows(q, x, w)
  BY <1>2, <1>5, <1>6
<1> QED
  BY <1>5, <1>7, RingUnique

----------------------------------------------------------------------------
(* Each statement of the thread keeps the links of the ring.               *)

LEMMA PutFacts ==
    ASSUME NEW role, NEW l, NEW c, NEW q, Sound(role, l, c, q),
           c.op \in {"append", "insert", "add"}, ~HadEffect(c)
    PROVE  /\ Rest(role, l, c, q) /\ Forward(role, l, c, q) /\ Backward(l, c, q)
           /\ NodeLinks(l, c, q)
           /\ c \in ListCalls /\ l \in Lists /\ q \in Seq(Node) /\ Once(q)
           /\ c.n \in Node /\ c.n # Null /\ c.n \in Pointer /\ c.r \in Pointer
           /\ ~Holds(q, c.n) /\ Null \in Pointer
           /\ l.next[c.n] = Nxt(l, c.n) /\ l.prev[c.n] = Prv(l, c.n)
           /\ \A x, y : Follows(q, x, y) =>
                  x \in Pointer /\ y \in Pointer /\ x # c.n /\ y # c.n
<1>1. /\ Rest(role, l, c, q) /\ Forward(role, l, c, q) /\ Backward(l, c, q)
      /\ NodeLinks(l, c, q)
  BY SoundIs
<1>2. /\ c \in ListCalls /\ l \in Lists /\ q \in Seq(Node) /\ Once(q)
      /\ c.n \in Node /\ c.n # Null /\ c.n \in Pointer /\ c.r \in Pointer
      /\ Puts(c) => (Holds(q, c.n) <=> HadEffect(c))
  BY <1>1, StartedFacts
<1>3. ~Holds(q, c.n) /\ Null \in Pointer
  BY <1>2, NodeFacts DEF Puts
<1>4. l.next[c.n] = Nxt(l, c.n) /\ l.prev[c.n] = Prv(l, c.n)
  BY <1>2, LinkTypes
<1>5. ASSUME NEW x, NEW y, Follows(q, x, y)
      PROVE  x \in Pointer /\ y \in Pointer /\ x # c.n /\ y # c.n
  <2>1. /\ x \in Pointer /\ y \in Pointer
        /\ (x = Null \/ Holds(q, x)) /\ (y = Null \/ Holds(q, y))
    BY <1>2, <1>5, RingIn
  <2> QED
    BY <1>2, <1>3, <2>1
<1> QED
  BY <1>1, <1>2, <1>3, <1>4, <1>5

LEMMA AppendWrites ==
    ASSUME NEW role, NEW l, NEW c, NEW q, NEW d, NEW k,
           Sound(role, l, c, q), c.op = "append", c.at \in 1..3, NextCall(c, d),
           d.r = IF c.at = 2 THEN l.last ELSE c.r,
           c.at = 1 => NextSet(l, c.n, Null, k),
           c.at = 2 => PrevSet(l, c.n, l.last, k),
           c.at = 3 => NextSet(l, c.r, c.n, k)
    PROVE  Sound(role, k, d, q)
<1>0. ~HadEffect(c)
  BY DEF HadEffect
<1>1. /\ Rest(role, l, c, q) /\ Forward(role, l, c, q) /\ Backward(l, c, q)
      /\ NodeLinks(l, c, q)
      /\ c \in ListCalls /\ l \in Lists /\ q \in Seq(Node) /\ Once(q)
      /\ c.n \in Node /\ c.n # Null /\ c.n \in Pointer /\ c.r \in Pointer
      /\ ~Holds(q, c.n) /\ Null \in Pointer
      /\ l.next[c.n] = Nxt(l, c.n) /\ l.prev[c.n] = Prv(l, c.n)
  BY <1>0, PutFacts
<1>2. \A x, y : Follows(q, x, y) => x \in Pointer /\ y \in Pointer /\ x # c.n /\ y # c.n
  BY <1>0, PutFacts
<1>3. NextPlain(l, q) /\ PrevPlain(l, q)
  BY <1>1, PlainLinks
<1>4. k \in Lists /\ k.num = l.num /\ k.inside = l.inside
  BY DEF NextSet, PrevSet
<1>5. Rest(role, k, d, q)
  BY <1>1, <1>4, QuietRest
<1>6. k.next[c.n] = Nxt(k, c.n) /\ k.prev[c.n] = Prv(k, c.n)
  BY <1>1, <1>4, LinkTypes
<1>7. d.op = "append" /\ d.n = c.n /\ d.at = c.at + 1
  BY DEF NextCall
<1>8. NodeLinks(k, d, q) <=> AppendLinks(k, d, q)
  BY <1>7 DEF NodeLinks, Takes
<1>9. AppendLinks(l, c, q)
  BY <1>1 DEF NodeLinks
<1>10. PrevPlain(k, q) => Backward(k, d, q)
  BY <1>7, PlainLinks
<1>11. c.at # 3 /\ NextPlain(k, q) => Forward(role, k, d, q)
  BY <1>7, PlainLinks
<1>12. CASE c.at = 1
  <2>1. NextPlain(k, q) /\ PrevPlain(k, q)
    BY <1>2, <1>3, <1>12 DEF NextSet, NextPlain, PrevPlain
  <2>2. AppendLinks(k, d, q)
    BY <1>1, <1>6, <1>7, <1>12 DEF NextSet, AppendLinks
  <2> QED
    BY <1>5, <1>8, <1>10, <1>11, <1>12, <2>1, <2>2, SoundIs
<1>13. CASE c.at = 2
  <2>1. NextPlain(k, q) /\ PrevPlain(k, q)
    BY <1>2, <1>3, <1>13 DEF PrevSet, NextPlain, PrevPlain
  <2>2. Follows(q, l.last, Null)
    <3>1. PICK x \in Pointer : Follows(q, x, Null)
      BY <1>1, RingTotal
    <3>2. Prv(l, Null) = x
      BY <1>1, <1>3, <3>1 DEF PrevPlain
    <3> QED
      BY <1>1, <3>1, <3>2, LinkTypes
  <2>3. k.next[c.n] = Null /\ k.prev[c.n] = l.last
    BY <1>1, <1>6, <1>9, <1>13 DEF PrevSet, AppendLinks
  <2>4. AppendLinks(k, d, q)
    BY <1>7, <1>13, <2>2, <2>3 DEF AppendLinks
  <2> QED
    BY <1>5, <1>8, <1>10, <1>11, <1>13, <2>1, <2>4, SoundIs
<1>14. CASE c.at = 3
  <2>1. PrevPlain(k, q)
    BY <1>3, <1>14 DEF NextSet, PrevPlain
  <2>2. Follows(q, c.r, Null) /\ c.r # c.n
    BY <1>2, <1>9, <1>14 DEF AppendLinks
  <2>3. ASSUME NEW x \in Pointer, NEW y \in Pointer, Follows(q, x, y)
        PROVE  Nxt(k, x) = IF y = Null THEN c.n ELSE y
    <3>1. Nxt(k, x) = IF x = c.r THEN c.n ELSE Nxt(l, x)
      BY <1>14 DEF NextSet
    <3>2. Nxt(l, x) = y
      BY <1>3, <2>3 DEF NextPlain
    <3>3. x = c.r <=> y = Null
      BY <1>1, <2>2, <2>3, RingUnique
    <3> QED
      BY <3>1, <3>2, <3>3
  <2>4. Forward(role, k, d, q)
    <3>1. d.op = "append" /\ d.at = 4 /\ d.n = c.n
      BY <1>7, <1>14
    <3> QED
      BY <2>3, <3>1 DEF Forward
  <2>5. k.next[c.n] = Null /\ k.prev[c.n] = c.r
    BY <1>1, <1>6, <1>9, <1>14, <2>2 DEF NextSet, AppendLinks
  <2>6. AppendLinks(k, d, q)
    BY <1>7, <1>14, <2>2, <2>5 DEF AppendLinks
  <2> QED
    BY <1>5, <1>8, <1>10, <2>1, <2>4, <2>6, SoundIs
<1> QED
  BY <1>12, <1>13, <1>14

\* What putting a node in makes of the ring, for both chains.
LEMMA PutLinks ==
    ASSUME NEW q \in Seq(Node), Once(q), NEW p, NEW n \in Node, ~Holds(q, n), NEW s,
           Grown(q, p, n, s), NEW a, NEW b, a = Place(q, p), b = Place(q, p + 1), NEW k,
           Nxt(k, a) = n, Nxt(k, n) = b, Prv(k, n) = a, Prv(k, b) = n,
           \A x, y : Follows(q, x, y) /\ x # a /\ y # b => Nxt(k, x) = y /\ Prv(k, y) = x
    PROVE  NextPlain(k, s) /\ PrevPlain(k, s)
<1>1. /\ Follows(q, a, b) /\ Once(s)
      /\ \A z : Holds(s, z) <=> Holds(q, z) \/ z = n
      /\ \A z, w : Follows(s, z, w) =>
             \/ z = a /\ w = n
             \/ z = n /\ w = b
             \/ z # a /\ w # b /\ z # n /\ w # n /\ Follows(q, z, w)
      /\ Follows(s, a, n) /\ Follows(s, n, b)
  BY RingGrown
<1>2. ASSUME NEW x, NEW y, Follows(s, x, y) PROVE Nxt(k, x) = y /\ Prv(k, y) = x
  BY <1>1, <1>2
<1> QED
  BY <1>2 DEF NextPlain, PrevPlain

LEMMA TakeLinksOut ==
    ASSUME NEW q \in Seq(Node), Once(q), NEW p, NEW n \in Node, NEW s,
           Shrunk(q, p, s), q[p] = n, NEW a, NEW b, a = Place(q, p - 1), b = Place(q, p + 1),
           NEW k, Nxt(k, a) = b, Prv(k, b) = a,
           \A x, y : Follows(q, x, y) /\ x # a /\ y # b /\ x # n /\ y # n
                         => Nxt(k, x) = y /\ Prv(k, y) = x
    PROVE  NextPlain(k, s) /\ PrevPlain(k, s)
<1>1. /\ Follows(q, a, n) /\ Follows(q, n, b) /\ Once(s)
      /\ \A z : Holds(s, z) <=> Holds(q, z) /\ z # n
      /\ \A z, w : Follows(s, z, w) =>
             \/ z = a /\ w = b
             \/ z # a /\ w # b /\ z # n /\ w # n /\ Follows(q, z, w)
      /\ Follows(s, a, b) /\ Len(s) = Len(q) - 1 /\ Holds(q, n)
  BY RingShrunk
<1>2. ASSUME NEW x, NEW y, Follows(s, x, y) PROVE Nxt(k, x) = y /\ Prv(k, y) = x
  BY <1>1, <1>2
<1> QED
  BY <1>2 DEF NextPlain, PrevPlain

\* Once the node is in or out, the links are those of the ring.
LEMMA PlainSound ==
    ASSUME NEW role, NEW k, NEW d, NEW s, Rest(role, k, d, s), HadEffect(d),
           NextPlain(k, s), PrevPlain(k, s),
           d.op \in {"append", "insert", "add", "extract", "getnode"}
    PROVE  Sound(role, k, d, s)
<1>1. d.at \in 1..7 /\ d.at >= IF d.op = "add" THEN 6 ELSE 5
  BY StartedFacts DEF HadEffect
<1>2. Forward(role, k, d, s) /\ Backward(k, d, s)
  BY <1>1, PlainLinks
<1>3. NodeLinks(k, d, s)
  BY <1>1 DEF NodeLinks, AppendLinks, InsertLinks, AddLinks, TakeLinks
<1> QED
  BY <1>2, <1>3, SoundIs

LEMMA AppendPuts ==
    ASSUME NEW role, NEW l, NEW c, NEW q, NEW d, NEW k, NEW s,
           Sound(role, l, c, q), c.op = "append", c.at = 4, NextCall(c, d),
           PrevSet(l, Null, c.n, k), Grown(q, Len(q), c.n, s)
    PROVE  Sound(role, k, d, s)
<1>0. ~HadEffect(c)
  BY DEF HadEffect
<1>1. /\ Rest(role, l, c, q) /\ Forward(role, l, c, q) /\ Backward(l, c, q)
      /\ NodeLinks(l, c, q)
      /\ c \in ListCalls /\ l \in Lists /\ q \in Seq(Node) /\ Once(q)
      /\ c.n \in Node /\ c.n # Null /\ c.n \in Pointer /\ c.r \in Pointer
      /\ ~Holds(q, c.n) /\ Null \in Pointer
      /\ l.next[c.n] = Nxt(l, c.n) /\ l.prev[c.n] = Prv(l, c.n)
  BY <1>0, PutFacts
<1>2. \A x, y : Follows(q, x, y) => x \in Pointer /\ y \in Pointer /\ x # c.n /\ y # c.n
  BY <1>0, PutFacts
<1>3. PrevPlain(l, q)
  BY <1>1, PlainLinks
<1>4. k \in Lists /\ k.num = l.num /\ k.inside = l.inside
  BY DEF PrevSet
<1>p. PICK p : p = Len(q)
  OBVIOUS
<1>5. PICK a, b : a = Place(q, p) /\ b = Place(q, p + 1)
  OBVIOUS
<1>q. q \in Seq(Node) /\ Once(q)
  BY <1>1
<1>n. PICK n \in Node : n = c.n
  BY <1>1
<1>g. n \in Node /\ Grown(q, p, n, s) /\ ~Holds(q, n)
  BY <1>1, <1>p, <1>n
<1>6. b = Null
  BY <1>1, <1>p, <1>5, PlaceIs
<1>7. Follows(q, a, b)
  BY ONLY <1>q, <1>5, <1>g, RingGrown
<1>8. /\ l.next[c.n] = Null /\ l.prev[c.n] = c.r /\ Follows(q, c.r, Null)
  BY <1>1 DEF NodeLinks, AppendLinks
<1>9. a = c.r /\ a \in Pointer /\ a # c.n
  BY <1>1, <1>2, <1>6, <1>7, <1>8, RingUnique
<1>10. \A x, y \in Pointer : Follows(q, x, y) => Nxt(l, x) = IF y = Null THEN c.n ELSE y
  BY <1>1 DEF Forward
<1>11. /\ \A x \in Pointer : Prv(k, x) = IF x = Null THEN c.n ELSE Prv(l, x)
       /\ \A x \in Pointer : Nxt(k, x) = Nxt(l, x)
  BY DEF PrevSet
<1>12. Nxt(k, a) = n /\ Nxt(k, n) = b /\ Prv(k, n) = a /\ Prv(k, b) = n
  BY <1>1, <1>n, <1>6, <1>7, <1>8, <1>9, <1>10, <1>11
<1>13. \A x, y : Follows(q, x, y) /\ x # a /\ y # b => Nxt(k, x) = y /\ Prv(k, y) = x
  BY <1>2, <1>3, <1>6, <1>10, <1>11 DEF PrevPlain
<1>14. NextPlain(k, s) /\ PrevPlain(k, s)
  BY ONLY <1>q, <1>5, <1>g, <1>12, <1>13, PutLinks
<1>15. Rest(role, k, d, s)
  <2>1. role = "time" => NoLater(q, c.n, p) /\ Later(q, c.n, p)
    BY <1>1, <1>p, PlaceIs DEF Rest, Due, Later
  <2> QED
    BY <1>1, <1>4, <1>p, <2>1, PutRest
<1>16. HadEffect(d) /\ d.op = "append"
  BY DEF HadEffect, NextCall
<1> QED
  BY <1>14, <1>15, <1>16, PlainSound

LEMMA InsertWrites ==
    ASSUME NEW role, NEW l, NEW c, NEW q, NEW d, NEW k,
           Sound(role, l, c, q), c.op = "insert", c.at \in 1..3, NextCall(c, d),
           d.r = IF c.at = 2 THEN l.first ELSE c.r,
           c.at = 1 => PrevSet(l, c.n, Null, k),
           c.at = 2 => NextSet(l, c.n, l.first, k),
           c.at = 3 => PrevSet(l, c.r, c.n, k)
    PROVE  Sound(role, k, d, q)
<1>0. ~HadEffect(c)
  BY DEF HadEffect
<1>1. /\ Rest(role, l, c, q) /\ Forward(role, l, c, q) /\ Backward(l, c, q)
      /\ NodeLinks(l, c, q)
      /\ c \in ListCalls /\ l \in Lists /\ q \in Seq(Node) /\ Once(q)
      /\ c.n \in Node /\ c.n # Null /\ c.n \in Pointer /\ c.r \in Pointer
      /\ ~Holds(q, c.n) /\ Null \in Pointer
      /\ l.next[c.n] = Nxt(l, c.n) /\ l.prev[c.n] = Prv(l, c.n)
  BY <1>0, PutFacts
<1>2. \A x, y : Follows(q, x, y) => x \in Pointer /\ y \in Pointer /\ x # c.n /\ y # c.n
  BY <1>0, PutFacts
<1>3. NextPlain(l, q) /\ PrevPlain(l, q)
  BY <1>1, PlainLinks
<1>4. k \in Lists /\ k.num = l.num /\ k.inside = l.inside
  BY DEF NextSet, PrevSet
<1>5. Rest(role, k, d, q)
  BY <1>1, <1>4, QuietRest
<1>6. k.next[c.n] = Nxt(k, c.n) /\ k.prev[c.n] = Prv(k, c.n)
  BY <1>1, <1>4, LinkTypes
<1>7. d.op = "insert" /\ d.n = c.n /\ d.at = c.at + 1
  BY DEF NextCall
<1>8. NodeLinks(k, d, q) <=> InsertLinks(k, d, q)
  BY <1>7 DEF NodeLinks, Takes
<1>9. InsertLinks(l, c, q)
  BY <1>1 DEF NodeLinks
<1>10. NextPlain(k, q) => Forward(role, k, d, q)
  BY <1>7 DEF Forward, NextPlain
<1>11. c.at # 3 /\ PrevPlain(k, q) => Backward(k, d, q)
  BY <1>7, PlainLinks
<1>12. CASE c.at = 1
  <2>1. NextPlain(k, q) /\ PrevPlain(k, q)
    BY <1>2, <1>3, <1>12 DEF PrevSet, NextPlain, PrevPlain
  <2>2. k.prev[c.n] = Null
    BY <1>1, <1>6, <1>12 DEF PrevSet
  <2>3. InsertLinks(k, d, q)
    BY <1>7, <1>12, <2>2 DEF InsertLinks
  <2> QED
    BY <1>5, <1>8, <1>10, <1>11, <1>12, <2>1, <2>3, SoundIs
<1>13. CASE c.at = 2
  <2>1. NextPlain(k, q) /\ PrevPlain(k, q)
    BY <1>2, <1>3, <1>13 DEF NextSet, NextPlain, PrevPlain
  <2>2. Follows(q, Null, l.first)
    <3>1. PICK y \in Pointer : Follows(q, Null, y)
      BY <1>1, RingTotal
    <3>2. Nxt(l, Null) = y
      BY <1>1, <1>3, <3>1 DEF NextPlain
    <3> QED
      BY <1>1, <3>1, <3>2, LinkTypes
  <2>3. k.prev[c.n] = Null /\ k.next[c.n] = l.first
    BY <1>1, <1>6, <1>9, <1>13 DEF NextSet, InsertLinks
  <2>4. InsertLinks(k, d, q)
    BY <1>7, <1>13, <2>2, <2>3 DEF InsertLinks
  <2> QED
    BY <1>5, <1>8, <1>10, <1>11, <1>13, <2>1, <2>4, SoundIs
<1>14. CASE c.at = 3
  <2>1. NextPlain(k, q)
    BY <1>3, <1>14 DEF PrevSet, NextPlain
  <2>2. Follows(q, Null, c.r) /\ c.r = l.next[c.n] /\ l.prev[c.n] = Null
    BY <1>9, <1>14 DEF InsertLinks
  <2>a. c.r # c.n
    BY <1>2, <2>2
  <2>3. ASSUME NEW x \in Pointer, NEW y \in Pointer, Follows(q, x, y)
        PROVE  Prv(k, y) = IF x = Null THEN c.n ELSE x
    <3>1. Prv(k, y) = IF y = c.r THEN c.n ELSE Prv(l, y)
      BY <1>14 DEF PrevSet
    <3>2. Prv(l, y) = x
      BY <1>3, <2>3 DEF PrevPlain
    <3>3. y = c.r <=> x = Null
      BY <1>1, <2>2, <2>3, RingUnique
    <3> QED
      BY <3>1, <3>2, <3>3
  <2>4. Backward(k, d, q)
    <3>1. d.op = "insert" /\ d.at = 4 /\ d.n = c.n
      BY <1>7, <1>14
    <3> QED
      BY <2>3, <3>1 DEF Backward, Takes
  <2>5. k.prev[c.n] = Null /\ k.next[c.n] = c.r
    BY <1>1, <1>6, <1>14, <2>2, <2>a DEF PrevSet
  <2>6. InsertLinks(k, d, q)
    BY <1>7, <1>14, <2>2, <2>5 DEF InsertLinks
  <2> QED
    BY <1>5, <1>8, <1>10, <2>1, <2>4, <2>6, SoundIs
<1> QED
  BY <1>12, <1>13, <1>14

LEMMA InsertPuts ==
    ASSUME NEW role, NEW l, NEW c, NEW q, NEW d, NEW k, NEW s,
           Sound(role, l, c, q), c.op = "insert", c.at = 4, NextCall(c, d),
           NextSet(l, Null, c.n, k), Grown(q, 0, c.n, s)
    PROVE  Sound(role, k, d, s)
<1>0. ~HadEffect(c)
  BY DEF HadEffect
<1>1. /\ Rest(role, l, c, q) /\ Forward(role, l, c, q) /\ Backward(l, c, q)
      /\ NodeLinks(l, c, q)
      /\ c \in ListCalls /\ l \in Lists /\ q \in Seq(Node) /\ Once(q)
      /\ c.n \in Node /\ c.n # Null /\ c.n \in Pointer /\ c.r \in Pointer
      /\ ~Holds(q, c.n) /\ Null \in Pointer
      /\ l.next[c.n] = Nxt(l, c.n) /\ l.prev[c.n] = Prv(l, c.n)
  BY <1>0, PutFacts
<1>2. \A x, y : Follows(q, x, y) => x \in Pointer /\ y \in Pointer /\ x # c.n /\ y # c.n
  BY <1>0, PutFacts
<1>4. k \in Lists /\ k.num = l.num /\ k.inside = l.inside
  BY DEF NextSet
<1>p. PICK p : p = 0
  OBVIOUS
<1>5. PICK a, b : a = Place(q, p) /\ b = Place(q, p + 1)
  OBVIOUS
<1>q. q \in Seq(Node) /\ Once(q)
  BY <1>1
<1>n. PICK n \in Node : n = c.n
  BY <1>1
<1>g. n \in Node /\ Grown(q, p, n, s) /\ ~Holds(q, n)
  BY <1>1, <1>p, <1>n
<1>6. a = Null
  BY <1>1, <1>p, <1>5, PlaceIs
<1>7. Follows(q, a, b)
  BY ONLY <1>q, <1>5, <1>g, RingGrown
<1>8. /\ l.prev[c.n] = Null /\ Follows(q, Null, l.next[c.n])
  BY <1>1 DEF NodeLinks, InsertLinks
<1>9. b = l.next[c.n] /\ b \in Pointer /\ b # c.n
  BY <1>1, <1>2, <1>6, <1>7, <1>8, RingUnique
<1>10. \A x, y \in Pointer : Follows(q, x, y) => Prv(l, y) = IF x = Null THEN c.n ELSE x
  BY <1>1 DEF Backward, Takes
<1>a. \A x, y \in Pointer : Follows(q, x, y) /\ x # Null => Nxt(l, x) = y
  BY <1>1 DEF Forward
<1>11. /\ \A x \in Pointer : Nxt(k, x) = IF x = Null THEN c.n ELSE Nxt(l, x)
       /\ \A x \in Pointer : Prv(k, x) = Prv(l, x)
  BY DEF NextSet
<1>12. Nxt(k, a) = n /\ Nxt(k, n) = b /\ Prv(k, n) = a /\ Prv(k, b) = n
  BY <1>1, <1>n, <1>6, <1>7, <1>8, <1>9, <1>10, <1>11
<1>13. \A x, y : Follows(q, x, y) /\ x # a /\ y # b => Nxt(k, x) = y /\ Prv(k, y) = x
  BY <1>2, <1>6, <1>10, <1>a, <1>11
<1>14. NextPlain(k, s) /\ PrevPlain(k, s)
  BY ONLY <1>q, <1>5, <1>g, <1>12, <1>13, PutLinks
<1>15. Rest(role, k, d, s)
  <2>1. role = "time" => NoLater(q, c.n, p) /\ Later(q, c.n, p)
    BY <1>1, <1>p, PlaceIs DEF Rest, Due, NoLater
  <2> QED
    BY <1>1, <1>4, <1>p, <2>1, PutRest
<1>16. HadEffect(d) /\ d.op = "insert"
  BY DEF HadEffect, NextCall
<1> QED
  BY <1>14, <1>15, <1>16, PlainSound

LEMMA AddWrites ==
    ASSUME NEW role, NEW l, NEW c, NEW q, NEW d, NEW k,
           Sound(role, l, c, q), c.op = "add", c.at \in 1..4, NextCall(c, d),
           d.r = IF c.at = 1 THEN l.next[c.h] ELSE c.r,
           c.at = 1 => k = l,
           c.at = 2 => PrevSet(l, c.r, c.n, k),
           c.at = 3 => NextSet(l, c.n, c.r, k),
           c.at = 4 => PrevSet(l, c.n, c.h, k)
    PROVE  Sound(role, k, d, q)
<1>0. ~HadEffect(c)
  BY DEF HadEffect
<1>1. /\ Rest(role, l, c, q) /\ Forward(role, l, c, q) /\ Backward(l, c, q)
      /\ NodeLinks(l, c, q)
      /\ c \in ListCalls /\ l \in Lists /\ q \in Seq(Node) /\ Once(q)
      /\ c.n \in Node /\ c.n # Null /\ c.n \in Pointer /\ c.r \in Pointer
      /\ ~Holds(q, c.n) /\ Null \in Pointer
      /\ l.next[c.n] = Nxt(l, c.n) /\ l.prev[c.n] = Prv(l, c.n)
  BY <1>0, PutFacts
<1>2. \A x, y : Follows(q, x, y) => x \in Pointer /\ y \in Pointer /\ x # c.n /\ y # c.n
  BY <1>0, PutFacts
<1>3. NextPlain(l, q)
  BY <1>1, PlainLinks
<1>4. k \in Lists /\ k.num = l.num /\ k.inside = l.inside
  BY <1>1 DEF NextSet, PrevSet
<1>5. Rest(role, k, d, q)
  BY <1>1, <1>4, QuietRest
<1>6. k.next[c.n] = Nxt(k, c.n) /\ k.prev[c.n] = Prv(k, c.n)
  BY <1>1, <1>4, LinkTypes
<1>7. d.op = "add" /\ d.n = c.n /\ d.h = c.h /\ d.at = c.at + 1
  BY DEF NextCall
<1>8. NodeLinks(k, d, q) <=> AddLinks(k, d, q)
  BY <1>7 DEF NodeLinks, Takes
<1>9. AddLinks(l, c, q)
  BY <1>1 DEF NodeLinks
<1>h. Holds(q, c.h) /\ c.h \in Node /\ c.h # Null /\ c.h \in Pointer
  <2>1. Holds(q, c.h)
    BY <1>9 DEF AddLinks
  <2>2. c.h \in Node
    BY <1>1, <2>1 DEF Holds
  <2> QED
    BY <2>1, <2>2, NodeFacts
<1>10. NextPlain(k, q) => Forward(role, k, d, q)
  BY <1>7 DEF Forward, NextPlain
<1>11. c.at = 1 /\ PrevPlain(k, q) => Backward(k, d, q)
  BY <1>7, PlainLinks
<1>12. CASE c.at = 1
  <2>1. NextPlain(k, q) /\ PrevPlain(k, q)
    BY <1>1, <1>3, <1>12, PlainLinks
  <2>2. Follows(q, c.h, l.next[c.h])
    <3>1. PICK y \in Pointer : Follows(q, c.h, y)
      BY <1>1, <1>h, RingTotal
    <3>2. Nxt(l, c.h) = y
      BY <1>3, <1>h, <3>1 DEF NextPlain
    <3> QED
      BY <1>1, <1>h, <3>1, <3>2, LinkTypes
  <2>3. AddLinks(k, d, q)
    BY <1>7, <1>12, <1>h, <2>2 DEF AddLinks
  <2> QED
    BY <1>5, <1>8, <1>10, <1>11, <1>12, <2>1, <2>3, SoundIs
<1>b. ASSUME d.at \in 3..5,
             \A x, y \in Pointer : Follows(q, x, y) => Prv(k, y) = IF x = c.h THEN c.n ELSE x
      PROVE  Backward(k, d, q)
  BY <1>7, <1>b DEF Backward, Takes
<1>c. c.at # 1 => Follows(q, c.h, c.r)
  BY <1>9 DEF AddLinks
<1>13. CASE c.at = 2
  <2>1. NextPlain(k, q) /\ PrevPlain(l, q)
    BY <1>1, <1>3, <1>13, PlainLinks DEF PrevSet, NextPlain
  <2>3. ASSUME NEW x \in Pointer, NEW y \in Pointer, Follows(q, x, y)
        PROVE  Prv(k, y) = IF x = c.h THEN c.n ELSE x
    <3>1. Prv(k, y) = IF y = c.r THEN c.n ELSE Prv(l, y)
      BY <1>13 DEF PrevSet
    <3>2. Prv(l, y) = x
      BY <2>1, <2>3 DEF PrevPlain
    <3>a. Follows(q, c.h, c.r)
      BY <1>13, <1>c
    <3>3. y = c.r <=> x = c.h
      BY <1>1, <3>a, <2>3, RingUnique
    <3> QED
      BY <3>1, <3>2, <3>3
  <2>4. Backward(k, d, q)
    BY <1>7, <1>13, <1>b, <2>3
  <2>5. AddLinks(k, d, q)
    BY <1>7, <1>13, <1>h, <1>c DEF AddLinks
  <2> QED
    BY <1>5, <1>8, <1>10, <2>1, <2>4, <2>5, SoundIs
<1>d. c.at \in 3..4 =>
          \A x, y \in Pointer : Follows(q, x, y) => Prv(l, y) = IF x = c.h THEN c.n ELSE x
  BY <1>1 DEF Backward, Takes
<1>14. CASE c.at = 3
  <2>1. NextPlain(k, q)
    BY <1>2, <1>3, <1>14 DEF NextSet, NextPlain
  <2>2. \A x, y \in Pointer : Follows(q, x, y) => Prv(k, y) = IF x = c.h THEN c.n ELSE x
    BY <1>14, <1>d DEF NextSet
  <2>3. k.next[c.n] = c.r
    BY <1>1, <1>6, <1>14 DEF NextSet
  <2>4. AddLinks(k, d, q)
    BY <1>7, <1>14, <1>h, <1>c, <2>3 DEF AddLinks
  <2> QED
    BY <1>5, <1>7, <1>8, <1>10, <1>14, <1>b, <2>1, <2>2, <2>4, SoundIs
<1>15. CASE c.at = 4
  <2>1. NextPlain(k, q)
    BY <1>3, <1>15 DEF PrevSet, NextPlain
  <2>2. \A x, y \in Pointer : Follows(q, x, y) => Prv(k, y) = IF x = c.h THEN c.n ELSE x
    BY <1>2, <1>15, <1>d DEF PrevSet
  <2>3. k.next[c.n] = c.r /\ k.prev[c.n] = c.h
    BY <1>1, <1>6, <1>9, <1>15 DEF PrevSet, AddLinks
  <2>4. AddLinks(k, d, q)
    BY <1>7, <1>15, <1>h, <1>c, <2>3 DEF AddLinks
  <2> QED
    BY <1>5, <1>7, <1>8, <1>10, <1>15, <1>b, <2>1, <2>2, <2>4, SoundIs
<1> QED
  BY <1>12, <1>13, <1>14, <1>15

LEMMA AddPuts ==
    ASSUME NEW role, NEW l, NEW c, NEW q, NEW d, NEW k, NEW p, NEW s,
           Sound(role, l, c, q), c.op = "add", c.at = 5, NextCall(c, d),
           NextSet(l, c.h, c.n, k), Grown(q, p, c.n, s), p \in 1..Len(q), q[p] = c.h,
           NoLater(q, c.n, p), Later(q, c.n, p)
    PROVE  Sound(role, k, d, s)
<1>0. ~HadEffect(c)
  BY DEF HadEffect
<1>1. /\ Rest(role, l, c, q) /\ Forward(role, l, c, q) /\ Backward(l, c, q)
      /\ NodeLinks(l, c, q)
      /\ c \in ListCalls /\ l \in Lists /\ q \in Seq(Node) /\ Once(q)
      /\ c.n \in Node /\ c.n # Null /\ c.n \in Pointer /\ c.r \in Pointer
      /\ ~Holds(q, c.n) /\ Null \in Pointer
      /\ l.next[c.n] = Nxt(l, c.n) /\ l.prev[c.n] = Prv(l, c.n)
  BY <1>0, PutFacts
<1>2. \A x, y : Follows(q, x, y) => x \in Pointer /\ y \in Pointer /\ x # c.n /\ y # c.n
  BY <1>0, PutFacts
<1>3. NextPlain(l, q)
  BY <1>1, PlainLinks
<1>4. k \in Lists /\ k.num = l.num /\ k.inside = l.inside
  BY DEF NextSet
<1>5. PICK a, b : a = Place(q, p) /\ b = Place(q, p + 1)
  OBVIOUS
<1>q. q \in Seq(Node) /\ Once(q)
  BY <1>1
<1>n. PICK n \in Node : n = c.n
  BY <1>1
<1>g. n \in Node /\ Grown(q, p, n, s) /\ ~Holds(q, n)
  BY <1>1, <1>n
<1>6. a = c.h
  BY <1>1, <1>5, PlaceIs
<1>7. Follows(q, a, b)
  BY ONLY <1>q, <1>5, <1>g, RingGrown
<1>8. /\ l.next[c.n] = c.r /\ l.prev[c.n] = c.h /\ Follows(q, c.h, c.r)
  BY <1>1 DEF NodeLinks, AddLinks
<1>9. b = c.r /\ b \in Pointer /\ b # c.n /\ a \in Pointer /\ a # c.n
  BY <1>1, <1>2, <1>6, <1>7, <1>8, RingUnique
<1>10. \A x, y \in Pointer : Follows(q, x, y) => Prv(l, y) = IF x = c.h THEN c.n ELSE x
  BY <1>1 DEF Backward, Takes
<1>11. /\ \A x \in Pointer : Nxt(k, x) = IF x = c.h THEN c.n ELSE Nxt(l, x)
       /\ \A x \in Pointer : Prv(k, x) = Prv(l, x)
  BY DEF NextSet
<1>12. Nxt(k, a) = n /\ Nxt(k, n) = b /\ Prv(k, n) = a /\ Prv(k, b) = n
  BY <1>1, <1>n, <1>6, <1>7, <1>8, <1>9, <1>10, <1>11
<1>13. \A x, y : Follows(q, x, y) /\ x # a /\ y # b => Nxt(k, x) = y /\ Prv(k, y) = x
  BY <1>2, <1>3, <1>6, <1>10, <1>11 DEF NextPlain
<1>14. NextPlain(k, s) /\ PrevPlain(k, s)
  BY ONLY <1>q, <1>5, <1>g, <1>12, <1>13, PutLinks
<1>15. Rest(role, k, d, s)
  BY <1>1, <1>4, PutRest
<1>16. HadEffect(d) /\ d.op = "add"
  BY DEF HadEffect, NextCall
<1> QED
  BY <1>14, <1>15, <1>16, PlainSound

LEMMA TakeFacts ==
    ASSUME NEW role, NEW l, NEW c, NEW q, Sound(role, l, c, q),
           c.op \in {"extract", "getnode"}, ~HadEffect(c)
    PROVE  /\ Rest(role, l, c, q) /\ NextPlain(l, q) /\ Backward(l, c, q)
           /\ TakeLinks(c, q)
           /\ c \in ListCalls /\ l \in Lists /\ q \in Seq(Node) /\ Once(q)
           /\ c.n \in Node /\ c.n # Null /\ c.n \in Pointer /\ c.r \in Pointer
           /\ Holds(q, c.n) /\ Null \in Pointer
           /\ l.next[c.n] = Nxt(l, c.n) /\ l.prev[c.n] = Prv(l, c.n)
           /\ \A x, y : Follows(q, x, y) => x \in Pointer /\ y \in Pointer
<1>1. /\ Rest(role, l, c, q) /\ Forward(role, l, c, q) /\ Backward(l, c, q)
      /\ NodeLinks(l, c, q)
  BY SoundIs
<1>2. /\ c \in ListCalls /\ l \in Lists /\ q \in Seq(Node) /\ Once(q)
      /\ c.n \in Node /\ c.n # Null /\ c.n \in Pointer /\ c.r \in Pointer
      /\ Takes(c) => (Holds(q, c.n) <=> ~HadEffect(c))
  BY <1>1, StartedFacts
<1>3. Holds(q, c.n) /\ Null \in Pointer /\ TakeLinks(c, q)
  BY <1>1, <1>2, NodeFacts DEF Takes, NodeLinks
<1>4. l.next[c.n] = Nxt(l, c.n) /\ l.prev[c.n] = Prv(l, c.n)
  BY <1>2, LinkTypes
<1>5. \A x, y : Follows(q, x, y) => x \in Pointer /\ y \in Pointer
  BY <1>2, RingIn
<1>6. NextPlain(l, q)
  BY <1>1, PlainLinks
<1> QED
  BY <1>1, <1>2, <1>3, <1>4, <1>5, <1>6

LEMMA TakeWrites ==
    ASSUME NEW role, NEW l, NEW c, NEW q, NEW d, NEW k,
           Sound(role, l, c, q), c.op \in {"extract", "getnode"}, c.at \in 1..3, NextCall(c, d),
           d.r = IF c.at = 1 THEN l.next[c.n] ELSE IF c.at = 3 THEN l.prev[c.n] ELSE c.r,
           c.at \in {1, 3} => k = l,
           c.at = 2 => PrevSet(l, c.r, l.prev[c.n], k)
    PROVE  Sound(role, k, d, q)
<1>0. ~HadEffect(c)
  BY DEF HadEffect
<1>1. /\ Rest(role, l, c, q) /\ NextPlain(l, q) /\ Backward(l, c, q)
      /\ TakeLinks(c, q)
      /\ c \in ListCalls /\ l \in Lists /\ q \in Seq(Node) /\ Once(q)
      /\ c.n \in Node /\ c.n # Null /\ c.n \in Pointer /\ c.r \in Pointer
      /\ Holds(q, c.n) /\ Null \in Pointer
      /\ l.next[c.n] = Nxt(l, c.n) /\ l.prev[c.n] = Prv(l, c.n)
      /\ \A x, y : Follows(q, x, y) => x \in Pointer /\ y \in Pointer
  BY <1>0, TakeFacts
<1>e. ASSUME c.at \in 1..2 PROVE PrevPlain(l, q)
  <2>1. c.at \notin 3..4 /\ c.op \notin {"insert", "add"}
    BY <1>e
  <2> QED
    BY <1>1, <2>1 DEF Backward, Takes, PrevPlain
<1>4. k \in Lists /\ k.num = l.num /\ k.inside = l.inside
  BY <1>1 DEF PrevSet
<1>5. Rest(role, k, d, q)
  BY <1>1, <1>4, QuietRest
<1>6. k.next[c.n] = Nxt(k, c.n) /\ k.prev[c.n] = Prv(k, c.n)
  BY <1>1, <1>4, LinkTypes
<1>7. d.op = c.op /\ d.n = c.n /\ d.at = c.at + 1
  BY DEF NextCall
<1>8. NodeLinks(k, d, q) <=> TakeLinks(d, q)
  BY <1>7 DEF NodeLinks, Takes
<1>10. NextPlain(k, q) => Forward(role, k, d, q)
  BY <1>7, PlainLinks
<1>11. c.at = 1 /\ PrevPlain(k, q) => Backward(k, d, q)
  BY <1>7, PlainLinks
<1>12. CASE c.at = 1
  <2>1. NextPlain(k, q) /\ PrevPlain(k, q)
    BY <1>1, <1>12, <1>e
  <2>2. Follows(q, c.n, l.next[c.n])
    <3>1. PICK y \in Pointer : Follows(q, c.n, y)
      BY <1>1, RingTotal
    <3>2. Nxt(l, c.n) = y
      BY <1>1, <3>1 DEF NextPlain
    <3> QED
      BY <1>1, <3>1, <3>2
  <2>3. TakeLinks(d, q)
    BY <1>7, <1>12, <2>2 DEF TakeLinks
  <2> QED
    BY <1>5, <1>8, <1>10, <1>11, <1>12, <2>1, <2>3, SoundIs
<1>b. ASSUME d.at \in 3..4,
             \A x, y \in Pointer : Follows(q, x, y) =>
                 Prv(k, y) = IF x = c.n THEN k.prev[c.n] ELSE x
      PROVE  Backward(k, d, q)
  BY <1>7, <1>b DEF Backward, Takes
<1>13. CASE c.at = 2
  <2>1. NextPlain(k, q) /\ PrevPlain(l, q)
    <3>1. NextPlain(k, q)
      BY <1>1, <1>13 DEF PrevSet, NextPlain
    <3> QED
      BY <1>13, <1>e, <3>1
  <2>2. Follows(q, c.n, c.r)
    BY <1>1, <1>13 DEF TakeLinks
  <2>a. c.r # c.n
    BY <1>1, <2>2, RingSelf
  <2>c. k.prev[c.n] = l.prev[c.n]
    BY <1>1, <1>6, <1>13, <2>a DEF PrevSet
  <2>3. ASSUME NEW x \in Pointer, NEW y \in Pointer, Follows(q, x, y)
        PROVE  Prv(k, y) = IF x = c.n THEN k.prev[c.n] ELSE x
    <3>1. Prv(k, y) = IF y = c.r THEN l.prev[c.n] ELSE Prv(l, y)
      BY <1>13 DEF PrevSet
    <3>2. Prv(l, y) = x
      BY <2>1, <2>3 DEF PrevPlain
    <3>3. y = c.r <=> x = c.n
      BY <1>1, <2>2, <2>3, RingUnique
    <3> QED
      BY <2>c, <3>1, <3>2, <3>3
  <2>4. Backward(k, d, q)
    BY <1>7, <1>13, <1>b, <2>3
  <2>5. TakeLinks(d, q)
    BY <1>7, <1>13 DEF TakeLinks
  <2> QED
    BY <1>5, <1>8, <1>10, <2>1, <2>4, <2>5, SoundIs
<1>14. CASE c.at = 3
  <2>1. NextPlain(k, q) /\ k = l
    BY <1>1, <1>14
  <2>2. \A x, y \in Pointer : Follows(q, x, y) =>
            Prv(l, y) = IF x = c.n THEN l.prev[c.n] ELSE x
    BY <1>1, <1>14 DEF Backward, Takes
  <2>3. Follows(q, l.prev[c.n], c.n)
    <3>1. PICK x \in Pointer : Follows(q, x, c.n)
      BY <1>1, RingTotal
    <3>2. x # c.n
      BY <1>1, <3>1, RingSelf
    <3>3. Prv(l, c.n) = x
      BY <1>1, <2>2, <3>1, <3>2
    <3> QED
      BY <1>1, <3>1, <3>3
  <2>4. Backward(k, d, q)
    BY <1>7, <1>14, <1>b, <2>1, <2>2
  <2>5. TakeLinks(d, q)
    BY <1>7, <1>14, <2>3 DEF TakeLinks
  <2> QED
    BY <1>5, <1>8, <1>10, <2>1, <2>4, <2>5, SoundIs
<1> QED
  BY <1>12, <1>13, <1>14

LEMMA TakeOut ==
    ASSUME NEW role, NEW l, NEW c, NEW q, NEW d, NEW k, NEW p, NEW s,
           Sound(role, l, c, q), c.op \in {"extract", "getnode"}, c.at = 4, NextCall(c, d),
           NextSet(l, c.r, l.next[c.n], k), Shrunk(q, p, s), q[p] = c.n
    PROVE  Sound(role, k, d, s)
<1>0. ~HadEffect(c)
  BY DEF HadEffect
<1>1. /\ Rest(role, l, c, q) /\ NextPlain(l, q) /\ Backward(l, c, q)
      /\ TakeLinks(c, q)
      /\ c \in ListCalls /\ l \in Lists /\ q \in Seq(Node) /\ Once(q)
      /\ c.n \in Node /\ c.n # Null /\ c.n \in Pointer /\ c.r \in Pointer
      /\ Holds(q, c.n) /\ Null \in Pointer
      /\ l.next[c.n] = Nxt(l, c.n) /\ l.prev[c.n] = Prv(l, c.n)
      /\ \A x, y : Follows(q, x, y) => x \in Pointer /\ y \in Pointer
  BY <1>0, TakeFacts
<1>4. k \in Lists /\ k.num = l.num /\ k.inside = l.inside
  BY DEF NextSet
<1>5. PICK a, b : a = Place(q, p - 1) /\ b = Place(q, p + 1)
  OBVIOUS
<1>q. q \in Seq(Node) /\ Once(q)
  BY <1>1
<1>n. PICK n \in Node : n = c.n
  BY <1>1
<1>g. n \in Node /\ Shrunk(q, p, s) /\ q[p] = n
  BY <1>1, <1>n
<1>6. Follows(q, a, n) /\ Follows(q, n, b)
  BY ONLY <1>q, <1>5, <1>g, RingShrunk
<1>7. a # n /\ b # n /\ a \in Pointer /\ b \in Pointer
  BY <1>1, <1>n, <1>6, RingSelf
<1>8. a = c.r
  <2>1. Follows(q, c.r, c.n)
    BY <1>1 DEF TakeLinks
  <2> QED
    BY <1>1, <1>n, <1>6, <2>1, RingUnique
<1>9. \A x, y \in Pointer : Follows(q, x, y) => Prv(l, y) = IF x = c.n THEN l.prev[c.n] ELSE x
  BY <1>1 DEF Backward, Takes
<1>10. l.next[c.n] = b /\ l.prev[c.n] = a
  BY <1>1, <1>n, <1>6, <1>7, <1>9 DEF NextPlain
<1>11. /\ \A x \in Pointer : Nxt(k, x) = IF x = a THEN b ELSE Nxt(l, x)
       /\ \A x \in Pointer : Prv(k, x) = Prv(l, x)
  BY <1>8, <1>10 DEF NextSet
<1>12. Nxt(k, a) = b /\ Prv(k, b) = a
  <2>1. Prv(l, b) = l.prev[c.n]
    BY <1>1, <1>n, <1>6, <1>7, <1>9
  <2> QED
    BY <1>7, <1>10, <1>11, <2>1
<1>13. \A x, y : Follows(q, x, y) /\ x # a /\ y # b /\ x # n /\ y # n
                     => Nxt(k, x) = y /\ Prv(k, y) = x
  BY <1>1, <1>n, <1>9, <1>11 DEF NextPlain
<1>14. NextPlain(k, s) /\ PrevPlain(k, s)
  BY ONLY <1>q, <1>5, <1>g, <1>12, <1>13, TakeLinksOut
<1>15. Rest(role, k, d, s)
  BY <1>1, <1>4, TakeRest
<1>16. HadEffect(d) /\ d.op \in {"extract", "getnode"}
  BY DEF HadEffect, NextCall
<1> QED
  BY <1>14, <1>15, <1>16, PlainSound

LEMMA TakeResets ==
    ASSUME NEW role, NEW l, NEW c, NEW q, NEW d, NEW k,
           Sound(role, l, c, q), c.op \in {"extract", "getnode"}, c.at = 5, NextCall(c, d),
           BothReset(l, c.n, k)
    PROVE  Sound(role, k, d, q)
<1>1. Rest(role, l, c, q) /\ Forward(role, l, c, q) /\ Backward(l, c, q)
  BY SoundIs
<1>2. HadEffect(c) /\ HadEffect(d) /\ d.op = c.op
  BY DEF HadEffect, NextCall
<1>3. q \in Seq(Node) /\ ~Holds(q, c.n) /\ c.n # Null
  BY <1>1, <1>2, StartedFacts DEF Takes
<1>4. NextPlain(l, q) /\ PrevPlain(l, q)
  BY <1>1, PlainLinks
<1>5. \A x, y : Follows(q, x, y) => x # c.n /\ y # c.n
  BY <1>3, RingIn
<1>6. NextPlain(k, q) /\ PrevPlain(k, q)
  BY <1>4, <1>5 DEF NextPlain, PrevPlain, BothReset
<1>7. Rest(role, k, d, q)
  <2>1. k \in Lists /\ k.num = l.num /\ k.inside = l.inside
    BY DEF BothReset
  <2> QED
    BY <1>1, <2>1, QuietRest
<1> QED
  BY <1>2, <1>6, <1>7, PlainSound

\* Between two operations nothing is started.
LEMMA RestfulSound ==
    ASSUME NEW role, NEW k, NEW q, NEW c, Rest(role, k, c, q), NextPlain(k, q), PrevPlain(k, q),
           c.op \in {"none", "walk"}
    PROVE  Sound(role, k, c, q)
<1>1. Forward(role, k, c, q) /\ Backward(k, c, q)
  BY PlainLinks
<1>2. NodeLinks(k, c, q)
  BY DEF NodeLinks, Takes
<1> QED
  BY <1>1, <1>2, SoundIs

LEMMA MarksSound ==
    ASSUME NEW role, NEW l, NEW c, NEW q, NEW d, NEW k, NEW last \in BOOLEAN, NEW flag \in BOOLEAN,
           Sound(role, l, c, q),
           last => d = NoCall, ~last => NextCall(c, d),
           IF flag THEN FlagSet(l, c.n, Puts(c), k)
           ELSE NumSet(l, IF Puts(c) THEN l.num + 1 ELSE l.num - 1, k),
           \/ c.op \in {"append", "insert"} /\ c.at = 5 /\ ~flag /\ ~last
           \/ c.op \in {"append", "insert"} /\ c.at = 6 /\ flag /\ last
           \/ c.op = "add" /\ c.at = 6 /\ flag /\ ~last
           \/ c.op = "add" /\ c.at = 7 /\ ~flag /\ last
           \/ c.op = "extract" /\ c.at = 6 /\ flag /\ ~last
           \/ c.op = "extract" /\ c.at = 7 /\ ~flag /\ last
           \/ c.op = "getnode" /\ c.at = 6 /\ ~flag /\ ~last
           \/ c.op = "getnode" /\ c.at = 7 /\ flag /\ last
    PROVE  Sound(role, k, d, q)
<1>1. Rest(role, l, c, q) /\ Forward(role, l, c, q) /\ Backward(l, c, q)
  BY SoundIs
<1>2. NextPlain(l, q) /\ PrevPlain(l, q)
  BY <1>1, PlainLinks
<1>3. \A x \in Pointer : Nxt(k, x) = Nxt(l, x) /\ Prv(k, x) = Prv(l, x)
  BY DEF FlagSet, NumSet
<1>4. NextPlain(k, q) /\ PrevPlain(k, q)
  BY <1>2, <1>3 DEF NextPlain, PrevPlain
<1>5. Rest(role, k, d, q)
  BY <1>1, MarksRest
<1>6. CASE last
  BY <1>4, <1>5, <1>6, NoCallIs, RestfulSound
<1>7. CASE ~last
  <2>1. HadEffect(d) /\ d.op = c.op
    BY <1>7 DEF HadEffect, NextCall
  <2> QED
    BY <1>4, <1>5, <2>1, PlainSound
<1> QED
  BY <1>6, <1>7

----------------------------------------------------------------------------
(* An ISR between two statements.                                          *)

\* The thread is not at work on the end of the list.
Clear(l, c) ==
    /\ ~(c.op = "append" /\ c.at \in 3..4)
    /\ ~(c.op = "insert" /\ c.at = 3 /\ c.r = Null)
    /\ ~(c.op = "extract" /\ c.at \in 2..4 /\ l.next[c.n] = Null)

\* Nor has it read or written a link of m.
Apart(l, c, m) ==
    /\ m # c.n /\ m # c.r /\ m # c.h
    /\ c.op # "none" => m # l.next[c.n] /\ m # l.prev[c.n]

LEMMA AppendedRest ==
    ASSUME NEW l, NEW c, NEW q, NEW k, NEW p, NEW m \in Node, NEW s,
           Rest("ready", l, c, q), Appended(l, m, k), m # c.n, ~Holds(q, m),
           Grown(q, p, m, s)
    PROVE  Rest("ready", k, c, s)
<1>1. /\ c \in ListCalls /\ l \in Lists /\ q \in Seq(Node) /\ Once(q)
      /\ CallOf("ready", c, q) /\ Marks(l, c, q)
  BY DEF Rest, ListTypes
<1>2. /\ k \in Lists /\ k.num = l.num + 1 /\ k.inside = [l.inside EXCEPT ![m] = TRUE]
  BY DEF Appended
<1>b. /\ s \in Seq(Node) /\ Once(s) /\ Len(s) = Len(q) + 1 /\ Len(q) \in Nat
      /\ \A x : Holds(s, x) <=> Holds(q, x) \/ x = m
  BY <1>1, GrownHolds
<1>3. ListTypes("ready", k, c, s)
  BY <1>1, <1>2, <1>b DEF ListTypes
<1>4. CallOf("ready", c, s)
  BY <1>1, <1>b DEF CallOf
<1>5. \A x \in Node : k.inside[x] = IF x = m THEN TRUE ELSE l.inside[x]
  BY <1>1, <1>2, LinkTypes
<1>6. Lag(c) \in Int
  BY DEF Lag
<1>7. c.op # "none" => c.n \in Node
  BY <1>1 DEF CallOf
<1>8. Marks(k, c, s)
  <2>1. /\ l.num = Len(q) + Lag(c)
        /\ \A x \in Node : x # c.n => (l.inside[x] <=> Holds(q, x))
        /\ c.op # "none" => (l.inside[c.n] <=> Marked(c))
    BY <1>1 DEF Marks
  <2>2. k.num = Len(s) + Lag(c)
    BY <1>2, <1>b, <1>6, <2>1
  <2>3. \A x \in Node : x # c.n => (k.inside[x] <=> Holds(s, x))
    BY <1>b, <1>5, <2>1
  <2>4. c.op # "none" => (k.inside[c.n] <=> Marked(c))
    BY <1>5, <1>7, <2>1
  <2> QED
    BY <2>2, <2>3, <2>4 DEF Marks
<1> QED
  BY <1>3, <1>4, <1>8 DEF Rest

LEMMA TakenRest ==
    ASSUME NEW role, NEW l, NEW c, NEW q, NEW k, NEW p, NEW m \in Node, NEW s,
           Rest(role, l, c, q), TakenOut(l, m, k), m # c.n, m # c.r, m # c.h,
           Shrunk(q, p, s), q[p] = m, role = "time" => p = 1
    PROVE  Rest(role, k, c, s)
<1>1. /\ c \in ListCalls /\ l \in Lists /\ q \in Seq(Node) /\ Once(q)
      /\ CallOf(role, c, q) /\ Marks(l, c, q)
  BY DEF Rest, ListTypes
<1>2. /\ k \in Lists /\ k.num = l.num - 1 /\ k.inside = [l.inside EXCEPT ![m] = FALSE]
  BY DEF TakenOut
<1>b. /\ s \in Seq(Node) /\ Once(s) /\ Len(s) = Len(q) - 1 /\ Len(q) \in Nat
      /\ \A x : Holds(s, x) <=> Holds(q, x) /\ x # m
  BY <1>1, ShrunkHolds
<1>3. ListTypes(role, k, c, s)
  BY <1>1, <1>2, <1>b DEF ListTypes, Rest
<1>4. CallOf(role, c, s)
  BY <1>1, <1>b DEF CallOf
<1>5. \A x \in Node : k.inside[x] = IF x = m THEN FALSE ELSE l.inside[x]
  BY <1>1, <1>2, LinkTypes
<1>6. Lag(c) \in Int
  BY DEF Lag
<1>7. c.op # "none" => c.n \in Node
  BY <1>1 DEF CallOf
<1>8. Marks(k, c, s)
  <2>1. /\ l.num = Len(q) + Lag(c)
        /\ \A x \in Node : x # c.n => (l.inside[x] <=> Holds(q, x))
        /\ c.op # "none" => (l.inside[c.n] <=> Marked(c))
    BY <1>1 DEF Marks
  <2>2. k.num = Len(s) + Lag(c)
    BY <1>2, <1>b, <1>6, <2>1
  <2>3. \A x \in Node : x # c.n => (k.inside[x] <=> Holds(s, x))
    BY <1>b, <1>5, <2>1
  <2>4. c.op # "none" => (k.inside[c.n] <=> Marked(c))
    BY <1>5, <1>7, <2>1
  <2> QED
    BY <2>2, <2>3, <2>4 DEF Marks
<1>9. ASSUME role = "time" PROVE Due(c, s)
  <2>0. /\ p = 1 /\ Due(c, q) /\ Len(q) \in Nat /\ Len(q) >= 1 /\ q[1] = m
        /\ \A i \in 1..(Len(q) - 1) : s[i] = q[i + 1]
    BY <1>9, <1>b DEF Rest, Shrunk
  <2>1. InOrder(s)
    <3>1. InOrder(q)
      BY <2>0 DEF Due, InOrder
    <3> QED
      BY <1>1, <3>1, OrderShrunk
  <2>2. ASSUME c.op = "walk"
        PROVE  \E i \in 1..(Len(s) + 1) : c.r = Place(s, i) /\ NoLater(s, c.n, i - 1)
    <3>1. PICK i \in 1..(Len(q) + 1) : c.r = Place(q, i) /\ NoLater(q, c.n, i - 1)
      BY <2>0, <2>2 DEF Due
    <3>2. i # 1
      BY <2>0, <3>1 DEF Place
    <3>3. PICK j : j = i - 1
      OBVIOUS
    <3>4. j \in 1..(Len(s) + 1) /\ j \in 0..Len(q) /\ i = j + 1 /\ ~(j < 1)
      BY <1>b, <2>0, <3>1, <3>2, <3>3
    <3>5. Place(s, j) = Place(q, j + 1)
      BY <1>1, <2>0, <3>4, ShrunkPlaces
    <3>6. NoLater(s, c.n, j - 1)
      <4>1. ASSUME NEW u \in 1..Len(s), u <= j - 1 PROVE Deadline[s[u]] <= Deadline[c.n]
        <5>1. s[u] = q[u + 1] /\ u + 1 \in 1..Len(q) /\ u + 1 <= i - 1
          BY <1>b, <2>0, <3>4, <4>1
        <5> QED
          BY <3>1, <5>1 DEF NoLater
      <4> QED
        BY <4>1 DEF NoLater
    <3> QED
      BY <3>1, <3>4, <3>5, <3>6
  <2>3. ASSUME NoLater(q, c.n, Len(q)) PROVE NoLater(s, c.n, Len(s))
    <3>1. ASSUME NEW u \in 1..Len(s) PROVE Deadline[s[u]] <= Deadline[c.n]
      <4>1. s[u] = q[u + 1] /\ u + 1 \in 1..Len(q) /\ u + 1 <= Len(q)
        BY <1>b, <2>0
      <4> QED
        BY <2>3, <4>1 DEF NoLater
    <3> QED
      BY <3>1 DEF NoLater
  <2>4. ASSUME NEW i \in 1..Len(q), Later(q, c.n, i) PROVE Later(s, c.n, i - 1)
    <3>1. ASSUME NEW u \in 1..Len(s), u > i - 1 PROVE Deadline[s[u]] > Deadline[c.n]
      <4>1. s[u] = q[u + 1] /\ u + 1 \in 1..Len(q) /\ u + 1 > i
        BY <1>b, <2>0, <3>1
      <4> QED
        BY <2>4, <4>1 DEF Later
    <3> QED
      BY <3>1 DEF Later
  <2>5. ASSUME Later(q, c.n, 0) PROVE Later(s, c.n, 0)
    <3>1. ASSUME NEW u \in 1..Len(s) PROVE Deadline[s[u]] > Deadline[c.n]
      <4>1. s[u] = q[u + 1] /\ u + 1 \in 1..Len(q) /\ u + 1 > 0
        BY <1>b, <2>0
      <4> QED
        BY <2>5, <4>1 DEF Later
    <3> QED
      BY <3>1 DEF Later
  <2>6. ASSUME c.op = "add", c.at <= 5
        PROVE  \E i \in 1..Len(s) : c.h = s[i] /\ NoLater(s, c.n, i) /\ Later(s, c.n, i)
    <3>1. PICK i \in 1..Len(q) : c.h = q[i] /\ NoLater(q, c.n, i) /\ Later(q, c.n, i)
      BY <2>0, <2>6 DEF Due
    <3>2. i # 1
      BY <2>0, <3>1
    <3>3. PICK j : j = i - 1
      OBVIOUS
    <3>4. j \in 1..Len(s) /\ i = j + 1 /\ s[j] = q[i]
      BY <1>b, <2>0, <3>1, <3>2, <3>3
    <3>5. Later(s, c.n, j)
      BY <2>4, <3>1, <3>3
    <3>6. NoLater(s, c.n, j)
      <4>1. ASSUME NEW u \in 1..Len(s), u <= j PROVE Deadline[s[u]] <= Deadline[c.n]
        <5>1. s[u] = q[u + 1] /\ u + 1 \in 1..Len(q) /\ u + 1 <= i
          BY <1>b, <2>0, <3>4, <4>1
        <5> QED
          BY <3>1, <5>1 DEF NoLater
      <4> QED
        BY <4>1 DEF NoLater
    <3> QED
      BY <3>1, <3>4, <3>5, <3>6
  <2>7. \A i, j \in 1..Len(s) : i < j => Deadline[s[i]] <= Deadline[s[j]]
    BY <2>1 DEF InOrder
  <2>8. c.op = "append" /\ c.at <= 4 => NoLater(s, c.n, Len(s))
    BY <2>0, <2>3 DEF Due
  <2>9. c.op = "insert" /\ c.at <= 4 => Later(s, c.n, 0)
    BY <2>0, <2>5 DEF Due
  <2> QED
    BY <2>2, <2>6, <2>7, <2>8, <2>9 DEF Due
<1> QED
  BY <1>3, <1>4, <1>8, <1>9 DEF Rest

LEMMA TailOf ==
    ASSUME NEW l, NEW c, NEW q, NEW a, Sound("ready", l, c, q), Clear(l, c),
           Follows(q, a, Null)
    PROVE  /\ a \in Pointer /\ (a = Null \/ Holds(q, a))
           /\ l.last = IF c.op = "insert" /\ c.at = 4 /\ a = Null THEN c.n ELSE a
           /\ c.op = "extract" /\ c.at \in 2..4 => a # c.n
<1>1. /\ Rest("ready", l, c, q) /\ Forward("ready", l, c, q) /\ Backward(l, c, q)
      /\ c \in ListCalls /\ l \in Lists /\ q \in Seq(Node) /\ Once(q)
      /\ c.op \in {"none", "append", "insert", "extract"}
  BY SoundIs DEF Rest, ListTypes, CallOf
<1>2. /\ a \in Pointer /\ Null \in Pointer /\ (a = Null \/ Holds(q, a))
      /\ Prv(l, Null) = l.last
  BY <1>1, RingIn, NodeFacts, LinkTypes
<1>3. ASSUME c.op = "extract", c.at \in 2..4 PROVE a # c.n
  <2>1. NextPlain(l, q)
    BY <1>1, <1>3, PlainLinks
  <2>2. c.n \in Node
    BY <1>1, <1>3, StartedFacts
  <2>3. Nxt(l, c.n) = l.next[c.n]
    BY <1>1, <2>2, LinkTypes
  <2> QED
    BY <1>2, <1>3, <2>1, <2>3 DEF Clear, NextPlain
<1>4. Prv(l, Null) = IF c.op = "insert" /\ c.at = 4 /\ a = Null THEN c.n ELSE a
  <2>1. Prv(l, Null) = IF \/ c.op = "insert" /\ c.at = 4 /\ a = Null
                          \/ c.op = "add" /\ c.at \in 3..5 /\ a = c.h
                       THEN c.n
                       ELSE IF Takes(c) /\ c.at \in 3..4 /\ a = c.n THEN l.prev[c.n] ELSE a
    BY <1>1, <1>2 DEF Backward
  <2>2. ~(Takes(c) /\ c.at \in 3..4 /\ a = c.n)
    <3>1. Takes(c) => c.op = "extract"
      BY <1>1 DEF Takes
    <3> QED
      BY <1>3, <3>1
  <2> QED
    BY <1>1, <2>1, <2>2
<1> QED
  BY <1>2, <1>3, <1>4

LEMMA IsrAppendSound ==
    ASSUME NEW l, NEW c, NEW q, NEW k, NEW p, NEW m \in Node, NEW s,
           Sound("ready", l, c, q), Clear(l, c), Appended(l, m, k), m # c.n, ~Holds(q, m),
           p = Len(q), Grown(q, p, m, s)
    PROVE  Sound("ready", k, c, s)
<1>1. /\ Rest("ready", l, c, q) /\ Forward("ready", l, c, q) /\ Backward(l, c, q)
      /\ NodeLinks(l, c, q)
      /\ c \in ListCalls /\ l \in Lists /\ q \in Seq(Node) /\ Once(q)
      /\ c.op \in {"none", "append", "insert", "extract"}
  BY SoundIs DEF Rest, ListTypes, CallOf
<1>2. Rest("ready", k, c, s)
  BY <1>1, AppendedRest
<1>3. PICK a, b : a = Place(q, p) /\ b = Place(q, p + 1)
  OBVIOUS
<1>4. b = Null
  BY <1>1, <1>3, PlaceIs
<1>q. q \in Seq(Node) /\ Once(q) /\ Grown(q, p, m, s) /\ ~Holds(q, m)
  BY <1>1
<1>5. /\ Follows(q, a, b) /\ Once(s)
      /\ \A z : Holds(s, z) <=> Holds(q, z) \/ z = m
      /\ \A z, w : Follows(s, z, w) =>
             \/ z = a /\ w = m
             \/ z = m /\ w = b
             \/ z # a /\ w # b /\ z # m /\ w # m /\ Follows(q, z, w)
      /\ Follows(s, a, m) /\ Follows(s, m, b)
  BY ONLY <1>q, <1>3, m \in Node, RingGrown
<1>6. /\ a \in Pointer /\ (a = Null \/ Holds(q, a))
      /\ l.last = IF c.op = "insert" /\ c.at = 4 /\ a = Null THEN c.n ELSE a
      /\ c.op = "extract" /\ c.at \in 2..4 => a # c.n
  BY <1>4, <1>5, TailOf
<1>7. /\ m # Null /\ m \in Pointer /\ Null \in Pointer /\ a # m
  BY <1>6, NodeFacts
<1>8. /\ k \in Lists
      /\ \A x \in Pointer : Nxt(k, x) = IF x = m THEN Null
                                        ELSE IF x = l.last THEN m ELSE Nxt(l, x)
      /\ \A x \in Pointer : Prv(k, x) = IF x = Null THEN m
                                        ELSE IF x = m THEN l.last ELSE Prv(l, x)
  BY DEF Appended
<1>9. \A x, y : Follows(s, x, y) => x \in Pointer /\ y \in Pointer /\ (x = Null \/ Holds(s, x))
  <2>1. s \in Seq(Node)
    BY DEF Grown
  <2> QED
    BY <2>1, RingIn
<1>u. \A y : Follows(q, a, y) => y = Null
  <2>1. Follows(q, a, Null)
    BY <1>4, <1>5
  <2> SUFFICES ASSUME NEW y, Follows(q, a, y) PROVE y = Null
    OBVIOUS
  <2> QED
    BY ONLY <1>q, <2>1, Follows(q, a, y), RingUnique
<1>n. c.op # "none" => /\ c.n \in Node /\ c.n # Null /\ c.n \in Pointer
                       /\ k.next[c.n] = Nxt(k, c.n) /\ k.prev[c.n] = Prv(k, c.n)
                       /\ l.next[c.n] = Nxt(l, c.n) /\ l.prev[c.n] = Prv(l, c.n)
                       /\ Puts(c) => (Holds(q, c.n) <=> HadEffect(c))
                       /\ Takes(c) => (Holds(q, c.n) <=> ~HadEffect(c))
  BY <1>1, <1>8, StartedFacts, LinkTypes
\* The thread is putting a first node into an empty list.
<1> DEFINE First == c.op = "insert" /\ c.at = 4 /\ a = Null
<1>f. First => c.n \in Node /\ c.n # Null /\ ~Holds(q, c.n)
  <2> SUFFICES ASSUME First PROVE c.n \in Node /\ c.n # Null /\ ~Holds(q, c.n)
    OBVIOUS
  <2>1. ~HadEffect(c) /\ Puts(c)
    BY DEF HadEffect, Puts
  <2> QED
    BY <1>n, <2>1
<1>10. Forward("ready", k, c, s)
  <2>1. ASSUME NEW x \in Pointer, NEW y \in Pointer, Follows(s, x, y),
               ~(c.op = "insert" /\ c.at = 4 /\ x = Null)
        PROVE  Nxt(k, x) = IF c.op = "append" /\ c.at = 4 /\ y = Null THEN c.n ELSE y
    <3>0. ~(c.op = "append" /\ c.at = 4)
      BY DEF Clear
    <3>1. CASE x = a /\ y = m
      <4>1. l.last = a
        BY <1>6, <2>1, <3>1
      <4> QED
        BY <1>7, <1>8, <3>0, <3>1, <4>1
    <3>2. CASE x = m /\ y = b
      BY <1>4, <1>8, <3>0, <3>2
    <3>3. CASE x # a /\ y # b /\ x # m /\ y # m /\ Follows(q, x, y)
      <4>1. Nxt(l, x) = y
        BY <1>1, <2>1, <3>0, <3>3 DEF Forward
      <4>2. x # l.last
        <5>1. CASE First
          <6>1. x = Null \/ Holds(q, x)
            BY <1>1, <3>3, RingIn
          <6> QED
            BY <1>6, <1>f, <5>1, <6>1
        <5>2. CASE ~First
          BY <1>6, <3>3, <5>2
        <5> QED
          BY <5>1, <5>2
      <4> QED
        BY <1>8, <3>0, <3>3, <4>1, <4>2
    <3> QED
      BY <1>5, <2>1, <3>1, <3>2, <3>3
  <2> QED
    BY <2>1 DEF Forward
<1>11. Backward(k, c, s)
  <2>1. ASSUME NEW x \in Pointer, NEW y \in Pointer, Follows(s, x, y)
        PROVE  Prv(k, y) = IF \/ c.op = "insert" /\ c.at = 4 /\ x = Null
                              \/ c.op = "add" /\ c.at \in 3..5 /\ x = c.h
                           THEN c.n
                           ELSE IF Takes(c) /\ c.at \in 3..4 /\ x = c.n THEN k.prev[c.n]
                           ELSE x
    <3>0. c.op # "add" /\ (Takes(c) => c.op = "extract")
      BY <1>1 DEF Takes
    <3>1. CASE x = a /\ y = m
      <4>1. Prv(k, m) = l.last
        BY <1>7, <1>8
      <4> QED
        BY <1>6, <3>0, <3>1, <4>1
    <3>2. CASE x = m /\ y = b
      BY <1>4, <1>7, <1>8, <3>0, <3>2
    <3>3. CASE x # a /\ y # b /\ x # m /\ y # m /\ Follows(q, x, y)
      <4>1. Prv(k, y) = Prv(l, y)
        BY <1>4, <1>8, <3>3
      <4>2. Prv(l, y) = IF \/ c.op = "insert" /\ c.at = 4 /\ x = Null
                           \/ c.op = "add" /\ c.at \in 3..5 /\ x = c.h
                        THEN c.n
                        ELSE IF Takes(c) /\ c.at \in 3..4 /\ x = c.n THEN l.prev[c.n]
                        ELSE x
        BY <1>1, <3>3 DEF Backward
      <4>3. Takes(c) => k.prev[c.n] = l.prev[c.n]
        BY <1>8, <1>n, <3>0
      <4> QED
        BY <4>1, <4>2, <4>3
    <3> QED
      BY <1>5, <2>1, <3>1, <3>2, <3>3
  <2> QED
    BY <2>1 DEF Backward
<1>12. \A x, y : Follows(q, x, y) /\ x # a => Follows(s, x, y)
  <2> SUFFICES ASSUME NEW x, NEW y, Follows(q, x, y), x # a PROVE Follows(s, x, y)
    OBVIOUS
  <2>1. x # Place(q, p)
    BY <1>3
  <2> QED
    BY ONLY <1>q, m \in Node, Follows(q, x, y), <2>1, GrownKeeps
<1>13. ASSUME c.op = "append" PROVE AppendLinks(k, c, s)
  <2>1. c.at \notin 3..4 /\ AppendLinks(l, c, q)
    BY <1>1, <1>13 DEF Clear, NodeLinks
  <2>2. ASSUME c.at = 2 PROVE k.next[c.n] = Null
    <3>1. ~HadEffect(c) /\ Puts(c)
      BY <1>13, <2>2 DEF HadEffect, Puts
    <3>2. c.n # l.last
      BY <1>6, <1>13, <1>n, <3>1
    <3> QED
      BY <1>8, <1>13, <1>n, <2>1, <2>2, <3>2 DEF AppendLinks
  <2> QED
    BY <2>1, <2>2 DEF AppendLinks
<1>14. ASSUME c.op = "insert" PROVE InsertLinks(k, c, s)
  <2>1. InsertLinks(l, c, q)
    BY <1>1, <1>14 DEF NodeLinks
  <2>2. k.prev[c.n] = l.prev[c.n]
    BY <1>8, <1>14, <1>n
  <2>3. CASE c.at \in 3..4
    <3>1. Follows(q, Null, l.next[c.n])
      BY <2>1, <2>3 DEF InsertLinks
    <3>2. CASE First
      <4>1. k.next[c.n] = m
        BY <1>6, <1>8, <1>14, <1>n, <3>2
      <4> QED
        BY <1>5, <2>1, <2>2, <2>3, <3>2, <4>1 DEF InsertLinks
    <3>3. CASE ~First
      <4>1. ~HadEffect(c) /\ Puts(c)
        BY <1>14, <2>3 DEF HadEffect, Puts
      <4>2. c.n # l.last
        BY <1>6, <1>14, <1>n, <3>3, <4>1
      <4>3. k.next[c.n] = l.next[c.n]
        BY <1>8, <1>14, <1>n, <4>2
      <4>4. a # Null
        <5>1. CASE c.at = 4
          BY <1>14, <3>3, <5>1
        <5>2. CASE c.at = 3
          <6>1. c.r # Null /\ c.r = l.next[c.n]
            BY <1>14, <2>1, <5>2 DEF Clear, InsertLinks
          <6>2. a = Null => l.next[c.n] = Null
            BY <1>u, <3>1
          <6> QED
            BY <6>1, <6>2
        <5> QED
          BY <2>3, <5>1, <5>2
      <4>5. Follows(s, Null, l.next[c.n])
        BY <1>12, <3>1, <4>4
      <4> QED
        BY <2>1, <2>2, <4>3, <4>5 DEF InsertLinks
    <3> QED
      BY <3>2, <3>3
  <2>4. CASE c.at \notin 3..4
    BY <2>1, <2>2, <2>4 DEF InsertLinks
  <2> QED
    BY <2>3, <2>4
<1>15. ASSUME Takes(c) PROVE TakeLinks(c, s)
  <2>0. c.op = "extract"
    BY <1>1, <1>15 DEF Takes
  <2>1. TakeLinks(c, q)
    BY <1>1, <1>15 DEF NodeLinks
  <2>2. ASSUME c.at = 2 PROVE Follows(s, c.n, c.r)
    BY <1>6, <1>12, <2>0, <2>1, <2>2 DEF TakeLinks
  <2>3. ASSUME c.at = 4 PROVE Follows(s, c.r, c.n)
    <3>1. Follows(q, c.r, c.n)
      BY <2>1, <2>3 DEF TakeLinks
    <3>2. a = c.r => c.n = Null
      BY <1>u, <3>1
    <3> QED
      BY <1>12, <1>n, <2>0, <3>1, <3>2
  <2> QED
    BY <2>2, <2>3 DEF TakeLinks
<1>16. NodeLinks(k, c, s)
  BY <1>1, <1>13, <1>14, <1>15 DEF NodeLinks
<1> QED
  BY <1>2, <1>10, <1>11, <1>16, SoundIs

LEMMA NeighboursOf ==
    ASSUME NEW role, NEW l, NEW c, NEW q, NEW m \in Node, NEW a, NEW b,
           Sound(role, l, c, q), Apart(l, c, m), Follows(q, a, m), Follows(q, m, b)
    PROVE  /\ l.next[m] = b /\ l.prev[m] = a /\ a # m /\ b # m /\ a \in Pointer /\ b \in Pointer
           /\ ~(c.op = "append" /\ c.at = 4 /\ b = Null)
           /\ ~(c.op = "insert" /\ c.at = 4 /\ a = Null)
           /\ ~(c.op = "add" /\ c.at \in 3..5 /\ a = c.h)
           /\ ~(Takes(c) /\ c.at \in 3..4 /\ a = c.n)
           /\ Takes(c) => b # c.n
           /\ Takes(c) /\ ~HadEffect(c) => a # c.n
<1>1. /\ Rest(role, l, c, q) /\ Forward(role, l, c, q) /\ Backward(l, c, q)
      /\ NodeLinks(l, c, q)
      /\ c \in ListCalls /\ l \in Lists /\ q \in Seq(Node) /\ Once(q)
      /\ CallOf(role, c, q)
  BY SoundIs DEF Rest, ListTypes
<1>2. /\ m # Null /\ m \in Pointer /\ Null \in Pointer
      /\ l.next[m] = Nxt(l, m) /\ l.prev[m] = Prv(l, m)
  BY <1>1, NodeFacts, LinkTypes
<1>3. a \in Pointer /\ b \in Pointer /\ a # m /\ b # m
  BY <1>1, <1>2, RingIn, RingSelf
<1>n. c.op # "none" => /\ c.n \in Node /\ c.n # Null /\ c.n \in Pointer
                       /\ l.next[c.n] = Nxt(l, c.n) /\ l.prev[c.n] = Prv(l, c.n)
                       /\ m # l.next[c.n] /\ m # l.prev[c.n] /\ m # c.n
  BY <1>1, NodeFacts, LinkTypes DEF CallOf, Apart
<1>4. /\ \A y : Follows(q, a, y) => y = m
      /\ \A y : Follows(q, y, b) => y = m
      /\ \A y : Follows(q, m, y) => y = b
      /\ \A y : Follows(q, y, m) => y = a
  BY <1>1, RingUnique
<1>5. ~(c.op = "append" /\ c.at = 4 /\ b = Null)
  BY <1>1, <1>4 DEF NodeLinks, AppendLinks, Apart
<1>6. ~(c.op = "insert" /\ c.at = 4 /\ a = Null)
  BY <1>1, <1>4, <1>n DEF NodeLinks, InsertLinks
<1>7. ~(c.op = "add" /\ c.at \in 3..5 /\ a = c.h)
  BY <1>1, <1>4 DEF NodeLinks, AddLinks, Apart
<1>8. Nxt(l, m) = b
  BY <1>1, <1>2, <1>3, <1>5 DEF Forward
<1>9. Takes(c) /\ ~HadEffect(c) => a # c.n
  <2> SUFFICES ASSUME Takes(c), ~HadEffect(c), a = c.n PROVE FALSE
    OBVIOUS
  <2>1. NextPlain(l, q) /\ c.op # "none"
    BY <1>1, PlainLinks DEF Takes
  <2>2. Nxt(l, c.n) = m
    BY <1>2, <1>3, <2>1 DEF NextPlain
  <2> QED
    BY <1>n, <2>1, <2>2
<1>10. ~(Takes(c) /\ c.at \in 3..4 /\ a = c.n)
  <2> SUFFICES ASSUME Takes(c), c.at \in 3..4, a = c.n PROVE FALSE
    OBVIOUS
  <2>1. ~HadEffect(c)
    BY DEF HadEffect, Takes
  <2> QED
    BY <1>9, <2>1
<1>11. Prv(l, m) = a
  BY <1>1, <1>2, <1>3, <1>6, <1>7, <1>10 DEF Backward
<1>12. Prv(l, b) = m
  <2>1. Prv(l, b) = IF \/ c.op = "insert" /\ c.at = 4 /\ m = Null
                       \/ c.op = "add" /\ c.at \in 3..5 /\ m = c.h
                    THEN c.n
                    ELSE IF Takes(c) /\ c.at \in 3..4 /\ m = c.n THEN l.prev[c.n] ELSE m
    BY <1>1, <1>2, <1>3 DEF Backward
  <2> QED
    BY <1>2, <2>1 DEF Apart
<1>13. c.op # "none" => b # c.n
  BY <1>n, <1>12
<1>14. Takes(c) => b # c.n
  BY <1>13 DEF Takes
<1> QED
  BY <1>2, <1>3, <1>5, <1>6, <1>7, <1>8, <1>9, <1>10, <1>11, <1>14

LEMMA IsrTakeSound ==
    ASSUME NEW role, NEW l, NEW c, NEW q, NEW k, NEW p, NEW m \in Node, NEW s,
           Sound(role, l, c, q), Apart(l, c, m), TakenOut(l, m, k),
           Shrunk(q, p, s), q[p] = m, role = "time" => p = 1
    PROVE  Sound(role, k, c, s)
<1>1. /\ Rest(role, l, c, q) /\ Forward(role, l, c, q) /\ Backward(l, c, q)
      /\ NodeLinks(l, c, q)
      /\ c \in ListCalls /\ l \in Lists /\ q \in Seq(Node) /\ Once(q)
      /\ CallOf(role, c, q)
  BY SoundIs DEF Rest, ListTypes
<1>2. Rest(role, k, c, s)
  BY <1>1, TakenRest DEF Apart
<1>3. PICK a, b : a = Place(q, p - 1) /\ b = Place(q, p + 1)
  OBVIOUS
<1>q. q \in Seq(Node) /\ Once(q) /\ Shrunk(q, p, s) /\ q[p] = m
  BY <1>1
<1>5. /\ Follows(q, a, m) /\ Follows(q, m, b) /\ Once(s)
      /\ \A z : Holds(s, z) <=> Holds(q, z) /\ z # m
      /\ \A z, w : Follows(s, z, w) =>
             \/ z = a /\ w = b
             \/ z # a /\ w # b /\ z # m /\ w # m /\ Follows(q, z, w)
      /\ Follows(s, a, b) /\ Len(s) = Len(q) - 1 /\ Holds(q, m)
  BY ONLY <1>q, <1>3, m \in Node, RingShrunk
<1>6. /\ l.next[m] = b /\ l.prev[m] = a /\ a # m /\ b # m /\ a \in Pointer /\ b \in Pointer
      /\ ~(c.op = "append" /\ c.at = 4 /\ b = Null)
      /\ ~(c.op = "insert" /\ c.at = 4 /\ a = Null)
      /\ ~(c.op = "add" /\ c.at \in 3..5 /\ a = c.h)
      /\ ~(Takes(c) /\ c.at \in 3..4 /\ a = c.n)
      /\ Takes(c) => b # c.n
      /\ Takes(c) /\ ~HadEffect(c) => a # c.n
  <2>1. Follows(q, a, m) /\ Follows(q, m, b)
    BY <1>5
  <2> QED
    BY ONLY Sound(role, l, c, q), Apart(l, c, m), m \in Node, <2>1, NeighboursOf
<1>7. m # Null /\ m \in Pointer /\ Null \in Pointer
  BY NodeFacts
<1>8. /\ k \in Lists
      /\ \A x \in Pointer : Nxt(k, x) = IF x = m THEN Null
                                        ELSE IF x = a THEN b ELSE Nxt(l, x)
      /\ \A x \in Pointer : Prv(k, x) = IF x = m THEN Null
                                        ELSE IF x = b THEN a ELSE Prv(l, x)
  BY <1>6 DEF TakenOut
<1>n. c.op # "none" => /\ c.n \in Node /\ c.n # Null /\ c.n \in Pointer /\ c.n # m
                       /\ k.next[c.n] = Nxt(k, c.n) /\ k.prev[c.n] = Prv(k, c.n)
                       /\ l.next[c.n] = Nxt(l, c.n) /\ l.prev[c.n] = Prv(l, c.n)
                       /\ l.next[c.n] # m /\ l.prev[c.n] # m
                       /\ Puts(c) => (Holds(q, c.n) <=> HadEffect(c))
  BY <1>1, <1>8, NodeFacts, LinkTypes DEF CallOf, Apart
\* The links of a node that is not yet in the list, or not yet out of it.
<1>k. (Puts(c) \/ Takes(c)) /\ ~HadEffect(c) =>
          k.next[c.n] = l.next[c.n] /\ k.prev[c.n] = l.prev[c.n]
  <2> SUFFICES ASSUME Puts(c) \/ Takes(c), ~HadEffect(c)
               PROVE  k.next[c.n] = l.next[c.n] /\ k.prev[c.n] = l.prev[c.n]
    OBVIOUS
  <2>1. c.op # "none"
    BY DEF Puts, Takes
  <2>2. a # c.n /\ b # c.n
    <3>1. CASE Takes(c)
      BY <1>6, <3>1
    <3>2. CASE Puts(c)
      <4>1. ~Holds(q, c.n) /\ c.n # Null
        BY <1>n, <2>1, <3>2
      <4>2. (a = Null \/ Holds(q, a)) /\ (b = Null \/ Holds(q, b))
        BY <1>1, <1>5, RingIn
      <4> QED
        BY <4>1, <4>2
    <3> QED
      BY <3>1, <3>2
  <2> QED
    BY <1>8, <1>n, <2>1, <2>2
<1>10. Forward(role, k, c, s)
  <2>1. ASSUME NEW x \in Pointer, NEW y \in Pointer, Follows(s, x, y),
               ~(role = "ready" /\ c.op = "insert" /\ c.at = 4 /\ x = Null)
        PROVE  Nxt(k, x) = IF c.op = "append" /\ c.at = 4 /\ y = Null THEN c.n ELSE y
    <3>1. CASE x = a /\ y = b
      BY <1>6, <1>8, <3>1
    <3>2. CASE x # a /\ y # b /\ x # m /\ y # m /\ Follows(q, x, y)
      BY <1>1, <1>8, <2>1, <3>2 DEF Forward
    <3> QED
      BY <1>5, <2>1, <3>1, <3>2
  <2> QED
    BY <2>1 DEF Forward
<1>11. Backward(k, c, s)
  <2>1. ASSUME NEW x \in Pointer, NEW y \in Pointer, Follows(s, x, y)
        PROVE  Prv(k, y) = IF \/ c.op = "insert" /\ c.at = 4 /\ x = Null
                              \/ c.op = "add" /\ c.at \in 3..5 /\ x = c.h
                           THEN c.n
                           ELSE IF Takes(c) /\ c.at \in 3..4 /\ x = c.n THEN k.prev[c.n]
                           ELSE x
    <3>1. CASE x = a /\ y = b
      BY <1>6, <1>8, <3>1
    <3>2. CASE x # a /\ y # b /\ x # m /\ y # m /\ Follows(q, x, y)
      <4>1. Prv(k, y) = Prv(l, y)
        BY <1>8, <3>2
      <4>2. Prv(l, y) = IF \/ c.op = "insert" /\ c.at = 4 /\ x = Null
                           \/ c.op = "add" /\ c.at \in 3..5 /\ x = c.h
                        THEN c.n
                        ELSE IF Takes(c) /\ c.at \in 3..4 /\ x = c.n THEN l.prev[c.n]
                        ELSE x
        BY <1>1, <3>2 DEF Backward
      <4>3. Takes(c) /\ c.at \in 3..4 => k.prev[c.n] = l.prev[c.n]
        <5>1. Takes(c) /\ c.at \in 3..4 => ~HadEffect(c)
          BY DEF HadEffect, Takes
        <5> QED
          BY <1>k, <5>1
      <4> QED
        BY <4>1, <4>2, <4>3
    <3> QED
      BY <1>5, <2>1, <3>1, <3>2
  <2> QED
    BY <2>1 DEF Backward
<1>12. \A x, y : Follows(q, x, y) /\ x # m /\ y # m => Follows(s, x, y)
  <2> SUFFICES ASSUME NEW x, NEW y, Follows(q, x, y), x # m, y # m PROVE Follows(s, x, y)
    OBVIOUS
  <2> QED
    BY ONLY <1>q, m \in Node, Follows(q, x, y), x # m, y # m, ShrunkKeeps
<1>13. ASSUME c.op = "append" PROVE AppendLinks(k, c, s)
  <2>1. AppendLinks(l, c, q)
    BY <1>1, <1>13 DEF NodeLinks
  <2>2. c.at \in 2..4 => k.next[c.n] = l.next[c.n] /\ k.prev[c.n] = l.prev[c.n]
    <3>1. c.at \in 2..4 => ~HadEffect(c) /\ Puts(c)
      BY <1>13 DEF HadEffect, Puts
    <3> QED
      BY <1>k, <3>1
  <2>3. c.at \in 3..4 => Follows(s, c.r, Null)
    BY <1>7, <1>12, <2>1 DEF AppendLinks, Apart
  <2> QED
    BY <2>1, <2>2, <2>3 DEF AppendLinks
<1>14. ASSUME c.op = "insert" PROVE InsertLinks(k, c, s)
  <2>1. InsertLinks(l, c, q)
    BY <1>1, <1>14 DEF NodeLinks
  <2>2. c.at \in 2..4 => k.next[c.n] = l.next[c.n] /\ k.prev[c.n] = l.prev[c.n]
    <3>1. c.at \in 2..4 => ~HadEffect(c) /\ Puts(c)
      BY <1>14 DEF HadEffect, Puts
    <3> QED
      BY <1>k, <3>1
  <2>3. c.at \in 3..4 => Follows(s, Null, l.next[c.n])
    BY <1>7, <1>12, <1>14, <1>n, <2>1 DEF InsertLinks
  <2> QED
    BY <2>1, <2>2, <2>3 DEF InsertLinks
<1>15. ASSUME c.op = "add" PROVE AddLinks(k, c, s)
  <2>1. AddLinks(l, c, q)
    BY <1>1, <1>15 DEF NodeLinks
  <2>2. c.at \in 1..5 => k.next[c.n] = l.next[c.n] /\ k.prev[c.n] = l.prev[c.n]
    <3>1. c.at \in 1..5 => ~HadEffect(c) /\ Puts(c)
      BY <1>15 DEF HadEffect, Puts
    <3> QED
      BY <1>k, <3>1
  <2>3. c.at \in 2..5 => Follows(s, c.h, c.r)
    BY <1>12, <2>1 DEF AddLinks, Apart
  <2>4. c.at \in 1..5 => Holds(s, c.h)
    BY <1>5, <2>1 DEF AddLinks, Apart
  <2> QED
    BY <2>1, <2>2, <2>3, <2>4 DEF AddLinks
<1>16. ASSUME Takes(c) PROVE TakeLinks(c, s)
  <2>1. TakeLinks(c, q)
    BY <1>1, <1>16 DEF NodeLinks
  <2> QED
    BY <1>12, <2>1 DEF TakeLinks, Apart
<1>17. NodeLinks(k, c, s)
  BY <1>13, <1>14, <1>15, <1>16 DEF NodeLinks
<1> QED
  BY <1>2, <1>10, <1>11, <1>17, SoundIs

----------------------------------------------------------------------------
(* The statements of the thread, one operation at a time.                  *)

LEMMA NextIs ==
    ASSUME NEW l, NEW c \in ListCalls, NEW d, c.at # Length(c), c.at < 7,
           d = (IF c.at = Length(c) THEN NoCall ELSE Onward(l, c)), Read(l, c) \in Pointer
    PROVE  NextCall(c, d) /\ d.r = Read(l, c)
<1>1. d = Onward(l, c)
  OBVIOUS
<1> QED
  BY <1>1, OnwardIs DEF NextCall

LEMMA AppendStep ==
    ASSUME NEW role, NEW l, NEW c, NEW q, NEW d, NEW s, Sound(role, l, c, q), c.op = "append",
           d = (IF c.at = Length(c) THEN NoCall ELSE Onward(l, c)),
           c.at # 4 => s = q, c.at = 4 => Grown(q, Len(q), c.n, s)
    PROVE  Sound(role, Statement(l, c), d, s)
<1>1. c \in ListCalls /\ l \in Lists /\ c.n \in Node /\ c.r \in Pointer /\ c.at \in 1..7
  BY SoundIs, StartedFacts
<1>k. PICK k : k = Statement(l, c)
  OBVIOUS
<1>2. /\ c.at = 1 => NextSet(l, c.n, Null, k)
      /\ c.at = 2 => PrevSet(l, c.n, l.last, k)
      /\ c.at = 3 => NextSet(l, c.r, c.n, k)
      /\ c.at = 4 => PrevSet(l, Null, c.n, k)
      /\ c.at = 5 => NumSet(l, l.num + 1, k)
      /\ c.at = 6 => FlagSet(l, c.n, TRUE, k)
      /\ Read(l, c) = IF c.at = 2 THEN l.last ELSE c.r
      /\ Length(c) = 6
  BY <1>1, <1>k, AppendStatement
<1>3. Read(l, c) \in Pointer
  BY <1>1, <1>2, LinkTypes
<1>4. c.at \in 1..6
  BY <1>2, SoundIs, StartedFacts
<1>5. c.at # 6 => NextCall(c, d) /\ d.r = IF c.at = 2 THEN l.last ELSE c.r
  <2> SUFFICES ASSUME c.at # 6 PROVE NextCall(c, d) /\ d.r = IF c.at = 2 THEN l.last ELSE c.r
    OBVIOUS
  <2>1. c.at # Length(c) /\ c.at < 7
    BY <1>2, <1>4
  <2>2. NextCall(c, d) /\ d.r = Read(l, c)
    BY <1>1, <1>3, <2>1, NextIs
  <2> QED
    BY <1>2, <2>2
<1>6. Puts(c)
  BY DEF Puts
<1>7. CASE c.at \in 1..3
  BY <1>2, <1>5, <1>7, <1>k, AppendWrites
<1>8. CASE c.at = 4
  BY <1>2, <1>5, <1>8, <1>k, AppendPuts
<1>9. CASE c.at = 5
  <2>1. NumSet(l, IF Puts(c) THEN l.num + 1 ELSE l.num - 1, k)
    BY <1>2, <1>6, <1>9
  <2>2. PICK last \in BOOLEAN, flag \in BOOLEAN : ~last /\ ~flag
    OBVIOUS
  <2> QED
    BY <1>5, <1>9, <1>k, <2>1, <2>2, MarksSound
<1>10. CASE c.at = 6
  <2>1. FlagSet(l, c.n, Puts(c), k)
    <3>1. Puts(c) = TRUE
      BY <1>6 DEF Puts
    <3> QED
      BY <1>2, <1>10, <3>1
  <2>2. PICK last \in BOOLEAN, flag \in BOOLEAN : last /\ flag
    OBVIOUS
  <2>3. d = NoCall
    BY <1>2, <1>10
  <2>4. /\ last => d = NoCall
        /\ ~last => NextCall(c, d)
    BY <2>2, <2>3
  <2>5. IF flag THEN FlagSet(l, c.n, Puts(c), k)
        ELSE NumSet(l, IF Puts(c) THEN l.num + 1 ELSE l.num - 1, k)
    BY <2>1, <2>2
  <2>6. c.op \in {"append", "insert"} /\ c.at = 6 /\ flag /\ last /\ s = q
    BY <1>10, <2>2
  <2>7. Sound(role, k, d, q)
    BY <2>4, <2>5, <2>6, MarksSound
  <2> QED
    BY <1>k, <2>6, <2>7
<1> QED
  BY <1>4, <1>7, <1>8, <1>9, <1>10

LEMMA InsertStep ==
    ASSUME NEW role, NEW l, NEW c, NEW q, NEW d, NEW s, Sound(role, l, c, q), c.op = "insert",
           d = (IF c.at = Length(c) THEN NoCall ELSE Onward(l, c)),
           c.at # 4 => s = q, c.at = 4 => Grown(q, 0, c.n, s)
    PROVE  Sound(role, Statement(l, c), d, s)
<1>1. c \in ListCalls /\ l \in Lists /\ c.n \in Node /\ c.r \in Pointer /\ c.at \in 1..7
  BY SoundIs, StartedFacts
<1>k. PICK k : k = Statement(l, c)
  OBVIOUS
<1>2. /\ c.at = 1 => PrevSet(l, c.n, Null, k)
      /\ c.at = 2 => NextSet(l, c.n, l.first, k)
      /\ c.at = 3 => PrevSet(l, c.r, c.n, k)
      /\ c.at = 4 => NextSet(l, Null, c.n, k)
      /\ c.at = 5 => NumSet(l, l.num + 1, k)
      /\ c.at = 6 => FlagSet(l, c.n, TRUE, k)
      /\ Read(l, c) = IF c.at = 2 THEN l.first ELSE c.r
      /\ Length(c) = 6
  BY <1>1, <1>k, InsertStatement
<1>3. Read(l, c) \in Pointer
  BY <1>1, <1>2, LinkTypes
<1>4. c.at \in 1..6
  BY <1>2, SoundIs, StartedFacts
<1>5. c.at # 6 => NextCall(c, d) /\ d.r = IF c.at = 2 THEN l.first ELSE c.r
  <2> SUFFICES ASSUME c.at # 6 PROVE NextCall(c, d) /\ d.r = IF c.at = 2 THEN l.first ELSE c.r
    OBVIOUS
  <2>1. c.at # Length(c) /\ c.at < 7
    BY <1>2, <1>4
  <2>2. NextCall(c, d) /\ d.r = Read(l, c)
    BY <1>1, <1>3, <2>1, NextIs
  <2> QED
    BY <1>2, <2>2
<1>6. Puts(c)
  BY DEF Puts
<1>7. CASE c.at \in 1..3
  BY <1>2, <1>5, <1>7, <1>k, InsertWrites
<1>8. CASE c.at = 4
  BY <1>2, <1>5, <1>8, <1>k, InsertPuts
<1>9. CASE c.at = 5
  <2>1. NumSet(l, IF Puts(c) THEN l.num + 1 ELSE l.num - 1, k)
    BY <1>2, <1>6, <1>9
  <2>2. PICK last \in BOOLEAN, flag \in BOOLEAN : ~last /\ ~flag
    OBVIOUS
  <2> QED
    BY <1>5, <1>9, <1>k, <2>1, <2>2, MarksSound
<1>10. CASE c.at = 6
  <2>1. FlagSet(l, c.n, Puts(c), k)
    <3>1. Puts(c) = TRUE
      BY <1>6 DEF Puts
    <3> QED
      BY <1>2, <1>10, <3>1
  <2>2. PICK last \in BOOLEAN, flag \in BOOLEAN : last /\ flag
    OBVIOUS
  <2>3. d = NoCall
    BY <1>2, <1>10
  <2>4. /\ last => d = NoCall
        /\ ~last => NextCall(c, d)
    BY <2>2, <2>3
  <2>5. IF flag THEN FlagSet(l, c.n, Puts(c), k)
        ELSE NumSet(l, IF Puts(c) THEN l.num + 1 ELSE l.num - 1, k)
    BY <2>1, <2>2
  <2>6. c.op \in {"append", "insert"} /\ c.at = 6 /\ flag /\ last /\ s = q
    BY <1>10, <2>2
  <2>7. Sound(role, k, d, q)
    BY <2>4, <2>5, <2>6, MarksSound
  <2> QED
    BY <1>k, <2>6, <2>7
<1> QED
  BY <1>4, <1>7, <1>8, <1>9, <1>10

LEMMA AddStep ==
    ASSUME NEW role, NEW l, NEW c, NEW q, NEW d, NEW s, NEW p, Sound(role, l, c, q), c.op = "add",
           d = (IF c.at = Length(c) THEN NoCall ELSE Onward(l, c)),
           c.at # 5 => s = q,
           c.at = 5 => /\ Grown(q, p, c.n, s) /\ p \in 1..Len(q) /\ q[p] = c.h
                       /\ NoLater(q, c.n, p) /\ Later(q, c.n, p)
    PROVE  Sound(role, Statement(l, c), d, s)
<1>1. c \in ListCalls /\ l \in Lists /\ c.n \in Node /\ c.r \in Pointer /\ c.at \in 1..7
  BY SoundIs, StartedFacts
<1>h. c.h \in Pointer
  BY <1>1 DEF ListCalls
<1>k. PICK k : k = Statement(l, c)
  OBVIOUS
<1>6. Puts(c) /\ Length(c) = 7
  BY DEF Puts, Length
<1>a. CASE c.at \in 1..5
  <2>1. Holds(q, c.h)
    BY <1>a, SoundIs DEF NodeLinks, AddLinks
  <2>2. c.h \in Node
    <3>1. q \in Seq(Node)
      BY SoundIs, StartedFacts
    <3> QED
      BY <2>1, <3>1 DEF Holds
  <2>3. /\ c.at = 1 => k = l
        /\ c.at = 2 => PrevSet(l, c.r, c.n, k)
        /\ c.at = 3 => NextSet(l, c.n, c.r, k)
        /\ c.at = 4 => PrevSet(l, c.n, c.h, k)
        /\ c.at = 5 => NextSet(l, c.h, c.n, k)
        /\ Read(l, c) = IF c.at = 1 THEN l.next[c.h] ELSE c.r
    BY <1>1, <1>k, <2>2, AddStatement
  <2>4. Read(l, c) \in Pointer
    BY <1>1, <2>2, <2>3, LinkTypes
  <2>5. NextCall(c, d) /\ d.r = Read(l, c)
    <3>1. c.at # Length(c) /\ c.at < 7
      BY <1>6, <1>a
    <3> QED
      BY <1>1, <2>4, <3>1, NextIs
  <2>6. CASE c.at \in 1..4
    BY <2>3, <2>5, <2>6, <1>k, AddWrites
  <2>7. CASE c.at = 5
    BY <2>3, <2>5, <2>7, <1>k, AddPuts
  <2> QED
    BY <1>a, <2>6, <2>7
<1>b. CASE c.at \in 6..7
  <2>1. /\ c.at = 6 => k = [l EXCEPT !.inside[c.n] = TRUE]
        /\ c.at = 7 => k = [l EXCEPT !.num = l.num + 1]
        /\ Read(l, c) = c.r
    BY <1>b, <1>k DEF Statement, OS_ListAdd, Linked, Read
  <2>2. TRUE \in BOOLEAN /\ l.num + 1 \in Int
    BY <1>1, LinkTypes
  <2>3. c.at = 6 => FlagSet(l, c.n, TRUE, k)
    BY <1>1, <2>1, <2>2, FlagIs
  <2>4. c.at = 7 => NumSet(l, l.num + 1, k)
    BY <1>1, <2>1, <2>2, CountIs
  <2>5. CASE c.at = 6
    <3>1. NextCall(c, d)
      <4>1. c.at # Length(c) /\ c.at < 7 /\ Read(l, c) \in Pointer
        BY <1>1, <1>6, <2>1, <2>5
      <4> QED
        BY <1>1, <4>1, NextIs
    <3>2. FlagSet(l, c.n, Puts(c), k)
      <4>1. Puts(c) = TRUE
        BY <1>6 DEF Puts
      <4> QED
        BY <2>3, <2>5, <4>1
    <3>3. PICK last \in BOOLEAN, flag \in BOOLEAN : ~last /\ flag
      OBVIOUS
    <3>4. /\ last => d = NoCall
          /\ ~last => NextCall(c, d)
      BY <3>1, <3>3
    <3>5. IF flag THEN FlagSet(l, c.n, Puts(c), k)
          ELSE NumSet(l, IF Puts(c) THEN l.num + 1 ELSE l.num - 1, k)
      BY <3>2, <3>3
    <3>6. c.op = "add" /\ c.at = 6 /\ flag /\ ~last /\ s = q
      BY <2>5, <3>3
    <3>7. Sound(role, k, d, q)
      BY <3>4, <3>5, <3>6, MarksSound
    <3> QED
      BY <1>k, <3>6, <3>7
  <2>6. CASE c.at = 7
    <3>1. d = NoCall
      BY <1>6, <2>6
    <3>2. NumSet(l, IF Puts(c) THEN l.num + 1 ELSE l.num - 1, k)
      BY <1>6, <2>4, <2>6
    <3>3. PICK last \in BOOLEAN, flag \in BOOLEAN : last /\ ~flag
      OBVIOUS
    <3>4. /\ last => d = NoCall
          /\ ~last => NextCall(c, d)
      BY <3>1, <3>3
    <3>5. IF flag THEN FlagSet(l, c.n, Puts(c), k)
          ELSE NumSet(l, IF Puts(c) THEN l.num + 1 ELSE l.num - 1, k)
      BY <3>2, <3>3
    <3>6. c.op = "add" /\ c.at = 7 /\ ~flag /\ last /\ s = q
      BY <2>6, <3>3
    <3>7. Sound(role, k, d, q)
      BY <3>4, <3>5, <3>6, MarksSound
    <3> QED
      BY <1>k, <3>6, <3>7
  <2> QED
    BY <1>b, <2>5, <2>6
<1> QED
  BY <1>1, <1>a, <1>b

LEMMA TakeStep ==
    ASSUME NEW role, NEW l, NEW c, NEW q, NEW d, NEW s, NEW p, Sound(role, l, c, q),
           c.op \in {"extract", "getnode"},
           d = (IF c.at = Length(c) THEN NoCall ELSE Onward(l, c)),
           c.at # 4 => s = q, c.at = 4 => Shrunk(q, p, s) /\ q[p] = c.n
    PROVE  Sound(role, Statement(l, c), d, s)
<1>1. c \in ListCalls /\ l \in Lists /\ c.n \in Node /\ c.r \in Pointer /\ c.at \in 1..7
  BY SoundIs, StartedFacts
<1>k. PICK k : k = Statement(l, c)
  OBVIOUS
<1>2. /\ c.at \in {1, 3} => k = l
      /\ c.at = 2 => PrevSet(l, c.r, l.prev[c.n], k)
      /\ c.at = 4 => NextSet(l, c.r, l.next[c.n], k)
      /\ c.at = 5 => BothReset(l, c.n, k)
      /\ c.at = (IF c.op = "extract" THEN 6 ELSE 7) => FlagSet(l, c.n, FALSE, k)
      /\ c.at = (IF c.op = "extract" THEN 7 ELSE 6) => NumSet(l, l.num - 1, k)
      /\ Length(c) = 7
  BY <1>1, <1>k, TakeStatement
<1>3. Read(l, c) = IF c.at = 1 THEN l.next[c.n] ELSE IF c.at = 3 THEN l.prev[c.n] ELSE c.r
  BY ReadByTake
<1>4. Read(l, c) \in Pointer
  BY <1>1, <1>3, LinkTypes
<1>5. c.at # 7 => NextCall(c, d) /\ d.r = Read(l, c)
  <2> SUFFICES ASSUME c.at # 7 PROVE NextCall(c, d) /\ d.r = Read(l, c)
    OBVIOUS
  <2>1. c.at # Length(c) /\ c.at < 7
    BY <1>1, <1>2
  <2> QED
    BY <1>1, <1>4, <2>1, NextIs
<1>6. Puts(c) = FALSE
  BY DEF Puts
<1>7. CASE c.at \in 1..3
  BY <1>2, <1>3, <1>5, <1>7, <1>k, TakeWrites
<1>8. CASE c.at = 4
  BY <1>2, <1>5, <1>8, <1>k, TakeOut
<1>9. CASE c.at = 5
  BY <1>2, <1>5, <1>9, <1>k, TakeResets
<1>10. CASE c.at \in 6..7
  <2>1. PICK last \in BOOLEAN, flag \in BOOLEAN :
            (last <=> c.at = 7) /\ (flag <=> c.at = (IF c.op = "extract" THEN 6 ELSE 7))
    OBVIOUS
  <2>2. last => d = NoCall
    BY <1>2, <2>1
  <2>3. ~last => NextCall(c, d)
    BY <1>5, <2>1
  <2>4. IF flag THEN FlagSet(l, c.n, Puts(c), k)
        ELSE NumSet(l, IF Puts(c) THEN l.num + 1 ELSE l.num - 1, k)
    <3>1. CASE flag
      BY <1>2, <1>6, <2>1, <3>1
    <3>2. CASE ~flag
      BY <1>2, <1>6, <1>10, <2>1, <3>2
    <3> QED
      BY <3>1, <3>2
  <2>5. s = q
    BY <1>10
  <2> QED
    BY <1>10, <1>k, <2>1, <2>2, <2>3, <2>4, <2>5, MarksSound
<1> QED
  BY <1>1, <1>7, <1>8, <1>9, <1>10

----------------------------------------------------------------------------
(* The actions.                                                            *)

LEMMA EffectIs ==
    /\ <<call.op, call.at>> \in {<<"append", 4>>, <<"insert", 4>>, <<"add", 5>>} <=>
           \/ call.op \in {"append", "insert"} /\ call.at = 4
           \/ call.op = "add" /\ call.at = 5
    /\ \/ call.op \in {"append", "insert"} /\ call.at = 4
       \/ call.op = "add" /\ call.at = 5
       => TakesEffect(call) = IF listRole = "time" THEN Sorted(call.n)
                              ELSE IF call.op = "append" THEN Append(queue, call.n)
                              ELSE <<call.n>> \o queue
    /\ call.op \in {"extract", "getnode"} /\ call.at = 4 =>
           TakesEffect(call) = Without(queue, call.n)
    /\ call.op \in {"append", "insert"} /\ call.at # 4 => TakesEffect(call) = queue
    /\ call.op = "add" /\ call.at # 5 => TakesEffect(call) = queue
    /\ call.op \in {"extract", "getnode"} /\ call.at # 4 => TakesEffect(call) = queue
<1>1. <<call.op, call.at>> \in {<<"append", 4>>, <<"insert", 4>>, <<"add", 5>>} <=>
           \/ call.op \in {"append", "insert"} /\ call.at = 4
           \/ call.op = "add" /\ call.at = 5
  OBVIOUS
<1>2. ASSUME \/ call.op \in {"append", "insert"} /\ call.at = 4
             \/ call.op = "add" /\ call.at = 5
      PROVE  TakesEffect(call) = IF listRole = "time" THEN Sorted(call.n)
                                 ELSE IF call.op = "append" THEN Append(queue, call.n)
                                 ELSE <<call.n>> \o queue
  <2>1. <<call.op, call.at>> \in {<<"append", 4>>, <<"insert", 4>>, <<"add", 5>>}
    BY <1>1, <1>2
  <2> QED
    BY <2>1 DEF TakesEffect
<1>3. ASSUME call.op \in {"extract", "getnode"}, call.at = 4
      PROVE  TakesEffect(call) = Without(queue, call.n)
  <2>1. <<call.op, call.at>> \notin {<<"append", 4>>, <<"insert", 4>>, <<"add", 5>>}
    BY <1>1, <1>3
  <2> QED
    BY <1>3, <2>1 DEF TakesEffect
<1>4. ASSUME \/ call.op \in {"append", "insert", "extract", "getnode"} /\ call.at # 4
             \/ call.op = "add" /\ call.at # 5
      PROVE  TakesEffect(call) = queue
  <2>1. <<call.op, call.at>> \notin {<<"append", 4>>, <<"insert", 4>>, <<"add", 5>>}
    BY <1>1, <1>4
  <2>2. ~(call.op \in {"extract", "getnode"} /\ call.at = 4)
    BY <1>4
  <2> QED
    BY <2>1, <2>2 DEF TakesEffect
<1> QED
  BY <1>1, <1>2, <1>3, <1>4

LEMMA StatementSound ==
    ASSUME Sound(listRole, list, call, queue), DoStatement
    PROVE  Sound(listRole', list', call', queue')
<1>1. /\ Rest(listRole, list, call, queue) /\ call \in ListCalls /\ queue \in Seq(Node)
      /\ CallOf(listRole, call, queue)
      /\ listRole \in {"ready", "time", "sem"}
      /\ listRole = "time" => Due(call, queue)
  BY SoundIs DEF Rest, ListTypes
<1>2. /\ call.op \notin {"none", "walk"} /\ listRole' = listRole
      /\ list' = Statement(list, call)
      /\ call' = (IF call.at = Length(call) THEN NoCall ELSE Onward(list, call))
      /\ queue' = TakesEffect(call)
  BY DEF DoStatement
<1>3. call.n \in Node /\ call.op \in {"append", "insert", "add", "extract", "getnode"}
  BY <1>1, <1>2, StartedFacts DEF ListCalls, ListOps
<1>4. Len(queue) \in Nat /\ 0 \in 0..Len(queue) /\ Len(queue) \in 0..Len(queue)
  BY <1>1
<1>5. PICK d, s : d = call' /\ s = queue'
  OBVIOUS
<1>6. CASE call.op = "append"
  <2>1. call.at # 4 => s = queue
    BY <1>2, <1>5, <1>6, EffectIs
  <2>2. call.at = 4 => Grown(queue, Len(queue), call.n, s)
    <3>1. CASE call.at = 4 /\ listRole = "time"
      <4>1. s = Sorted(call.n)
        BY <1>2, <1>5, <1>6, <3>1, EffectIs
      <4>2. NoLater(queue, call.n, Len(queue))
        BY <1>1, <1>6, <3>1 DEF Due
      <4>3. Later(queue, call.n, Len(queue))
        BY <1>4 DEF Later
      <4> QED
        BY <1>1, <1>3, <1>4, <4>1, <4>2, <4>3, SortedGrows
    <3>2. CASE call.at = 4 /\ listRole # "time"
      <4>1. s = Append(queue, call.n)
        BY <1>2, <1>5, <1>6, <3>2, EffectIs
      <4> QED
        BY <1>1, <1>3, <4>1, AppendGrows
    <3> QED
      BY <3>1, <3>2
  <2> QED
    BY <1>2, <1>5, <1>6, <2>1, <2>2, AppendStep
<1>7. CASE call.op = "insert"
  <2>1. call.at # 4 => s = queue
    BY <1>2, <1>5, <1>7, EffectIs
  <2>2. call.at = 4 => Grown(queue, 0, call.n, s)
    <3>1. CASE call.at = 4 /\ listRole = "time"
      <4>1. s = Sorted(call.n)
        BY <1>2, <1>5, <1>7, <3>1, EffectIs
      <4>2. Later(queue, call.n, 0)
        BY <1>1, <1>7, <3>1 DEF Due
      <4>3. NoLater(queue, call.n, 0)
        BY <1>4 DEF NoLater
      <4> QED
        BY <1>1, <1>3, <1>4, <4>1, <4>2, <4>3, SortedGrows
    <3>2. CASE call.at = 4 /\ listRole # "time"
      <4>1. s = <<call.n>> \o queue
        BY <1>2, <1>5, <1>7, <3>2, EffectIs
      <4> QED
        BY <1>1, <1>3, <4>1, ConsGrows
    <3> QED
      BY <3>1, <3>2
  <2> QED
    BY <1>2, <1>5, <1>7, <2>1, <2>2, InsertStep
<1>8. CASE call.op = "add"
  <2>0. listRole = "time"
    BY <1>1, <1>8 DEF CallOf
  <2>1. call.at # 5 => s = queue
    BY <1>2, <1>5, <1>8, EffectIs
  <2>2. PICK p : call.at = 5 => /\ Grown(queue, p, call.n, s) /\ p \in 1..Len(queue)
                                /\ queue[p] = call.h
                                /\ NoLater(queue, call.n, p) /\ Later(queue, call.n, p)
    <3>1. CASE call.at = 5
      <4>1. s = Sorted(call.n)
        BY <1>2, <1>5, <1>8, <2>0, <3>1, EffectIs
      <4>2. PICK p \in 1..Len(queue) : /\ call.h = queue[p] /\ NoLater(queue, call.n, p)
                                       /\ Later(queue, call.n, p)
        BY <1>1, <1>8, <2>0, <3>1 DEF Due
      <4>3. p \in 0..Len(queue)
        BY <1>4
      <4>4. Grown(queue, p, call.n, s)
        BY <1>1, <1>3, <4>1, <4>2, <4>3, SortedGrows
      <4> QED
        BY <4>2, <4>4
    <3>2. CASE call.at # 5
      BY <3>2
    <3> QED
      BY <3>1, <3>2
  <2> QED
    BY <1>2, <1>5, <1>8, <2>1, <2>2, AddStep
<1>9. CASE call.op \in {"extract", "getnode"}
  <2>1. call.at # 4 => s = queue
    BY <1>2, <1>5, <1>9, EffectIs
  <2>2. PICK p : call.at = 4 => Shrunk(queue, p, s) /\ queue[p] = call.n
    <3>1. CASE call.at = 4
      <4>1. s = Without(queue, call.n)
        BY <1>2, <1>5, <1>9, <3>1, EffectIs
      <4>2. Holds(queue, call.n)
        <5>1. Takes(call) /\ ~HadEffect(call)
          BY <1>9, <3>1 DEF Takes, HadEffect
        <5> QED
          BY <1>1, <5>1 DEF CallOf
      <4> QED
        BY <1>1, <4>1, <4>2, WithoutShrinks
    <3>2. CASE call.at # 4
      BY <3>2
    <3> QED
      BY <3>1, <3>2
  <2> QED
    BY <1>2, <1>5, <1>9, <2>1, <2>2, TakeStep
<1> QED
  BY <1>3, <1>6, <1>7, <1>8, <1>9

\* Outside the operations the list is the ring of the queue.
Idle(role, l, q) ==
    /\ role \in {"ready", "time", "sem"} /\ l \in Lists /\ q \in Seq(Node) /\ Once(q)
    /\ NextPlain(l, q) /\ PrevPlain(l, q)
    /\ l.num = Len(q) /\ \A x \in Node : l.inside[x] <=> Holds(q, x)
    /\ role = "time" => InOrder(q)

LEMMA IdleIs ==
    ASSUME NEW role, NEW l, NEW c, NEW q, Sound(role, l, c, q), c.op \in {"none", "walk"}
    PROVE  Idle(role, l, q)
<1>1. /\ ListTypes(role, l, c, q) /\ CallOf(role, c, q) /\ Marks(l, c, q)
      /\ role = "time" => InOrder(q)
  BY SoundIs DEF Rest, Due, InOrder
<1>2. NextPlain(l, q) /\ PrevPlain(l, q)
  BY SoundIs, PlainLinks
<1>3. l.num = Len(q)
  <2>1. Lag(c) = 0
    BY DEF Lag
  <2>2. Len(q) \in Nat
    BY <1>1 DEF ListTypes
  <2> QED
    BY <1>1, <2>1, <2>2 DEF Marks
<1>4. ASSUME NEW x \in Node PROVE l.inside[x] <=> Holds(q, x)
  <2>1. CASE x # c.n
    BY <1>1, <2>1 DEF Marks
  <2>2. CASE x = c.n /\ c.op = "walk"
    BY <1>1, <2>2 DEF Marks, Marked, CallOf
  <2>3. CASE x = c.n /\ c.op = "none"
    BY <1>1, <2>3, NoCallIs, NodeFacts DEF CallOf
  <2> QED
    BY <2>1, <2>2, <2>3
<1> QED
  BY <1>1, <1>2, <1>3, <1>4 DEF Idle, ListTypes

LEMMA BeginSound ==
    ASSUME NEW role, NEW l, NEW c \in ListCalls, NEW q, Idle(role, l, q),
           c.op # "none", c.n \in Node, c.at \in 1..6, c.op # "walk" => c.at = 1,
           Holds(q, c.n) <=> Takes(c),
           role = "ready" => c.op \in {"append", "insert", "extract"},
           role = "time" => c.op \in {"walk", "append", "insert", "add", "extract"},
           role = "sem" => c.op \in {"append", "getnode"},
           role = "time" => Due(c, q), c.op = "add" => Holds(q, c.h)
    PROVE  Sound(role, l, c, q)
<1>1. ListTypes(role, l, c, q)
  BY DEF Idle, ListTypes
<1>2. c.op # "walk" => ~HadEffect(c)
  BY DEF HadEffect
<1>3. c.at \in 1..Length(c)
  BY DEF Length
<1>4. CallOf(role, c, q)
  BY <1>1, <1>2, <1>3 DEF CallOf, Puts, Takes, ListTypes
<1>5. Marks(l, c, q)
  <2>1. Lag(c) = 0 /\ (Marked(c) <=> Takes(c))
    BY DEF Lag, Marked, Takes
  <2>2. Len(q) \in Nat /\ l.num = Len(q) /\ \A x \in Node : l.inside[x] <=> Holds(q, x)
    BY DEF Idle
  <2> QED
    BY <2>1, <2>2 DEF Marks
<1>6. Rest(role, l, c, q)
  BY <1>1, <1>4, <1>5 DEF Rest
<1>7. NextPlain(l, q) /\ PrevPlain(l, q)
  BY DEF Idle
<1>8. CASE c.op = "walk"
  BY <1>6, <1>7, <1>8, RestfulSound
<1>9. CASE c.op # "walk"
  <2>0. c.at = 1
    BY <1>9
  <2>1. Forward(role, l, c, q) /\ Backward(l, c, q)
    BY <1>7, <2>0, PlainLinks
  <2>2. NodeLinks(l, c, q)
    BY <2>0 DEF NodeLinks, AppendLinks, InsertLinks, AddLinks, TakeLinks
  <2> QED
    BY <1>6, <2>1, <2>2, SoundIs
<1> QED
  BY <1>8, <1>9

----------------------------------------------------------------------------
(* How an operation begins, and the loop of OS_DoSleep.                     *)

LEMMA StartedCall ==
    ASSUME NEW op \in ListOps, NEW n \in Node
    PROVE  /\ ListCall(op, n) \in ListCalls /\ ListCall(op, n).op = op
           /\ ListCall(op, n).n = n /\ ListCall(op, n).at = 1
<1>1. n \in Pointer
  BY NodeFacts
<1> QED
  BY <1>1, CallIs

\* The elements of a queue and the links between them.
LEMMA IdleLinks ==
    ASSUME NEW role, NEW l, NEW q, Idle(role, l, q)
    PROVE  /\ Len(q) \in Nat /\ l.first = Place(q, 1) /\ l.last = Place(q, Len(q))
           /\ \A i \in 1..Len(q) : /\ q[i] \in Node /\ q[i] # Null /\ Place(q, i) = q[i]
                                   /\ l.next[q[i]] = Place(q, i + 1)
                                   /\ l.prev[q[i]] = Place(q, i - 1)
           /\ \A i \in Int : Place(q, i) \in Pointer
                             /\ (Place(q, i) = Null => i \notin 1..Len(q))
           /\ Place(q, 0) = Null /\ Place(q, Len(q) + 1) = Null
<1>1. l \in Lists /\ q \in Seq(Node) /\ NextPlain(l, q) /\ PrevPlain(l, q)
  BY DEF Idle
<1>2. /\ Len(q) \in Nat /\ Place(q, 0) = Null /\ Place(q, Len(q) + 1) = Null
      /\ \A i \in 1..Len(q) : Place(q, i) = q[i] /\ q[i] \in Node /\ q[i] # Null
      /\ \A i \in Int : Place(q, i) \in Pointer
                        /\ (Place(q, i) = Null => i \notin 1..Len(q))
  BY <1>1, PlaceIs
<1>3. \A i \in 0..Len(q) : Follows(q, Place(q, i), Place(q, i + 1))
  BY DEF Follows
<1>4. ASSUME NEW i \in 0..Len(q)
      PROVE  Nxt(l, Place(q, i)) = Place(q, i + 1) /\ Prv(l, Place(q, i + 1)) = Place(q, i)
  <2>1. Place(q, i) \in Pointer /\ Place(q, i + 1) \in Pointer
    BY <1>2
  <2>2. Follows(q, Place(q, i), Place(q, i + 1))
    BY <1>3
  <2> QED
    BY <1>1, <2>1, <2>2 DEF NextPlain, PrevPlain
<1>5. l.first = Place(q, 1) /\ l.last = Place(q, Len(q))
  <2>1. 0 \in 0..Len(q) /\ Len(q) \in 0..Len(q) /\ 0 + 1 = 1
    BY <1>2
  <2>2. Nxt(l, Null) = Place(q, 1)
    BY <1>2, <1>4, <2>1
  <2>3. Prv(l, Null) = Place(q, Len(q))
    BY <1>2, <1>4, <2>1
  <2> QED
    BY <1>1, <2>2, <2>3, LinkTypes
<1>6. ASSUME NEW i \in 1..Len(q)
      PROVE  l.next[q[i]] = Place(q, i + 1) /\ l.prev[q[i]] = Place(q, i - 1)
  <2>1. i \in 0..Len(q) /\ i - 1 \in 0..Len(q) /\ (i - 1) + 1 = i /\ Place(q, i) = q[i]
    BY <1>2
  <2>2. Nxt(l, q[i]) = Place(q, i + 1)
    BY <1>4, <2>1
  <2>3. Prv(l, Place(q, (i - 1) + 1)) = Place(q, i - 1)
    BY <1>4, <2>1
  <2> QED
    BY <1>1, <1>2, <2>1, <2>2, <2>3, LinkTypes
<1> QED
  BY <1>2, <1>5, <1>6

LEMMA InitSound ==
    ASSUME ListInit
    PROVE  Sound(listRole, list, call, queue)
<1>1. /\ listRole \in {"ready", "time", "sem"} /\ list = EmptyList /\ call = NoCall
      /\ queue = <<>>
  BY DEF ListInit
<1>2. /\ list \in Lists /\ list.num = 0 /\ \A x \in Node : ~list.inside[x]
      /\ list.first = Null /\ list.last = Null
  BY <1>1, NodeFacts DEF EmptyList, Lists
<1>3. queue \in Seq(Node) /\ Len(queue) = 0 /\ Once(queue) /\ \A x : ~Holds(queue, x)
  BY <1>1 DEF Once, Holds
<1>4. ASSUME NEW x, NEW y, Follows(queue, x, y) PROVE x = Null /\ y = Null
  BY <1>3, <1>4 DEF Follows, Place
<1>5. NextPlain(list, queue) /\ PrevPlain(list, queue)
  BY <1>2, <1>4 DEF NextPlain, PrevPlain, Nxt, Prv
<1>6. call \in ListCalls /\ call.op = "none" /\ call.n = Null
  BY <1>1, NoCallIs
<1>7. ListTypes(listRole, list, call, queue)
  BY <1>1, <1>2, <1>3, <1>6 DEF ListTypes
<1>8. CallOf(listRole, call, queue)
  BY <1>1, <1>6 DEF CallOf, Puts, Takes
<1>9. Marks(list, call, queue)
  <2>1. Lag(call) = 0
    BY <1>6 DEF Lag
  <2> QED
    BY <1>2, <1>3, <1>6, <2>1 DEF Marks
<1>10. Due(call, queue)
  BY <1>3, <1>6 DEF Due
<1> QED
  BY <1>5, <1>6, <1>7, <1>8, <1>9, <1>10, RestfulSound DEF Rest

LEMMA StartSound ==
    ASSUME Sound(listRole, list, call, queue),
           \E n \in Node : StartAppend(n) \/ StartInsert(n) \/ StartExtract(n)
    PROVE  Sound(listRole', list', call', queue')
<1>1. PICK n \in Node : StartAppend(n) \/ StartInsert(n) \/ StartExtract(n)
  OBVIOUS
<1>2. call = NoCall /\ listRole' = listRole /\ list' = list /\ queue' = queue
  BY <1>1 DEF StartAppend, StartInsert, StartExtract, Start
<1>3. Idle(listRole, list, queue)
  BY <1>2, NoCallIs, IdleIs
<1>c. PICK c : c = call'
  OBVIOUS
<1>4. PICK op \in {"append", "insert", "extract"} :
          /\ c = ListCall(op, n)
          /\ op = "append" => listRole \in {"ready", "sem"} /\ ~list.inside[n]
          /\ op = "insert" => listRole = "ready" /\ ~list.inside[n]
          /\ op = "extract" => listRole \in {"ready", "time"} /\ list.inside[n]
  BY <1>1, <1>c DEF StartAppend, StartInsert, StartExtract, Start
<1>5. op \in ListOps
  BY DEF ListOps
<1>6. c \in ListCalls /\ c.op = op /\ c.n = n /\ c.at = 1
  BY <1>4, <1>5, StartedCall
<1>7. Holds(queue, n) <=> op = "extract"
  BY <1>3, <1>4 DEF Idle
<1>8. listRole = "time" => Due(c, queue)
  BY <1>3, <1>4, <1>6 DEF Idle, InOrder, Due
<1>9. Sound(listRole, list, c, queue)
  BY <1>3, <1>4, <1>6, <1>7, <1>8, BeginSound DEF Takes
<1> QED
  BY <1>2, <1>9, <1>c

LEMMA StartGetNodeSound ==
    ASSUME Sound(listRole, list, call, queue), StartGetNode
    PROVE  Sound(listRole', list', call', queue')
<1>2. /\ call = NoCall /\ listRole' = listRole /\ list' = list /\ queue' = queue
      /\ listRole = "sem" /\ list.first # Null /\ call' = ListCall("getnode", list.first)
  BY DEF StartGetNode, Start
<1>3. Idle(listRole, list, queue)
  BY <1>2, NoCallIs, IdleIs
<1>4. /\ list.first \in Node /\ Holds(queue, list.first)
  <2>1. list.first = Place(queue, 1)
    BY <1>3, IdleLinks
  <2>2. 1 \in 1..Len(queue) /\ list.first = queue[1]
    BY <1>2, <2>1 DEF Place
  <2>3. queue \in Seq(Node)
    BY <1>3 DEF Idle
  <2> QED
    BY <2>2, <2>3 DEF Holds
<1>c. PICK c : c = call'
  OBVIOUS
<1>5. "getnode" \in ListOps
  BY DEF ListOps
<1>6. c \in ListCalls /\ c.op = "getnode" /\ c.n = list.first /\ c.at = 1
  BY <1>c, <1>2, <1>4, <1>5, StartedCall
<1>9. Sound(listRole, list, c, queue)
  BY <1>2, <1>3, <1>4, <1>6, BeginSound DEF Takes
<1> QED
  BY <1>2, <1>9, <1>c

LEMMA StartSleepSound ==
    ASSUME Sound(listRole, list, call, queue), \E n \in Node : StartSleep(n)
    PROVE  Sound(listRole', list', call', queue')
<1>1. PICK n \in Node : StartSleep(n)
  OBVIOUS
<1>c. PICK c : c = call'
  OBVIOUS
<1>2. /\ call = NoCall /\ listRole' = listRole /\ list' = list /\ queue' = queue
      /\ listRole = "time" /\ ~list.inside[n]
      /\ c = IF list.num = 0 THEN ListCall("insert", n)
             ELSE [ListCall("walk", n) EXCEPT !.r = list.first]
  BY <1>1, <1>c DEF StartSleep, Start
<1>3. Idle(listRole, list, queue)
  BY <1>2, NoCallIs, IdleIs
<1>4. /\ list.num = Len(queue) /\ InOrder(queue) /\ list \in Lists /\ ~Holds(queue, n)
  BY <1>2, <1>3 DEF Idle
<1>5. list.first = Place(queue, 1) /\ Len(queue) \in Nat
  BY <1>3, IdleLinks
<1>6. list.first \in Pointer
  BY <1>4 DEF Lists
<1>7. "insert" \in ListOps /\ "walk" \in ListOps
  BY DEF ListOps
<1>8. CASE list.num = 0
  <2>0. c = ListCall("insert", n)
    BY <1>2, <1>8
  <2>1. c \in ListCalls /\ c.op = "insert" /\ c.n = n /\ c.at = 1
    BY <1>7, <2>0, StartedCall
  <2>2. Due(c, queue)
    BY <1>4, <1>8, <2>1 DEF Due, Later, InOrder
  <2>3. Holds(queue, c.n) <=> Takes(c)
    BY <1>4, <2>1 DEF Takes
  <2>4. /\ c.op # "none" /\ c.n \in Node /\ c.at \in 1..6
        /\ (c.op # "walk" => c.at = 1)
        /\ listRole = "time" /\ c.op \in {"walk", "append", "insert", "add", "extract"}
        /\ (c.op = "add" => Holds(queue, c.h))
    BY <1>2, <2>1
  <2>5. Sound(listRole, list, c, queue)
    BY ONLY <1>3, <2>1, <2>2, <2>3, <2>4, BeginSound
  <2> QED
    BY <1>2, <2>5, <1>c
<1>9. CASE list.num # 0
  <2>a. PICK r \in Pointer : r = list.first
    BY <1>6
  <2>0. c = [ListCall("walk", n) EXCEPT !.r = r]
    BY <1>2, <1>9, <2>a
  <2>b. c \in ListCalls /\ c.op = "walk" /\ c.n = n /\ c.at = 1 /\ c.r = r
    <3>1. PICK d : d = ListCall("walk", n)
      OBVIOUS
    <3>2. d \in ListCalls /\ d.op = "walk" /\ d.n = n /\ d.at = 1
      BY <1>7, <3>1, StartedCall
    <3>3. c = [d EXCEPT !.r = r]
      BY <2>0, <3>1
    <3> QED
      BY ONLY <3>2, <3>3, r \in Pointer DEF ListCalls
  <2>1. c \in ListCalls /\ c.op = "walk" /\ c.n = n /\ c.at = 1 /\ c.r = list.first
    BY <2>a, <2>b
  <2>2. 1 \in 1..(Len(queue) + 1) /\ NoLater(queue, n, 1 - 1)
    BY <1>5 DEF NoLater
  <2>3. Due(c, queue)
    BY <1>4, <1>5, <2>1, <2>2 DEF Due, InOrder
  <2>4. Holds(queue, c.n) <=> Takes(c)
    BY <1>4, <2>1 DEF Takes
  <2>5. /\ c.op # "none" /\ c.n \in Node /\ c.at \in 1..6
        /\ (c.op # "walk" => c.at = 1)
        /\ listRole = "time" /\ c.op \in {"walk", "append", "insert", "add", "extract"}
        /\ (c.op = "add" => Holds(queue, c.h))
    BY <1>2, <2>1
  <2>6. Sound(listRole, list, c, queue)
    BY ONLY <1>3, <2>1, <2>3, <2>4, <2>5, BeginSound
  <2> QED
    BY <1>2, <2>6, <1>c
<1> QED
  BY <1>8, <1>9

LEMMA SleeperSound ==
    ASSUME NEW l, NEW c \in ListCalls, NEW q, Idle("time", l, q),
           c.op \in {"walk", "append", "insert", "add"}, c.n \in Node, c.at \in 1..6,
           c.op # "walk" => c.at = 1, ~Holds(q, c.n), Due(c, q),
           c.op = "add" => Holds(q, c.h)
    PROVE  Sound("time", l, c, q)
<1>1. ~Takes(c)
  BY DEF Takes
<1>2. c.op # "none" /\ c.op \in {"walk", "append", "insert", "add", "extract"}
  OBVIOUS
<1> QED
  BY <1>1, <1>2, BeginSound

LEMMA WalkSound ==
    ASSUME Sound(listRole, list, call, queue), Walk
    PROVE  Sound(listRole', list', call', queue')
<1>c. PICK c, n, q : c = call' /\ n = call.n /\ q = queue
  OBVIOUS
<1>1. /\ call.op = "walk" /\ c = WalkStep(call)
      /\ listRole' = listRole /\ list' = list /\ queue' = q
  BY <1>c DEF Walk
<1>2. Idle(listRole, list, q)
  BY <1>c, <1>1, IdleIs
<1>3. /\ call \in ListCalls /\ CallOf(listRole, call, q) /\ (listRole = "time" => Due(call, q))
      /\ listRole \in {"ready", "time", "sem"}
  BY <1>c DEF Sound, ListTypes
<1>4. listRole = "time"
  BY <1>1, <1>3 DEF CallOf
<1>5. n \in Node /\ ~Holds(q, n) /\ call.at \in 1..6 /\ Due(call, q)
  BY <1>c, <1>1, <1>3, <1>4 DEF CallOf, Length
<1>6. PICK p \in 1..(Len(q) + 1) : call.r = Place(q, p) /\ NoLater(q, n, p - 1)
  BY <1>c, <1>1, <1>5 DEF Due
<1>7. \A i, j \in 1..Len(q) : i < j => Deadline[q[i]] <= Deadline[q[j]]
  BY <1>5 DEF Due
<1>8. Idle("time", list, q)
  BY <1>2, <1>4
<1>9. /\ Len(q) \in Nat
      /\ \A i \in 1..Len(q) : /\ q[i] \in Node /\ q[i] # Null /\ Place(q, i) = q[i]
                              /\ list.next[q[i]] = Place(q, i + 1)
                              /\ list.prev[q[i]] = Place(q, i - 1)
      /\ \A i \in Int : Place(q, i) \in Pointer
                        /\ (Place(q, i) = Null => i \notin 1..Len(q))
      /\ Place(q, 0) = Null /\ Place(q, Len(q) + 1) = Null
  BY <1>8, IdleLinks
<1>d. Deadline[n] \in Nat /\ \A i \in 1..Len(q) : Deadline[q[i]] \in Nat
  BY <1>5, <1>9, NodeFacts
<1>o. "append" \in ListOps /\ "insert" \in ListOps /\ "add" \in ListOps
  BY DEF ListOps
<1>10. CASE call.r = Null
  <2>1. c = ListCall("append", n)
    BY <1>c, <1>1, <1>10 DEF WalkStep
  <2>2. c \in ListCalls /\ c.op = "append" /\ c.n = n /\ c.at = 1
    BY <1>o, <1>5, <2>1, StartedCall
  <2>3. p = Len(q) + 1
    <3>1. Place(q, p) = Null /\ p \in Int
      BY <1>6, <1>10
    <3>2. p \notin 1..Len(q)
      BY <1>9, <3>1
    <3> QED
      BY <1>9, <3>2
  <2>4. NoLater(q, n, Len(q))
    BY <1>6, <1>9, <2>3 DEF NoLater
  <2>5. Due(c, q)
    BY <1>7, <2>2, <2>4 DEF Due
  <2>6. Sound("time", list, c, q)
    BY <1>5, <1>8, <2>2, <2>5, SleeperSound
  <2> QED
    BY <1>c, <1>1, <1>4, <2>6
<1>11. ASSUME call.r # Null
       PROVE  p \in 1..Len(q) /\ call.r = q[p] /\ q[p] # Null
  BY <1>6, <1>9, <1>11
<1>12. CASE call.r # Null /\ Deadline[call.r] > Deadline[n]
  <2>1. p \in 1..Len(q) /\ call.r = q[p]
    BY <1>11, <1>12
  <2>2. Later(q, n, p - 1)
    BY <1>7, <1>9, <1>d, <1>12, <2>1, SMTT(30) DEF Later
  <2>3. list.prev[call.r] = Place(q, p - 1)
    BY <1>9, <2>1
  <2>4. c = IF list.prev[call.r] = Null THEN ListCall("insert", n)
            ELSE [ListCall("add", n) EXCEPT !.h = list.prev[call.r]]
    BY <1>c, <1>1, <1>12 DEF WalkStep
  <2>5. CASE Place(q, p - 1) = Null
    <3>1. c = ListCall("insert", n)
      BY <2>3, <2>4, <2>5
    <3>2. c \in ListCalls /\ c.op = "insert" /\ c.n = n /\ c.at = 1
      BY <1>o, <1>5, <3>1, StartedCall
    <3>3. p - 1 = 0
      BY <1>9, <2>1, <2>5
    <3>4. Due(c, q)
      BY <1>7, <2>2, <3>2, <3>3 DEF Due
    <3>5. Sound("time", list, c, q)
      BY <1>5, <1>8, <3>2, <3>4, SleeperSound
    <3> QED
      BY <1>c, <1>1, <1>4, <3>5
  <2>6. CASE Place(q, p - 1) # Null
    <3>1. PICK h : h = Place(q, p - 1)
      OBVIOUS
    <3>2. p - 1 \in 1..Len(q)
      BY <2>6 DEF Place
    <3>3. h = q[p - 1] /\ h \in Pointer
      BY <1>9, <3>1, <3>2
    <3>4. PICK d : d = ListCall("add", n)
      OBVIOUS
    <3>5. d \in ListCalls /\ d.op = "add" /\ d.n = n /\ d.at = 1
      BY <1>o, <1>5, <3>4, StartedCall
    <3>6. c = [d EXCEPT !.h = h]
      BY <2>3, <2>4, <2>6, <3>1, <3>4
    <3>7. c \in ListCalls /\ c.op = "add" /\ c.n = n /\ c.at = 1 /\ c.h = h
      BY ONLY <3>3, <3>5, <3>6 DEF ListCalls
    <3>8. Due(c, q)
      BY <1>6, <1>7, <2>2, <3>2, <3>3, <3>7 DEF Due
    <3>9. Holds(q, c.h)
      BY <3>2, <3>3, <3>7 DEF Holds
    <3>10. Sound("time", list, c, q)
      BY <1>5, <1>8, <3>7, <3>8, <3>9, SleeperSound
    <3> QED
      BY <1>c, <1>1, <1>4, <3>10
  <2> QED
    BY <2>5, <2>6
<1>13. CASE call.r # Null /\ ~(Deadline[call.r] > Deadline[n])
  <2>1. p \in 1..Len(q) /\ call.r = q[p]
    BY <1>11, <1>13
  <2>2. PICK r \in Pointer : r = Place(q, p + 1)
    BY <1>9, <2>1
  <2>3. c = [call EXCEPT !.r = r]
    <3>1. list.next[call.r] = r
      BY <1>9, <2>1, <2>2
    <3> QED
      BY <1>c, <1>1, <1>13, <3>1 DEF WalkStep
  <2>4. c \in ListCalls /\ c.op = "walk" /\ c.n = n /\ c.at = call.at /\ c.r = r
    BY ONLY <1>1, <1>3, <1>c, <2>3, r \in Pointer DEF ListCalls
  <2>5. NoLater(q, n, (p + 1) - 1)
    BY <1>6, <1>9, <1>d, <1>13, <2>1 DEF NoLater
  <2>6. Due(c, q)
    <3>1. p + 1 \in 1..(Len(q) + 1)
      BY <1>9, <2>1
    <3>2. \E x \in 1..(Len(q) + 1) : c.r = Place(q, x) /\ NoLater(q, c.n, x - 1)
      BY <2>2, <2>4, <2>5, <3>1
    <3> QED
      BY <1>7, <2>4, <3>2 DEF Due
  <2>7. Sound("time", list, c, q)
    BY <1>5, <1>8, <2>4, <2>6, SleeperSound
  <2> QED
    BY <1>c, <1>1, <1>4, <2>7
<1> QED
  BY <1>10, <1>12, <1>13

LEMMA IsrAppendsSound ==
    ASSUME Sound(listRole, list, call, queue), NEW m \in Node, IsrAppends(m), ~hit'
    PROVE  Sound(listRole', list', call', queue')
<1>c. PICK l, c, q, k, s : l = list /\ c = call /\ q = queue /\ k = list' /\ s = queue'
  OBVIOUS
<1>1. /\ listRole = "ready" /\ listRole' = "ready" /\ call' = c /\ ~l.inside[m] /\ m # c.n
      /\ k = Whole(l, "append", m) /\ s = Append(q, m)
  BY <1>c DEF IsrAppends
<1>2. Clear(l, c)
  BY <1>c DEF IsrAppends, AtTail, Clear
<1>3. Sound("ready", l, c, q)
  BY <1>c, <1>1
<1>4. l \in Lists /\ q \in Seq(Node) /\ Marks(l, c, q)
  BY <1>3 DEF Sound, ListTypes
<1>5. ~Holds(q, m)
  BY <1>1, <1>4 DEF Marks
<1>6. PICK a \in Pointer : Follows(q, a, Null)
  BY <1>4, RingTotal
<1>7. l.last # m
  <2>1. /\ a = Null \/ Holds(q, a)
        /\ l.last = IF c.op = "insert" /\ c.at = 4 /\ a = Null THEN c.n ELSE a
    BY <1>2, <1>3, <1>6, TailOf
  <2> QED
    BY <1>1, <1>5, <2>1, NodeFacts
<1>8. Appended(l, m, k)
  BY <1>1, <1>4, <1>7, WholeAppends
<1>9. PICK p : p = Len(q) /\ Grown(q, p, m, s)
  BY <1>1, <1>4, AppendGrows
<1>10. Sound("ready", k, c, s)
  BY <1>1, <1>2, <1>3, <1>5, <1>8, <1>9, IsrAppendSound
<1> QED
  BY <1>c, <1>1, <1>10

\* A whole operation of an ISR that takes out a node apart from the thread's.
LEMMA TakenSound ==
    ASSUME NEW role, NEW l, NEW c, NEW q, NEW op \in {"extract", "getnode"},
           NEW m \in Node, NEW s, NEW p, Sound(role, l, c, q), Apart(l, c, m),
           Shrunk(q, p, s), q[p] = m, role = "time" => p = 1
    PROVE  Sound(role, Whole(l, op, m), c, s)
<1>1. l \in Lists /\ q \in Seq(Node)
  BY DEF Sound, ListTypes
<1>2. Holds(q, m)
  BY DEF Shrunk, Holds
<1>3. PICK a \in Pointer, b \in Pointer : Follows(q, a, m) /\ Follows(q, m, b)
  BY <1>1, <1>2, RingTotal
<1>4. l.next[m] = b /\ l.prev[m] = a /\ a # m /\ b # m
  BY <1>3, NeighboursOf
<1>5. PICK k : k = Whole(l, op, m)
  OBVIOUS
<1>6. TakenOut(l, m, k)
  BY <1>1, <1>4, <1>5, WholeTakes
<1>7. Sound(role, k, c, s)
  BY <1>6, IsrTakeSound
<1> QED
  BY <1>5, <1>7

LEMMA FarIsApart ==
    ASSUME NEW role, NEW c, NEW q, NEW m \in Node, Sound(role, list, c, q), m \notin Near(c)
    PROVE  Apart(list, c, m)
<1>1. m # Null /\ CallOf(role, c, q)
  BY NodeFacts DEF Sound
<1>2. CASE c.n = Null
  <2>1. c = NoCall
    BY <1>1, <1>2, NodeFacts DEF CallOf
  <2>2. c.op = "none" /\ c.n = Null /\ c.r = Null /\ c.h = Null
    BY <2>1 DEF NoCall, ListCall
  <2> QED
    BY <1>1, <2>2 DEF Apart
<1>3. CASE c.n # Null
  BY <1>3 DEF Near, Apart
<1> QED
  BY <1>2, <1>3

LEMMA IsrRemovesSound ==
    ASSUME Sound(listRole, list, call, queue), NEW op \in {"extract", "getnode"},
           NEW m \in Node, IsrRemoves(op, m), ~hit', Holds(queue, m),
           listRole = "time" => queue[1] = m
    PROVE  Sound(listRole', list', call', queue')
<1>c. PICK l, c, q, s : l = list /\ c = call /\ q = queue /\ s = queue'
  OBVIOUS
<1>1. /\ listRole' = listRole /\ call' = c /\ list' = Whole(l, op, m) /\ s = Without(q, m)
      /\ m \notin Near(c)
  BY <1>c DEF IsrRemoves
<1>2. Sound(listRole, l, c, q) /\ Holds(q, m) /\ (listRole = "time" => q[1] = m)
  BY <1>c
<1>3. q \in Seq(Node) /\ Once(q)
  BY <1>2 DEF Sound, ListTypes
<1>4. Apart(l, c, m)
  BY <1>c, <1>1, FarIsApart
<1>5. PICK p \in 1..Len(q) : q[p] = m /\ Shrunk(q, p, s)
  BY <1>1, <1>2, <1>3, WithoutShrinks
<1>6. listRole = "time" => p = 1
  BY <1>2, <1>3, <1>5 DEF Once
<1>7. Sound(listRole, Whole(l, op, m), c, s)
  BY <1>2, <1>4, <1>5, <1>6, TakenSound
<1> QED
  BY <1>c, <1>1, <1>7

LEMMA FarIsOther ==
    ASSUME NEW c, NEW m \in Node, m \notin Near(c)
    PROVE  m # c.n
  BY NodeFacts DEF Near

LEMMA IsrGetsNodeSound ==
    ASSUME Sound(listRole, list, call, queue), IsrGetsNode, ~hit'
    PROVE  Sound(listRole', list', call', queue')
<1>c. PICK l, c, q, m : l = list /\ c = call /\ q = queue /\ m = list.first
  OBVIOUS
<1>1. listRole = "time" /\ m # Null /\ IsrRemoves("getnode", m)
  BY <1>c DEF IsrGetsNode
<1>2. /\ l \in Lists /\ q \in Seq(Node) /\ Forward("time", l, c, q)
  BY <1>c, <1>1 DEF Sound, ListTypes
<1>3. m \in Node /\ Nxt(l, Null) = m /\ Null \in Pointer
  BY <1>c, <1>1, <1>2, LinkTypes, NodeFacts
<1>4. m # c.n
  <2>1. m \notin Near(c)
    BY <1>c, <1>1 DEF IsrRemoves
  <2> QED
    BY <1>3, <2>1, FarIsOther
<1>5. PICK y \in Pointer : Follows(q, Null, y)
  BY <1>2, RingTotal
<1>6. m = y
  BY <1>2, <1>3, <1>4, <1>5 DEF Forward
<1>7. 1 \in 1..Len(q) /\ q[1] = m
  <2>1. PICK i \in 0..Len(q) : Null = Place(q, i) /\ y = Place(q, i + 1)
    BY <1>5 DEF Follows
  <2>2. i \notin 1..Len(q) /\ Len(q) \in Nat
    BY <1>2, <2>1, PlaceIs
  <2>3. i = 0
    BY <2>2
  <2>4. y = Place(q, 1)
    BY <2>1, <2>3
  <2> QED
    BY <1>1, <1>6, <2>4 DEF Place
<1>8. Holds(q, m)
  BY <1>7 DEF Holds
<1> QED
  BY <1>c, <1>1, <1>3, <1>7, <1>8, IsrRemovesSound

LEMMA IsrExtractsSound ==
    ASSUME Sound(listRole, list, call, queue), NEW m \in Node, IsrExtracts(m), ~hit'
    PROVE  Sound(listRole', list', call', queue')
<1>1. listRole = "sem" /\ list.inside[m] /\ IsrRemoves("extract", m)
  BY DEF IsrExtracts
<1>2. m # call.n
  <2>1. m \notin Near(call)
    BY <1>1 DEF IsrRemoves
  <2> QED
    BY <2>1, FarIsOther
<1>3. Holds(queue, m)
  BY <1>1, <1>2 DEF Sound, Marks
<1> QED
  BY <1>1, <1>3, IsrRemovesSound

LEMMA TakeFirstSound ==
    ASSUME Sound(listRole, list, call, queue), TakeFirst
    PROVE  Sound(listRole', list', call', queue')
<1>c. PICK l, c, q, m : l = list /\ c = call /\ q = queue /\ m = list.first
  OBVIOUS
<1>1. /\ listRole = "ready" /\ listRole' = "ready" /\ c = NoCall /\ call' = c /\ m # Null
      /\ list' = Whole(l, "getnode", m) /\ queue' = Tail(q)
  BY <1>c DEF TakeFirst
<1>2. Sound("ready", l, c, q) /\ Idle("ready", l, q)
  BY <1>c, <1>1, NoCallIs, IdleIs
<1>3. l.first = Place(q, 1) /\ Len(q) \in Nat /\ q \in Seq(Node)
  <2>1. l.first = Place(q, 1) /\ Len(q) \in Nat
    BY <1>2, IdleLinks
  <2>2. q \in Seq(Node)
    BY <1>2 DEF Idle
  <2> QED
    BY <2>1, <2>2
<1>4. 1 \in 1..Len(q) /\ m = q[1] /\ m \in Node
  BY <1>c, <1>1, <1>3 DEF Place
<1>5. Shrunk(q, 1, Tail(q))
  BY <1>3, <1>4, TailShrinks
<1>6. Apart(l, c, m)
  BY <1>1 DEF Apart, NoCall, ListCall
<1>7. Sound("ready", Whole(l, "getnode", m), c, Tail(q))
  BY <1>2, <1>4, <1>5, <1>6, TakenSound
<1> QED
  BY <1>1, <1>7

LEMMA ListStep ==
    ASSUME ListInv, [ListNext]_listVars
    PROVE  ListInv'
<1>1. ASSUME ~hit, ~hit' PROVE Sound(listRole, list, call, queue)
  BY <1>1 DEF ListInv
<1>2. CASE UNCHANGED listVars
  BY <1>2 DEF ListInv, listVars
<1>3. CASE \E n \in Node : StartAppend(n) \/ StartInsert(n) \/ StartExtract(n)
  <2>1. hit' = hit /\ ~hit
    BY <1>3 DEF StartAppend, StartInsert, StartExtract, Start
  <2>2. Sound(listRole', list', call', queue')
    BY <1>1, <1>3, <2>1, StartSound
  <2> QED
    BY <2>1, <2>2 DEF ListInv
<1>4. CASE \E n \in Node : StartSleep(n)
  <2>1. hit' = hit /\ ~hit
    BY <1>4 DEF StartSleep, Start
  <2>2. Sound(listRole', list', call', queue')
    BY <1>1, <1>4, <2>1, StartSleepSound
  <2> QED
    BY <2>1, <2>2 DEF ListInv
<1>5. CASE StartGetNode
  <2>1. hit' = hit /\ ~hit
    BY <1>5 DEF StartGetNode, Start
  <2>2. Sound(listRole', list', call', queue')
    BY <1>1, <1>5, <2>1, StartGetNodeSound
  <2> QED
    BY <2>1, <2>2 DEF ListInv
<1>6. CASE Walk
  <2>1. hit' = hit /\ hit \in BOOLEAN
    BY <1>6 DEF Walk, ListInv
  <2>2. ~hit' => Sound(listRole', list', call', queue')
    BY <1>1, <1>6, <2>1, WalkSound
  <2> QED
    BY <2>1, <2>2 DEF ListInv
<1>7. CASE DoStatement
  <2>1. hit' = hit /\ hit \in BOOLEAN
    BY <1>7 DEF DoStatement, ListInv
  <2>2. ~hit' => Sound(listRole', list', call', queue')
    BY <1>1, <1>7, <2>1, StatementSound
  <2> QED
    BY <2>1, <2>2 DEF ListInv
<1>8. CASE TakeFirst
  <2>1. hit' = hit /\ ~hit
    BY <1>8 DEF TakeFirst
  <2>2. Sound(listRole', list', call', queue')
    BY <1>1, <1>8, <2>1, TakeFirstSound
  <2> QED
    BY <2>1, <2>2 DEF ListInv
<1>9. ASSUME NEW n \in Node, IsrAppends(n) PROVE ListInv'
  <2>1. hit' \in BOOLEAN /\ ~hit
    BY <1>9 DEF IsrAppends, AtTail
  <2>2. ~hit' => Sound(listRole', list', call', queue')
    BY <1>1, <1>9, <2>1, IsrAppendsSound
  <2> QED
    BY <2>1, <2>2 DEF ListInv
<1>10. CASE IsrGetsNode
  <2>1. hit' \in BOOLEAN /\ ~hit
    BY <1>10 DEF IsrGetsNode, IsrRemoves
  <2>2. ~hit' => Sound(listRole', list', call', queue')
    BY <1>1, <1>10, <2>1, IsrGetsNodeSound
  <2> QED
    BY <2>1, <2>2 DEF ListInv
<1>11. ASSUME NEW n \in Node, IsrExtracts(n) PROVE ListInv'
  <2>1. hit' \in BOOLEAN /\ ~hit
    BY <1>11 DEF IsrExtracts, IsrRemoves
  <2>2. ~hit' => Sound(listRole', list', call', queue')
    BY <1>1, <1>11, <2>1, IsrExtractsSound
  <2> QED
    BY <2>1, <2>2 DEF ListInv
<1> QED
  BY <1>2, <1>3, <1>4, <1>5, <1>6, <1>7, <1>8, <1>9, <1>10, <1>11 DEF ListNext

----------------------------------------------------------------------------
(* What the invariant says between two operations.                         *)

LEMMA SpellsIs ==
    ASSUME NEW p, NEW n, NEW q \in Seq(Node), n = Place(q, 1),
           \A i \in 1..Len(q) : p[q[i]] = Place(q, i + 1)
    PROVE  Spells(p, n, q)
<1>1. PICK met : met = Append(q, Null)
  OBVIOUS
<1>2. Len(q) \in Nat /\ DOMAIN q = 1..Len(q) /\ q \in Seq(Pointer) /\ Null \in Pointer
  BY DEF Pointer
<1>3. (\A i \in 1..Len(q) : met[i] = q[i]) /\ met[Len(q) + 1] = Null
  BY <1>1, <1>2
<1>4. \A i \in 1..(Len(q) + 1) : met[i] = Place(q, i)
  BY <1>2, <1>3 DEF Place
<1>5. n = met[1] /\ \A i \in DOMAIN q : p[q[i]] = met[i + 1]
  BY <1>2, <1>4
<1> QED
  BY <1>1, <1>5 DEF Spells

LEMMA ReverseIs ==
    ASSUME NEW q \in Seq(Node), NEW r, r = Reverse(q)
    PROVE  /\ r \in Seq(Node) /\ Len(r) = Len(q)
           /\ \A i \in 1..Len(q) : r[i] = q[Len(q) - i + 1]
           /\ \A i \in 0..(Len(q) + 1) : Place(r, i) = Place(q, Len(q) - i + 1)
<1>1. r = [i \in 1..Len(q) |-> q[Len(q) - i + 1]]
  BY DEF Reverse
<1>2. Len(q) \in Nat /\ \A i \in 1..Len(q) : q[Len(q) - i + 1] \in Node
  OBVIOUS
<1>3. r \in Seq(Node) /\ Len(r) = Len(q)
  BY <1>1, <1>2
<1>4. \A i \in 1..Len(q) : r[i] = q[Len(q) - i + 1]
  BY <1>1
<1>5. ASSUME NEW i \in 0..(Len(q) + 1)
      PROVE  Place(r, i) = Place(q, Len(q) - i + 1)
  BY <1>2, <1>3, <1>4 DEF Place
<1> QED
  BY <1>3, <1>4, <1>5

LEMMA ListInvSpells == ListInv => PointersSpellQueue
<1> SUFFICES ASSUME ListInv, call = NoCall, ~hit
             PROVE  /\ Spells(list.next, list.first, queue)
                    /\ Spells(list.prev, list.last, Reverse(queue))
                    /\ list.num = Len(queue)
                    /\ \A n \in Node : list.inside[n] <=> n \in ToSet(queue)
  BY DEF PointersSpellQueue
<1>1. Idle(listRole, list, queue)
  BY NoCallIs, IdleIs DEF ListInv
<1>2. /\ Len(queue) \in Nat /\ list.first = Place(queue, 1)
      /\ list.last = Place(queue, Len(queue))
      /\ \A i \in 1..Len(queue) : /\ list.next[queue[i]] = Place(queue, i + 1)
                                  /\ list.prev[queue[i]] = Place(queue, i - 1)
  BY <1>1, IdleLinks
<1>3. /\ queue \in Seq(Node) /\ list.num = Len(queue)
      /\ \A n \in Node : list.inside[n] <=> Holds(queue, n)
  BY <1>1 DEF Idle
<1>4. Spells(list.next, list.first, queue)
  BY <1>2, <1>3, SpellsIs
<1>5. Spells(list.prev, list.last, Reverse(queue))
  <2>1. PICK r : r = Reverse(queue)
    OBVIOUS
  <2>2. /\ r \in Seq(Node) /\ Len(r) = Len(queue)
        /\ \A i \in 1..Len(queue) : r[i] = queue[Len(queue) - i + 1]
        /\ \A i \in 0..(Len(queue) + 1) : Place(r, i) = Place(queue, Len(queue) - i + 1)
    BY <1>3, <2>1, ReverseIs
  <2>3. list.last = Place(r, 1)
    <3>1. 1 \in 0..(Len(queue) + 1) /\ Len(queue) - 1 + 1 = Len(queue)
      BY <1>2
    <3> QED
      BY <1>2, <2>2, <3>1
  <2>4. ASSUME NEW i \in 1..Len(r) PROVE list.prev[r[i]] = Place(r, i + 1)
    <3>1. PICK j : j = Len(queue) - i + 1
      OBVIOUS
    <3>2. /\ j \in 1..Len(queue) /\ i \in 1..Len(queue) /\ i + 1 \in 0..(Len(queue) + 1)
          /\ Len(queue) - (i + 1) + 1 = j - 1
      BY <1>2, <2>2, <3>1
    <3>3. r[i] = queue[j] /\ Place(r, i + 1) = Place(queue, j - 1)
      BY <2>2, <3>1, <3>2
    <3> QED
      BY <1>2, <3>2, <3>3
  <2>5. Spells(list.prev, list.last, r)
    BY <2>2, <2>3, <2>4, SpellsIs
  <2> QED
    BY <2>1, <2>5
<1>6. ASSUME NEW n \in Node PROVE list.inside[n] <=> n \in ToSet(queue)
  <2>1. DOMAIN queue = 1..Len(queue)
    BY <1>3
  <2>2. n \in ToSet(queue) <=> Holds(queue, n)
    BY <2>1 DEF ToSet, Holds
  <2> QED
    BY <1>3, <2>2
<1> QED
  BY <1>3, <1>4, <1>5, <1>6

\* Between two operations of a thread, with any nodes, deadlines and operations
\* of the ISRs in between, both chains of pointers, the count and the flags say
\* what the queue should be, unless an ISR came in where the code does not bear
\* it.
THEOREM ListsCorrect == ListSpec => []PointersSpellQueue
<1>1. ListInit => ListInv
  BY InitSound DEF ListInit, ListInv
<1>2. ListInv /\ [ListNext]_listVars => ListInv'
  BY ListStep
<1>3. ListInv => PointersSpellQueue
  BY ListInvSpells
<1> QED
  BY <1>1, <1>2, <1>3, PTL DEF ListSpec
==============================================================================
