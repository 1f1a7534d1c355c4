------------------------- MODULE SearchQueue_proofs -------------------------
(***************************************************************************)
(* The list of items of queue.c is a first-in first-out queue, in spite of *)
(* the tail that points to an item that was freed, and wherever free()     *)
(* puts an item.                                                           *)
(***************************************************************************)
EXTENDS SearchQueue, TLAPS, SequenceTheorems, WellFoundedInduction

QueueType(N) ==
  [placement : Placements, free : Seq(Item), node : [Item -> N],
   next : [Item -> Item \cup {NULL}], head : Item \cup {NULL},
   tail : Item \cup {NULL}, elements : Nat]

\* The free items, in the order in which malloc() takes them.
FreeList(q) ==
  /\ IsInjective(q.free)
  /\ Len(q.free) + q.elements = MaxItems
  /\ q.placement = "address" =>
       \A j, k \in DOMAIN q.free : j < k => q.free[j] < q.free[k]

\* The list from head to tail is s.
Linked(q, s) ==
  /\ s \in Seq(Item)
  /\ Len(s) = q.elements
  /\ IsInjective(s)
  /\ Range(s) = Item \ Range(q.free)
  /\ \A j \in 1..Len(s)-1 : q.next[s[j]] = s[j + 1]
  /\ s # <<>> => q.head = s[1] /\ q.tail = s[Len(s)]

\* Item i would be the next that malloc() returns if it were freed.
Returns(q, i) ==
  \/ q.placement = "first"
  \/ q.placement = "last" /\ MaxItems = 1
  \/ q.placement = "address" /\ i = 1

\* What is behind the tail: nothing, or the tail itself.  When the queue is
\* empty head may still be the item that was last, but only if malloc() returns
\* that item next, so that a push finds head where it belongs.
Ends(q) ==
  /\ q.elements > 0 =>
       q.next[q.tail] = NULL \/ (q.next[q.tail] = q.tail /\ Returns(q, q.tail))
  /\ q.elements = 0 =>
       /\ q.head = NULL \/ (q.head = q.tail /\ q.head = Head(q.free))
       /\ q.placement = "last" /\ q.tail # NULL => q.tail = q.free[Len(q.free)]

\* The queue q holds the values ns, the first of them at the head.
Holds(q, ns) ==
  /\ FreeList(q) /\ Ends(q)
  /\ \E s \in Seq(Item) : Linked(q, s) /\ ns = [j \in DOMAIN s |-> q.node[s[j]]]

-----------------------------------------------------------------------------
(* Numbers and sequences.                                                  *)

LEMMA LeastNat ==
  ASSUME NEW S, S \subseteq Nat, S # {}
  PROVE  \E x \in S : \A y \in S : x <= y
<1>1. PICK x \in S : \A y \in S : ~ (<<y, x>> \in OpToRel(<, Nat))
  BY NatLessThanWellFounded, WFMin
<1>2. ASSUME NEW y \in S PROVE x <= y
  <2>1. ~ (y < x)
    BY <1>1 DEF OpToRel
  <2> QED  BY <2>1
<1> QED  BY <1>2

LEMMA RangeOfAppend ==
  ASSUME NEW S, NEW q \in Seq(S), NEW x \in S
  PROVE  Append(q, x) \in Seq(S) /\ Range(Append(q, x)) = Range(q) \cup {x}
<1> DEFINE r == Append(q, x)
<1>1. /\ r \in Seq(S) /\ Len(r) = Len(q) + 1 /\ Len(q) \in Nat
      /\ r[Len(q) + 1] = x /\ \A i \in 1..Len(q) : r[i] = q[i]
  OBVIOUS
<1>2. DOMAIN q = 1..Len(q) /\ DOMAIN r = 1..Len(r)
  <2> HIDE DEF r
  <2> QED  BY <1>1
<1> HIDE DEF r
<1>3. /\ \A i \in DOMAIN r : i \in DOMAIN q \/ i = Len(q) + 1
      /\ \A i \in DOMAIN q : i \in DOMAIN r
      /\ Len(q) + 1 \in DOMAIN r
  BY <1>1, <1>2
<1>4. \A i \in DOMAIN q : r[i] = q[i]
  BY <1>1, <1>2
<1>5. Range(r) = {r[i] : i \in DOMAIN r} /\ Range(q) = {q[i] : i \in DOMAIN q}
  BY DEF Range
<1>6. Range(r) = Range(q) \cup {x}
  BY ONLY <1>1, <1>3, <1>4, <1>5, Zenon
<1> QED  BY <1>1, <1>6 DEF r

\* A sequence with an element put in after the first k.
Insert(f, k, i) == SubSeq(f, 1, k) \o <<i>> \o SubSeq(f, k + 1, Len(f))

HasInserted(r, f, k, i) ==
  /\ Len(r) = Len(f) + 1
  /\ \A j \in 1..Len(f)+1 :
       r[j] = IF j <= k THEN f[j] ELSE IF j = k + 1 THEN i ELSE f[j - 1]

LEMMA Inserted ==
  ASSUME NEW S, NEW f \in Seq(S), NEW k \in 0..Len(f), NEW i \in S
  PROVE  Insert(f, k, i) \in Seq(S) /\ HasInserted(Insert(f, k, i), f, k, i)
<1> DEFINE a == SubSeq(f, 1, k)
           b == SubSeq(f, k + 1, Len(f))
<1>1. Len(f) \in Nat /\ k \in Nat
  OBVIOUS
<1>2. a \in Seq(S) /\ Len(a) = k /\ \A j \in 1..k : a[j] = f[j]
  BY <1>1
<1>3. b \in Seq(S) /\ Len(b) = Len(f) - k /\ \A j \in 1..Len(f)-k : b[j] = f[k + j]
  BY <1>1
<1> HIDE DEF a, b
<1> DEFINE ai == a \o <<i>>
<1>4. ai \in Seq(S) /\ Len(ai) = k + 1 /\ ai[k + 1] = i /\ \A j \in 1..k : ai[j] = f[j]
  <2>1. <<i>> \in Seq(S) /\ Len(<<i>>) = 1 /\ <<i>>[1] = i
    OBVIOUS
  <2>2. /\ a \o <<i>> \in Seq(S) /\ Len(a \o <<i>>) = Len(a) + Len(<<i>>)
        /\ \A j \in 1..Len(a)+Len(<<i>>) :
             (a \o <<i>>)[j] = IF j <= Len(a) THEN a[j] ELSE <<i>>[j - Len(a)]
    BY <1>2, <2>1, ConcatProperties
  <2> QED  BY <1>1, <1>2, <2>1, <2>2
<1> HIDE DEF ai
<1> DEFINE r == ai \o b
<1>a. /\ r \in Seq(S) /\ Len(r) = Len(ai) + Len(b)
      /\ \A j \in 1..Len(ai)+Len(b) :
           r[j] = IF j <= Len(ai) THEN ai[j] ELSE b[j - Len(ai)]
  BY <1>3, <1>4, ConcatProperties
<1>b. Len(ai) = k + 1 /\ Len(ai) + Len(b) = Len(f) + 1
  BY <1>1, <1>3, <1>4
<1> HIDE DEF r
<1>5. r \in Seq(S) /\ Len(r) = Len(f) + 1
  BY <1>a, <1>b
<1>6. ASSUME NEW j \in 1..Len(f)+1
      PROVE  r[j] = IF j <= k + 1 THEN ai[j] ELSE b[j - (k + 1)]
  BY <1>a, <1>b
<1>7. ASSUME NEW j \in 1..Len(f)+1
      PROVE  r[j] = IF j <= k THEN f[j] ELSE IF j = k + 1 THEN i ELSE f[j - 1]
  <2>1. CASE j <= k + 1
    BY <1>1, <1>4, <1>6, <2>1
  <2>2. CASE ~ (j <= k + 1)
    <3>1. j - (k + 1) \in 1..Len(f)-k /\ k + (j - (k + 1)) = j - 1
      BY <1>1, <2>2
    <3> QED  BY <1>1, <1>3, <1>6, <2>2, <3>1
  <2> QED  BY <2>1, <2>2
<1> QED  BY <1>5, <1>7 DEF a, b, ai, r, Insert, HasInserted

\* There is a place for an item among the free ones.
LEMMA BeforeIsPlace ==
  ASSUME NEW N, NEW q \in QueueType(N), FreeList(q),
         NEW i \in Item, i \notin Range(q.free)
  PROVE  /\ Before(q, i) \in 0..Len(q.free)
         /\ q.placement = "address" =>
              /\ \A j \in 1..Before(q, i) : q.free[j] < i
              /\ \A j \in Before(q, i)+1..Len(q.free) : q.free[j] > i
<1> DEFINE f == q.free
           Place(k) == /\ \A j \in 1..k : f[j] < i
                       /\ \A j \in k+1..Len(f) : f[j] > i
<1>1. f \in Seq(Item) /\ Len(f) \in Nat /\ i \in Nat /\ Item \subseteq Nat
  BY SearchQueueAssumption DEF QueueType, Item
<1>2. q.placement \in Placements
  BY DEF QueueType
<1>3. ASSUME q.placement = "address"
      PROVE  \E k \in 0..Len(f) : Place(k)
  <2> DEFINE U == {k \in Nat : k = Len(f) \/ (k < Len(f) /\ f[k + 1] > i)}
  <2>1. PICK k \in U : \A m \in U : k <= m
    <3>1. U \subseteq Nat /\ U # {}
      BY <1>1
    <3> HIDE DEF U
    <3> QED  BY <3>1, LeastNat
  <2>2. k \in 0..Len(f)
    BY <1>1, <2>1
  <2>3. ASSUME NEW j \in 1..k PROVE f[j] < i
    <3>1. j - 1 \in Nat /\ j - 1 < Len(f) /\ j \in 1..Len(f) /\ (j - 1) + 1 = j /\ j - 1 < k
      BY <1>1, <2>2
    <3>2. j - 1 \notin U
      BY <2>1, <3>1
    <3>3. ~ (f[j] > i)
      BY <3>1, <3>2
    <3>4. f[j] # i
      BY <1>1, <3>1 DEF Range
    <3>5. f[j] \in Nat
      BY <1>1, <3>1, ElementOfSeq
    <3> QED  BY <1>1, <3>3, <3>4, <3>5
  <2>4. ASSUME NEW j \in k+1..Len(f) PROVE f[j] > i
    <3>1. k < Len(f) /\ k + 1 \in 1..Len(f) /\ j \in 1..Len(f)
      BY <1>1, <2>2
    <3>2. f[k + 1] > i
      BY <2>1, <3>1
    <3>3. f[k + 1] \in Nat /\ f[j] \in Nat
      BY <1>1, <3>1, ElementOfSeq
    <3>4. k + 1 < j => f[k + 1] < f[j]
      BY <1>1, <1>3, <3>1 DEF FreeList
    <3>5. k + 1 = j \/ k + 1 < j
      BY <1>1, <2>2
    <3> QED  BY <1>1, <3>2, <3>3, <3>4, <3>5
  <2> QED  BY <2>2, <2>3, <2>4
<1>4. CASE q.placement = "first"
  BY <1>1, <1>4 DEF Before
<1>5. CASE q.placement = "last"
  BY <1>1, <1>5 DEF Before
<1>6. CASE q.placement = "address"
  <2>1. Before(q, i) = CHOOSE k \in 0..Len(f) : Place(k)
    BY <1>6, Zenon DEF Before
  <2>2. Before(q, i) \in 0..Len(f) /\ Place(Before(q, i))
    <3> HIDE DEF Place
    <3> QED  BY <1>3, <1>6, <2>1
  <2> QED  BY <2>2
<1> QED  BY <1>2, <1>4, <1>5, <1>6 DEF Placements

\* What free() does to the free items.
LEMMA FreedItems ==
  ASSUME NEW N, NEW q \in QueueType(N), FreeList(q),
         NEW i \in Item, i \notin Range(q.free)
  PROVE  LET f == Freed(q, i)
         IN  /\ f \in Seq(Item) /\ Len(f) = Len(q.free) + 1
             /\ Range(f) = Range(q.free) \cup {i}
             /\ IsInjective(f)
             /\ q.placement = "address" =>
                  \A j, k \in DOMAIN f : j < k => f[j] < f[k]
             /\ q.placement = "first" => f[1] = i
             /\ q.placement = "last" => f[Len(f)] = i
             /\ q.placement = "address" /\ i = 1 => f[1] = i
<1> DEFINE f == Freed(q, i)
           g == q.free
           k == Before(q, i)
<1>1. /\ g \in Seq(Item) /\ Len(g) \in Nat /\ DOMAIN g = 1..Len(g)
      /\ Item \subseteq Nat \ {0}
  BY SearchQueueAssumption DEF QueueType, Item
<1>2. k \in 0..Len(g)
  BY BeforeIsPlace
<1>3. q.placement = "address" => /\ \A j \in 1..k : g[j] < i
                                 /\ \A j \in k+1..Len(g) : g[j] > i
  BY BeforeIsPlace
<1>4. /\ f \in Seq(Item) /\ Len(f) = Len(g) + 1
      /\ \A j \in 1..Len(g)+1 :
           f[j] = IF j <= k THEN g[j] ELSE IF j = k + 1 THEN i ELSE g[j - 1]
  <2>1. f = Insert(g, k, i)
    BY DEF Freed, Insert
  <2> HIDE DEF f, g, k
  <2>2. Insert(g, k, i) \in Seq(Item) /\ HasInserted(Insert(g, k, i), g, k, i)
    BY <1>1, <1>2, Inserted
  <2> QED  BY <2>1, <2>2 DEF HasInserted
<1>5. DOMAIN f = 1..Len(g)+1
  BY <1>4
<1>i. \A j \in 1..Len(g) : g[j] \in Item /\ g[j] # i
  BY <1>1, ElementOfSeq DEF Range
<1>j. /\ \A j, m \in 1..Len(g) : g[j] = g[m] => j = m
      /\ q.placement = "address" => \A j, m \in 1..Len(g) : j < m => g[j] < g[m]
  BY <1>1 DEF FreeList, IsInjective
<1>p. /\ q.placement = "first" => k = 0
      /\ q.placement = "last" => k = Len(g)
  BY DEF Before
<1> HIDE DEF f, g, k
<1>6. Range(f) = Range(g) \cup {i}
  <2>1. ASSUME NEW j \in 1..Len(g)+1 PROVE f[j] \in Range(g) \cup {i}
    <3>1. CASE j <= k
      <4>1. j \in 1..Len(g) /\ f[j] = g[j]
        BY <1>1, <1>2, <1>4, <3>1
      <4> QED  BY <1>1, <4>1 DEF Range
    <3>2. CASE j = k + 1
      BY <1>1, <1>2, <1>4, <3>2
    <3>3. CASE ~ (j <= k) /\ j # k + 1
      <4>1. j - 1 \in 1..Len(g) /\ f[j] = g[j - 1]
        BY <1>1, <1>2, <1>4, <3>3
      <4> QED  BY <1>1, <4>1 DEF Range
    <3> QED  BY <3>1, <3>2, <3>3
  <2>2. ASSUME NEW j \in 1..Len(g) PROVE g[j] \in Range(f)
    <3>1. CASE j <= k
      <4>1. j \in 1..Len(g)+1 /\ f[j] = g[j]
        BY <1>1, <1>4, <3>1
      <4> QED  BY <1>5, <4>1 DEF Range
    <3>2. CASE ~ (j <= k)
      <4>1. j + 1 \in 1..Len(g)+1 /\ f[j + 1] = g[(j + 1) - 1] /\ (j + 1) - 1 = j
        BY <1>1, <1>2, <1>4, <3>2
      <4> QED  BY <1>5, <4>1 DEF Range
    <3> QED  BY <3>1, <3>2
  <2>3. i \in Range(f)
    <3>1. k + 1 \in 1..Len(g)+1 /\ f[k + 1] = i
      BY <1>1, <1>2, <1>4
    <3> QED  BY <1>5, <3>1 DEF Range
  <2> QED  BY <1>1, <1>5, <2>1, <2>2, <2>3 DEF Range
<1>7. IsInjective(f)
  <2> SUFFICES ASSUME NEW j \in 1..Len(g)+1, NEW m \in 1..Len(g)+1, f[j] = f[m]
               PROVE  j = m
    BY <1>5 DEF IsInjective
  <2>1. CASE j = k + 1 \/ m = k + 1
    BY <1>1, <1>2, <1>4, <1>i, <2>1
  <2>2. CASE j # k + 1 /\ m # k + 1
    <3> DEFINE u == IF j <= k THEN j ELSE j - 1
               v == IF m <= k THEN m ELSE m - 1
    <3>1. u \in 1..Len(g) /\ v \in 1..Len(g)
      BY <1>1, <1>2, <2>2
    <3>2. f[j] = g[u] /\ f[m] = g[v]
      BY <1>1, <1>2, <1>4, <2>2
    <3>3. u = v
      BY <1>j, <3>1, <3>2
    <3> QED  BY <1>2, <2>2, <3>3
  <2> QED  BY <2>1, <2>2
<1>8. ASSUME q.placement = "address", NEW j \in 1..Len(g)+1, NEW m \in 1..Len(g)+1, j < m
      PROVE  f[j] < f[m]
  <2>1. i \in Nat
    BY <1>1
  <2>2. CASE j = k + 1
    <3>1. m - 1 \in k+1..Len(g) /\ ~ (m <= k) /\ m # k + 1
      BY <1>1, <1>2, <1>8, <2>2
    <3>2. f[m] = g[m - 1] /\ f[j] = i
      BY <1>2, <1>4, <2>2, <3>1
    <3> QED  BY <1>3, <1>8, <3>1, <3>2, <2>1, <1>1, <1>2, <1>i
  <2>3. CASE m = k + 1
    <3>1. j \in 1..k
      BY <1>1, <1>2, <1>8, <2>3
    <3>2. f[m] = i /\ f[j] = g[j]
      BY <1>1, <1>2, <1>4, <2>3, <3>1
    <3> QED  BY <1>3, <1>8, <3>1, <3>2
  <2>4. CASE j # k + 1 /\ m # k + 1
    <3> DEFINE u == IF j <= k THEN j ELSE j - 1
               v == IF m <= k THEN m ELSE m - 1
    <3>1. u \in 1..Len(g) /\ v \in 1..Len(g) /\ u < v
      BY <1>1, <1>2, <1>8, <2>4
    <3>2. f[j] = g[u] /\ f[m] = g[v]
      BY <1>1, <1>2, <1>4, <2>4
    <3> QED  BY <1>j, <1>8, <3>1, <3>2
  <2> QED  BY <2>2, <2>3, <2>4
<1>9. /\ q.placement = "first" => f[1] = i
      /\ q.placement = "last" => f[Len(f)] = i
  <2>1. 1 \in 1..Len(g)+1 /\ Len(g) + 1 \in 1..Len(g)+1
    BY <1>1
  <2>2. k = 0 => f[1] = i
    BY <1>4, <2>1
  <2>3. k = Len(g) => f[Len(g) + 1] = i
    BY <1>1, <1>4, <2>1
  <2> QED  BY <1>4, <1>p, <2>2, <2>3
<1>10. ASSUME q.placement = "address", i = 1 PROVE f[1] = i
  <2>1. ~ (1 <= k)
    <3> SUFFICES ASSUME 1 <= k PROVE FALSE
      OBVIOUS
    <3>1. 1 \in 1..k /\ 1 \in 1..Len(g)
      BY <1>1, <1>2
    <3>2. g[1] < 1 /\ g[1] \in Nat \ {0}
      BY <1>1, <1>3, <1>10, <1>i, <3>1
    <3> QED  BY <3>2
  <2> QED  BY <1>1, <1>2, <1>4, <2>1
<1> QED  BY <1>4, <1>5, <1>6, <1>7, <1>8, <1>9, <1>10 DEF f, g

-----------------------------------------------------------------------------
(* What the functions of queue.c do to the values that the queue holds.    *)

LEMMA QueueFields ==
  ASSUME NEW N, NEW q \in QueueType(N)
  PROVE  /\ q.placement \in Placements /\ q.free \in Seq(Item)
         /\ q.node \in [Item -> N] /\ q.next \in [Item -> Item \cup {NULL}]
         /\ q.head \in Item \cup {NULL} /\ q.tail \in Item \cup {NULL}
         /\ q.elements \in Nat
         /\ Len(q.free) \in Nat /\ DOMAIN q.free = 1..Len(q.free)
         /\ Item \subseteq Nat \ {0} /\ NULL \notin Item
BY SearchQueueAssumption DEF QueueType, Item, NULL

LEMMA EmptyHolds ==
  ASSUME NEW N, NULL \in N, NEW placement \in Placements
  PROVE  LET q == Empty(placement) IN q \in QueueType(N) /\ Holds(q, <<>>)
<1> DEFINE q == Empty(placement)
<1>1. /\ q.free = [i \in Item |-> i] /\ q.elements = 0 /\ q.head = NULL
      /\ q.tail = NULL /\ q.node = [i \in Item |-> NULL] /\ q.placement = placement
  BY DEF Empty
<1>2. Item = 1..MaxItems /\ MaxItems \in Nat /\ Item \subseteq Nat
  BY SearchQueueAssumption DEF Item
<1>3. [i \in Item |-> i] \in Seq(Item) /\ Len([i \in Item |-> i]) = MaxItems
  BY <1>2
<1>4. q \in QueueType(N)
  BY <1>3 DEF Empty, QueueType
<1> HIDE DEF q
<1>5. FreeList(q)
  BY <1>1, <1>2, <1>3 DEF FreeList, IsInjective
<1>6. Ends(q)
  BY <1>1 DEF Ends
<1>7. Linked(q, <<>>) /\ <<>> = [j \in DOMAIN <<>> |-> q.node[<<>>[j]]]
  <2>1. Range(q.free) = Item
    BY <1>1 DEF Range
  <2>2. /\ <<>> \in Seq(Item) /\ Len(<<>>) = 0 /\ DOMAIN <<>> = {}
        /\ \A j \in 1..Len(<<>>)-1 : FALSE
    OBVIOUS
  <2>3. Range(<<>>) = {} /\ IsInjective(<<>>)
    BY <2>2 DEF Range, IsInjective
  <2>4. Linked(q, <<>>)
    BY <1>1, <2>1, <2>2, <2>3, Zenon DEF Linked
  <2>5. <<>> = [j \in DOMAIN <<>> |-> q.node[<<>>[j]]]
    OBVIOUS
  <2> QED  BY <2>4, <2>5
<1>8. <<>> \in Seq(Item)
  OBVIOUS
<1>9. Holds(q, <<>>)
  BY <1>5, <1>6, <1>7, <1>8, Zenon DEF Holds
<1> QED  BY <1>4, <1>9 DEF q

\* The number of values; and malloc() has an item for an empty queue.
LEMMA HoldsLen ==
  ASSUME NEW N, NEW q \in QueueType(N), NEW ns, Holds(q, ns)
  PROVE  /\ ns \in Seq(N) /\ Len(ns) = q.elements /\ q.elements \in 0..MaxItems
         /\ q.elements = 0 => q.free # <<>> /\ ns = <<>>
<1>1. PICK s \in Seq(Item) : Linked(q, s) /\ ns = [j \in DOMAIN s |-> q.node[s[j]]]
  BY DEF Holds
<1>2. /\ q.node \in [Item -> N] /\ q.elements \in Nat /\ Len(q.free) \in Nat
      /\ MaxItems \in Nat \ {0}
  BY QueueFields, SearchQueueAssumption
<1>3. /\ DOMAIN s = 1..Len(s) /\ Len(s) \in Nat /\ \A j \in 1..Len(s) : s[j] \in Item
      /\ Len(s) = q.elements
  BY <1>1 DEF Linked
<1>4. ns \in Seq(N) /\ Len(ns) = q.elements
  BY <1>1, <1>2, <1>3
<1>5. Len(q.free) + q.elements = MaxItems
  BY DEF Holds, FreeList
<1>6. q.elements = 0 => q.free # <<>>
  BY <1>2, <1>5
<1>7. q.elements = 0 => ns = <<>>
  BY <1>4
<1> QED  BY <1>2, <1>4, <1>5, <1>6, <1>7

LEMMA InitHolds ==
  ASSUME NEW N, NEW q \in QueueType(N), Holds(q, <<>>)
  PROVE  queue_init(q) \in QueueType(N) /\ Holds(queue_init(q), <<>>)
<1> DEFINE r == queue_init(q)
<1>1. q.elements = 0
  BY HoldsLen
<1>2. /\ r \in QueueType(N) /\ r.free = q.free /\ r.placement = q.placement
      /\ r.elements = 0 /\ r.head = NULL /\ r.tail = NULL /\ r.node = q.node
      /\ r.next = q.next
  BY DEF queue_init, QueueType
<1> HIDE DEF r
<1>3. FreeList(r) /\ Ends(r)
  BY <1>1, <1>2 DEF Holds, FreeList, Ends
<1>4. PICK s \in Seq(Item) : Linked(q, s) /\ <<>> = [j \in DOMAIN s |-> q.node[s[j]]]
  BY DEF Holds
<1>5. s = <<>>
  BY <1>1, <1>4 DEF Linked
<1>6. Linked(r, s)
  BY <1>1, <1>2, <1>4, <1>5 DEF Linked
<1> QED  BY <1>2, <1>3, <1>4, <1>6 DEF Holds, r

LEMMA PushHolds ==
  ASSUME NEW N, NEW q \in QueueType(N), NEW ns, Holds(q, ns), q.free # <<>>, NEW v \in N
  PROVE  queue_push(q, v) \in QueueType(N) /\ Holds(queue_push(q, v), Append(ns, v))
<1> DEFINE r == queue_push(q, v)
           i == Head(q.free)
<1>1. PICK s \in Seq(Item) : Linked(q, s) /\ ns = [j \in DOMAIN s |-> q.node[s[j]]]
  BY DEF Holds
<1> DEFINE n == Len(s)
           t == Append(s, i)
<1>2. /\ q.placement \in Placements /\ q.free \in Seq(Item)
      /\ q.node \in [Item -> N] /\ q.next \in [Item -> Item \cup {NULL}]
      /\ q.head \in Item \cup {NULL} /\ q.tail \in Item \cup {NULL}
      /\ q.elements \in Nat /\ Len(q.free) \in Nat
  BY QueueFields
<1>3. Item \subseteq Nat \ {0} /\ NULL \notin Item /\ DOMAIN q.free = 1..Len(q.free)
  BY QueueFields
<1>4. /\ i \in Item /\ i = q.free[1] /\ 1 \in 1..Len(q.free) /\ Len(q.free) >= 1
      /\ Tail(q.free) \in Seq(Item) /\ Len(Tail(q.free)) = Len(q.free) - 1
      /\ \A j \in 1..Len(q.free)-1 : Tail(q.free)[j] = q.free[j + 1]
  BY <1>2, HeadTailProperties
<1>5. /\ s \in Seq(Item) /\ n \in Nat /\ DOMAIN s = 1..n /\ n = q.elements
      /\ \A j \in 1..n : s[j] \in Item
      /\ \A j, k \in 1..n : s[j] = s[k] => j = k
      /\ \A j \in 1..n-1 : q.next[s[j]] = s[j + 1]
      /\ n > 0 => q.head = s[1] /\ q.tail = s[n] /\ 1 \in 1..n /\ n \in 1..n
  BY <1>1 DEF Linked, IsInjective
<1>6. i \in Range(q.free) /\ Range(s) = Item \ Range(q.free)
  BY <1>1, <1>3, <1>4 DEF Range, Linked
<1>7. \A j \in 1..n : s[j] # i
  BY <1>5, <1>6 DEF Range
<1>8. t \in Seq(Item) /\ Len(t) = n + 1 /\ t[n + 1] = i /\ \A j \in 1..n : t[j] = s[j]
  BY <1>4, <1>5, AppendProperties
<1>9. /\ r \in QueueType(N) /\ r.free = Tail(q.free) /\ r.placement = q.placement
      /\ r.elements = q.elements + 1 /\ r.tail = i
      /\ r.head = IF q.head = NULL THEN i ELSE q.head
      /\ r.node = [q.node EXCEPT ![i] = v]
      /\ \A x \in Item : r.next[x] = IF x = q.tail THEN i
                                     ELSE IF x = i THEN NULL ELSE q.next[x]
  <2> DEFINE linked == [q.next EXCEPT ![i] = NULL]
             next   == IF q.tail = NULL THEN linked ELSE [linked EXCEPT ![q.tail] = i]
  <2>1. linked \in [Item -> Item \cup {NULL}]
    BY <1>2
  <2>2. next \in [Item -> Item \cup {NULL}]
    BY <1>4, <2>1
  <2>3. \A x \in Item : next[x] = IF x = q.tail THEN i ELSE IF x = i THEN NULL ELSE q.next[x]
    BY <1>2, <1>3, <1>4
  <2>4. r = [q EXCEPT !.free = Tail(@), !.node[i] = v, !.next = next, !.tail = i,
                      !.head = IF @ = NULL THEN i ELSE @, !.elements = @ + 1]
    BY DEF queue_push
  <2> HIDE DEF next, linked, i, r
  <2>5. /\ r.free = Tail(q.free) /\ r.placement = q.placement
        /\ r.elements = q.elements + 1 /\ r.tail = i
        /\ r.head = IF q.head = NULL THEN i ELSE q.head
        /\ r.node = [q.node EXCEPT ![i] = v] /\ r.next = next
    BY <2>4 DEF QueueType
  <2>6. r \in QueueType(N)
    <3>1. [q.node EXCEPT ![i] = v] \in [Item -> N]
      BY <1>2, <1>4
    <3>2. (IF q.head = NULL THEN i ELSE q.head) \in Item \cup {NULL}
      BY <1>2, <1>4
    <3>3. q.elements + 1 \in Nat
      BY <1>2
    <3> QED  BY <1>2, <1>4, <2>2, <2>4, <3>1, <3>2, <3>3 DEF QueueType
  <2> QED  BY <2>3, <2>5, <2>6
<1> HIDE DEF r, i, t, n
<1>10. IsInjective(q.free) /\ Len(q.free) + q.elements = MaxItems
  BY DEF Holds, FreeList
<1>11. Range(q.free) = Range(r.free) \cup {i} /\ i \notin Range(r.free)
  <2>1. DOMAIN r.free = 1..Len(q.free)-1
    BY <1>2, <1>4, <1>9
  <2>2. \A j \in 1..Len(q.free)-1 : r.free[j] = q.free[j + 1] /\ j + 1 \in 1..Len(q.free)
    BY <1>2, <1>4, <1>9
  <2>3. ASSUME NEW j \in 1..Len(q.free) PROVE q.free[j] \in Range(r.free) \cup {i}
    <3>1. CASE j = 1
      BY <1>4, <3>1
    <3>2. CASE j # 1
      <4>1. j - 1 \in 1..Len(q.free)-1 /\ (j - 1) + 1 = j
        BY <1>2, <3>2
      <4>2. q.free[j] = r.free[j - 1]
        BY <2>2, <4>1
      <4> QED  BY <2>1, <4>1, <4>2 DEF Range
    <3> QED  BY <3>1, <3>2
  <2>4. \A j \in 1..Len(q.free)-1 : r.free[j] \in Range(q.free) /\ r.free[j] # i
    <3> SUFFICES ASSUME NEW j \in 1..Len(q.free)-1
                 PROVE  r.free[j] \in Range(q.free) /\ r.free[j] # i
      OBVIOUS
    <3>1. r.free[j] = q.free[j + 1] /\ j + 1 \in 1..Len(q.free) /\ j + 1 # 1
      BY <2>2
    <3> QED  BY <1>3, <1>4, <1>10, <3>1 DEF Range, IsInjective
  <2>5. Range(q.free) \subseteq Range(r.free) \cup {i}
    BY <1>3, <2>3 DEF Range
  <2>6. Range(r.free) \subseteq Range(q.free) /\ i \notin Range(r.free)
    BY <2>1, <2>4 DEF Range
  <2> QED  BY <1>6, <2>5, <2>6
<1>12. FreeList(r)
  <2>1. DOMAIN r.free = 1..Len(q.free)-1 /\ Len(r.free) = Len(q.free) - 1
    BY <1>2, <1>4, <1>9
  <2>2. \A j \in 1..Len(q.free)-1 : r.free[j] = q.free[j + 1] /\ j + 1 \in 1..Len(q.free)
    BY <1>2, <1>4, <1>9
  <2>3. IsInjective(r.free)
    <3> SUFFICES ASSUME NEW j \in 1..Len(q.free)-1, NEW k \in 1..Len(q.free)-1,
                        r.free[j] = r.free[k]
                 PROVE  j = k
      BY <2>1 DEF IsInjective
    <3>1. j + 1 = k + 1
      BY <1>3, <1>10, <2>2 DEF IsInjective
    <3> QED  BY <3>1
  <2>4. Len(r.free) + r.elements = MaxItems
    <3>1. r.elements = q.elements + 1
      BY <1>9
    <3>2. Len(q.free) \in Nat /\ q.elements \in Nat /\ Len(q.free) + q.elements = MaxItems
      BY <1>2, <1>10
    <3>3. Len(r.free) = Len(q.free) - 1
      BY <2>1
    <3> QED  BY ONLY <3>1, <3>2, <3>3
  <2>5. ASSUME r.placement = "address", NEW j \in 1..Len(q.free)-1, NEW k \in 1..Len(q.free)-1,
               j < k
        PROVE  r.free[j] < r.free[k]
    <3>1. j + 1 < k + 1
      BY <2>5
    <3>2. q.placement = "address"
      BY <1>9, <2>5
    <3>3. \A a, b \in DOMAIN q.free : a < b => q.free[a] < q.free[b]
      BY <3>2 DEF Holds, FreeList
    <3>4. q.free[j + 1] < q.free[k + 1]
      BY <1>3, <2>2, <3>1, <3>3
    <3> QED  BY <2>2, <3>4
  <2> QED  BY <2>1, <2>3, <2>4, <2>5 DEF FreeList
<1>13. Linked(r, t)
  <2>1. DOMAIN t = 1..n+1
    BY <1>5, <1>8
  <2>2. IsInjective(t)
    <3> SUFFICES ASSUME NEW j \in 1..n+1, NEW k \in 1..n+1, t[j] = t[k]
                 PROVE  j = k
      BY <2>1 DEF IsInjective
    <3>1. (j \in 1..n \/ j = n + 1) /\ (k \in 1..n \/ k = n + 1)
      BY <1>5
    <3> QED  BY <1>5, <1>7, <1>8, <3>1
  <2>3. Range(t) = Range(s) \cup {i}
    <3>1. \A j \in 1..n+1 : t[j] \in Range(s) \cup {i}
      <4> SUFFICES ASSUME NEW j \in 1..n+1 PROVE t[j] \in Range(s) \cup {i}
        OBVIOUS
      <4>1. j \in 1..n \/ j = n + 1
        BY <1>5
      <4> QED  BY <1>5, <1>8, <4>1 DEF Range
    <3>2. \A j \in 1..n : s[j] \in Range(t)
      <4>1. \A j \in 1..n : j \in 1..n+1
        BY <1>5
      <4> QED  BY <1>8, <2>1, <4>1 DEF Range
    <3>3. i \in Range(t)
      <4>1. n + 1 \in 1..n+1
        BY <1>5
      <4> QED  BY <1>8, <2>1, <4>1 DEF Range
    <3> QED  BY <1>5, <2>1, <3>1, <3>2, <3>3 DEF Range
  <2>4. Range(t) = Item \ Range(r.free)
    BY <1>4, <1>6, <1>11, <2>3
  <2>5. ASSUME NEW j \in 1..n PROVE r.next[t[j]] = t[j + 1]
    <3>1. t[j] = s[j] /\ s[j] \in Item /\ s[j] # i
      BY <1>5, <1>7, <1>8
    <3>2. CASE j = n
      <4>1. q.tail = s[j]
        BY <1>5, <3>2
      <4> QED  BY <1>8, <1>9, <3>1, <3>2, <4>1
    <3>3. CASE j # n
      <4>1. j \in 1..n-1 /\ j + 1 \in 1..n /\ n > 0 /\ n \in 1..n
        BY <1>5, <3>3
      <4>2. q.tail # s[j]
        BY <1>5, <3>3, <4>1
      <4>3. r.next[s[j]] = s[j + 1]
        BY <1>5, <1>9, <3>1, <4>1, <4>2
      <4> QED  BY <1>8, <3>1, <4>1, <4>3
    <3> QED  BY <3>2, <3>3
  <2>6. r.head = t[1] /\ r.tail = t[n + 1]
    <3>1. CASE n = 0
      <4>1. q.head = NULL \/ q.head = Head(q.free)
        BY <1>5, <3>1 DEF Holds, Ends
      <4> QED  BY <1>8, <1>9, <3>1, <4>1 DEF i
    <3>2. CASE n # 0
      <4>1. n > 0 /\ 1 \in 1..n
        BY <1>5, <3>2
      <4>2. q.head = s[1] /\ s[1] \in Item
        BY <1>5, <4>1
      <4> QED  BY <1>3, <1>8, <1>9, <4>1, <4>2
    <3> QED  BY <3>1, <3>2
  <2>7. Len(t) = r.elements /\ Len(t) - 1 = n
    BY <1>5, <1>8, <1>9
  <2> QED  BY <1>8, <2>2, <2>4, <2>5, <2>6, <2>7 DEF Linked
<1>14. Ends(r)
  <2>1. r.elements > 0 /\ r.elements # 0
    BY <1>2, <1>9
  <2>2. r.next[r.tail] = IF i = q.tail THEN i ELSE NULL
    BY <1>4, <1>9
  <2>3. ASSUME i = q.tail PROVE Returns(r, i)
    <3>1. n = 0
      BY <1>5, <1>7, <2>3
    <3>2. Len(q.free) = MaxItems /\ Range(q.free) = Item
      <4>1. Range(s) = {}
        BY <1>5, <3>1 DEF Range
      <4>2. Range(q.free) \subseteq Item
        BY <1>2, RangeOfSeq
      <4> QED  BY <1>2, <1>5, <1>6, <1>10, <3>1, <4>1, <4>2
    <3>3. CASE q.placement = "first"
      BY <1>9, <3>3 DEF Returns
    <3>4. CASE q.placement = "last"
      <4>1. q.tail = q.free[Len(q.free)]
        BY <1>3, <1>4, <1>5, <2>3, <3>1, <3>4 DEF Holds, Ends
      <4>2. Len(q.free) = 1
        <5>1. Len(q.free) \in DOMAIN q.free /\ 1 \in DOMAIN q.free
          BY <1>2, <1>3, <1>4
        <5>2. q.free[1] = q.free[Len(q.free)]
          BY <1>4, <2>3, <4>1
        <5> QED  BY <1>10, <5>1, <5>2 DEF IsInjective
      <4> QED  BY <1>9, <3>2, <3>4, <4>2 DEF Returns
    <3>5. CASE q.placement = "address"
      <4>1. 1 \in Item
        BY SearchQueueAssumption DEF Item
      <4>2. PICK j \in 1..Len(q.free) : q.free[j] = 1
        BY <1>3, <3>2, <4>1 DEF Range
      <4>3. j = 1
        <5> SUFFICES ASSUME j # 1 PROVE FALSE
          OBVIOUS
        <5>1. 1 < j
          OBVIOUS
        <5>2. q.free[1] < 1
          BY <1>3, <1>4, <3>5, <4>2, <5>1 DEF Holds, FreeList
        <5> QED  BY <1>3, <1>4, <5>2
      <4> QED  BY <1>4, <1>9, <3>5, <4>2, <4>3 DEF Returns
    <3> QED  BY <1>2, <3>3, <3>4, <3>5 DEF Placements
  <2> QED  BY <1>9, <2>1, <2>2, <2>3 DEF Ends
<1>15. Append(ns, v) = [j \in DOMAIN t |-> r.node[t[j]]]
  <2>1. ns \in Seq(N) /\ Len(ns) = n /\ \A j \in 1..n : ns[j] = q.node[s[j]]
    BY <1>1, <1>2, <1>5
  <2>2. /\ Append(ns, v) \in Seq(N) /\ Len(Append(ns, v)) = n + 1
        /\ \A j \in 1..n : Append(ns, v)[j] = ns[j]
        /\ Append(ns, v)[n + 1] = v
    BY <2>1, AppendProperties
  <2>3. \A j \in 1..n : r.node[t[j]] = q.node[s[j]]
    BY <1>2, <1>5, <1>7, <1>8, <1>9
  <2>4. r.node[t[n + 1]] = v
    BY <1>2, <1>4, <1>8, <1>9
  <2>5. DOMAIN t = 1..n+1 /\ DOMAIN Append(ns, v) = 1..n+1
    BY <1>5, <1>8, <2>2
  <2>6. \A j \in 1..n+1 : Append(ns, v)[j] = r.node[t[j]]
    <3> SUFFICES ASSUME NEW j \in 1..n+1 PROVE Append(ns, v)[j] = r.node[t[j]]
      OBVIOUS
    <3>1. j \in 1..n \/ j = n + 1
      BY <1>5
    <3> QED  BY <2>1, <2>2, <2>3, <2>4, <3>1
  <2>7. Append(ns, v) = [j \in 1..n+1 |-> Append(ns, v)[j]]
    BY <2>2, <2>5, LenProperties
  <2> QED  BY <2>5, <2>6, <2>7, Zenon
<1>16. Holds(r, Append(ns, v))
  BY <1>8, <1>12, <1>13, <1>14, <1>15, Zenon DEF Holds
<1> QED  BY <1>9, <1>16 DEF r

LEMMA DequeueHolds ==
  ASSUME NEW N, NEW q \in QueueType(N), NEW ns, Holds(q, ns), q.elements > 0
  PROVE  /\ ns # <<>> /\ First(q) = Head(ns)
         /\ queue_dequeue(q) \in QueueType(N)
         /\ Holds(queue_dequeue(q), Tail(ns))
<1> DEFINE r == queue_dequeue(q)
           h == q.head
<1>1. PICK s \in Seq(Item) : Linked(q, s) /\ ns = [j \in DOMAIN s |-> q.node[s[j]]]
  BY DEF Holds
<1> DEFINE n == Len(s)
           t == Tail(s)
           f == Freed(q, h)
<1>2. /\ q.placement \in Placements /\ q.free \in Seq(Item)
      /\ q.node \in [Item -> N] /\ q.next \in [Item -> Item \cup {NULL}]
      /\ q.tail \in Item \cup {NULL} /\ q.elements \in Nat /\ Len(q.free) \in Nat
  BY QueueFields
<1>3. Item \subseteq Nat \ {0} /\ NULL \notin Item /\ DOMAIN q.free = 1..Len(q.free)
  BY QueueFields
<1>4. /\ s \in Seq(Item) /\ n \in Nat /\ DOMAIN s = 1..n /\ n = q.elements
      /\ \A j \in 1..n : s[j] \in Item
      /\ \A j, k \in 1..n : s[j] = s[k] => j = k
      /\ \A j \in 1..n-1 : q.next[s[j]] = s[j + 1]
      /\ h = s[1] /\ q.tail = s[n] /\ 1 \in 1..n /\ n \in 1..n
  BY <1>1 DEF Linked, IsInjective
<1>5. h \in Item /\ Range(s) = Item \ Range(q.free) /\ h \notin Range(q.free)
  BY <1>1, <1>4 DEF Range, Linked
<1>6. /\ t \in Seq(Item) /\ Len(t) = n - 1 /\ DOMAIN t = 1..n-1
      /\ \A j \in 1..n-1 : t[j] = s[j + 1] /\ j + 1 \in 1..n
  <2>1. s # <<>>
    BY <1>4
  <2> QED  BY <1>4, <2>1, HeadTailProperties
<1>7. /\ ns \in Seq(N) /\ Len(ns) = n /\ \A j \in 1..n : ns[j] = q.node[s[j]]
  <2>1. ns = [j \in 1..n |-> q.node[s[j]]]
    BY ONLY <1>1, <1>4
  <2>2. \A j \in 1..n : q.node[s[j]] \in N
    BY ONLY <1>2, <1>4
  <2> QED  BY ONLY <1>4, <2>1, <2>2
<1>8. ns # <<>> /\ First(q) = Head(ns)
  BY <1>4, <1>7 DEF First
<1>9. /\ f \in Seq(Item) /\ Len(f) = Len(q.free) + 1
      /\ Range(f) = Range(q.free) \cup {h}
      /\ IsInjective(f)
      /\ q.placement = "address" => \A j, k \in DOMAIN f : j < k => f[j] < f[k]
      /\ q.placement = "first" => f[1] = h
      /\ q.placement = "last" => f[Len(f)] = h
      /\ q.placement = "address" /\ h = 1 => f[1] = h
  BY <1>5, FreedItems DEF Holds
<1> HIDE DEF f, n, t, h
<1>10. /\ r \in QueueType(N) /\ r.free = f /\ r.placement = q.placement
       /\ r.elements = q.elements - 1 /\ r.tail = q.tail /\ r.head = q.next[h]
       /\ r.node = q.node /\ r.next = q.next
  <2>1. r = [q EXCEPT !.free = f, !.head = q.next[h], !.elements = @ - 1]
    BY DEF queue_dequeue, f, h
  <2>2. q.elements - 1 \in Nat /\ q.next[h] \in Item \cup {NULL}
    BY <1>2, <1>5
  <2> HIDE DEF r
  <2> QED  BY <1>2, <1>9, <2>1, <2>2 DEF QueueType
<1> HIDE DEF r
<1>11. FreeList(r)
  <2>1. Len(q.free) + q.elements = MaxItems
    BY DEF Holds, FreeList
  <2>2. Len(r.free) + r.elements = MaxItems
    <3>1. Len(r.free) = Len(q.free) + 1 /\ r.elements = q.elements - 1
      BY <1>9, <1>10
    <3>2. Len(q.free) \in Nat /\ q.elements \in Nat
      BY <1>2
    <3> QED  BY ONLY <2>1, <3>1, <3>2
  <2> QED  BY <1>9, <1>10, <2>2 DEF FreeList
<1>12. Linked(r, t)
  <2>1. IsInjective(t)
    <3> SUFFICES ASSUME NEW j \in 1..n-1, NEW k \in 1..n-1, t[j] = t[k]
                 PROVE  j = k
      BY <1>6 DEF IsInjective
    <3>1. j + 1 = k + 1
      BY <1>4, <1>6
    <3> QED  BY <3>1
  <2>2. Range(s) = Range(t) \cup {h}
    <3>1. \A j \in 1..n : s[j] \in Range(t) \cup {h}
      <4> SUFFICES ASSUME NEW j \in 1..n, j # 1 PROVE s[j] \in Range(t)
        BY <1>4
      <4>1. j - 1 \in 1..n-1 /\ (j - 1) + 1 = j
        BY <1>4
      <4>2. PICK k \in 1..n-1 : k = j - 1 /\ k + 1 = j
        BY <4>1
      <4>3. t[k] = s[k + 1] /\ k \in DOMAIN t
        BY ONLY <1>6, <4>2
      <4>4. t[k] \in Range(t)
        BY ONLY <4>3 DEF Range
      <4> QED  BY ONLY <4>2, <4>3, <4>4
    <3>2. \A j \in 1..n-1 : t[j] \in Range(s)
      <4> SUFFICES ASSUME NEW j \in 1..n-1 PROVE t[j] \in Range(s)
        OBVIOUS
      <4>1. t[j] = s[j + 1] /\ j + 1 \in DOMAIN s
        BY ONLY <1>4, <1>6
      <4> QED  BY ONLY <4>1 DEF Range
    <3>3. h \in Range(s)
      BY <1>4 DEF Range
    <3>4. Range(t) \subseteq Range(s)
      BY <1>6, <3>2 DEF Range
    <3>5. Range(s) \subseteq Range(t) \cup {h}
      BY <1>4, <3>1 DEF Range
    <3> QED  BY <3>3, <3>4, <3>5
  <2>3. h \notin Range(t)
    <3> SUFFICES ASSUME NEW j \in 1..n-1 PROVE t[j] # h
      BY <1>6 DEF Range
    <3>1. j + 1 # 1
      OBVIOUS
    <3> QED  BY <1>4, <1>6, <3>1
  <2>4. Range(t) = Item \ Range(r.free)
    BY <1>5, <1>9, <1>10, <2>2, <2>3
  <2>5. ASSUME NEW j \in 1..Len(t)-1 PROVE r.next[t[j]] = t[j + 1]
    <3>1. j \in 1..n-1 /\ j + 1 \in 1..n-1
      BY <1>4, <1>6
    <3> QED  BY <1>4, <1>6, <1>10, <3>1
  <2>6. t # <<>> => r.head = t[1] /\ r.tail = t[Len(t)]
    <3> SUFFICES ASSUME t # <<>> PROVE r.head = t[1] /\ r.tail = t[Len(t)]
      OBVIOUS
    <3>1. 1 \in 1..n-1 /\ n - 1 \in 1..n-1 /\ (n - 1) + 1 = n /\ 1 + 1 = 2
      BY <1>4, <1>6
    <3>2. q.next[s[1]] = s[1 + 1]
      BY <1>4, <3>1
    <3> QED  BY <1>4, <1>6, <1>10, <3>1, <3>2
  <2>7. Len(t) = r.elements
    BY <1>4, <1>6, <1>10
  <2> QED  BY <1>6, <2>1, <2>4, <2>5, <2>6, <2>7 DEF Linked
<1>13. Ends(r)
  <2>1. /\ q.next[q.tail] = NULL \/ (q.next[q.tail] = q.tail /\ Returns(q, q.tail))
    BY DEF Holds, Ends
  <2>2. r.elements > 0 =>
          r.next[r.tail] = NULL \/ (r.next[r.tail] = r.tail /\ Returns(r, r.tail))
    BY <1>10, <2>1 DEF Returns
  <2>3. ASSUME r.elements = 0
        PROVE  /\ r.head = NULL \/ (r.head = r.tail /\ r.head = Head(r.free))
               /\ r.placement = "last" /\ r.tail # NULL => r.tail = r.free[Len(r.free)]
    <3>1. n = 1 /\ q.elements = 1
      BY <1>2, <1>4, <1>10, <2>3
    <3>2. q.tail = h
      BY <1>4, <3>1
    <3>3. ASSUME Returns(q, h) PROVE h = Head(r.free)
      <4>1. q.placement = "last" /\ MaxItems = 1 => Len(f) = 1
        BY <1>2, <1>9, <3>1 DEF Holds, FreeList
      <4>2. f[1] = h
        BY <1>9, <3>3, <4>1 DEF Returns
      <4> QED  BY <1>9, <1>10, <4>2
    <3> QED  BY <1>9, <1>10, <2>1, <3>2, <3>3
  <2> QED  BY <2>2, <2>3 DEF Ends
<1>14. Tail(ns) = [j \in DOMAIN t |-> r.node[t[j]]]
  <2>1. /\ Tail(ns) \in Seq(N) /\ Len(Tail(ns)) = n - 1
        /\ \A j \in 1..n-1 : Tail(ns)[j] = ns[j + 1]
    BY <1>7, <1>8, HeadTailProperties
  <2>2. \A j \in 1..n-1 : Tail(ns)[j] = r.node[t[j]]
    BY <1>6, <1>7, <1>10, <2>1
  <2>3. Tail(ns) = [j \in 1..n-1 |-> Tail(ns)[j]]
    BY <2>1, LenProperties
  <2> QED  BY <1>6, <2>2, <2>3, Zenon
<1>15. Holds(r, Tail(ns))
  BY <1>6, <1>11, <1>12, <1>13, <1>14, Zenon DEF Holds
<1> QED  BY <1>8, <1>10, <1>15 DEF r
=============================================================================
