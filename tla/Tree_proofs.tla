---------------------------- MODULE Tree_proofs -----------------------------
(***************************************************************************)
(* What holds of the tree for any number of identities, structs, items and *)
(* calls; and that the pointers are the forest that the calls describe.    *)
(***************************************************************************)
EXTENDS Tree, SearchQueue_proofs

Struct == [id : Id, metric : Int, firstchild : Ptr \cup {NULL},
           nextsibling : Ptr \cup {NULL}]

\* No list of siblings comes back to where it was, not even through structs
\* that were freed: each struct has a greater rank than its sibling.
Acyclic(s) ==
  \E b \in Nat : \E rank \in [Ptr -> 0..b] :
    \A p \in Ptr : s[p].nextsibling # NULL => rank[s[p].nextsibling] < rank[p]

\* The list of siblings that starts at c is t.
IsList(s, c, t) ==
  /\ t \in Seq(Ptr)
  /\ c = NULL <=> t = <<>>
  /\ t # <<>> => t[1] = c /\ s[t[Len(t)]].nextsibling = NULL
  /\ \A j \in 1..Len(t)-1 : s[t[j]].nextsibling = t[j + 1]

-----------------------------------------------------------------------------
(* Lists of siblings.                                                      *)

LEMMA StructFields ==
  ASSUME NEW s \in [Ptr -> Struct], NEW p \in Ptr
  PROVE  /\ s[p].id \in Id /\ s[p].metric \in Int
         /\ s[p].firstchild \in Ptr \cup {NULL}
         /\ s[p].nextsibling \in Ptr \cup {NULL}
<1>1. s[p] \in Struct
  OBVIOUS
<1> QED  BY <1>1 DEF Struct

LEMMA PtrFacts == Ptr \subseteq Nat \ {0} /\ NULL \notin Ptr
BY TreeAssumption DEF Ptr, NULL

\* The recursion of Siblings has a solution: along the ranks, one for the
\* structs below each rank.
LEMMA SiblingsExist ==
  ASSUME NEW s \in [Ptr -> Struct], Acyclic(s)
  PROVE  \E f : f = [p \in Ptr |->
                       <<p>> \o IF s[p].nextsibling = NULL THEN <<>>
                                ELSE f[s[p].nextsibling]]
<1>b. PICK b \in Nat :
        \E rank \in [Ptr -> 0..b] :
          \A p \in Ptr : s[p].nextsibling # NULL => rank[s[p].nextsibling] < rank[p]
  BY DEF Acyclic
<1>1. PICK rank \in [Ptr -> 0..b] :
        \A p \in Ptr : s[p].nextsibling # NULL => rank[s[p].nextsibling] < rank[p]
  BY <1>b
<1> DEFINE Below(m) == {p \in Ptr : rank[p] < m}
           Solves(f, m) == f = [p \in Below(m) |->
                                  <<p>> \o IF s[p].nextsibling = NULL THEN <<>>
                                           ELSE f[s[p].nextsibling]]
           Bad == {m \in Nat : ~ \E f : Solves(f, m)}
<1>2. \A p \in Ptr : rank[p] \in Nat
  OBVIOUS
<1>3. 0 \notin Bad
  <2>1. Below(0) = {}
    BY <1>2
  <2>2. Solves(<<>>, 0)
    BY <2>1
  <2> QED  BY <2>2
<1>4. ASSUME NEW m \in Nat, m \notin Bad PROVE m + 1 \notin Bad
  <2>1. PICK f : Solves(f, m)
    BY <1>4
  <2> DEFINE g == [p \in Below(m + 1) |->
                     IF p \in Below(m) THEN f[p]
                     ELSE <<p>> \o IF s[p].nextsibling = NULL THEN <<>>
                                   ELSE f[s[p].nextsibling]]
  <2>2. ASSUME NEW p \in Below(m + 1), s[p].nextsibling # NULL
        PROVE  s[p].nextsibling \in Below(m) /\ s[p].nextsibling \in Below(m + 1)
    <3>1. s[p].nextsibling \in Ptr
      BY <2>2, StructFields
    <3>2. rank[s[p].nextsibling] < rank[p] /\ rank[p] < m + 1
      BY <1>1, <2>2
    <3> QED  BY <1>2, <3>1, <3>2
  <2>3. ASSUME NEW p \in Below(m + 1)
        PROVE  g[p] = <<p>> \o IF s[p].nextsibling = NULL THEN <<>>
                               ELSE f[s[p].nextsibling]
    <3>1. CASE p \in Below(m)
      <4>1. f[p] = <<p>> \o IF s[p].nextsibling = NULL THEN <<>>
                            ELSE f[s[p].nextsibling]
        BY <2>1, <3>1, Zenon
      <4> QED  BY <3>1, <4>1
    <3>2. CASE p \notin Below(m)
      BY <3>2
    <3> QED  BY <3>1, <3>2
  <2>4. ASSUME NEW p \in Below(m + 1)
        PROVE  g[p] = <<p>> \o IF s[p].nextsibling = NULL THEN <<>>
                               ELSE g[s[p].nextsibling]
    <3>1. s[p].nextsibling # NULL => g[s[p].nextsibling] = f[s[p].nextsibling]
      BY <2>2
    <3> QED  BY <2>3, <3>1, Zenon
  <2>5. g = [p \in Below(m + 1) |-> g[p]]
    OBVIOUS
  <2> HIDE DEF g, Below
  <2>6. Solves(g, m + 1)
    BY <2>4, <2>5, Zenon
  <2> HIDE DEF Solves
  <2> QED  BY <2>6
<1>5. Bad = {}
  <2> SUFFICES ASSUME Bad # {} PROVE FALSE
    OBVIOUS
  <2> HIDE DEF Bad
  <2>1. Bad \subseteq Nat
    BY DEF Bad
  <2>2. PICK m \in Bad : \A k \in Bad : m <= k
    BY <2>1, LeastNat
  <2>3. m \in Nat /\ m - 1 \in Nat /\ m - 1 \notin Bad /\ (m - 1) + 1 = m
    BY <1>3, <2>1, <2>2
  <2> QED  BY <1>4, <2>2, <2>3
<1>6. Below(b + 1) = Ptr
  <2>1. \A p \in Ptr : rank[p] < b + 1
    BY <1>1
  <2> QED  BY <2>1
<1>7. PICK f : Solves(f, b + 1)
  <2>1. b + 1 \in Nat
    OBVIOUS
  <2> QED  BY <1>5, <2>1
<1> QED  BY <1>6, <1>7, Zenon

LEMMA SiblingsStep ==
  ASSUME NEW s \in [Ptr -> Struct], Acyclic(s), NEW p \in Ptr
  PROVE  Siblings(s, p) = <<p>> \o Siblings(s, s[p].nextsibling)
<1> DEFINE list[x \in Ptr] ==
             <<x>> \o IF s[x].nextsibling = NULL THEN <<>> ELSE list[s[x].nextsibling]
<1>1. list = CHOOSE f : f = [x \in Ptr |->
                               <<x>> \o IF s[x].nextsibling = NULL THEN <<>>
                                        ELSE f[s[x].nextsibling]]
  BY Zenon DEF list
<1>2. list = [x \in Ptr |-> <<x>> \o IF s[x].nextsibling = NULL THEN <<>>
                                     ELSE list[s[x].nextsibling]]
  BY <1>1, SiblingsExist, Zenon
<1>3. \A c : Siblings(s, c) = IF c = NULL THEN <<>> ELSE list[c]
  BY Zenon DEF Siblings
<1>4. p # NULL
  BY PtrFacts
<1> HIDE DEF list
<1>5. list[p] = <<p>> \o IF s[p].nextsibling = NULL THEN <<>> ELSE list[s[p].nextsibling]
  BY <1>2, Zenon
<1> QED  BY <1>3, <1>4, <1>5, Zenon

LEMMA NoSiblings == \A s : Siblings(s, NULL) = <<>>
BY DEF Siblings

LEMMA SiblingsAreList ==
  ASSUME NEW s \in [Ptr -> Struct], Acyclic(s), NEW c \in Ptr \cup {NULL}
  PROVE  IsList(s, c, Siblings(s, c))
<1>b. PICK b \in Nat :
        \E rank \in [Ptr -> 0..b] :
          \A p \in Ptr : s[p].nextsibling # NULL => rank[s[p].nextsibling] < rank[p]
  BY DEF Acyclic
<1>1. PICK rank \in [Ptr -> 0..b] :
        \A p \in Ptr : s[p].nextsibling # NULL => rank[s[p].nextsibling] < rank[p]
  BY <1>b
<1>2. IsList(s, NULL, Siblings(s, NULL))
  <2>1. <<>> \in Seq(Ptr) /\ \A j \in 1..Len(<<>>)-1 : FALSE
    OBVIOUS
  <2> QED  BY <2>1, NoSiblings, Zenon DEF IsList
<1> DEFINE Bad == {rank[p] : p \in {x \in Ptr : ~ IsList(s, x, Siblings(s, x))}}
<1>3. ASSUME NEW p \in Ptr,
             IsList(s, s[p].nextsibling, Siblings(s, s[p].nextsibling))
      PROVE  IsList(s, p, Siblings(s, p))
  <2> DEFINE d == s[p].nextsibling
             u == Siblings(s, d)
             t == <<p>> \o u
  <2>1. Siblings(s, p) = t
    BY SiblingsStep
  <2>2. d \in Ptr \cup {NULL}
    BY StructFields
  <2>3. u \in Seq(Ptr) /\ Len(u) \in Nat
    BY <1>3 DEF IsList
  <2> HIDE DEF u, d
  <2>4. /\ t \in Seq(Ptr) /\ Len(t) = Len(u) + 1 /\ t[1] = p /\ t # <<>>
        /\ \A j \in 1..Len(u) : t[j + 1] = u[j]
    <3>1. <<p>> \in Seq(Ptr) /\ Len(<<p>>) = 1 /\ <<p>>[1] = p
      OBVIOUS
    <3>2. /\ t \in Seq(Ptr) /\ Len(t) = 1 + Len(u)
          /\ \A j \in 1..1+Len(u) : t[j] = IF j <= 1 THEN <<p>>[j] ELSE u[j - 1]
      BY <2>3, <3>1, ConcatProperties
    <3> HIDE DEF t
    <3>3. \A j \in 1..Len(u) : j + 1 \in 1..1+Len(u) /\ ~ (j + 1 <= 1) /\ (j + 1) - 1 = j
      BY <2>3
    <3>4. 1 \in 1..1+Len(u) /\ 1 <= 1
      BY <2>3
    <3>5. t[1] = p /\ \A j \in 1..Len(u) : t[j + 1] = u[j]
      BY <3>1, <3>2, <3>3, <3>4
    <3> QED  BY <2>3, <3>2, <3>5
  <2> HIDE DEF t
  <2>5. p # NULL
    BY PtrFacts
  <2>6. s[t[Len(t)]].nextsibling = NULL
    <3>1. CASE u = <<>>
      <4>1. d = NULL /\ Len(t) = 1
        BY <1>3, <2>4, <3>1 DEF IsList, u, d
      <4> QED  BY <2>4, <4>1 DEF d
    <3>2. CASE u # <<>>
      <4>1. Len(u) \in 1..Len(u)
        BY <2>3, <3>2
      <4>2. s[u[Len(u)]].nextsibling = NULL
        BY <1>3, <3>2 DEF IsList, u, d
      <4> QED  BY <2>4, <4>1, <4>2
    <3> QED  BY <3>1, <3>2
  <2>7. ASSUME NEW j \in 1..Len(t)-1 PROVE s[t[j]].nextsibling = t[j + 1]
    <3>1. j \in 1..Len(u) /\ t[j + 1] = u[j]
      BY <2>3, <2>4
    <3>2. CASE j = 1
      <4>1. u # <<>> /\ u[1] = d
        BY <1>3, <2>3, <3>1 DEF IsList, u, d
      <4> QED  BY <2>4, <3>1, <3>2, <4>1 DEF d
    <3>3. CASE j # 1
      <4>1. j - 1 \in 1..Len(u)-1 /\ j - 1 \in 1..Len(u) /\ (j - 1) + 1 = j
        BY <2>3, <3>1, <3>3
      <4>2. s[u[j - 1]].nextsibling = u[j]
        BY <1>3, <4>1 DEF IsList, u, d
      <4> QED  BY <2>4, <3>1, <4>1, <4>2
    <3> QED  BY <3>2, <3>3
  <2>8. IsList(s, p, t)
    BY <2>4, <2>5, <2>6, <2>7 DEF IsList
  <2> QED  BY <2>1, <2>8
<1>4. Bad = {}
  <2> SUFFICES ASSUME Bad # {} PROVE FALSE
    OBVIOUS
  <2>1. Bad \subseteq Nat
    BY <1>1
  <2>2. PICK m \in Bad : \A k \in Bad : m <= k
    <3> HIDE DEF Bad
    <3> QED  BY <2>1, LeastNat
  <2>3. PICK p \in Ptr : ~ IsList(s, p, Siblings(s, p)) /\ rank[p] = m
    BY <2>2
  <2>4. s[p].nextsibling # NULL
    BY <1>2, <1>3, <2>3
  <2>5. s[p].nextsibling \in Ptr /\ ~ IsList(s, s[p].nextsibling, Siblings(s, s[p].nextsibling))
    BY <1>3, <2>3, <2>4, StructFields
  <2>6. rank[s[p].nextsibling] \in Bad
    BY <2>5
  <2>7. m <= rank[s[p].nextsibling]
    BY <2>2, <2>6
  <2>8. rank[s[p].nextsibling] < rank[p] /\ rank[p] \in Nat /\ rank[s[p].nextsibling] \in Nat
    BY <1>1, <2>4, <2>5
  <2> QED  BY <2>3, <2>7, <2>8
<1> QED  BY <1>2, <1>4

LEMMA ListIsSiblings ==
  ASSUME NEW s \in [Ptr -> Struct], Acyclic(s), NEW c, NEW t, IsList(s, c, t)
  PROVE  Siblings(s, c) = t
<1> DEFINE n == Len(t)
           Bad == {d \in Nat : d < n /\ Siblings(s, t[n - d]) # SubSeq(t, n - d, n)}
<1>1. t \in Seq(Ptr) /\ n \in Nat /\ \A j \in 1..n : t[j] \in Ptr
  BY DEF IsList
<1>2. ASSUME NEW m \in 1..n
      PROVE  /\ Siblings(s, t[m]) = <<t[m]>> \o Siblings(s, s[t[m]].nextsibling)
             /\ SubSeq(t, m, n) = <<t[m]>> \o SubSeq(t, m + 1, n)
  <2>1. t[m] \in Ptr /\ n \in m..n
    BY <1>1
  <2>2. Siblings(s, t[m]) = <<t[m]>> \o Siblings(s, s[t[m]].nextsibling)
    BY <2>1, SiblingsStep
  <2>3. SubSeq(t, m, n) = <<t[m]>> \o SubSeq(t, m + 1, n)
    BY <1>1, <2>1, SubSeqRecursiveFirst
  <2> QED  BY <2>2, <2>3
<1>3. 0 \notin Bad
  <2> SUFFICES ASSUME 0 < n PROVE Siblings(s, t[n - 0]) = SubSeq(t, n - 0, n)
    OBVIOUS
  <2>1. n \in 1..n /\ n - 0 = n
    BY <1>1
  <2>2. s[t[n]].nextsibling = NULL
    BY <2>1 DEF IsList
  <2>3. SubSeq(t, n + 1, n) = <<>>
    BY <1>1, SubSeqEmpty
  <2> HIDE DEF n
  <2> QED  BY <1>2, <2>1, <2>2, <2>3, NoSiblings, Zenon
<1>4. ASSUME NEW d \in Nat, d \notin Bad PROVE d + 1 \notin Bad
  <2> SUFFICES ASSUME d + 1 < n PROVE Siblings(s, t[n - (d + 1)]) = SubSeq(t, n - (d + 1), n)
    OBVIOUS
  <2> DEFINE m == n - (d + 1)
  <2>1. m \in 1..n-1 /\ m \in 1..n /\ m + 1 = n - d /\ d < n
    BY <1>1
  <2>2. Siblings(s, t[m + 1]) = SubSeq(t, m + 1, n)
    BY <1>4, <2>1
  <2>3. s[t[m]].nextsibling = t[m + 1]
    BY <2>1 DEF IsList
  <2> HIDE DEF m, n
  <2>4. Siblings(s, t[m]) = SubSeq(t, m, n)
    BY <1>2, <2>1, <2>2, <2>3, Zenon
  <2> QED  BY <2>4 DEF m
<1>5. Bad = {}
  <2> SUFFICES ASSUME Bad # {} PROVE FALSE
    OBVIOUS
  <2> HIDE DEF Bad
  <2>1. Bad \subseteq Nat
    BY DEF Bad
  <2>2. PICK m \in Bad : \A k \in Bad : m <= k
    BY <2>1, LeastNat
  <2>3. m \in Nat /\ m - 1 \in Nat /\ m - 1 \notin Bad /\ (m - 1) + 1 = m
    BY <1>3, <2>1, <2>2
  <2> QED  BY <1>4, <2>2, <2>3
<1>6. CASE t = <<>>
  BY <1>6, NoSiblings DEF IsList
<1>7. CASE t # <<>>
  <2>1. n - 1 \in Nat /\ n - 1 < n /\ n - (n - 1) = 1 /\ t[1] = c
    BY <1>1, <1>7 DEF IsList
  <2>2. Siblings(s, t[1]) = SubSeq(t, 1, n)
    BY <1>5, <2>1
  <2>3. SubSeq(t, 1, n) = t
    BY <1>1, SubSeqFull
  <2> QED  BY <2>1, <2>2, <2>3
<1> QED  BY <1>6, <1>7

\* A list in which no sibling changed is the same list.
LEMMA SameList ==
  ASSUME NEW s \in [Ptr -> Struct], Acyclic(s), NEW u \in [Ptr -> Struct], Acyclic(u),
         NEW c \in Ptr \cup {NULL},
         \A p \in Range(Siblings(s, c)) : u[p].nextsibling = s[p].nextsibling
  PROVE  Siblings(u, c) = Siblings(s, c)
<1> DEFINE t == Siblings(s, c)
<1>1. IsList(s, c, t)
  BY SiblingsAreList
<1> HIDE DEF t
<1>2. t \in Seq(Ptr) /\ Len(t) \in Nat /\ DOMAIN t = 1..Len(t)
  BY <1>1 DEF IsList
<1>3. \A j \in 1..Len(t) : u[t[j]].nextsibling = s[t[j]].nextsibling
  BY <1>2 DEF Range, t
<1>4. \A j \in 1..Len(t)-1 : j \in 1..Len(t)
  BY <1>2
<1>5. t # <<>> => Len(t) \in 1..Len(t)
  BY <1>2
<1>6. IsList(u, c, t)
  BY <1>1, <1>3, <1>4, <1>5 DEF IsList
<1> QED  BY <1>6, ListIsSiblings DEF t

\* A struct is put at the end of a list.
LEMMA LongerList ==
  ASSUME NEW s \in [Ptr -> Struct], Acyclic(s), NEW u \in [Ptr -> Struct], Acyclic(u),
         NEW c \in Ptr, NEW n \in Ptr, n \notin Range(Siblings(s, c)),
         \A p \in Range(Siblings(s, c)) :
           u[p].nextsibling = IF p = Siblings(s, c)[Len(Siblings(s, c))] THEN n
                              ELSE s[p].nextsibling,
         u[n].nextsibling = NULL
  PROVE  Siblings(u, c) = Append(Siblings(s, c), n)
<1> DEFINE t == Siblings(s, c)
           l == Append(t, n)
<1>1. IsList(s, c, t)
  BY SiblingsAreList
<1> HIDE DEF t
<1>2. t \in Seq(Ptr) /\ Len(t) \in Nat /\ DOMAIN t = 1..Len(t) /\ t # <<>> /\ t[1] = c
  BY <1>1, PtrFacts DEF IsList
<1>3. Len(t) \in 1..Len(t) /\ 1 \in 1..Len(t) /\ Len(t) + 1 \in 1..Len(t)+1
  BY <1>2
<1>4. /\ l \in Seq(Ptr) /\ l # <<>> /\ Len(l) = Len(t) + 1
      /\ \A j \in 1..Len(t) : l[j] = t[j]
      /\ l[Len(t) + 1] = n
  BY <1>2, AppendProperties
<1> HIDE DEF l
<1>5. \A j \in 1..Len(t) : t[j] \in Ptr /\ t[j] \in Range(t)
  BY <1>2 DEF Range
<1>6. s[t[Len(t)]].nextsibling = NULL
  BY <1>1, <1>2 DEF IsList
<1>7. ASSUME NEW j \in 1..Len(l)-1 PROVE u[l[j]].nextsibling = l[j + 1]
  <2>1. j \in 1..Len(t) /\ l[j] = t[j]
    BY <1>2, <1>4
  <2>2. CASE j = Len(t)
    <3>1. u[t[j]].nextsibling = n
      BY <1>5, <2>1, <2>2 DEF t
    <3> QED  BY <1>4, <2>1, <2>2, <3>1
  <2>3. CASE j # Len(t)
    <3>0. Len(t) \in Nat /\ j \in 1..Len(t)
      BY <1>2, <2>1
    <3>1. j \in 1..Len(t)-1 /\ j + 1 \in 1..Len(t)
      BY ONLY <2>3, <3>0
    <3>2. s[t[j]].nextsibling = t[j + 1]
      BY <1>1, <3>1 DEF IsList
    <3>3. t[j + 1] # NULL
      BY <1>5, <3>1, PtrFacts
    <3>4. t[j] # t[Len(t)]
      BY <1>6, <3>2, <3>3
    <3>5. u[t[j]].nextsibling = s[t[j]].nextsibling
      BY <1>5, <2>1, <3>4 DEF t
    <3> QED  BY <1>4, <2>1, <3>1, <3>2, <3>5
  <2> QED  BY <2>2, <2>3
<1>8. IsList(u, c, l)
  <2>1. c # NULL /\ l[1] = c
    BY <1>2, <1>3, <1>4, PtrFacts
  <2>2. u[l[Len(l)]].nextsibling = NULL
    BY <1>4
  <2> QED  BY <1>4, <1>7, <2>1, <2>2 DEF IsList
<1> QED  BY <1>8, ListIsSiblings DEF l, t

\* A struct that was returned by malloc() is not yet anybody's sibling.
LEMMA StaysAcyclic ==
  ASSUME NEW s \in [Ptr -> Struct], Acyclic(s), NEW u, NEW n \in Ptr,
         u[n].nextsibling = NULL,
         \A p \in Ptr \ {n} : u[p].nextsibling \in {s[p].nextsibling, n, NULL}
  PROVE  Acyclic(u)
<1>b. PICK b \in Nat :
        \E rank \in [Ptr -> 0..b] :
          \A p \in Ptr : s[p].nextsibling # NULL => rank[s[p].nextsibling] < rank[p]
  BY DEF Acyclic
<1>1. PICK rank \in [Ptr -> 0..b] :
        \A p \in Ptr : s[p].nextsibling # NULL => rank[s[p].nextsibling] < rank[p]
  BY <1>b
<1> DEFINE new == [p \in Ptr |-> IF p = n THEN 0 ELSE rank[p] + 1]
<1>2. new \in [Ptr -> 0..b+1] /\ b + 1 \in Nat
  OBVIOUS
<1>3. ASSUME NEW p \in Ptr, u[p].nextsibling # NULL
      PROVE  new[u[p].nextsibling] < new[p]
  <2>1. p # n /\ new[p] = rank[p] + 1 /\ rank[p] \in Nat
    BY <1>3
  <2>2. CASE u[p].nextsibling = n
    BY <2>1, <2>2
  <2>3. CASE u[p].nextsibling = s[p].nextsibling /\ u[p].nextsibling # n
    <3>0. s[p].nextsibling # NULL /\ s[p].nextsibling \in Ptr \cup {NULL}
      BY <1>3, <2>3, StructFields
    <3>1. s[p].nextsibling \in Ptr /\ rank[s[p].nextsibling] < rank[p]
      BY <1>1, <3>0
    <3>2. new[u[p].nextsibling] = rank[s[p].nextsibling] + 1
      BY <2>3, <3>1
    <3>3. rank[s[p].nextsibling] \in Nat
      BY <3>1
    <3> QED  BY <2>1, <3>1, <3>2, <3>3
  <2> QED  BY <1>3, <2>1, <2>2, <2>3
<1> HIDE DEF new
<1>4. \E rk \in [Ptr -> 0..b+1] :
        \A p \in Ptr : u[p].nextsibling # NULL => rk[u[p].nextsibling] < rk[p]
  BY <1>2, <1>3
<1> QED  BY <1>2, <1>4 DEF Acyclic

-----------------------------------------------------------------------------
(* The invariant.                                                          *)

Functions == {"caller", "tree_bfs", "bfs", "children", "clear_tree",
              "dfs_clear", "undefined"}
Searching == {"tree_bfs", "bfs", "children"}
Clearing  == {"clear_tree", "dfs_clear"}

Types ==
  /\ struct \in [Ptr -> Struct] /\ allocated \subseteq Ptr
  /\ nodes \in [Id -> Ptr \cup {NULL}]
  /\ calculated \in [Id -> Int] /\ visited \subseteq Id
  /\ queue \in QueueType(Ptr \cup {NULL})
  /\ running \in Functions
  /\ at \in [k : 0..MaxId+1, id : Id, c : Ptr \cup {NULL}, kids : Nat]
  /\ stack \in Seq([n : Ptr, id : Id, c : Ptr \cup {NULL}])
  /\ left \in Nat

\* Each known node has its struct.
Found(s, nds, used) ==
  \A i \in Id : nds[i] # NULL => nds[i] \in used /\ s[nds[i]].id = i

\* The children of known nodes are known, and none is in two lists.
Families(s, nds, used) ==
  /\ \A i \in Id : \A p \in Range(ChildrenOf(s, nds, i)) :
       p \in used /\ nds[s[p].id] # NULL
  /\ \A i, j \in Id : i # j =>
       Range(ChildrenOf(s, nds, i)) \cap Range(ChildrenOf(s, nds, j)) = {}

\* While clear_tree() runs, and when it has gone wrong, lists contain structs
\* that were freed.
Heap ==
  /\ Acyclic(struct)
  /\ Found(struct, nodes, allocated)
  /\ running \notin Clearing \cup {"undefined"} => Families(struct, nodes, allocated)

Counted(i) ==
  nodes[i] # NULL => calculated[i] = Len(ChildrenOf(struct, nodes, i))

\* A search that holds the structs ns: what is visited is counted, is being
\* counted, or waits in the queue.
SearchOf(ns) ==
  /\ Holds(queue, ns)
  /\ running \notin {"bfs", "children"} => ns = <<>>
  /\ \A p \in Range(ns) : nodes[struct[p].id] # NULL
  /\ running \in Searching =>
       \A i \in visited : \/ Counted(i)
                          \/ running = "children" /\ at.id = i
                          \/ \E p \in Range(ns) : struct[p].id = i

Progress ==
  /\ \E ns \in Seq(Ptr) : SearchOf(ns)
  /\ running \in Searching => \A i \in Id : i < at.k /\ nodes[i] # NULL => i \in visited
  /\ running \in {"bfs", "children"} => at.k \in visited

\* In the list of children of at.id, at.kids are counted and the next is at.c.
Counting ==
  running = "children" =>
    LET kids == ChildrenOf(struct, nodes, at.id)
    IN  /\ nodes[at.id] # NULL
        /\ at.kids \in 0..Len(kids)
        /\ at.c = IF at.kids = Len(kids) THEN NULL ELSE kids[at.kids + 1]

\* What clear_tree() has visited is gone, or is being cleared.
Clear ==
  /\ \A j \in DOMAIN stack : stack[j].id = struct[stack[j].n].id
  /\ running \in Clearing =>
       /\ \A i \in visited : nodes[i] = NULL \/ \E j \in DOMAIN stack : stack[j].id = i
       /\ \A i \in Id : i < at.k => nodes[i] = NULL
  /\ running = "dfs_clear" =>
       stack # <<>> /\ stack[Len(stack)].id = at.k /\ at.k \in visited
  /\ running \notin {"dfs_clear", "undefined"} => stack = <<>>

IInv == Types /\ Heap /\ Progress /\ Counting /\ Clear

-----------------------------------------------------------------------------
(* The tree.                                                               *)

LEMMA FreshIsFree ==
  ASSUME NEW used, Ptr \ used # {}
  PROVE  Fresh(used) \in Ptr \ used
<1>1. Ptr \ used \subseteq Nat
  BY PtrFacts
<1>2. \E p \in Ptr \ used : \A o \in Ptr \ used : p <= o
  BY <1>1, LeastNat
<1> QED  BY <1>2 DEF Fresh

LEMMA ChildrenFacts ==
  ASSUME NEW s \in [Ptr -> Struct], Acyclic(s), NEW nds \in [Id -> Ptr \cup {NULL}],
         NEW i \in Id
  PROVE  /\ ChildrenOf(s, nds, i) \in Seq(Ptr)
         /\ nds[i] = NULL => ChildrenOf(s, nds, i) = <<>>
         /\ nds[i] # NULL =>
              /\ nds[i] \in Ptr /\ s[nds[i]].firstchild \in Ptr \cup {NULL}
              /\ ChildrenOf(s, nds, i) = Siblings(s, s[nds[i]].firstchild)
              /\ IsList(s, s[nds[i]].firstchild, ChildrenOf(s, nds, i))
<1>1. CASE nds[i] = NULL
  BY <1>1 DEF ChildrenOf
<1>2. CASE nds[i] # NULL
  <2>1. nds[i] \in Ptr
    BY <1>2
  <2>2. s[nds[i]].firstchild \in Ptr \cup {NULL}
    BY <2>1, StructFields
  <2>3. IsList(s, s[nds[i]].firstchild, Siblings(s, s[nds[i]].firstchild))
    BY <2>2, SiblingsAreList
  <2>4. ChildrenOf(s, nds, i) = Siblings(s, s[nds[i]].firstchild)
    BY <1>2 DEF ChildrenOf
  <2> QED  BY <1>2, <2>1, <2>2, <2>3, <2>4 DEF IsList
<1> QED  BY <1>1, <1>2

\* A node whose struct and children did not change has the same children.
LEMMA SameChildren ==
  ASSUME NEW s \in [Ptr -> Struct], Acyclic(s), NEW nds \in [Id -> Ptr \cup {NULL}],
         NEW u \in [Ptr -> Struct], Acyclic(u), NEW mds,
         NEW i \in Id, mds[i] = nds[i],
         nds[i] # NULL => u[nds[i]].firstchild = s[nds[i]].firstchild,
         \A p \in Range(ChildrenOf(s, nds, i)) : u[p].nextsibling = s[p].nextsibling
  PROVE  ChildrenOf(u, mds, i) = ChildrenOf(s, nds, i)
<1>1. CASE nds[i] = NULL
  BY <1>1 DEF ChildrenOf
<1>2. CASE nds[i] # NULL
  <2> DEFINE c == s[nds[i]].firstchild
  <2>1. c \in Ptr \cup {NULL} /\ ChildrenOf(s, nds, i) = Siblings(s, c)
    BY <1>2, ChildrenFacts
  <2>2. ChildrenOf(u, mds, i) = Siblings(u, c)
    BY <1>2 DEF ChildrenOf
  <2> HIDE DEF c
  <2>3. Siblings(u, c) = Siblings(s, c)
    BY <2>1, SameList
  <2> QED  BY <2>1, <2>2, <2>3
<1> QED  BY <1>1, <1>2

\* What add_node() does: the new struct is n.
Grown(n, parent, metric, id) ==
  /\ n \in Ptr \ allocated
  /\ allocated \cup {n} \subseteq allocated' /\ allocated' \subseteq Ptr
  /\ struct' \in [Ptr -> Struct] /\ Acyclic(struct')
  /\ nodes' \in [Id -> Ptr \cup {NULL}]
  /\ \A i \in Id \ {id, parent} : nodes'[i] = nodes[i]
  /\ nodes'[id] = n
  /\ nodes'[parent] \in allocated' \ {n}
  /\ nodes[parent] # NULL => nodes'[parent] = nodes[parent]
  /\ struct'[nodes'[parent]].id = parent
  /\ struct'[nodes'[parent]].metric = IF nodes[parent] = NULL THEN -1
                                      ELSE struct[nodes[parent]].metric
  /\ struct'[n].id = id /\ struct'[n].metric = metric
  /\ \A p \in allocated : struct'[p].id = struct[p].id /\ struct'[p].metric = struct[p].metric
  /\ \A i \in Id : ChildrenOf(struct', nodes', i)
                     = IF i = id THEN <<>>
                       ELSE IF i = parent THEN Append(ChildrenOf(struct, nodes, i), n)
                       ELSE ChildrenOf(struct, nodes, i)

LEMMA AddUnknown ==
  ASSUME Types, Heap, running = "caller",
         NEW parent \in Id, NEW id \in Id, NEW metric \in Metrics,
         add_node(parent, metric, id), nodes[parent] = NULL
  PROVE  Grown(Fresh(allocated), parent, metric, id)
<1> DEFINE n == Fresh(allocated)
           p == Fresh(allocated \cup {n})
<1>1. n \in Ptr \ allocated /\ p \in Ptr \ (allocated \cup {n}) /\ parent # id
  <2>1. n \in Ptr \ allocated
    BY FreshIsFree DEF add_node
  <2>2. Ptr \ (allocated \cup {n}) # {}
    BY DEF add_node
  <2> HIDE DEF n
  <2> QED  BY <2>1, <2>2, FreshIsFree DEF add_node
<1>2. /\ struct' = [struct EXCEPT ![n] = Added(id, metric),
                                  ![p] = NewStruct(parent, -1, n)]
      /\ allocated' = allocated \cup {n, p}
      /\ nodes' = [nodes EXCEPT ![id] = n, ![parent] = p]
  BY DEF add_node
<1> HIDE DEF n, p
<1>3. /\ struct \in [Ptr -> Struct] /\ allocated \subseteq Ptr
      /\ nodes \in [Id -> Ptr \cup {NULL}] /\ metric \in Int
  BY TreeAssumption DEF Types
<1>4. Added(id, metric) \in Struct /\ NewStruct(parent, -1, n) \in Struct
  BY <1>1, <1>3 DEF Added, NewStruct, Struct, NULL
<1>5. /\ struct' \in [Ptr -> Struct]
      /\ struct'[n] = Added(id, metric) /\ struct'[p] = NewStruct(parent, -1, n)
      /\ \A q \in Ptr \ {n, p} : struct'[q] = struct[q]
  BY <1>1, <1>2, <1>3, <1>4
<1>6. /\ nodes' \in [Id -> Ptr \cup {NULL}] /\ nodes'[id] = n /\ nodes'[parent] = p
      /\ \A i \in Id \ {id, parent} : nodes'[i] = nodes[i]
  BY <1>1, <1>2, <1>3
<1>7. Acyclic(struct')
  <2>1. Acyclic(struct)
    BY DEF Heap
  <2>2. struct'[n].nextsibling = NULL /\ struct'[p].nextsibling = NULL
    BY <1>5 DEF Added, NewStruct
  <2>3. \A q \in Ptr \ {n} : struct'[q].nextsibling \in {struct[q].nextsibling, n, NULL}
    BY <1>5, <2>2
  <2> QED  BY <1>1, <1>3, <2>1, <2>2, <2>3, StaysAcyclic
<1>8. Families(struct, nodes, allocated) /\ Found(struct, nodes, allocated) /\ Acyclic(struct)
  BY DEF Heap, Clearing
<1>9. ASSUME NEW i \in Id \ {id, parent}
      PROVE  ChildrenOf(struct', nodes', i) = ChildrenOf(struct, nodes, i)
  <2>1. \A q \in allocated : struct'[q] = struct[q]
    BY <1>1, <1>3, <1>5
  <2>2. \A q \in Range(ChildrenOf(struct, nodes, i)) : struct'[q].nextsibling = struct[q].nextsibling
    BY <1>8, <2>1 DEF Families
  <2>3. nodes[i] # NULL => struct'[nodes[i]].firstchild = struct[nodes[i]].firstchild
    BY <1>8, <2>1 DEF Found
  <2> QED  BY <1>3, <1>5, <1>6, <1>7, <1>8, <2>2, <2>3, SameChildren
<1>10. ChildrenOf(struct', nodes', id) = <<>>
  BY <1>5, <1>6, NoSiblings DEF ChildrenOf, Added, NewStruct
<1>11. ChildrenOf(struct, nodes, parent) = <<>>
  BY DEF ChildrenOf
<1>12. ChildrenOf(struct', nodes', parent) = <<n>>
  <2>1. nodes'[parent] # NULL /\ struct'[p].firstchild = n /\ struct'[n].nextsibling = NULL
    BY <1>1, <1>5, <1>6, PtrFacts DEF NewStruct, Added
  <2>2. ChildrenOf(struct', nodes', parent) = Siblings(struct', n)
    BY <1>6, <2>1 DEF ChildrenOf
  <2>3. Siblings(struct', n) = <<n>> \o Siblings(struct', NULL)
    BY <1>1, <1>5, <1>7, <2>1, SiblingsStep
  <2>4. <<n>> \o <<>> = <<n>>
    OBVIOUS
  <2> QED  BY <2>2, <2>3, <2>4, NoSiblings
<1>13. Append(ChildrenOf(struct, nodes, parent), n) = <<n>>
  BY <1>11
<1>14. /\ struct'[p].id = parent /\ struct'[p].metric = -1
       /\ struct'[n].id = id /\ struct'[n].metric = metric
  BY <1>5 DEF NewStruct, Added
<1>15. \A q \in allocated : struct'[q].id = struct[q].id /\ struct'[q].metric = struct[q].metric
  BY <1>1, <1>3, <1>5
<1>16. allocated \cup {n} \subseteq allocated' /\ allocated' \subseteq Ptr /\ p \in allocated' \ {n}
  BY <1>1, <1>2, <1>3
<1>17. \A i \in Id : ChildrenOf(struct', nodes', i)
                       = IF i = id THEN <<>>
                         ELSE IF i = parent THEN Append(ChildrenOf(struct, nodes, i), n)
                         ELSE ChildrenOf(struct, nodes, i)
  BY <1>9, <1>10, <1>12, <1>13
<1> QED  BY <1>1, <1>5, <1>6, <1>7, <1>14, <1>15, <1>16, <1>17 DEF Grown, n

LEMMA AddKnown ==
  ASSUME Types, Heap, running = "caller",
         NEW parent \in Id, NEW id \in Id, NEW metric \in Metrics,
         add_node(parent, metric, id), nodes[parent] # NULL
  PROVE  Grown(Fresh(allocated), parent, metric, id)
<1> DEFINE n    == Fresh(allocated)
           p    == nodes[parent]
           kids == ChildrenOf(struct, nodes, parent)
           last == kids[Len(kids)]
<1>1. n \in Ptr \ allocated /\ parent # id
  BY FreshIsFree DEF add_node
<1>2. /\ struct' = [Link(parent, n) EXCEPT ![n] = Added(id, metric)]
      /\ allocated' = allocated \cup {n}
      /\ nodes' = [nodes EXCEPT ![id] = n]
  BY DEF add_node
<1> HIDE DEF n
<1>3. /\ struct \in [Ptr -> Struct] /\ allocated \subseteq Ptr
      /\ nodes \in [Id -> Ptr \cup {NULL}] /\ metric \in Int
  BY TreeAssumption DEF Types
<1>4. Families(struct, nodes, allocated) /\ Found(struct, nodes, allocated) /\ Acyclic(struct)
  BY DEF Heap, Clearing
<1>5. p \in allocated /\ p \in Ptr /\ p # n /\ struct[p].id = parent
  BY <1>1, <1>3, <1>4 DEF Found
<1>6. IsList(struct, struct[p].firstchild, kids) /\ kids = Siblings(struct, struct[p].firstchild)
  BY <1>3, <1>4, ChildrenFacts
<1>7. /\ kids \in Seq(Ptr) /\ Len(kids) \in Nat /\ DOMAIN kids = 1..Len(kids)
      /\ struct[p].firstchild = NULL <=> kids = <<>>
  BY <1>6 DEF IsList
<1>8. kids # <<>> => last \in Range(kids) /\ last \in allocated /\ last # n
  <2> SUFFICES ASSUME kids # <<>> PROVE last \in Range(kids) /\ last \in allocated /\ last # n
    OBVIOUS
  <2>1. Len(kids) \in DOMAIN kids
    BY <1>7
  <2>2. last \in Range(kids)
    BY <2>1 DEF Range
  <2> QED  BY <1>1, <1>4, <2>2 DEF Families
<1>9. Added(id, metric) \in Struct
  BY <1>3 DEF Added, NewStruct, Struct, NULL
<1>10. Link(parent, n) = IF struct[p].firstchild = NULL
                         THEN [struct EXCEPT ![p].firstchild = n]
                         ELSE [struct EXCEPT ![last].nextsibling = n]
  BY DEF Link
<1> HIDE DEF p, kids, last
<1>11. /\ struct' \in [Ptr -> Struct] /\ struct'[n] = Added(id, metric)
       /\ \A q \in Ptr \ {n} :
            /\ struct'[q].id = struct[q].id /\ struct'[q].metric = struct[q].metric
            /\ struct'[q].firstchild = IF q = p /\ struct[p].firstchild = NULL THEN n
                                       ELSE struct[q].firstchild
            /\ struct'[q].nextsibling = IF q = last /\ struct[p].firstchild # NULL THEN n
                                        ELSE struct[q].nextsibling
  <2>1. CASE struct[p].firstchild = NULL
    <3> DEFINE l == [struct EXCEPT ![p].firstchild = n]
    <3>1. struct' = [l EXCEPT ![n] = Added(id, metric)]
      BY <1>2, <1>10, <2>1
    <3>2. l \in [Ptr -> Struct]
      BY <1>1, <1>3, <1>5 DEF Struct
    <3>3. \A q \in Ptr : /\ l[q].id = struct[q].id /\ l[q].metric = struct[q].metric
                         /\ l[q].firstchild = IF q = p THEN n ELSE struct[q].firstchild
                         /\ l[q].nextsibling = struct[q].nextsibling
      <4>1. \A q \in Ptr : struct[q] \in Struct
        BY <1>3
      <4> QED  BY <1>3, <1>5, <4>1 DEF Struct
    <3> HIDE DEF l
    <3>4. struct' \in [Ptr -> Struct] /\ struct'[n] = Added(id, metric)
      BY <1>1, <1>9, <3>1, <3>2
    <3>5. \A q \in Ptr \ {n} : struct'[q] = l[q]
      BY <3>1, <3>2
    <3> QED  BY <2>1, <3>3, <3>4, <3>5
  <2>2. CASE struct[p].firstchild # NULL
    <3> DEFINE l == [struct EXCEPT ![last].nextsibling = n]
    <3>0. last \in Ptr
      BY <1>3, <1>7, <1>8, <2>2
    <3>1. struct' = [l EXCEPT ![n] = Added(id, metric)]
      BY <1>2, <1>10, <2>2
    <3>2. l \in [Ptr -> Struct]
      BY <1>1, <1>3, <3>0 DEF Struct
    <3>3. \A q \in Ptr : /\ l[q].id = struct[q].id /\ l[q].metric = struct[q].metric
                         /\ l[q].firstchild = struct[q].firstchild
                         /\ l[q].nextsibling = IF q = last THEN n ELSE struct[q].nextsibling
      <4>1. \A q \in Ptr : struct[q] \in Struct
        BY <1>3
      <4> QED  BY <1>3, <3>0, <4>1 DEF Struct
    <3> HIDE DEF l
    <3>4. struct' \in [Ptr -> Struct] /\ struct'[n] = Added(id, metric)
      BY <1>1, <1>9, <3>1, <3>2
    <3>5. \A q \in Ptr \ {n} : struct'[q] = l[q]
      BY <3>1, <3>2
    <3> QED  BY <2>2, <3>3, <3>4, <3>5
  <2> QED  BY <2>1, <2>2
<1>12. /\ nodes' \in [Id -> Ptr \cup {NULL}] /\ nodes'[id] = n /\ nodes'[parent] = p
       /\ \A i \in Id \ {id} : nodes'[i] = nodes[i]
  BY <1>1, <1>2, <1>3 DEF p
<1>13. struct'[n].nextsibling = NULL /\ struct'[n].firstchild = NULL
  BY <1>11 DEF Added, NewStruct
<1>14. Acyclic(struct')
  <2>1. \A q \in Ptr \ {n} : struct'[q].nextsibling \in {struct[q].nextsibling, n, NULL}
    BY <1>11
  <2> QED  BY <1>1, <1>3, <1>4, <1>13, <2>1, StaysAcyclic
<1>15. ASSUME NEW i \in Id \ {id, parent}
       PROVE  ChildrenOf(struct', nodes', i) = ChildrenOf(struct, nodes, i)
  <2>1. ASSUME NEW q \in Range(ChildrenOf(struct, nodes, i))
        PROVE  struct'[q].nextsibling = struct[q].nextsibling
    <3>1. q \in allocated /\ q # n /\ q \in Ptr
      BY <1>1, <1>3, <1>4, <2>1 DEF Families
    <3>2. q \notin Range(kids)
      BY <1>4, <2>1 DEF Families, kids
    <3>3. struct[p].firstchild # NULL => q # last
      BY <1>7, <1>8, <3>2
    <3> QED  BY <1>11, <3>1, <3>3
  <2>2. nodes[i] # NULL => struct'[nodes[i]].firstchild = struct[nodes[i]].firstchild
    <3> SUFFICES ASSUME nodes[i] # NULL
                 PROVE  struct'[nodes[i]].firstchild = struct[nodes[i]].firstchild
      OBVIOUS
    <3>1. nodes[i] \in allocated /\ struct[nodes[i]].id = i
      BY <1>4 DEF Found
    <3>2. nodes[i] # n /\ nodes[i] # p /\ nodes[i] \in Ptr
      BY <1>1, <1>3, <1>5, <3>1
    <3> QED  BY <1>11, <3>2
  <2> QED  BY <1>3, <1>4, <1>11, <1>12, <1>14, <2>1, <2>2, SameChildren
<1>16. ChildrenOf(struct', nodes', id) = <<>>
  <2>1. struct'[nodes'[id]].firstchild = NULL
    BY <1>12, <1>13
  <2> QED  BY <2>1, NoSiblings DEF ChildrenOf
<1>17. ChildrenOf(struct', nodes', parent) = Append(kids, n)
  <2>1. ChildrenOf(struct', nodes', parent) = Siblings(struct', struct'[p].firstchild)
    BY <1>5, <1>12, PtrFacts DEF ChildrenOf
  <2>2. CASE struct[p].firstchild = NULL
    <3>1. struct'[p].firstchild = n
      BY <1>5, <1>11, <2>2
    <3>2. Siblings(struct', n) = <<n>> \o Siblings(struct', NULL)
      BY <1>1, <1>11, <1>13, <1>14, SiblingsStep
    <3>3. <<n>> \o <<>> = <<n>> /\ Append(<<>>, n) = <<n>>
      OBVIOUS
    <3> QED  BY <1>7, <2>1, <2>2, <3>1, <3>2, <3>3, NoSiblings
  <2>3. CASE struct[p].firstchild # NULL
    <3> DEFINE c == struct[p].firstchild
    <3>1. struct'[p].firstchild = c
      BY <1>5, <1>11, <2>3
    <3>2. c \in Ptr
      BY <1>3, <1>5, <2>3, StructFields
    <3> HIDE DEF c
    <3>3. kids = Siblings(struct, c)
      BY <1>6 DEF c
    <3>4. n \notin Range(kids)
      BY <1>1, <1>4 DEF Families, kids
    <3>5. \A q \in Range(kids) : q \in Ptr /\ q # n
      BY <1>1, <1>3, <1>4 DEF Families, kids
    <3>6. \A q \in Range(kids) : struct'[q].nextsibling = IF q = last THEN n
                                                          ELSE struct[q].nextsibling
      BY <1>11, <2>3, <3>5
    <3>7. last = kids[Len(kids)]
      BY DEF last, kids
    <3>8. Siblings(struct', c) = Append(kids, n)
      BY <1>1, <1>3, <1>4, <1>11, <1>13, <1>14, <3>2, <3>3, <3>4, <3>6, <3>7, LongerList
    <3> QED  BY <2>1, <3>1, <3>8
  <2> QED  BY <2>2, <2>3
<1>18. struct'[n].id = id /\ struct'[n].metric = metric
  BY <1>11 DEF NewStruct, Added
<1>19. \A q \in allocated : struct'[q].id = struct[q].id /\ struct'[q].metric = struct[q].metric
  BY <1>1, <1>3, <1>11
<1>20. struct'[p].id = parent /\ struct'[p].metric = struct[p].metric
  BY <1>5, <1>19
<1>21. \A i \in Id : ChildrenOf(struct', nodes', i)
                       = IF i = id THEN <<>>
                         ELSE IF i = parent THEN Append(ChildrenOf(struct, nodes, i), n)
                         ELSE ChildrenOf(struct, nodes, i)
  BY <1>15, <1>16, <1>17 DEF kids
<1>22. allocated \cup {n} \subseteq allocated' /\ allocated' \subseteq Ptr /\ p \in allocated' \ {n}
  BY <1>1, <1>2, <1>3, <1>5
<1> QED  BY <1>1, <1>11, <1>12, <1>14, <1>18, <1>19, <1>20, <1>21, <1>22 DEF Grown, n, p

LEMMA Adds ==
  ASSUME Types, Heap, running = "caller",
         NEW parent \in Id, NEW id \in Id, NEW metric \in Metrics,
         add_node(parent, metric, id)
  PROVE  Grown(Fresh(allocated), parent, metric, id) /\ parent # id
<1>1. parent # id
  BY DEF add_node
<1> QED  BY <1>1, AddUnknown, AddKnown

\* The families after a node was added.
LEMMA GrownFamilies ==
  ASSUME Types, Heap, running = "caller", NEW n, NEW parent \in Id, NEW id \in Id,
         NEW metric, Grown(n, parent, metric, id), parent # id
  PROVE  Found(struct', nodes', allocated') /\ Families(struct', nodes', allocated')
<1> DEFINE K(i) == ChildrenOf(struct, nodes, i)
           J(i) == ChildrenOf(struct', nodes', i)
<1>1. Families(struct, nodes, allocated) /\ Found(struct, nodes, allocated) /\ Acyclic(struct)
  BY DEF Heap, Clearing
<1>2. struct \in [Ptr -> Struct] /\ allocated \subseteq Ptr /\ nodes \in [Id -> Ptr \cup {NULL}]
  BY DEF Types
<1>3. \A i \in Id : K(i) \in Seq(Ptr)
  BY <1>1, <1>2, ChildrenFacts
<1>4. /\ n \in Ptr /\ n \notin allocated /\ n # NULL /\ n \in allocated'
      /\ allocated \subseteq allocated'
  BY PtrFacts DEF Grown
<1>5. \A i \in Id : J(i) = IF i = id THEN <<>>
                           ELSE IF i = parent THEN Append(K(i), n) ELSE K(i)
  BY DEF Grown
<1>6. \A p \in allocated : struct'[p].id = struct[p].id
  BY DEF Grown
<1>7. /\ nodes'[id] = n /\ struct'[n].id = id /\ struct'[nodes'[parent]].id = parent
      /\ nodes'[parent] \in allocated' /\ nodes'[parent] # NULL
      /\ \A i \in Id \ {id, parent} : nodes'[i] = nodes[i]
  BY PtrFacts DEF Grown
<1> HIDE DEF K, J
<1>8. \A i \in Id : nodes[i] # NULL => nodes'[i] # NULL
  BY <1>4, <1>7
<1>9. Found(struct', nodes', allocated')
  <2> SUFFICES ASSUME NEW i \in Id, nodes'[i] # NULL
               PROVE  nodes'[i] \in allocated' /\ struct'[nodes'[i]].id = i
    BY DEF Found
  <2>1. CASE i \in {id, parent}
    BY <1>4, <1>7, <2>1
  <2>2. CASE i \notin {id, parent}
    BY <1>1, <1>4, <1>6, <1>7, <2>2 DEF Found
  <2> QED  BY <2>1, <2>2
<1>10. \A i \in Id : Range(J(i)) \subseteq Range(K(i)) \cup (IF i = parent THEN {n} ELSE {})
  <2> SUFFICES ASSUME NEW i \in Id
               PROVE  Range(J(i)) \subseteq Range(K(i)) \cup (IF i = parent THEN {n} ELSE {})
    OBVIOUS
  <2>1. CASE i = id
    <3>1. Range(<<>>) = {}
      BY DEF Range
    <3> QED  BY <1>5, <2>1, <3>1
  <2>2. CASE i = parent
    <3>0. J(i) = Append(K(i), n) /\ K(i) \in Seq(Ptr) /\ n \in Ptr
      BY <1>3, <1>4, <1>5, <2>2
    <3>1. Range(Append(K(i), n)) = Range(K(i)) \cup {n}
      BY <3>0, RangeOfAppend
    <3> QED  BY <2>2, <3>0, <3>1
  <2>3. CASE i # id /\ i # parent
    BY <1>5, <2>3
  <2> QED  BY <2>1, <2>2, <2>3
<1>11. \A i \in Id : \A p \in Range(K(i)) : p \in allocated /\ nodes[struct[p].id] # NULL
  BY <1>1 DEF Families, K
<1>12. \A i, j \in Id : i # j => Range(K(i)) \cap Range(K(j)) = {}
  BY <1>1 DEF Families, K
<1>13. ASSUME NEW i \in Id, NEW p \in Range(J(i))
       PROVE  p \in allocated' /\ nodes'[struct'[p].id] # NULL
  <2>1. CASE p = n
    BY <1>4, <1>7, <2>1
  <2>2. CASE p # n
    <3>1. p \in Range(K(i))
      BY <1>10, <2>2
    <3>2. p \in allocated /\ nodes[struct[p].id] # NULL /\ struct[p].id \in Id
      BY <1>2, <1>11, <3>1, StructFields
    <3> QED  BY <1>4, <1>6, <1>8, <3>2
  <2> QED  BY <2>1, <2>2
<1>14. ASSUME NEW i \in Id, NEW j \in Id, i # j PROVE Range(J(i)) \cap Range(J(j)) = {}
  <2>1. n \notin Range(K(i)) /\ n \notin Range(K(j))
    BY <1>4, <1>11
  <2> QED  BY <1>10, <1>12, <1>14, <2>1
<1> QED  BY <1>9, <1>13, <1>14 DEF Families, J

-----------------------------------------------------------------------------
(* One lemma per action.                                                   *)

\* Steps that do not change the tree.
LEMMA SameHeap ==
  ASSUME IInv, UNCHANGED <<struct, allocated, nodes>>,
         running' \notin Clearing \cup {"undefined"} =>
           running \notin Clearing \cup {"undefined"} \/ \A i \in Id : nodes[i] = NULL
  PROVE  Heap'
<1>1. /\ Acyclic(struct') /\ Found(struct', nodes', allocated')
      /\ running \notin Clearing \cup {"undefined"} => Families(struct', nodes', allocated')
  BY DEF IInv, Heap
<1>2. (\A i \in Id : nodes[i] = NULL) => Families(struct', nodes', allocated')
  <2> SUFFICES ASSUME \A i \in Id : nodes'[i] = NULL
               PROVE  Families(struct', nodes', allocated')
    OBVIOUS
  <2>1. \A i \in Id : ChildrenOf(struct', nodes', i) = <<>>
    BY DEF ChildrenOf
  <2>2. Range(<<>>) = {}
    BY DEF Range
  <2> QED  BY <2>1, <2>2 DEF Families
<1> QED  BY <1>1, <1>2 DEF Heap

\* No search holds anything.
LEMMA Idle ==
  ASSUME IInv, running \notin {"bfs", "children"}
  PROVE  Holds(queue, <<>>)
BY DEF IInv, Progress, SearchOf

LEMMA NoSearch ==
  ASSUME IInv, running \notin {"bfs", "children"}, UNCHANGED queue,
         running' \notin {"bfs", "children"},
         running' \in Searching => visited' = {} /\ at'.k = 0
  PROVE  Progress'
<1>1. Holds(queue', <<>>)
  BY Idle
<1>2. <<>> \in Seq(Ptr) /\ Range(<<>>) = {}
  BY DEF Range
<1>3. SearchOf(<<>>)'
  BY <1>1, <1>2 DEF SearchOf
<1>4. \A i \in Id : ~ (i < 0)
  BY TreeAssumption DEF Id
<1> QED  BY <1>2, <1>3, <1>4 DEF Progress

LEMMA EmptyStack ==
  ASSUME stack' = <<>>, running' \notin Clearing
  PROVE  Clear'
BY DEF Clear, Clearing

LEMMA Initial == Init => IInv
<1> SUFFICES ASSUME Init PROVE IInv
  OBVIOUS
<1> DEFINE r == Fresh({})
<1>0. Ptr # {} /\ 0 \in Id /\ Id \subseteq Nat
  BY TreeAssumption DEF Ptr, Id
<1>1. r \in Ptr
  BY <1>0, FreshIsFree
<1>2. /\ struct = [p \in Ptr |-> NewStruct(0, -1, NULL)]
      /\ allocated = {r}
      /\ nodes = [i \in Id |-> IF i = 0 THEN r ELSE NULL]
      /\ calculated = [i \in Id |-> -1] /\ visited = {} /\ running = "caller"
      /\ at = Start /\ stack = <<>> /\ left = Calls
  BY DEF Init
<1> HIDE DEF r
<1>3. NewStruct(0, -1, NULL) \in Struct
  BY <1>0 DEF NewStruct, Struct
<1>4. queue \in QueueType(Ptr \cup {NULL}) /\ Holds(queue, <<>>)
  <2>1. PICK placement \in Placements : queue = Empty(placement)
    BY DEF Init
  <2> QED  BY <2>1, EmptyHolds
<1>5. Types
  <2>1. at \in [k : 0..MaxId+1, id : Id, c : Ptr \cup {NULL}, kids : Nat]
    BY <1>0, <1>2, TreeAssumption DEF Start
  <2>2. running \in Functions /\ left \in Nat
    BY <1>2, TreeAssumption DEF Functions
  <2>3. stack \in Seq([n : Ptr, id : Id, c : Ptr \cup {NULL}])
    BY <1>2
  <2> QED  BY <1>1, <1>2, <1>3, <1>4, <2>1, <2>2, <2>3 DEF Types
<1>6. Heap
  <2>1. \A p \in Ptr : struct[p].nextsibling = NULL /\ struct[p].firstchild = NULL /\ struct[p].id = 0
    BY <1>2 DEF NewStruct
  <2>2. Acyclic(struct)
    <3>1. [p \in Ptr |-> 0] \in [Ptr -> 0..0] /\ 0 \in Nat
      OBVIOUS
    <3> QED  BY <2>1, <3>1 DEF Acyclic
  <2>3. Found(struct, nodes, allocated)
    BY <1>1, <1>2, <2>1 DEF Found
  <2>4. \A i \in Id : ChildrenOf(struct, nodes, i) = <<>>
    BY <1>1, <1>2, <2>1, NoSiblings DEF ChildrenOf
  <2>5. Range(<<>>) = {}
    BY DEF Range
  <2>6. Families(struct, nodes, allocated)
    BY <2>4, <2>5 DEF Families
  <2> QED  BY <2>2, <2>3, <2>6 DEF Heap
<1>7. Progress
  <2>1. <<>> \in Seq(Ptr) /\ Range(<<>>) = {}
    BY DEF Range
  <2> QED  BY <1>2, <1>4, <2>1 DEF Progress, SearchOf, Searching
<1>8. Counting /\ Clear
  BY <1>2 DEF Counting, Clear, Clearing
<1> QED  BY <1>5, <1>6, <1>7, <1>8 DEF IInv

LEMMA StutterStep == IInv /\ UNCHANGED vars => IInv'
<1> SUFFICES ASSUME IInv, UNCHANGED vars PROVE IInv'
  OBVIOUS
<1>1. Types'
  BY DEF IInv, vars, Types
<1>2. Heap'
  BY DEF IInv, vars, Heap
<1>3. Progress'
  BY DEF IInv, vars, Progress, SearchOf, Counted
<1>4. Counting' /\ Clear'
  BY DEF IInv, vars, Counting, Clear
<1> QED  BY <1>1, <1>2, <1>3, <1>4 DEF IInv

LEMMA InitStep == IInv /\ tree_init => IInv'
<1> SUFFICES ASSUME IInv, tree_init PROVE IInv'
  OBVIOUS
<1> DEFINE r == Fresh(allocated)
<1>0. 0 \in Id
  BY TreeAssumption DEF Id
<1>1. /\ r \in Ptr \ allocated
      /\ struct' = [struct EXCEPT ![r] = NewStruct(0, -1, NULL)]
      /\ allocated' = allocated \cup {r}
      /\ nodes' = [i \in Id |-> IF i = 0 THEN r ELSE NULL]
      /\ calculated' = [i \in Id |-> -1] /\ visited' = {}
      /\ running = "caller" /\ running' = "caller" /\ stack = <<>> /\ stack' = <<>>
      /\ left' \in Nat /\ UNCHANGED <<queue, at>>
  <2>1. stack = <<>>
    BY DEF tree_init, Call, IInv, Clear
  <2>2. left' \in Nat
    BY DEF tree_init, Call, IInv, Types
  <2> QED  BY <2>1, <2>2, FreshIsFree DEF tree_init, Call
<1> HIDE DEF r
<1>2. NewStruct(0, -1, NULL) \in Struct
  BY <1>0 DEF NewStruct, Struct
<1>3. struct' \in [Ptr -> Struct] /\ struct'[r] = NewStruct(0, -1, NULL)
      /\ \A p \in Ptr \ {r} : struct'[p] = struct[p]
  BY <1>1, <1>2 DEF IInv, Types
<1>4. Types'
  BY <1>0, <1>1, <1>3 DEF IInv, Types
<1>5. Heap'
  <2>1. struct'[r].nextsibling = NULL /\ struct'[r].firstchild = NULL /\ struct'[r].id = 0
    BY <1>3 DEF NewStruct
  <2>2. Acyclic(struct')
    <3>1. Acyclic(struct) /\ struct \in [Ptr -> Struct]
      BY DEF IInv, Heap, Types
    <3> QED  BY <1>1, <1>3, <2>1, <3>1, StaysAcyclic
  <2>3. Found(struct', nodes', allocated')
    BY <1>1, <2>1 DEF Found
  <2>4. \A i \in Id : ChildrenOf(struct', nodes', i) = <<>>
    <3> SUFFICES ASSUME NEW i \in Id PROVE ChildrenOf(struct', nodes', i) = <<>>
      OBVIOUS
    <3>1. nodes'[i] = NULL \/ nodes'[i] = r
      BY <1>1
    <3> QED  BY <2>1, <3>1, NoSiblings DEF ChildrenOf
  <2>5. Range(<<>>) = {}
    BY DEF Range
  <2>6. Families(struct', nodes', allocated')
    BY <2>4, <2>5 DEF Families
  <2> QED  BY <2>2, <2>3, <2>6 DEF Heap
<1>6. Progress'
  BY <1>1, NoSearch DEF Searching
<1>7. Counting' /\ Clear'
  BY <1>1, EmptyStack DEF Counting, Clearing
<1> QED  BY <1>4, <1>5, <1>6, <1>7 DEF IInv

LEMMA MetricLinks ==
  ASSUME IInv, NEW id \in Id, NEW metric \in Metrics, change_node_metric(id, metric)
  PROVE  /\ struct' \in [Ptr -> Struct] /\ Acyclic(struct')
         /\ \A p \in Ptr : /\ struct'[p].id = struct[p].id
                           /\ struct'[p].metric = IF p = nodes[id] THEN metric
                                                  ELSE struct[p].metric
         /\ \A i \in Id : ChildrenOf(struct', nodes, i) = ChildrenOf(struct, nodes, i)
<1>1. /\ struct \in [Ptr -> Struct] /\ Acyclic(struct) /\ nodes[id] \in Ptr
      /\ nodes \in [Id -> Ptr \cup {NULL}] /\ metric \in Int
      /\ struct' = [struct EXCEPT ![nodes[id]].metric = metric]
  BY TreeAssumption DEF IInv, Types, Heap, change_node_metric
<1>2. \A p \in Ptr : struct[p] \in Struct
  BY <1>1
<1>3. struct' \in [Ptr -> Struct]
  BY <1>1, <1>2 DEF Struct
<1>4. \A p \in Ptr : /\ struct'[p].id = struct[p].id
                     /\ struct'[p].metric = IF p = nodes[id] THEN metric
                                            ELSE struct[p].metric
                     /\ struct'[p].firstchild = struct[p].firstchild
                     /\ struct'[p].nextsibling = struct[p].nextsibling
  BY <1>1, <1>2 DEF Struct
<1>5. Acyclic(struct')
  BY <1>1, <1>4 DEF Acyclic
<1>6. ASSUME NEW i \in Id
      PROVE  ChildrenOf(struct', nodes, i) = ChildrenOf(struct, nodes, i)
  <2>1. ChildrenOf(struct, nodes, i) \in Seq(Ptr)
    BY <1>1, ChildrenFacts
  <2>2. \A p \in Range(ChildrenOf(struct, nodes, i)) : p \in Ptr
    BY <2>1, RangeOfSeq
  <2>3. nodes[i] # NULL => nodes[i] \in Ptr
    BY <1>1
  <2>4. nodes[i] # NULL => struct'[nodes[i]].firstchild = struct[nodes[i]].firstchild
    BY <1>4, <2>3
  <2>5. \A p \in Range(ChildrenOf(struct, nodes, i)) :
          struct'[p].nextsibling = struct[p].nextsibling
    BY <1>4, <2>2
  <2>6. struct \in [Ptr -> Struct] /\ Acyclic(struct) /\ nodes \in [Id -> Ptr \cup {NULL}]
    BY <1>1
  <2> QED  BY ONLY <1>3, <1>5, <2>4, <2>5, <2>6, i \in Id, SameChildren
<1> QED  BY <1>3, <1>4, <1>5, <1>6

LEMMA MetricStep ==
  ASSUME IInv, NEW id \in Id, NEW metric \in Metrics, change_node_metric(id, metric)
  PROVE  IInv'
<1>1. /\ running = "caller" /\ running' = "caller" /\ stack = <<>> /\ stack' = <<>>
      /\ left' \in Nat
      /\ UNCHANGED <<allocated, nodes, calculated, visited, queue, at>>
  BY DEF change_node_metric, Call, IInv, Clear, Types
<1>2. /\ struct' \in [Ptr -> Struct] /\ Acyclic(struct')
      /\ \A p \in Ptr : struct'[p].id = struct[p].id
      /\ \A i \in Id : ChildrenOf(struct', nodes, i) = ChildrenOf(struct, nodes, i)
  BY MetricLinks
<1>3. Types'
  BY <1>1, <1>2 DEF IInv, Types
<1>4. Heap'
  <2>1. /\ struct \in [Ptr -> Struct] /\ allocated \subseteq Ptr /\ Acyclic(struct)
        /\ nodes \in [Id -> Ptr \cup {NULL}]
        /\ Found(struct, nodes, allocated) /\ Families(struct, nodes, allocated)
    BY <1>1 DEF IInv, Types, Heap, Clearing
  <2>2. Found(struct', nodes', allocated')
    BY <1>1, <1>2, <2>1 DEF Found
  <2>3. \A i \in Id : \A p \in Range(ChildrenOf(struct, nodes, i)) : p \in Ptr
    BY <2>1 DEF Families
  <2>4. Families(struct', nodes', allocated')
    BY <1>1, <1>2, <2>1, <2>3 DEF Families
  <2> QED  BY <1>2, <2>2, <2>4 DEF Heap
<1>5. Progress'
  BY <1>1, NoSearch DEF Searching
<1>6. Counting' /\ Clear'
  BY <1>1, EmptyStack DEF Counting, Clearing
<1> QED  BY <1>3, <1>4, <1>5, <1>6 DEF IInv

LEMMA AddStep ==
  ASSUME IInv, NEW parent \in Id, NEW id \in Id, NEW metric \in Metrics,
         add_node(parent, metric, id)
  PROVE  IInv'
<1>1. /\ running = "caller" /\ running' = "caller" /\ stack = <<>> /\ stack' = <<>>
      /\ left' \in Nat /\ UNCHANGED <<calculated, visited, queue, at>>
  BY DEF add_node, Call, IInv, Clear, Types
<1>2. Types /\ Heap
  BY DEF IInv
<1>3. Grown(Fresh(allocated), parent, metric, id) /\ parent # id
  BY <1>1, <1>2, Adds
<1>4. /\ struct' \in [Ptr -> Struct] /\ Acyclic(struct') /\ allocated' \subseteq Ptr
      /\ nodes' \in [Id -> Ptr \cup {NULL}]
  BY <1>3 DEF Grown
<1>5. Types'
  BY <1>1, <1>2, <1>4 DEF Types
<1>6. Heap'
  BY <1>1, <1>2, <1>3, <1>4, GrownFamilies DEF Heap
<1>7. Progress'
  BY <1>1, NoSearch DEF Searching
<1>8. Counting' /\ Clear'
  BY <1>1, EmptyStack DEF Counting, Clearing
<1> QED  BY <1>5, <1>6, <1>7, <1>8 DEF IInv

LEMMA BfsStep == IInv /\ tree_bfs => IInv'
<1> SUFFICES ASSUME IInv, tree_bfs PROVE IInv'
  OBVIOUS
<1>0. 0 \in Id /\ Start \in [k : 0..MaxId+1, id : Id, c : Ptr \cup {NULL}, kids : Nat]
  BY TreeAssumption DEF Id, Start
<1>1. /\ running = "caller" /\ running' = "tree_bfs" /\ stack = <<>> /\ stack' = <<>>
      /\ left' \in Nat /\ at' = Start /\ at'.k = 0 /\ visited' = {}
      /\ UNCHANGED <<struct, allocated, nodes, calculated, queue>>
  BY DEF tree_bfs, Call, IInv, Clear, Types, Start
<1>2. Types'
  BY <1>0, <1>1 DEF IInv, Types, Functions
<1>3. Heap'
  BY <1>1, SameHeap DEF Clearing
<1>4. Progress'
  BY <1>1, NoSearch
<1>5. Counting' /\ Clear'
  BY <1>1, EmptyStack DEF Counting, Clearing
<1> QED  BY <1>2, <1>3, <1>4, <1>5 DEF IInv

LEMMA SearchFacts ==
  ASSUME IInv, running \in Searching
  PROVE  /\ struct \in [Ptr -> Struct] /\ nodes \in [Id -> Ptr \cup {NULL}]
         /\ visited \subseteq Id /\ queue \in QueueType(Ptr \cup {NULL})
         /\ at \in [k : 0..MaxId+1, id : Id, c : Ptr \cup {NULL}, kids : Nat]
         /\ at.k \in 0..MaxId+1 /\ at.id \in Id /\ at.c \in Ptr \cup {NULL} /\ at.kids \in Nat
         /\ at.k <= MaxId => at.k \in Id
         /\ at.k \in Id => at.k + 1 \in 0..MaxId+1
         /\ stack = <<>>
         /\ Acyclic(struct) /\ Found(struct, nodes, allocated)
         /\ Families(struct, nodes, allocated)
<1>1. at \in [k : 0..MaxId+1, id : Id, c : Ptr \cup {NULL}, kids : Nat]
  BY DEF IInv, Types
<1>2. at.k \in 0..MaxId+1 /\ at.id \in Id /\ at.c \in Ptr \cup {NULL} /\ at.kids \in Nat
  BY <1>1
<1>3. (at.k <= MaxId => at.k \in Id) /\ (at.k \in Id => at.k + 1 \in 0..MaxId+1)
  BY <1>2, TreeAssumption DEF Id
<1> QED  BY <1>1, <1>2, <1>3 DEF IInv, Types, Heap, Clear, Searching, Clearing

LEMMA SearchStep == IInv /\ Search => IInv'
<1> SUFFICES ASSUME IInv, Search PROVE IInv'
  OBVIOUS
<1>1. /\ running = "tree_bfs" /\ at.k <= MaxId
      /\ UNCHANGED <<struct, allocated, nodes, calculated, stack, left>>
  BY DEF Search
<1>2. /\ struct \in [Ptr -> Struct] /\ nodes \in [Id -> Ptr \cup {NULL}]
      /\ visited \subseteq Id /\ queue \in QueueType(Ptr \cup {NULL})
      /\ at \in [k : 0..MaxId+1, id : Id, c : Ptr \cup {NULL}, kids : Nat]
      /\ at.k \in Id /\ at.k + 1 \in 0..MaxId+1 /\ at.k \in 0..MaxId+1
      /\ stack = <<>> /\ Found(struct, nodes, allocated)
  BY <1>1, SearchFacts DEF Searching
<1>3. Holds(queue, <<>>)
  BY <1>1, Idle
<1>4. /\ \A i \in visited : Counted(i)
      /\ \A i \in Id : i < at.k /\ nodes[i] # NULL => i \in visited
  <2>1. PICK ns \in Seq(Ptr) : SearchOf(ns)
    BY DEF IInv, Progress
  <2>2. ns = <<>> /\ Range(<<>>) = {}
    BY <1>1, <2>1 DEF SearchOf, Range
  <2> QED  BY <1>1, <2>1, <2>2 DEF SearchOf, Searching, IInv, Progress
<1>5. \A i \in Id : Counted(i) => Counted(i)'
  BY <1>1 DEF Counted
<1>6. Id \subseteq Nat
  BY TreeAssumption DEF Id
<1>7. CASE nodes[at.k] # NULL /\ at.k \notin visited
  <2> DEFINE q == queue_init(queue)
  <2>0. PICK p \in Ptr : p = nodes[at.k]
    BY <1>2, <1>7
  <2>1. /\ running' = "bfs" /\ queue' = queue_push(q, p)
        /\ visited' = visited \cup {at.k} /\ at' = at
    BY <1>7, <2>0 DEF Search
  <2>2. p \in Ptr /\ struct[p].id = at.k
    BY <1>2, <1>7, <2>0 DEF Found
  <2>3. q \in QueueType(Ptr \cup {NULL}) /\ Holds(q, <<>>)
    BY <1>2, <1>3, InitHolds
  <2> HIDE DEF q
  <2>4. q.free # <<>>
    BY <2>3, HoldsLen
  <2>5. queue' \in QueueType(Ptr \cup {NULL}) /\ Holds(queue', Append(<<>>, p))
    BY <2>1, <2>2, <2>3, <2>4, PushHolds
  <2>6. Append(<<>>, p) = <<p>> /\ <<p>> \in Seq(Ptr) /\ Range(<<p>>) = {p}
    BY <2>2 DEF Range
  <2>7. Types'
    BY <1>1, <1>2, <2>1, <2>5 DEF IInv, Types, Functions
  <2>8. Heap'
    BY <1>1, <2>1, SameHeap DEF Clearing
  <2>9. SearchOf(<<p>>)'
    <3>1. \A x \in Range(<<p>>) : nodes'[struct'[x].id] # NULL
      BY <1>1, <1>7, <2>2, <2>6
    <3>2. \A i \in visited' : Counted(i)' \/ \E x \in Range(<<p>>) : struct'[x].id = i
      BY <1>1, <1>2, <1>4, <1>5, <2>1, <2>2, <2>6
    <3> QED  BY <2>1, <2>5, <2>6, <3>1, <3>2 DEF SearchOf
  <2>10. Progress'
    BY <1>1, <1>4, <2>1, <2>6, <2>9 DEF Progress
  <2>11. Counting' /\ Clear'
    BY <1>1, <1>2, <2>1, EmptyStack DEF Counting, Clearing
  <2> QED  BY <2>7, <2>8, <2>10, <2>11 DEF IInv
<1>8. CASE ~ (nodes[at.k] # NULL /\ at.k \notin visited)
  <2>1. /\ at' = [at EXCEPT !.k = at.k + 1]
        /\ running' = "tree_bfs" /\ UNCHANGED <<queue, visited>>
    BY <1>1, <1>8 DEF Search
  <2>2. at' \in [k : 0..MaxId+1, id : Id, c : Ptr \cup {NULL}, kids : Nat] /\ at'.k = at.k + 1
    BY <1>2, <2>1
  <2>3. Types'
    BY <1>1, <2>1, <2>2 DEF IInv, Types
  <2>4. Heap'
    BY <1>1, <2>1, SameHeap DEF Clearing
  <2>5. SearchOf(<<>>)'
    <3>1. Range(<<>>) = {}
      BY DEF Range
    <3> QED  BY <1>1, <1>2, <1>3, <1>4, <1>5, <2>1, <3>1 DEF SearchOf
  <2>6. \A i \in Id : i < at'.k /\ nodes'[i] # NULL => i \in visited'
    <3> SUFFICES ASSUME NEW i \in Id, i < at.k + 1, nodes[i] # NULL PROVE i \in visited
      BY <1>1, <2>1, <2>2
    <3>1. i < at.k \/ i = at.k
      BY <1>2, <1>6
    <3> QED  BY <1>4, <1>8, <3>1
  <2>7. Progress'
    <3>1. <<>> \in Seq(Ptr)
      OBVIOUS
    <3> QED  BY <2>1, <2>5, <2>6, <3>1 DEF Progress
  <2>8. Counting' /\ Clear'
    BY <1>1, <1>2, <2>1, EmptyStack DEF Counting, Clearing
  <2> QED  BY <2>3, <2>4, <2>7, <2>8 DEF IInv
<1> QED  BY <1>7, <1>8

LEMMA DequeueStep == IInv /\ Dequeue => IInv'
<1> SUFFICES ASSUME IInv, Dequeue PROVE IInv'
  OBVIOUS
<1>1. /\ running = "bfs"
      /\ UNCHANGED <<struct, allocated, nodes, calculated, visited, stack, left>>
  BY DEF Dequeue
<1>2. /\ struct \in [Ptr -> Struct] /\ nodes \in [Id -> Ptr \cup {NULL}]
      /\ visited \subseteq Id /\ queue \in QueueType(Ptr \cup {NULL})
      /\ at \in [k : 0..MaxId+1, id : Id, c : Ptr \cup {NULL}, kids : Nat]
      /\ stack = <<>> /\ Acyclic(struct) /\ Found(struct, nodes, allocated)
  BY <1>1, SearchFacts DEF Searching
<1>3. PICK ns \in Seq(Ptr) : SearchOf(ns)
  BY DEF IInv, Progress
<1>4. /\ Holds(queue, ns)
      /\ \A p \in Range(ns) : nodes[struct[p].id] # NULL
      /\ \A i \in visited : Counted(i) \/ \E p \in Range(ns) : struct[p].id = i
      /\ \A i \in Id : i < at.k /\ nodes[i] # NULL => i \in visited
      /\ at.k \in visited
  BY <1>1, <1>3 DEF SearchOf, Searching, IInv, Progress
<1>5. \A i \in Id : Counted(i) => Counted(i)'
  BY <1>1 DEF Counted
<1>6. Id \subseteq Nat /\ at.k \in Id /\ at.k \in Nat /\ at.k + 1 \in 0..MaxId+1
  <2>1. at.k \in Id
    BY <1>2, <1>4
  <2> QED  BY <2>1, TreeAssumption DEF Id
<1>7. Len(ns) = queue.elements /\ queue.elements \in Nat
  BY <1>2, <1>4, HoldsLen
<1>8. CASE queue.elements > 0
  <2>1. ns # <<>> /\ First(queue) = Head(ns)
        /\ queue_dequeue(queue) \in QueueType(Ptr \cup {NULL})
        /\ Holds(queue_dequeue(queue), Tail(ns))
    BY <1>2, <1>4, <1>8, DequeueHolds
  <2>2. PICK p \in Ptr : p = Head(ns)
    BY <2>1
  <2>3. /\ Tail(ns) \in Seq(Ptr) /\ p \in Range(ns) /\ Range(Tail(ns)) \subseteq Range(ns)
        /\ Range(ns) \subseteq {p} \cup Range(Tail(ns))
    <3>1. Tail(ns) \in Seq(Ptr) /\ Len(Tail(ns)) = Len(ns) - 1
          /\ \A j \in 1..Len(Tail(ns)) : Tail(ns)[j] = ns[j + 1]
      BY <2>1, HeadTailProperties
    <3>2. ns[1] = p /\ Len(ns) \in Nat \ {0} /\ DOMAIN ns = 1..Len(ns)
          /\ DOMAIN Tail(ns) = 1..Len(Tail(ns))
      BY <2>1, <2>2, <3>1
    <3>3. p \in Range(ns)
      BY <3>2 DEF Range
    <3>4. Range(Tail(ns)) \subseteq Range(ns)
      <4> SUFFICES ASSUME NEW j \in 1..Len(Tail(ns)) PROVE Tail(ns)[j] \in Range(ns)
        BY <3>2 DEF Range
      <4>1. j + 1 \in DOMAIN ns
        BY <3>1, <3>2
      <4> QED  BY <3>1, <4>1 DEF Range
    <3>5. Range(ns) \subseteq {p} \cup Range(Tail(ns))
      <4> SUFFICES ASSUME NEW j \in 1..Len(ns), j # 1 PROVE ns[j] \in Range(Tail(ns))
        BY <3>2 DEF Range
      <4>1. j - 1 \in 1..Len(Tail(ns)) /\ (j - 1) + 1 = j
        BY <3>1, <3>2
      <4>2. Tail(ns)[j - 1] = ns[j]
        BY <3>1, <4>1
      <4> QED  BY <3>2, <4>1, <4>2 DEF Range
    <3> QED  BY <3>1, <3>3, <3>4, <3>5
  <2>4. PICK id \in Id : id = struct[p].id
    BY <1>2, StructFields
  <2>5. nodes[id] # NULL /\ nodes[id] \in Ptr
    BY <1>2, <1>4, <2>3, <2>4
  <2>6. PICK c \in Ptr \cup {NULL} : c = struct[nodes[id]].firstchild
    BY <1>2, <2>5, StructFields
  <2>7. /\ running' = "children" /\ queue' = queue_dequeue(queue)
        /\ at' = [at EXCEPT !.id = id, !.c = c, !.kids = 0]
    BY <1>8, <2>1, <2>2, <2>4, <2>6 DEF Dequeue
  <2>8. /\ at' \in [k : 0..MaxId+1, id : Id, c : Ptr \cup {NULL}, kids : Nat]
        /\ at'.k = at.k /\ at'.id = id /\ at'.c = c /\ at'.kids = 0
    BY <1>2, <2>7
  <2>9. Types'
    BY <1>1, <2>1, <2>7, <2>8 DEF IInv, Types, Functions
  <2>10. Heap'
    BY <1>1, <2>7, SameHeap DEF Clearing
  <2>11. SearchOf(Tail(ns))'
    <3>1. \A i \in visited' : \/ Counted(i)' \/ at'.id = i
                              \/ \E q \in Range(Tail(ns)) : struct'[q].id = i
      BY <1>1, <1>2, <1>4, <1>5, <2>3, <2>4, <2>8
    <3> QED  BY <1>1, <1>4, <2>1, <2>3, <2>7, <3>1 DEF SearchOf
  <2>12. Progress'
    BY <1>1, <1>4, <2>3, <2>7, <2>8, <2>11 DEF Progress
  <2>13. Counting'
    <3> DEFINE kids == ChildrenOf(struct, nodes, id)
    <3>1. kids \in Seq(Ptr) /\ IsList(struct, c, kids)
      BY <1>2, <2>5, <2>6, ChildrenFacts
    <3> HIDE DEF kids
    <3>2. c = (IF 0 = Len(kids) THEN NULL ELSE kids[0 + 1]) /\ 0 \in 0..Len(kids)
      BY <3>1 DEF IsList
    <3> QED  BY <1>1, <2>5, <2>8, <3>2 DEF Counting, kids
  <2>14. Clear'
    BY <1>1, <1>2, <2>7, EmptyStack DEF Clearing
  <2> QED  BY <2>9, <2>10, <2>12, <2>13, <2>14 DEF IInv
<1>9. CASE ~ (queue.elements > 0)
  <2>1. ns = <<>> /\ Range(<<>>) = {} /\ <<>> \in Seq(Ptr)
    BY <1>7, <1>9 DEF Range
  <2>2. /\ running' = "tree_bfs" /\ at' = [at EXCEPT !.k = at.k + 1] /\ queue' = queue
    BY <1>9 DEF Dequeue
  <2>3. /\ at' \in [k : 0..MaxId+1, id : Id, c : Ptr \cup {NULL}, kids : Nat]
        /\ at'.k = at.k + 1
    BY <1>2, <1>6, <2>2
  <2>4. Types'
    BY <1>1, <2>2, <2>3 DEF IInv, Types, Functions
  <2>5. Heap'
    BY <1>1, <2>2, SameHeap DEF Clearing
  <2>6. SearchOf(<<>>)'
    BY <1>1, <1>2, <1>4, <1>5, <2>1, <2>2 DEF SearchOf
  <2>7. \A i \in Id : i < at'.k /\ nodes'[i] # NULL => i \in visited'
    <3> SUFFICES ASSUME NEW i \in Id, i < at.k + 1, nodes[i] # NULL PROVE i \in visited
      BY <1>1, <2>3
    <3>1. i < at.k \/ i = at.k
      BY <1>6
    <3> QED  BY <1>4, <3>1
  <2>8. Progress'
    BY <2>1, <2>2, <2>6, <2>7 DEF Progress
  <2>9. Counting' /\ Clear'
    BY <1>1, <1>2, <2>2, EmptyStack DEF Counting, Clearing
  <2> QED  BY <2>4, <2>5, <2>8, <2>9 DEF IInv
<1> QED  BY <1>8, <1>9

\* What the loop over the children of at.id has before it.
LEMMA ChildFacts ==
  ASSUME IInv, running = "children"
  PROVE  LET kids == ChildrenOf(struct, nodes, at.id)
         IN  /\ kids \in Seq(Ptr) /\ nodes[at.id] # NULL
             /\ at.c = NULL => at.kids = Len(kids)
             /\ at.c # NULL =>
                  /\ at.c \in Range(kids) /\ at.kids + 1 \in 0..Len(kids)
                  /\ struct[at.c].nextsibling =
                       IF at.kids + 1 = Len(kids) THEN NULL ELSE kids[(at.kids + 1) + 1]
<1> DEFINE kids == ChildrenOf(struct, nodes, at.id)
<1>1. /\ struct \in [Ptr -> Struct] /\ nodes \in [Id -> Ptr \cup {NULL}]
      /\ at.id \in Id /\ Acyclic(struct)
  BY SearchFacts DEF Searching
<1>2. /\ nodes[at.id] # NULL /\ at.kids \in 0..Len(kids)
      /\ at.c = IF at.kids = Len(kids) THEN NULL ELSE kids[at.kids + 1]
  BY DEF IInv, Counting
<1>3. kids \in Seq(Ptr) /\ IsList(struct, struct[nodes[at.id]].firstchild, kids)
  BY <1>1, <1>2, ChildrenFacts
<1> HIDE DEF kids
<1>4. Len(kids) \in Nat /\ DOMAIN kids = 1..Len(kids)
  BY <1>3
<1>5. ASSUME at.kids # Len(kids)
      PROVE  /\ at.c # NULL /\ at.c \in Range(kids) /\ at.kids + 1 \in 0..Len(kids)
             /\ struct[at.c].nextsibling =
                  IF at.kids + 1 = Len(kids) THEN NULL ELSE kids[(at.kids + 1) + 1]
  <2>1. at.c = kids[at.kids + 1]
    BY <1>2, <1>5
  <2>2. at.kids + 1 \in 1..Len(kids) /\ at.kids + 1 \in 0..Len(kids)
        /\ kids # <<>> /\ (at.kids + 1 # Len(kids) => at.kids + 1 \in 1..Len(kids)-1)
    BY <1>2, <1>4, <1>5
  <2>3. at.c \in Ptr /\ at.c \in Range(kids)
    BY <1>3, <1>4, <2>1, <2>2 DEF Range
  <2>4. at.c # NULL
    BY <2>3, PtrFacts
  <2>5. struct[at.c].nextsibling =
          IF at.kids + 1 = Len(kids) THEN NULL ELSE kids[(at.kids + 1) + 1]
    <3>1. CASE at.kids + 1 = Len(kids)
      BY <1>3, <2>1, <2>2, <3>1 DEF IsList
    <3>2. CASE at.kids + 1 # Len(kids)
      BY <1>3, <2>1, <2>2, <3>2 DEF IsList
    <3> QED  BY <3>1, <3>2
  <2> QED  BY <2>2, <2>3, <2>4, <2>5
<1>6. at.kids = Len(kids) => at.c = NULL
  BY <1>2
<1> QED  BY <1>2, <1>3, <1>5, <1>6 DEF kids

LEMMA ChildStep == IInv /\ Child => IInv'
<1> SUFFICES ASSUME IInv, Child PROVE IInv'
  OBVIOUS
<1>1. /\ running = "children" /\ running' = "children" /\ at.c # NULL /\ queue.free # <<>>
      /\ visited' = visited \cup {struct[at.c].id} /\ queue' = queue_push(queue, at.c)
      /\ at' = [at EXCEPT !.kids = at.kids + 1, !.c = struct[at.c].nextsibling]
      /\ UNCHANGED <<struct, allocated, nodes, calculated, stack, left>>
  BY DEF Child, Kids
<1>2. /\ struct \in [Ptr -> Struct] /\ nodes \in [Id -> Ptr \cup {NULL}]
      /\ visited \subseteq Id /\ queue \in QueueType(Ptr \cup {NULL})
      /\ at \in [k : 0..MaxId+1, id : Id, c : Ptr \cup {NULL}, kids : Nat]
      /\ at.id \in Id /\ at.kids \in Nat
      /\ stack = <<>> /\ Families(struct, nodes, allocated)
  BY <1>1, SearchFacts DEF Searching
<1> DEFINE kids == ChildrenOf(struct, nodes, at.id)
<1>3. /\ kids \in Seq(Ptr) /\ nodes[at.id] # NULL
      /\ at.c \in Range(kids) /\ at.kids + 1 \in 0..Len(kids)
      /\ struct[at.c].nextsibling =
           IF at.kids + 1 = Len(kids) THEN NULL ELSE kids[(at.kids + 1) + 1]
  BY <1>1, ChildFacts
<1>4. at.c \in Ptr /\ nodes[struct[at.c].id] # NULL
  BY <1>2, <1>3, RangeOfSeq DEF Families
<1>5. PICK c \in Ptr : c = at.c
  BY <1>4
<1> HIDE DEF kids
<1>6. PICK ns \in Seq(Ptr) : SearchOf(ns)
  BY DEF IInv, Progress
<1>7. /\ Holds(queue, ns)
      /\ \A p \in Range(ns) : nodes[struct[p].id] # NULL
      /\ \A i \in visited : \/ Counted(i) \/ at.id = i
                            \/ \E p \in Range(ns) : struct[p].id = i
      /\ \A i \in Id : i < at.k /\ nodes[i] # NULL => i \in visited
      /\ at.k \in visited
  BY <1>1, <1>6 DEF SearchOf, Searching, IInv, Progress
<1>8. \A i \in Id : Counted(i) => Counted(i)'
  BY <1>1 DEF Counted
<1>9. queue' \in QueueType(Ptr \cup {NULL}) /\ Holds(queue', Append(ns, c))
  BY <1>1, <1>2, <1>5, <1>7, PushHolds
<1>10. Append(ns, c) \in Seq(Ptr) /\ Range(Append(ns, c)) = Range(ns) \cup {c}
  BY RangeOfAppend
<1>11. /\ struct[c].id \in Id /\ struct[c].nextsibling \in Ptr \cup {NULL}
  BY <1>2, StructFields
<1>12. /\ at' \in [k : 0..MaxId+1, id : Id, c : Ptr \cup {NULL}, kids : Nat]
       /\ at'.k = at.k /\ at'.id = at.id /\ at'.kids = at.kids + 1
       /\ at'.c = struct[c].nextsibling
  <2>1. PICK d \in Ptr \cup {NULL} : d = struct[c].nextsibling
    BY <1>11
  <2>2. PICK m \in Nat : m = at.kids + 1
    BY <1>2
  <2>3. at' = [at EXCEPT !.kids = m, !.c = d]
    BY <1>1, <1>5, <2>1, <2>2
  <2>4. at' \in [k : 0..MaxId+1, id : Id, c : Ptr \cup {NULL}, kids : Nat]
        /\ at'.k = at.k /\ at'.id = at.id /\ at'.kids = m /\ at'.c = d
    BY <1>2, <2>3
  <2> QED  BY <2>1, <2>2, <2>4
<1>13. Types'
  BY <1>1, <1>2, <1>5, <1>9, <1>11, <1>12 DEF IInv, Types
<1>14. Heap'
  BY <1>1, SameHeap DEF Clearing
<1>15. SearchOf(Append(ns, c))'
  <2>1. \A i \in visited' : \/ Counted(i)' \/ at'.id = i
                            \/ \E p \in Range(Append(ns, c)) : struct'[p].id = i
    BY <1>1, <1>2, <1>5, <1>7, <1>8, <1>10, <1>12
  <2>2. \A p \in Range(Append(ns, c)) : nodes'[struct'[p].id] # NULL
    BY <1>1, <1>4, <1>5, <1>7, <1>10
  <2> QED  BY <1>1, <1>9, <2>1, <2>2 DEF SearchOf
<1>16. Progress'
  BY <1>1, <1>7, <1>10, <1>12, <1>15 DEF Progress
<1>17. Counting'
  BY <1>1, <1>3, <1>5, <1>12 DEF Counting, kids
<1>18. Clear'
  BY <1>1, <1>2, EmptyStack DEF Clearing
<1> QED  BY <1>13, <1>14, <1>16, <1>17, <1>18 DEF IInv

LEMMA CalculateStep == IInv /\ Calculate => IInv'
<1> SUFFICES ASSUME IInv, Calculate PROVE IInv'
  OBVIOUS
<1>1. /\ running = "children" /\ running' = "bfs" /\ at.c = NULL
      /\ calculated' = [calculated EXCEPT ![at.id] = at.kids]
      /\ UNCHANGED <<struct, allocated, nodes, visited, queue, at, stack, left>>
  BY DEF Calculate
<1>2. /\ visited \subseteq Id /\ at.id \in Id /\ at.kids \in Nat /\ stack = <<>>
      /\ calculated \in [Id -> Int]
  BY <1>1, SearchFacts DEF Searching, IInv, Types
<1>3. at.kids = Len(ChildrenOf(struct, nodes, at.id))
  BY <1>1, ChildFacts
<1>4. Types'
  BY <1>1, <1>2 DEF IInv, Types, Functions
<1>5. Heap'
  BY <1>1, SameHeap DEF Clearing
<1>6. Counted(at.id)' /\ \A i \in Id : Counted(i) => Counted(i)'
  BY <1>1, <1>2, <1>3 DEF Counted
<1>7. PICK ns \in Seq(Ptr) : SearchOf(ns)
  BY DEF IInv, Progress
<1>8. SearchOf(ns)'
  <2>1. /\ Holds(queue, ns)
        /\ \A p \in Range(ns) : nodes[struct[p].id] # NULL
        /\ \A i \in visited : \/ Counted(i) \/ at.id = i
                              \/ \E p \in Range(ns) : struct[p].id = i
    BY <1>1, <1>7 DEF SearchOf, Searching
  <2>2. \A i \in Id : at.id = i => Counted(i)'
    BY <1>1, <1>2, <1>3 DEF Counted
  <2>3. \A i \in visited' : Counted(i)' \/ \E p \in Range(ns) : struct'[p].id = i
    BY <1>1, <1>2, <1>6, <2>1, <2>2
  <2> QED  BY <1>1, <2>1, <2>3 DEF SearchOf
<1>9. Progress'
  <2>1. (\A i \in Id : i < at.k /\ nodes[i] # NULL => i \in visited) /\ at.k \in visited
    BY <1>1 DEF IInv, Progress, Searching
  <2> QED  BY <1>1, <1>8, <2>1 DEF Progress
<1>10. Counting' /\ Clear'
  BY <1>1, <1>2, EmptyStack DEF Counting, Clearing
<1> QED  BY <1>4, <1>5, <1>9, <1>10 DEF IInv

LEMMA ClearTreeStep == IInv /\ clear_tree => IInv'
<1> SUFFICES ASSUME IInv, clear_tree PROVE IInv'
  OBVIOUS
<1>0. 0 \in Id /\ Start \in [k : 0..MaxId+1, id : Id, c : Ptr \cup {NULL}, kids : Nat]
      /\ \A i \in Id : ~ (i < 0)
  BY TreeAssumption DEF Id, Start
<1>1. /\ running = "caller" /\ running' = "clear_tree" /\ stack = <<>> /\ stack' = <<>>
      /\ left' \in Nat /\ at' = Start /\ at'.k = 0 /\ visited' = {}
      /\ UNCHANGED <<struct, allocated, nodes, calculated, queue>>
  BY DEF clear_tree, Call, IInv, Clear, Types, Start
<1>2. Types'
  BY <1>0, <1>1 DEF IInv, Types, Functions
<1>3. Heap'
  BY <1>1, SameHeap DEF Clearing
<1>4. Progress'
  BY <1>1, NoSearch DEF Searching
<1>5. Counting' /\ Clear'
  BY <1>0, <1>1 DEF Counting, Clear, Clearing
<1> QED  BY <1>2, <1>3, <1>4, <1>5 DEF IInv

LEMMA ClearFacts ==
  ASSUME IInv, running \in Clearing
  PROVE  /\ struct \in [Ptr -> Struct] /\ nodes \in [Id -> Ptr \cup {NULL}]
         /\ allocated \subseteq Ptr /\ visited \subseteq Id
         /\ at \in [k : 0..MaxId+1, id : Id, c : Ptr \cup {NULL}, kids : Nat]
         /\ at.k \in 0..MaxId+1 /\ (at.k <= MaxId => at.k \in Id)
         /\ at.k \in Id =>
              [at EXCEPT !.k = at.k + 1]
                \in [k : 0..MaxId+1, id : Id, c : Ptr \cup {NULL}, kids : Nat]
         /\ Id \subseteq Nat
         /\ stack \in Seq([n : Ptr, id : Id, c : Ptr \cup {NULL}])
         /\ Acyclic(struct) /\ Found(struct, nodes, allocated)
         /\ \A j \in DOMAIN stack : stack[j].id = struct[stack[j].n].id
         /\ \A i \in visited : nodes[i] = NULL \/ \E j \in DOMAIN stack : stack[j].id = i
         /\ \A i \in Id : i < at.k => nodes[i] = NULL
<1>1. at \in [k : 0..MaxId+1, id : Id, c : Ptr \cup {NULL}, kids : Nat]
  BY DEF IInv, Types
<1>2. at.k \in 0..MaxId+1
  BY <1>1
<1>3. (at.k <= MaxId => at.k \in Id) /\ (at.k \in Id => at.k + 1 \in 0..MaxId+1)
      /\ Id \subseteq Nat
  BY <1>2, TreeAssumption DEF Id
<1>4. at.k \in Id =>
        [at EXCEPT !.k = at.k + 1]
          \in [k : 0..MaxId+1, id : Id, c : Ptr \cup {NULL}, kids : Nat]
  BY <1>1, <1>3
<1> QED  BY <1>1, <1>2, <1>3, <1>4 DEF IInv, Types, Heap, Clear

LEMMA ActivationFacts ==
  ASSUME struct \in [Ptr -> Struct], NEW n \in Ptr
  PROVE  /\ Activation(n) \in [n : Ptr, id : Id, c : Ptr \cup {NULL}]
         /\ Activation(n).n = n /\ Activation(n).id = struct[n].id
BY StructFields DEF Activation

LEMMA ClearFromStep == IInv /\ ClearFrom => IInv'
<1> SUFFICES ASSUME IInv, ClearFrom PROVE IInv'
  OBVIOUS
<1>1. /\ running = "clear_tree" /\ at.k <= MaxId
      /\ UNCHANGED <<struct, allocated, nodes, calculated, queue, left>>
  BY DEF ClearFrom
<1>2. stack = <<>>
  BY <1>1 DEF IInv, Clear
<1>3. /\ struct \in [Ptr -> Struct] /\ nodes \in [Id -> Ptr \cup {NULL}]
      /\ at.k \in Id /\ visited \subseteq Id /\ Id \subseteq Nat
      /\ Found(struct, nodes, allocated)
      /\ [at EXCEPT !.k = at.k + 1]
           \in [k : 0..MaxId+1, id : Id, c : Ptr \cup {NULL}, kids : Nat]
      /\ at \in [k : 0..MaxId+1, id : Id, c : Ptr \cup {NULL}, kids : Nat]
      /\ \A i \in visited : nodes[i] = NULL
      /\ \A i \in Id : i < at.k => nodes[i] = NULL
  BY <1>1, <1>2, ClearFacts DEF Clearing
<1>4. CASE nodes[at.k] # NULL /\ at.k \notin visited
  <2>1. PICK n \in Ptr : n = nodes[at.k]
    BY <1>3, <1>4
  <2>2. PICK a \in [n : Ptr, id : Id, c : Ptr \cup {NULL}] : a = Activation(n)
    BY <1>3, ActivationFacts
  <2>3. a.n = n /\ a.id = struct[n].id /\ a.id = at.k
    BY <1>3, <1>4, <2>1, <2>2, ActivationFacts DEF Found
  <2>4. /\ running' = "dfs_clear" /\ stack' = <<a>> /\ visited' = visited \cup {at.k}
        /\ at' = at
    BY <1>4, <2>1, <2>2 DEF ClearFrom
  <2>5. /\ stack' \in Seq([n : Ptr, id : Id, c : Ptr \cup {NULL}]) /\ DOMAIN stack' = {1}
        /\ stack'[1] = a /\ Len(stack') = 1 /\ stack' # <<>>
    BY <2>4
  <2>6. Types'
    BY <1>1, <1>3, <2>4, <2>5 DEF IInv, Types, Functions
  <2>7. Heap'
    BY <1>1, <2>4, SameHeap DEF Clearing
  <2>8. Progress'
    BY <1>1, <2>4, NoSearch DEF Searching
  <2>9. Counting'
    BY <2>4 DEF Counting
  <2>10. Clear'
    BY <1>1, <1>3, <2>3, <2>4, <2>5 DEF Clear
  <2> QED  BY <2>6, <2>7, <2>8, <2>9, <2>10 DEF IInv
<1>5. CASE ~ (nodes[at.k] # NULL /\ at.k \notin visited)
  <2>1. /\ running' = "clear_tree" /\ stack' = <<>> /\ visited' = visited
        /\ at' = [at EXCEPT !.k = at.k + 1]
    BY <1>1, <1>2, <1>5 DEF ClearFrom
  <2>2. at'.k = at.k + 1
        /\ at' \in [k : 0..MaxId+1, id : Id, c : Ptr \cup {NULL}, kids : Nat]
    BY <1>3, <2>1
  <2>3. Types'
    <3>1. stack' \in Seq([n : Ptr, id : Id, c : Ptr \cup {NULL}])
      BY <2>1
    <3> QED  BY <1>1, <2>1, <2>2, <3>1 DEF IInv, Types
  <2>4. Heap'
    BY <1>1, <2>1, SameHeap DEF Clearing
  <2>5. Progress'
    BY <1>1, <2>1, NoSearch DEF Searching
  <2>6. Counting'
    BY <2>1 DEF Counting
  <2>7. \A i \in Id : i < at'.k => nodes'[i] = NULL
    <3> SUFFICES ASSUME NEW i \in Id, i < at.k + 1 PROVE nodes[i] = NULL
      BY <1>1, <2>2
    <3>1. i < at.k \/ i = at.k
      BY <1>3
    <3> QED  BY <1>3, <1>5, <3>1
  <2>8. Clear'
    <3>1. DOMAIN stack' = {}
      BY <2>1
    <3> QED  BY <1>1, <1>3, <2>1, <2>7, <3>1 DEF Clear
  <2> QED  BY <2>3, <2>4, <2>5, <2>6, <2>8 DEF IInv
<1> QED  BY <1>4, <1>5

LEMMA ClearChildStep == IInv /\ ClearChild => IInv'
<1> SUFFICES ASSUME IInv, ClearChild PROVE IInv'
  OBVIOUS
<1>1. /\ running = "dfs_clear" /\ running' = "dfs_clear" /\ Head(stack).c # NULL
      /\ visited' = visited \cup {struct[Head(stack).c].id}
      /\ stack' = <<Activation(Head(stack).c)>> \o stack
      /\ UNCHANGED <<struct, allocated, nodes, calculated, queue, at, left>>
  BY DEF ClearChild
<1>2. /\ struct \in [Ptr -> Struct] /\ visited \subseteq Id
      /\ stack \in Seq([n : Ptr, id : Id, c : Ptr \cup {NULL}])
      /\ \A j \in DOMAIN stack : stack[j].id = struct[stack[j].n].id
      /\ \A i \in visited : nodes[i] = NULL \/ \E j \in DOMAIN stack : stack[j].id = i
      /\ \A i \in Id : i < at.k => nodes[i] = NULL
  BY <1>1, ClearFacts DEF Clearing
<1>3. stack # <<>> /\ stack[Len(stack)].id = at.k /\ at.k \in visited
  BY <1>1 DEF IInv, Clear
<1>4. Head(stack).c \in Ptr
  <2> DEFINE T == [n : Ptr, id : Id, c : Ptr \cup {NULL}]
  <2>1. stack \in Seq(T) /\ stack # <<>>
    BY <1>2, <1>3
  <2>2. Head(stack) \in T
    <3> HIDE DEF T
    <3> QED  BY ONLY <2>1
  <2>3. Head(stack).c \in Ptr \cup {NULL}
    BY ONLY <2>2
  <2> QED  BY <1>1, <2>3
<1>5. PICK c \in Ptr : c = Head(stack).c
  BY <1>4
<1>6. PICK a \in [n : Ptr, id : Id, c : Ptr \cup {NULL}] : a = Activation(c)
  BY <1>2, ActivationFacts
<1>7. a.n = c /\ a.id = struct[c].id
  BY <1>2, <1>6, ActivationFacts
<1>8. stack' = <<a>> \o stack
  BY <1>1, <1>5, <1>6
<1>9. /\ stack' \in Seq([n : Ptr, id : Id, c : Ptr \cup {NULL}])
      /\ Len(stack') = Len(stack) + 1 /\ stack'[1] = a
      /\ \A j \in 1..Len(stack) : stack'[j + 1] = stack[j]
      /\ Len(stack) \in Nat /\ stack' # <<>>
      /\ DOMAIN stack = 1..Len(stack) /\ DOMAIN stack' = 1..Len(stack)+1
  <2> DEFINE T == [n : Ptr, id : Id, c : Ptr \cup {NULL}]
  <2>1. a \in T /\ stack \in Seq(T)
    BY <1>2
  <2> HIDE DEF T
  <2>2. <<a>> \in Seq(T) /\ Len(<<a>>) = 1 /\ <<a>>[1] = a
    BY <2>1
  <2>3. Len(stack) \in Nat /\ DOMAIN stack = 1..Len(stack)
    BY <2>1
  <2>4. /\ stack' \in Seq(T) /\ Len(stack') = 1 + Len(stack)
        /\ \A j \in 1..1+Len(stack) :
             stack'[j] = IF j <= 1 THEN <<a>>[j] ELSE stack[j - 1]
    BY <1>8, <2>1, <2>2, ConcatProperties
  <2>5. DOMAIN stack' = 1..Len(stack)+1 /\ 1 \in 1..1+Len(stack) /\ stack' # <<>>
    BY <2>3, <2>4
  <2>6. ASSUME NEW j \in 1..Len(stack) PROVE stack'[j + 1] = stack[j]
    <3>1. j + 1 \in 1..1+Len(stack) /\ ~ (j + 1 <= 1) /\ (j + 1) - 1 = j
      BY <2>3
    <3> QED  BY <2>4, <3>1
  <2>7. stack'[1] = a
    BY <2>2, <2>4, <2>5
  <2> QED  BY <2>3, <2>4, <2>5, <2>6, <2>7 DEF T
<1>10. struct[c].id \in Id
  BY <1>2, StructFields
<1>11. Types'
  BY <1>1, <1>2, <1>5, <1>9, <1>10 DEF IInv, Types
<1>12. Heap'
  BY <1>1, SameHeap DEF Clearing
<1>13. Progress'
  BY <1>1, NoSearch DEF Searching
<1>14. Counting'
  BY <1>1 DEF Counting
<1>15. Clear'
  <2>1. ASSUME NEW j \in DOMAIN stack' PROVE stack'[j].id = struct'[stack'[j].n].id
    <3>1. CASE j = 1
      BY <1>1, <1>7, <1>9, <3>1
    <3>2. CASE j # 1
      <4>1. j - 1 \in 1..Len(stack) /\ (j - 1) + 1 = j
        BY <1>9, <3>2
      <4>2. stack'[j] = stack[j - 1]
        BY <1>9, <4>1
      <4> QED  BY <1>1, <1>2, <1>9, <4>1, <4>2
    <3> QED  BY <3>1, <3>2
  <2>2. ASSUME NEW i \in visited'
        PROVE  nodes'[i] = NULL \/ \E j \in DOMAIN stack' : stack'[j].id = i
    <3>1. CASE i = struct[c].id
      <4>1. 1 \in DOMAIN stack'
        BY <1>9
      <4> QED  BY <1>7, <1>9, <3>1, <4>1
    <3>2. CASE i \in visited
      <4>1. \A j \in DOMAIN stack : j + 1 \in DOMAIN stack' /\ stack'[j + 1] = stack[j]
        BY <1>9
      <4>2. nodes' = nodes
        BY <1>1
      <4>3. CASE nodes[i] = NULL
        BY <4>2, <4>3
      <4>4. CASE nodes[i] # NULL
        <5>1. PICK j \in DOMAIN stack : stack[j].id = i
          BY <1>2, <3>2, <4>4
        <5> QED  BY <4>1, <5>1
      <4> QED  BY <4>3, <4>4
    <3> QED  BY <1>1, <1>5, <3>1, <3>2
  <2>3. stack'[Len(stack')].id = at'.k /\ at'.k \in visited'
    <3>1. Len(stack) \in 1..Len(stack)
      BY <1>2, <1>3
    <3> QED  BY <1>1, <1>3, <1>9, <3>1
  <2> QED  BY <1>1, <1>2, <1>9, <2>1, <2>2, <2>3 DEF Clear
<1> QED  BY <1>11, <1>12, <1>13, <1>14, <1>15 DEF IInv

LEMMA FreeStep == IInv /\ FreeNode => IInv'
<1> SUFFICES ASSUME IInv, FreeNode PROVE IInv'
  OBVIOUS
<1> DEFINE T == [n : Ptr, id : Id, c : Ptr \cup {NULL}]
<1>1. running = "dfs_clear" /\ UNCHANGED <<struct, calculated, visited, queue, left>>
  BY DEF FreeNode
<1>2. /\ struct \in [Ptr -> Struct] /\ nodes \in [Id -> Ptr \cup {NULL}]
      /\ allocated \subseteq Ptr /\ visited \subseteq Id /\ Id \subseteq Nat
      /\ at \in [k : 0..MaxId+1, id : Id, c : Ptr \cup {NULL}, kids : Nat]
      /\ stack \in Seq(T) /\ Acyclic(struct) /\ Found(struct, nodes, allocated)
      /\ \A j \in DOMAIN stack : stack[j].id = struct[stack[j].n].id
      /\ \A i \in visited : nodes[i] = NULL \/ \E j \in DOMAIN stack : stack[j].id = i
      /\ \A i \in Id : i < at.k => nodes[i] = NULL
      /\ at.k \in Id =>
           [at EXCEPT !.k = at.k + 1]
             \in [k : 0..MaxId+1, id : Id, c : Ptr \cup {NULL}, kids : Nat]
  BY <1>1, ClearFacts DEF Clearing
<1>3. stack # <<>> /\ stack[Len(stack)].id = at.k /\ at.k \in visited
  BY <1>1 DEF IInv, Clear
<1>4. /\ Head(stack) = stack[1] /\ Head(stack) \in T /\ Len(stack) \in Nat
      /\ DOMAIN stack = 1..Len(stack) /\ 1 \in DOMAIN stack
  <2> HIDE DEF T
  <2> QED  BY <1>2, <1>3
<1>5. PICK n \in Ptr : n = Head(stack).n
  BY <1>4
<1>6. PICK id \in Id : id = Head(stack).id
  BY <1>4
<1>7. struct[n].id = id /\ struct[n].nextsibling \in Ptr \cup {NULL}
  BY <1>2, <1>4, <1>5, <1>6, StructFields
<1>8. CASE n \notin allocated
  <2>1. running' = "undefined" /\ UNCHANGED <<allocated, nodes, stack, at>>
    BY <1>5, <1>8 DEF FreeNode
  <2>2. Types'
    BY <1>1, <2>1 DEF IInv, Types, Functions
  <2>3. Heap'
    BY <1>1, <2>1, SameHeap
  <2>4. Progress'
    BY <1>1, <2>1, NoSearch DEF Searching
  <2>5. Counting' /\ Clear'
    BY <1>1, <1>2, <2>1 DEF Counting, Clear, Clearing
  <2> QED  BY <2>2, <2>3, <2>4, <2>5 DEF IInv
<1>9. CASE n \in allocated
  <2>1. /\ allocated' = allocated \ {n} /\ nodes' = [nodes EXCEPT ![id] = NULL]
        /\ IF Tail(stack) = <<>>
           THEN running' = "clear_tree" /\ stack' = <<>> /\ at' = [at EXCEPT !.k = at.k + 1]
           ELSE /\ stack' = [Tail(stack) EXCEPT ![1].c = struct[n].nextsibling]
                /\ UNCHANGED <<running, at>>
    BY <1>5, <1>6, <1>9 DEF FreeNode, Unlisted
  <2>2. /\ nodes' \in [Id -> Ptr \cup {NULL}] /\ nodes'[id] = NULL
        /\ \A i \in Id \ {id} : nodes'[i] = nodes[i]
    BY <1>2, <2>1
  <2>3. Found(struct', nodes', allocated')
    BY <1>1, <1>2, <1>7, <2>1, <2>2 DEF Found
  <2>4. running' \in Clearing
    BY <1>1, <2>1 DEF Clearing
  <2>5. Heap'
    BY <1>1, <1>2, <2>3, <2>4 DEF Heap
  <2>6. running' \notin Searching \cup {"caller"} /\ running' \in Functions
    BY <2>4 DEF Searching, Clearing, Functions
  <2>7. Progress'
    BY <1>1, <2>6, NoSearch DEF Searching
  <2>8. Counting'
    BY <2>6 DEF Counting, Searching
  <2>9. \A i \in Id : nodes[i] = NULL => nodes'[i] = NULL
    BY <2>2
  <2>10. CASE Tail(stack) = <<>>
    <3>1. running' = "clear_tree" /\ stack' = <<>> /\ at' = [at EXCEPT !.k = at.k + 1]
      BY <2>1, <2>10
    <3>2. Len(stack) = 1
      <4> HIDE DEF T
      <4>1. Len(Tail(stack)) = Len(stack) - 1
        BY <1>2, <1>3, HeadTailProperties
      <4> QED  BY <1>4, <2>10, <4>1
    <3>3. at.k = id /\ at.k \in Id
      BY <1>2, <1>3, <1>4, <1>6, <3>2
    <3>4. at'.k = at.k + 1
          /\ at' \in [k : 0..MaxId+1, id : Id, c : Ptr \cup {NULL}, kids : Nat]
      BY <1>2, <3>1, <3>3
    <3>5. Types'
      <4>1. stack' \in Seq(T)
        BY <3>1
      <4> QED  BY <1>1, <1>2, <2>1, <2>2, <2>6, <3>4, <4>1 DEF IInv, Types
    <3>6. Clear'
      <4>1. \A i \in visited : nodes'[i] = NULL
        BY <1>2, <1>3, <1>4, <2>2, <3>2, <3>3
      <4>2. ASSUME NEW i \in Id, i < at'.k PROVE nodes'[i] = NULL
        <5>1. i < at.k \/ i = at.k
          BY <1>2, <3>3, <3>4, <4>2
        <5> QED  BY <1>2, <2>2, <2>9, <3>3, <5>1
      <4>3. DOMAIN stack' = {}
        BY <3>1
      <4> QED  BY <1>1, <3>1, <4>1, <4>2, <4>3 DEF Clear
    <3> QED  BY <2>5, <2>7, <2>8, <3>5, <3>6 DEF IInv
  <2>11. CASE Tail(stack) # <<>>
    <3> DEFINE rest == Tail(stack)
    <3>0. PICK d \in Ptr \cup {NULL} : d = struct[n].nextsibling
      BY <1>7
    <3>1. running' = "dfs_clear" /\ at' = at /\ stack' = [rest EXCEPT ![1].c = d]
      BY <1>1, <2>1, <2>11, <3>0
    <3>2. /\ rest \in Seq(T) /\ Len(rest) = Len(stack) - 1
          /\ \A j \in 1..Len(rest) : rest[j] = stack[j + 1]
      <4> HIDE DEF T
      <4> QED  BY <1>2, <1>3, HeadTailProperties
    <3>3. Len(rest) \in Nat /\ DOMAIN rest = 1..Len(rest) /\ 1 \in 1..Len(rest)
          /\ \A j \in 1..Len(rest) : rest[j] \in T
      <4> HIDE DEF T, rest
      <4> QED  BY <2>11, <3>2 DEF rest
    <3> HIDE DEF rest
    <3>4. [rest[1] EXCEPT !.c = d] \in T /\ [rest[1] EXCEPT !.c = d].id = rest[1].id
          /\ [rest[1] EXCEPT !.c = d].n = rest[1].n
      BY <3>3
    <3>5. /\ stack' \in Seq(T) /\ Len(stack') = Len(rest) /\ DOMAIN stack' = 1..Len(rest)
          /\ \A j \in 1..Len(rest) : stack'[j].id = rest[j].id /\ stack'[j].n = rest[j].n
          /\ stack' # <<>>
      <4> DEFINE e == [rest[1] EXCEPT !.c = d]
      <4>1. stack' = [rest EXCEPT ![1] = e]
        BY <3>1
      <4> HIDE DEF e, T
      <4>2. stack' \in Seq(T) /\ Len(stack') = Len(rest) /\ DOMAIN stack' = 1..Len(rest)
            /\ \A j \in 1..Len(rest) : stack'[j] = IF j = 1 THEN e ELSE rest[j]
        BY <3>2, <3>3, <3>4, <4>1 DEF e
      <4>3. e.id = rest[1].id /\ e.n = rest[1].n
        BY <3>4 DEF e
      <4>4. stack' # <<>>
        BY <3>3, <4>2
      <4> QED  BY <4>2, <4>3, <4>4
    <3>6. Types'
      BY <1>1, <1>2, <2>1, <2>2, <2>6, <3>1, <3>5 DEF IInv, Types
    <3>7. Clear'
      <4>1. \A j \in 1..Len(rest) : j + 1 \in DOMAIN stack
        BY <1>4, <3>2, <3>3
      <4>2. ASSUME NEW j \in DOMAIN stack' PROVE stack'[j].id = struct'[stack'[j].n].id
        <5>1. j \in 1..Len(rest) /\ stack'[j].id = rest[j].id /\ stack'[j].n = rest[j].n
          BY <3>5
        <5>2. rest[j] = stack[j + 1] /\ stack[j + 1].id = struct[stack[j + 1].n].id
          BY <1>2, <3>2, <4>1, <5>1
        <5> QED  BY <1>1, <5>1, <5>2
      <4>3. ASSUME NEW i \in visited, nodes'[i] # NULL
            PROVE  \E j \in DOMAIN stack' : stack'[j].id = i
        <5>1. i \in Id /\ i # id /\ nodes[i] # NULL
          BY <1>2, <2>2, <4>3
        <5>2. PICK j \in DOMAIN stack : stack[j].id = i
          BY <1>2, <5>1
        <5>3. j # 1
          BY <1>4, <1>6, <5>1, <5>2
        <5>4. j - 1 \in 1..Len(rest) /\ (j - 1) + 1 = j
          BY <1>4, <3>2, <5>3
        <5>5. stack'[j - 1].id = i
          BY <3>2, <3>5, <5>2, <5>4
        <5> QED  BY <3>5, <5>4, <5>5
      <4>4. stack'[Len(stack')].id = at.k
        <5>1. Len(rest) \in 1..Len(rest) /\ Len(rest) + 1 = Len(stack)
          BY <1>4, <3>2, <3>3
        <5> QED  BY <1>3, <3>2, <3>5, <5>1
      <4>5. \A i \in Id : i < at.k => nodes'[i] = NULL
        BY <1>2, <2>9
      <4> QED  BY <1>1, <1>3, <3>1, <3>5, <4>2, <4>3, <4>4, <4>5 DEF Clear
    <3> QED  BY <2>5, <2>7, <2>8, <3>6, <3>7 DEF IInv
  <2> QED  BY <2>10, <2>11
<1> QED  BY <1>8, <1>9

LEMMA ReturnStep == IInv /\ Return => IInv'
<1> SUFFICES ASSUME IInv, Return PROVE IInv'
  OBVIOUS
<1>1. /\ running \in {"tree_bfs", "clear_tree"} /\ at.k > MaxId
      /\ running' = "caller" /\ at' = Start
      /\ UNCHANGED <<struct, allocated, nodes, calculated, visited, queue, stack, left>>
  BY DEF Return
<1>2. stack = <<>>
  BY <1>1 DEF IInv, Clear
<1>3. Start \in [k : 0..MaxId+1, id : Id, c : Ptr \cup {NULL}, kids : Nat]
  BY TreeAssumption DEF Id, Start
<1>4. Types'
  BY <1>1, <1>3 DEF IInv, Types, Functions
<1>5. running = "clear_tree" => \A i \in Id : nodes[i] = NULL
  <2> SUFFICES ASSUME running = "clear_tree", NEW i \in Id PROVE nodes[i] = NULL
    OBVIOUS
  <2>1. at.k \in 0..MaxId+1 /\ \A j \in Id : j < at.k => nodes[j] = NULL
    BY ClearFacts DEF Clearing
  <2>2. i < at.k
    BY <1>1, <2>1, TreeAssumption DEF Id
  <2> QED  BY <2>1, <2>2
<1>6. Heap'
  BY <1>1, <1>5, SameHeap DEF Clearing
<1>7. Progress'
  BY <1>1, NoSearch DEF Searching
<1>8. Counting' /\ Clear'
  BY <1>1, <1>2, EmptyStack DEF Counting, Clearing
<1> QED  BY <1>4, <1>6, <1>7, <1>8 DEF IInv

LEMMA NextStep == IInv /\ [Next]_vars => IInv'
<1>1. ASSUME IInv, NEW id \in Id, NEW metric \in Metrics, change_node_metric(id, metric)
      PROVE  IInv'
  BY <1>1, MetricStep
<1>2. ASSUME IInv, NEW parent \in Id, NEW id \in Id, NEW metric \in Metrics,
             add_node(parent, metric, id)
      PROVE  IInv'
  BY <1>2, AddStep
<1> QED  BY <1>1, <1>2, StutterStep, InitStep, BfsStep, SearchStep, DequeueStep,
            ChildStep, CalculateStep, ClearTreeStep, ClearFromStep, ClearChildStep,
            FreeStep, ReturnStep DEF Next

LEMMA Invariance == Spec => []IInv
BY Initial, NextStep, PTL DEF Spec

-----------------------------------------------------------------------------
(* What the runs check.                                                    *)

\* nodes[] finds only structs that are not freed, each under its own identity,
\* also after add_node() has replaced a struct (tree.c:189) and while
\* clear_tree() frees them, some through lists of structs it has freed
\* (tree.c:150, 155).
THEOREM TypeCorrect == Spec => []TypeOK
<1>1. ASSUME IInv PROVE TypeOK
  <2>1. queue.elements \in 0..MaxItems
    <3>1. PICK ns \in Seq(Ptr) : Holds(queue, ns)
      BY <1>1 DEF IInv, Progress, SearchOf
    <3>2. queue \in QueueType(Ptr \cup {NULL})
      BY <1>1 DEF IInv, Types
    <3> QED  BY <3>1, <3>2, HoldsLen
  <2> QED  BY <1>1, <2>1 DEF IInv, Types, Heap, Found, Struct, Functions, TypeOK
<1> QED  BY <1>1, Invariance, PTL

\* The queue of the search is the list of its items, from head to tail, wherever
\* free() puts an item, although tail outlives the last item (queue.c:37, 67).
THEOREM QueueLinked == Spec => []QueueIsList
<1>1. ASSUME IInv PROVE QueueIsList
  <2> DEFINE D == 1..queue.elements
             place[j \in D] == IF j = 1 THEN queue.head ELSE queue.next[place[j - 1]]
             Free == {queue.free[j] : j \in DOMAIN queue.free}
             Places == {place[j] : j \in D}
  <2>1. PICK ns \in Seq(Ptr) : Holds(queue, ns)
    BY <1>1 DEF IInv, Progress, SearchOf
  <2>2. queue \in QueueType(Ptr \cup {NULL})
    BY <1>1 DEF IInv, Types
  <2>3. PICK s \in Seq(Item) : Linked(queue, s)
    BY <2>1 DEF Holds
  <2>4. /\ queue.elements \in Nat /\ Len(s) = queue.elements /\ DOMAIN s = D
        /\ s = [j \in D |-> s[j]]
    BY <2>2, <2>3, QueueFields DEF Linked
  <2>5. ASSUME NEW j \in D
        PROVE  s[j] = IF j = 1 THEN queue.head ELSE queue.next[s[j - 1]]
    <3>1. CASE j = 1
      <4>1. s # <<>>
        BY <2>4
      <4> QED  BY <2>3, <3>1, <4>1 DEF Linked
    <3>2. CASE j # 1
      <4>1. j - 1 \in 1..Len(s)-1 /\ (j - 1) + 1 = j
        BY <2>4, <3>2
      <4>2. queue.next[s[j - 1]] = s[(j - 1) + 1]
        BY <2>3, <4>1 DEF Linked
      <4> QED  BY <3>2, <4>1, <4>2
    <3> QED  BY <3>1, <3>2
  <2>6. place = CHOOSE f : f = [j \in D |-> IF j = 1 THEN queue.head
                                            ELSE queue.next[f[j - 1]]]
    BY Zenon DEF place
  <2> HIDE DEF place, D
  <2>7. s = [j \in D |-> IF j = 1 THEN queue.head ELSE queue.next[s[j - 1]]]
    BY <2>4, <2>5, Zenon
  <2>8. place = [j \in D |-> IF j = 1 THEN queue.head ELSE queue.next[place[j - 1]]]
    BY <2>6, <2>7, Zenon
  <2>9. \A j \in D : place[j] = IF j = 1 THEN queue.head ELSE queue.next[place[j - 1]]
    BY <2>8, Zenon
  <2>10. \A j \in D : place[j] = s[j]
    <3> DEFINE Bad == {j \in D : place[j] # s[j]}
    <3> SUFFICES ASSUME Bad # {} PROVE FALSE
      OBVIOUS
    <3>1. Bad \subseteq Nat
      BY <2>4 DEF D
    <3>2. PICK j \in Bad : \A k \in Bad : j <= k
      <4> HIDE DEF Bad
      <4> QED  BY <3>1, LeastNat
    <3>3. j \in D /\ place[j] # s[j]
      BY <3>2
    <3>4. j # 1
      BY <2>5, <2>9, <3>3
    <3>5. j - 1 \in D /\ j - 1 < j
      BY <2>4, <3>3, <3>4 DEF D
    <3>6. j - 1 \notin Bad
      <4> HIDE DEF Bad
      <4>1. j \in Nat
        BY <3>1, <3>2
      <4> QED  BY <3>2, <3>5, <4>1
    <3>7. place[j - 1] = s[j - 1]
      BY <3>5, <3>6
    <3> QED  BY <2>5, <2>9, <3>3, <3>4, <3>7
  <2>11. queue.elements > 0 => place[queue.elements] = queue.tail
    <3> SUFFICES ASSUME queue.elements > 0 PROVE place[queue.elements] = queue.tail
      OBVIOUS
    <3>1. queue.elements \in D /\ s # <<>>
      BY <2>4 DEF D
    <3>2. queue.tail = s[queue.elements]
      BY <2>3, <2>4, <3>1 DEF Linked
    <3> QED  BY <2>10, <3>1, <3>2
  <2>12. Places = Range(s)
    BY <2>4, <2>10 DEF Range
  <2>13. Free = Range(queue.free)
    BY DEF Range
  <2>14. Places = Item \ Free
    BY <2>3, <2>12, <2>13 DEF Linked
  <2> QED  BY <2>11, <2>14, Zenon DEF QueueIsList, place, D
<1> QED  BY <1>1, Invariance, PTL

LEMMA ChildrenLen ==
  ASSUME IInv, NEW i \in Id
  PROVE  LET kids == ChildrenOf(struct, nodes, i)
         IN  /\ kids \in Seq(Ptr) /\ Children(i) \in Seq(Id)
             /\ Len(Children(i)) = Len(kids)
             /\ \A j \in 1..Len(kids) : Children(i)[j] = struct[kids[j]].id
<1> DEFINE kids == ChildrenOf(struct, nodes, i)
<1>1. /\ struct \in [Ptr -> Struct] /\ nodes \in [Id -> Ptr \cup {NULL}] /\ Acyclic(struct)
  BY DEF IInv, Types, Heap
<1>2. kids \in Seq(Ptr)
  BY <1>1, ChildrenFacts
<1>3. Children(i) = [j \in DOMAIN kids |-> struct[kids[j]].id]
  BY DEF Children
<1> HIDE DEF kids
<1>4. Len(kids) \in Nat /\ DOMAIN kids = 1..Len(kids) /\ \A j \in 1..Len(kids) : kids[j] \in Ptr
  BY <1>2
<1>5. \A j \in 1..Len(kids) : struct[kids[j]].id \in Id
  BY <1>1, <1>4, StructFields
<1>6. Children(i) = [j \in 1..Len(kids) |-> struct[kids[j]].id]
  BY <1>3, <1>4
<1>7. Children(i) \in Seq(Id) /\ Len(Children(i)) = Len(kids)
      /\ \A j \in 1..Len(kids) : Children(i)[j] = struct[kids[j]].id
  BY <1>4, <1>5, <1>6
<1> QED  BY <1>2, <1>7 DEF kids

\* A search that returns has counted the children of every node, although it
\* queues children again that it has visited (tree.c:57), and clear_tree(), if
\* it returns, leaves no node (tree.c:145).
THEOREM NothingMissed == Spec => CallsComplete
<1>1. ASSUME IInv, Next, running' = "caller", running \in {"tree_bfs", "clear_tree"}
      PROVE  Return
  BY <1>1 DEF Next, tree_init, change_node_metric, add_node, tree_bfs, Call, Search,
              Dequeue, Child, Calculate, clear_tree, ClearFrom, ClearChild, FreeNode
<1>2. ASSUME IInv, Return, running = "tree_bfs", NEW i \in Id, nodes[i] # NULL
      PROVE  calculated[i] = Len(Children(i))
  <2>1. at.k > MaxId
    BY <1>2 DEF Return
  <2>2. at.k \in 0..MaxId+1
    BY <1>2, SearchFacts DEF Searching
  <2>3. i < at.k
    BY <2>1, <2>2, TreeAssumption DEF Id
  <2>4. i \in visited
    BY <1>2, <2>3 DEF IInv, Progress, Searching
  <2>5. PICK ns \in Seq(Ptr) : SearchOf(ns)
    BY <1>2 DEF IInv, Progress
  <2>6. ns = <<>> /\ Range(<<>>) = {}
    BY <1>2, <2>5 DEF SearchOf, Range
  <2>7. Counted(i)
    BY <1>2, <2>4, <2>5, <2>6 DEF SearchOf, Searching
  <2> QED  BY <1>2, <2>7, ChildrenLen DEF Counted
<1>3. ASSUME IInv, Return, running = "clear_tree", NEW i \in Id
      PROVE  nodes[i] = NULL
  <2>1. at.k > MaxId
    BY <1>3 DEF Return
  <2>2. at.k \in 0..MaxId+1 /\ \A j \in Id : j < at.k => nodes[j] = NULL
    BY <1>3, ClearFacts DEF Clearing
  <2>3. i < at.k
    BY <2>1, <2>2, TreeAssumption DEF Id
  <2> QED  BY <2>2, <2>3
<1>4. IInv /\ [Next]_vars =>
        [running' = "caller" =>
           /\ running = "tree_bfs" =>
                \A i \in Id : nodes[i] # NULL => calculated[i] = Len(Children(i))
           /\ running = "clear_tree" => \A i \in Id : nodes[i] = NULL]_vars
  BY <1>1, <1>2, <1>3
<1> QED  BY <1>4, Invariance, PTL DEF Spec, CallsComplete

-----------------------------------------------------------------------------
(* The tree is the forest.                                                 *)

Known     == {i \in Id : nodes[i] # NULL}
Offspring == [i \in Id |-> Children(i)]
Metric    == [i \in Id |-> IF nodes[i] = NULL THEN -1 ELSE struct[nodes[i]].metric]

\* A tree of node 0 alone.
Lone ==
  /\ nodes[0] # NULL /\ \A i \in Id \ {0} : nodes[i] = NULL
  /\ struct[nodes[0]] = NewStruct(0, -1, NULL)

NoForest ==
  Known = {0} /\ Offspring = [i \in Id |-> <<>>] /\ Metric = [i \in Id |-> -1]

LEMMA Alone == Lone => NoForest
<1> SUFFICES ASSUME nodes[0] # NULL, \A i \in Id \ {0} : nodes[i] = NULL,
                    struct[nodes[0]] = NewStruct(0, -1, NULL)
             PROVE  NoForest
  BY DEF Lone
<1>1. 0 \in Id
  BY TreeAssumption DEF Id
<1>2. \A i \in Id : Children(i) = <<>>
  <2>1. \A i \in Id : ChildrenOf(struct, nodes, i) = <<>>
    BY NoSiblings DEF ChildrenOf, NewStruct
  <2> QED  BY <2>1 DEF Children
<1>3. \A i \in Id : (IF nodes[i] = NULL THEN -1 ELSE struct[nodes[i]].metric) = -1
  BY DEF NewStruct
<1>4. Known = {0}
  BY <1>1 DEF Known
<1> QED  BY <1>2, <1>3, <1>4, Zenon DEF NoForest, Offspring, Metric

LEMMA SameForest ==
  UNCHANGED <<struct, nodes, calculated>> => UNCHANGED <<Known, Offspring, Metric, calculated>>
BY DEF Known, Offspring, Metric, Children

LEMMA AddForest ==
  ASSUME IInv, NEW parent \in Id, NEW id \in Id, NEW metric \in Metrics,
         add_node(parent, metric, id)
  PROVE  /\ parent # id
         /\ Known' = Known \cup {parent, id}
         /\ Offspring' = [Offspring EXCEPT ![id] = <<>>, ![parent] = Append(@, id)]
         /\ Metric' = [Metric EXCEPT ![id] = metric]
<1> DEFINE n == Fresh(allocated)
           K(i) == ChildrenOf(struct, nodes, i)
           J(i) == ChildrenOf(struct', nodes', i)
<1>1. running = "caller" /\ Types /\ Heap
  BY DEF add_node, Call, IInv
<1>2. Grown(n, parent, metric, id) /\ parent # id
  BY <1>1, Adds
<1>3. /\ struct \in [Ptr -> Struct] /\ nodes \in [Id -> Ptr \cup {NULL}]
      /\ Acyclic(struct) /\ Found(struct, nodes, allocated)
      /\ Families(struct, nodes, allocated)
  BY <1>1 DEF Types, Heap, Clearing
<1>4. PICK m \in Ptr : m = n
  BY <1>2 DEF Grown
<1> HIDE DEF n
<1>5. /\ m \notin allocated /\ nodes' \in [Id -> Ptr \cup {NULL}]
      /\ \A i \in Id \ {id, parent} : nodes'[i] = nodes[i]
      /\ nodes'[id] = m /\ nodes'[parent] \in Ptr
      /\ nodes[parent] # NULL => nodes'[parent] = nodes[parent]
      /\ struct'[nodes'[parent]].metric = IF nodes[parent] = NULL THEN -1
                                          ELSE struct[nodes[parent]].metric
      /\ struct'[m].id = id /\ struct'[m].metric = metric
      /\ \A p \in allocated : struct'[p].id = struct[p].id /\ struct'[p].metric = struct[p].metric
  BY <1>2, <1>4 DEF Grown
<1>6. \A i \in Id : J(i) = IF i = id THEN <<>>
                           ELSE IF i = parent THEN Append(K(i), m) ELSE K(i)
  BY <1>2, <1>4 DEF Grown
<1>7. m # NULL /\ nodes'[parent] # NULL
  BY <1>5, PtrFacts
<1>8. Known' = Known \cup {parent, id}
  BY <1>5, <1>7 DEF Known
<1>9. ASSUME NEW i \in Id
      PROVE  Metric'[i] = IF i = id THEN metric ELSE Metric[i]
  <2>1. CASE i = id
    BY <1>5, <1>7, <2>1 DEF Metric
  <2>2. CASE i = parent
    BY <1>2, <1>5, <1>7, <2>2 DEF Metric
  <2>3. CASE i \notin {id, parent}
    <3>1. nodes'[i] = nodes[i] /\ (nodes[i] # NULL => nodes[i] \in allocated)
      BY <1>3, <1>5, <2>3 DEF Found
    <3> QED  BY <1>5, <2>3, <3>1 DEF Metric
  <2> QED  BY <2>1, <2>2, <2>3
<1>10. Metric' = [Metric EXCEPT ![id] = metric]
  <2>1. Metric' = [i \in Id |-> Metric'[i]] /\ DOMAIN Metric = Id
    BY DEF Metric
  <2> QED  BY <1>9, <2>1
<1>11. \A i \in Id : Children(i) = [j \in DOMAIN K(i) |-> struct[K(i)[j]].id]
  BY DEF Children
<1>12. \A i \in Id : Children(i)' = [j \in DOMAIN J(i) |-> struct'[J(i)[j]].id]
  BY DEF Children
<1>13. ASSUME NEW i \in Id
       PROVE  Children(i)' = IF i = id THEN <<>>
                             ELSE IF i = parent THEN Append(Children(i), id)
                             ELSE Children(i)
  <2> DEFINE k == K(i)
  <2>1. /\ k \in Seq(Ptr) /\ Children(i) \in Seq(Id) /\ Len(Children(i)) = Len(k)
        /\ \A j \in 1..Len(k) : Children(i)[j] = struct[k[j]].id
    BY ChildrenLen
  <2>2. \A p \in Range(k) : struct'[p].id = struct[p].id
    BY <1>3, <1>5 DEF Families
  <2>3. Children(i) = [j \in DOMAIN k |-> struct[k[j]].id]
    BY <1>11
  <2>4. Len(k) \in Nat /\ DOMAIN k = 1..Len(k)
    BY <2>1
  <2>5. \A j \in 1..Len(k) : struct'[k[j]].id = struct[k[j]].id
    BY <2>2, <2>4 DEF Range
  <2>6. CASE i = id
    <3>1. J(i) = <<>>
      BY <1>6, <2>6
    <3> QED  BY <1>12, <2>6, <3>1
  <2>7. CASE i = parent
    <3>1. J(i) = Append(k, m)
      BY <1>2, <1>6, <2>7
    <3> HIDE DEF k, J
    <3>2. /\ J(i) \in Seq(Ptr) /\ Len(J(i)) = Len(k) + 1
          /\ \A j \in 1..Len(k) : J(i)[j] = k[j]
          /\ J(i)[Len(k) + 1] = m
      BY <2>1, <3>1, AppendProperties
    <3>3. DOMAIN J(i) = 1..Len(k)+1
      BY <2>4, <3>2
    <3> DEFINE new == [j \in 1..Len(k)+1 |-> struct'[J(i)[j]].id]
               old == Append(Children(i), id)
    <3>4. Children(i)' = new
      BY <1>12, <3>3
    <3>5. /\ old \in Seq(Id) /\ Len(old) = Len(k) + 1
          /\ \A j \in 1..Len(k) : old[j] = Children(i)[j]
          /\ old[Len(k) + 1] = id
      BY <2>1, AppendProperties
    <3> HIDE DEF old
    <3>6. DOMAIN old = 1..Len(k)+1 /\ old = [j \in 1..Len(k)+1 |-> old[j]]
      BY <2>4, <3>5
    <3>7. ASSUME NEW j \in 1..Len(k)+1 PROVE struct'[J(i)[j]].id = old[j]
      <4>1. CASE j = Len(k) + 1
        BY <1>5, <3>2, <3>5, <4>1
      <4>2. CASE j # Len(k) + 1
        <5>1. j \in 1..Len(k)
          BY <2>4, <4>2
        <5> QED  BY <2>1, <2>5, <3>2, <3>5, <5>1
      <4> QED  BY <4>1, <4>2
    <3>8. new = old
      BY <3>6, <3>7, Zenon
    <3> QED  BY <1>2, <2>7, <3>4, <3>8 DEF old
  <2>8. CASE i \notin {id, parent}
    <3>1. J(i) = k
      BY <1>6, <2>8
    <3> HIDE DEF k, J, K
    <3>2. Children(i)' = [j \in 1..Len(k) |-> struct'[k[j]].id]
      BY <1>12, <2>4, <3>1
    <3>3. Children(i) = [j \in 1..Len(k) |-> struct[k[j]].id]
      BY <2>3, <2>4
    <3>4. Children(i)' = Children(i)
      BY <2>5, <3>2, <3>3, Zenon
    <3> QED  BY <2>8, <3>4
  <2> QED  BY <2>6, <2>7, <2>8
<1>14. Offspring' = [Offspring EXCEPT ![id] = <<>>, ![parent] = Append(@, id)]
  <2>1. Offspring' = [i \in Id |-> Children(i)'] /\ DOMAIN Offspring = Id
        /\ \A i \in Id : Offspring[i] = Children(i)
    BY DEF Offspring
  <2>2. PICK old : old = Offspring
    OBVIOUS
  <2>3. PICK new : new = Offspring'
    OBVIOUS
  <2>4. new = [i \in Id |-> IF i = id THEN <<>>
                            ELSE IF i = parent THEN Append(old[i], id) ELSE old[i]]
    BY <1>13, <2>1, <2>2, <2>3, Zenon
  <2>5. new = [old EXCEPT ![id] = <<>>, ![parent] = Append(@, id)]
    BY <1>2, <2>1, <2>2, <2>4
  <2> QED  BY <2>2, <2>3, <2>5
<1> QED  BY <1>2, <1>8, <1>10, <1>14

LEMMA MetricForest ==
  ASSUME IInv, NEW id \in Id, NEW metric \in Metrics, change_node_metric(id, metric)
  PROVE  /\ id \in Known /\ UNCHANGED <<Known, Offspring, calculated>>
         /\ Metric' = [Metric EXCEPT ![id] = metric]
<1>1. /\ nodes[id] # NULL /\ UNCHANGED <<nodes, calculated>>
  BY DEF change_node_metric
<1>2. /\ nodes \in [Id -> Ptr \cup {NULL}] /\ Found(struct, nodes, allocated)
  BY DEF IInv, Types, Heap
<1>3. /\ \A p \in Ptr : /\ struct'[p].id = struct[p].id
                        /\ struct'[p].metric = IF p = nodes[id] THEN metric
                                               ELSE struct[p].metric
      /\ \A i \in Id : ChildrenOf(struct', nodes, i) = ChildrenOf(struct, nodes, i)
  BY MetricLinks
<1>4. \A i \in Id : Children(i)' = Children(i)
  <2> SUFFICES ASSUME NEW i \in Id PROVE Children(i)' = Children(i)
    OBVIOUS
  <2>1. PICK k : k = ChildrenOf(struct, nodes, i)
    OBVIOUS
  <2>2. k \in Seq(Ptr)
    BY <2>1, ChildrenLen
  <2>3. \A j \in DOMAIN k : struct'[k[j]].id = struct[k[j]].id
    BY <1>3, <2>2
  <2>4. ChildrenOf(struct', nodes', i) = k
    BY <1>1, <1>3, <2>1
  <2>5. Children(i)' = [j \in DOMAIN k |-> struct'[k[j]].id]
    BY <2>4 DEF Children
  <2>6. Children(i) = [j \in DOMAIN k |-> struct[k[j]].id]
    BY <2>1 DEF Children
  <2> QED  BY <2>3, <2>5, <2>6, Zenon
<1>5. Offspring' = Offspring
  <2>1. Offspring' = [i \in Id |-> Children(i)']
    BY DEF Offspring
  <2> QED  BY <1>4, <2>1, Zenon DEF Offspring
<1>6. Known' = Known /\ id \in Known
  BY <1>1 DEF Known
<1>7. ASSUME NEW i \in Id
      PROVE  Metric'[i] = IF i = id THEN metric ELSE Metric[i]
  <2>1. Metric'[i] = IF nodes[i] = NULL THEN -1 ELSE struct'[nodes[i]].metric
    BY <1>1 DEF Metric
  <2>2. Metric[i] = IF nodes[i] = NULL THEN -1 ELSE struct[nodes[i]].metric
    BY DEF Metric
  <2>3. i # id => nodes[i] = NULL \/ nodes[i] # nodes[id]
    BY <1>1, <1>2 DEF Found
  <2>4. nodes[i] # NULL => nodes[i] \in Ptr
    BY <1>2
  <2> QED  BY <1>1, <1>3, <2>1, <2>2, <2>3, <2>4
<1>8. Metric' = [Metric EXCEPT ![id] = metric]
  <2>1. Metric' = [i \in Id |-> Metric'[i]] /\ DOMAIN Metric = Id
    BY DEF Metric
  <2> QED  BY <1>7, <2>1
<1> QED  BY <1>1, <1>5, <1>6, <1>8

LEMMA CountForest ==
  ASSUME IInv, Calculate
  PROVE  /\ at.id \in Id /\ at.id \in Known /\ UNCHANGED <<Known, Offspring, Metric>>
         /\ calculated' = [calculated EXCEPT ![at.id] = Len(Offspring[at.id])]
<1>1. /\ running = "children" /\ at.c = NULL /\ UNCHANGED <<struct, nodes>>
      /\ calculated' = [calculated EXCEPT ![at.id] = at.kids]
  BY DEF Calculate
<1>2. at.id \in Id
  BY <1>1, SearchFacts DEF Searching
<1>3. nodes[at.id] # NULL /\ at.kids = Len(ChildrenOf(struct, nodes, at.id))
  BY <1>1, ChildFacts
<1>4. at.kids = Len(Offspring[at.id])
  BY <1>2, <1>3, ChildrenLen DEF Offspring
<1> QED  BY <1>1, <1>2, <1>3, <1>4 DEF Known, Offspring, Metric, Children

\* What dfs_clear() does to a node that is known.
LEMMA ForgetForest ==
  ASSUME NEW id \in Id, nodes[id] # NULL, nodes \in [Id -> Ptr \cup {NULL}],
         nodes' = [nodes EXCEPT ![id] = NULL], struct' = struct
  PROVE  /\ id \in Known /\ Known' = Known \ {id}
         /\ Offspring' = [Offspring EXCEPT ![id] = <<>>]
         /\ Metric' = [Metric EXCEPT ![id] = -1]
<1>1. nodes'[id] = NULL /\ \A i \in Id \ {id} : nodes'[i] = nodes[i]
  OBVIOUS
<1>2. id \in Known /\ Known' = Known \ {id}
  BY <1>1 DEF Known
<1>3. \A i \in Id : Children(i)' = IF i = id THEN <<>> ELSE Children(i)
  <2>1. ChildrenOf(struct', nodes', id) = <<>>
    BY <1>1 DEF ChildrenOf
  <2>2. Children(id)' = <<>>
    <3>1. PICK k : k = <<>>
      OBVIOUS
    <3>2. Children(id)' = [j \in DOMAIN k |-> struct'[k[j]].id]
      BY <2>1, <3>1, Zenon DEF Children
    <3> QED  BY <3>1, <3>2
  <2>3. ASSUME NEW i \in Id \ {id} PROVE Children(i)' = Children(i)
    <3>1. ChildrenOf(struct', nodes', i) = ChildrenOf(struct, nodes, i)
      BY <1>1 DEF ChildrenOf
    <3> QED  BY <3>1 DEF Children
  <2> QED  BY <2>2, <2>3
<1>4. Offspring' = [Offspring EXCEPT ![id] = <<>>]
  <2>1. Offspring' = [i \in Id |-> Children(i)'] /\ DOMAIN Offspring = Id
        /\ \A i \in Id : Offspring[i] = Children(i)
    BY DEF Offspring
  <2>2. PICK old : old = Offspring
    OBVIOUS
  <2>3. PICK new : new = Offspring'
    OBVIOUS
  <2>4. new = [i \in Id |-> IF i = id THEN <<>> ELSE old[i]]
    BY <1>3, <2>1, <2>2, <2>3, Zenon
  <2>5. new = [old EXCEPT ![id] = <<>>]
    BY <2>1, <2>2, <2>4
  <2> QED  BY <2>2, <2>3, <2>5
<1>5. Metric' = [Metric EXCEPT ![id] = -1]
  <2>1. Metric' = [i \in Id |-> Metric'[i]] /\ DOMAIN Metric = Id
    BY DEF Metric
  <2>2. \A i \in Id : Metric'[i] = IF i = id THEN -1 ELSE Metric[i]
    BY <1>1 DEF Metric
  <2> QED  BY <2>1, <2>2
<1> QED  BY <1>2, <1>4, <1>5

\* The pointers of tree.c are the forest that the calls describe, step by step:
\* a node that is added comes last in its parent's list (tree.c:224), loses only
\* its own children, and each count written is the length of the list (tree.c:68).
THEOREM Refinement == Spec => ForestSpec
<1>1. Init => F!Init
  <2> SUFFICES ASSUME Init PROVE F!Init
    OBVIOUS
  <2>1. PICK r : r = Fresh({})
    OBVIOUS
  <2>2. r \in Ptr
    <3>1. Ptr # {}
      BY TreeAssumption DEF Ptr
    <3> QED  BY <2>1, <3>1, FreshIsFree
  <2>3. /\ struct = [p \in Ptr |-> NewStruct(0, -1, NULL)]
        /\ nodes = [i \in Id |-> IF i = 0 THEN r ELSE NULL]
        /\ calculated = [i \in Id |-> -1]
    BY <2>1 DEF Init
  <2>4. 0 \in Id /\ r # NULL
    BY <2>2, PtrFacts, TreeAssumption DEF Id
  <2>5. /\ Known = {0} /\ Offspring = [i \in Id |-> <<>>] /\ Metric = [i \in Id |-> -1]
    BY <2>2, <2>3, <2>4, Alone DEF Lone, NoForest
  <2> QED  BY <2>3, <2>5 DEF F!Init, Known, Offspring, Metric
<1>2. ASSUME IInv, tree_init PROVE F!Next
  <2>1. PICK r : r = Fresh(allocated)
    OBVIOUS
  <2>2. r \in Ptr
    BY <1>2, <2>1, FreshIsFree DEF tree_init
  <2>3. /\ struct' = [struct EXCEPT ![r] = NewStruct(0, -1, NULL)]
        /\ nodes' = [i \in Id |-> IF i = 0 THEN r ELSE NULL]
        /\ calculated' = [i \in Id |-> -1]
    BY <1>2, <2>1 DEF tree_init
  <2>4. 0 \in Id /\ r # NULL /\ DOMAIN struct = Ptr
    BY <1>2, <2>2, PtrFacts, TreeAssumption DEF Id, IInv, Types
  <2>5. Lone'
    BY <2>2, <2>3, <2>4 DEF Lone
  <2>6. NoForest'
    BY <2>5, Alone, PTL
  <2>7. F!Restart
    BY <2>3, <2>6 DEF F!Restart, NoForest, Known, Offspring, Metric
  <2> QED  BY <2>7 DEF F!Next
<1>3. ASSUME IInv, NEW id \in Id, NEW metric \in Metrics, change_node_metric(id, metric)
      PROVE  F!Next
  <2>1. F!SetMetric(id, metric)
    BY <1>3, MetricForest DEF F!SetMetric, Known, Offspring, Metric
  <2> QED  BY <2>1 DEF F!Next
<1>4. ASSUME IInv, NEW parent \in Id, NEW id \in Id, NEW metric \in Metrics,
             add_node(parent, metric, id)
      PROVE  F!Next
  <2>1. UNCHANGED calculated
    BY <1>4 DEF add_node
  <2>2. /\ parent # id /\ Known' = Known \cup {parent, id}
        /\ Offspring' = [Offspring EXCEPT ![id] = <<>>, ![parent] = Append(@, id)]
        /\ Metric' = [Metric EXCEPT ![id] = metric]
    BY <1>4, AddForest
  <2>3. F!Add(parent, metric, id)
    BY <2>1, <2>2, Zenon DEF F!Add, Known, Offspring, Metric
  <2> QED  BY <2>3 DEF F!Next
<1>5. ASSUME IInv, Calculate PROVE F!Next
  <2>1. F!Count(at.id)
    BY <1>5, CountForest DEF F!Count, Known, Offspring, Metric
  <2> QED  BY <1>5, <2>1, CountForest DEF F!Next
<1>6. ASSUME IInv, FreeNode PROVE F!Next \/ UNCHANGED <<struct, nodes, calculated>>
  <2>1. struct' = struct /\ calculated' = calculated /\ nodes \in [Id -> Ptr \cup {NULL}]
    BY <1>6 DEF FreeNode, IInv, Types
  <2>2. CASE nodes' = nodes
    BY <2>1, <2>2
  <2>3. CASE nodes' # nodes
    <3>1. nodes' = [nodes EXCEPT ![Head(stack).id] = NULL]
      BY <1>6, <2>3 DEF FreeNode, Unlisted
    <3>2. PICK id : id = Head(stack).id
      OBVIOUS
    <3>3. id \in Id /\ nodes[id] # NULL
      BY <2>1, <2>3, <3>1, <3>2
    <3>4. F!Forget(id)
      BY <2>1, <3>1, <3>2, <3>3, ForgetForest DEF F!Forget, Known, Offspring, Metric
    <3> QED  BY <3>3, <3>4 DEF F!Next
  <2> QED  BY <2>2, <2>3
<1>7. ASSUME tree_bfs \/ Search \/ Dequeue \/ Child \/ clear_tree \/ ClearFrom
             \/ ClearChild \/ Return \/ UNCHANGED vars
      PROVE  UNCHANGED <<struct, nodes, calculated>>
  BY <1>7 DEF tree_bfs, Search, Dequeue, Child, clear_tree, ClearFrom, ClearChild,
              Return, vars
<1>8. IInv /\ [Next]_vars => F!Next \/ UNCHANGED <<struct, nodes, calculated>>
  BY <1>2, <1>3, <1>4, <1>5, <1>6, <1>7 DEF Next
<1>9. UNCHANGED <<struct, nodes, calculated>> => UNCHANGED F!vars
  BY SameForest DEF F!vars, Known, Offspring, Metric
<1>10. IInv /\ [Next]_vars => [F!Next]_F!vars
  BY <1>8, <1>9
<1> QED  BY <1>1, <1>10, Invariance, PTL DEF Spec, ForestSpec, F!Spec
=============================================================================
