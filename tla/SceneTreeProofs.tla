-------------------------- MODULE SceneTreeProofs --------------------------
(***************************************************************************)
(* What the operators of SceneTree do to a scene: sequences of children,   *)
(* subtrees, and the scenes that the tools make of others.                 *)
(***************************************************************************)
EXTENDS SceneTree, SequenceTheorems, FiniteSetTheorems, WellFoundedInduction, TLAPS

-----------------------------------------------------------------------------
(* Sequences of children                                                   *)

\* Two sequences are the same if they agree place by place.
LEMMA SamePlaces ==
    ASSUME NEW S, NEW q \in Seq(S), NEW r \in Seq(S), Len(q) = Len(r),
           \A i \in 1 .. Len(q) : q[i] = r[i]
    PROVE  q = r
BY SeqEqual

LEMMA ElementsAt ==
    ASSUME NEW S, NEW q \in Seq(S)
    PROVE  /\ Elements(q) \in SUBSET S /\ Len(q) \in Nat /\ DOMAIN q = 1 .. Len(q)
           /\ \A i \in 1 .. Len(q) : q[i] \in Elements(q) /\ q[i] \in S
           /\ \A n \in Elements(q) : \E i \in 1 .. Len(q) : q[i] = n
BY LenProperties DEF Elements

LEMMA DistinctAt ==
    ASSUME NEW S, NEW q \in Seq(S)
    PROVE  Distinct(q) <=> \A i, j \in 1 .. Len(q) : q[i] = q[j] => i = j
BY LenProperties DEF Distinct

\* A sequence holds a set of elements if it has them and no others.
LEMMA HoldsAll ==
    ASSUME NEW S, NEW q \in Seq(S), NEW T,
           \A i \in 1 .. Len(q) : q[i] \in T,
           \A n \in T : \E i \in 1 .. Len(q) : q[i] = n
    PROVE  Elements(q) = T
<1>1. Elements(q) \subseteq T
  BY ElementsAt
<1>2. \A i \in 1 .. Len(q) : q[i] \in Elements(q)
  BY ElementsAt
<1> QED  BY <1>1, <1>2

LEMMA PlaceIs ==
    ASSUME NEW S, NEW q \in Seq(S), Distinct(q), NEW i \in 1 .. Len(q)
    PROVE  PlaceOf(q, q[i]) = i
BY LenProperties DEF PlaceOf, Distinct

\* Where a sequence's elements are when one of them is left out.
LEMMA WithoutPlaces ==
    ASSUME NEW S, NEW q \in Seq(S), Distinct(q), NEW i \in 1 .. Len(q)
    PROVE  LET r == Without(q, q[i])
           IN  /\ r \in Seq(S) /\ Len(r) = Len(q) - 1
               /\ \A j \in 1 .. Len(r) : r[j] = IF j < i THEN q[j] ELSE q[j + 1]
<1> DEFINE l == SubSeq(q, 1, i - 1)
           r == SubSeq(q, i + 1, Len(q))
<1>1. Len(q) \in Nat /\ q[i] \in Elements(q) /\ PlaceOf(q, q[i]) = i
  BY ElementsAt, PlaceIs
<1>2. Without(q, q[i]) = l \o r
  BY <1>1 DEF Without
<1>3. /\ l \in Seq(S) /\ Len(l) = i - 1 /\ \A j \in 1 .. i - 1 : l[j] = q[j]
  BY <1>1, SubSeqProperties
<1>4. /\ r \in Seq(S) /\ Len(r) = Len(q) - i
      /\ \A j \in 1 .. Len(q) - i : r[j] = q[i + j]
  BY <1>1, SubSeqProperties
<1> HIDE DEF l, r
<1> DEFINE w == l \o r
<1>5. /\ w \in Seq(S) /\ Len(w) = Len(l) + Len(r)
      /\ \A j \in 1 .. Len(l) + Len(r) : w[j] = IF j <= Len(l) THEN l[j] ELSE r[j - Len(l)]
  BY <1>3, <1>4, ConcatProperties
<1> HIDE DEF w
<1>6. Len(w) = Len(q) - 1
  BY <1>1, <1>3, <1>4, <1>5
<1>7. ASSUME NEW j \in 1 .. Len(w) PROVE w[j] = IF j < i THEN q[j] ELSE q[j + 1]
  <2>1. CASE j < i
    BY <1>1, <1>3, <1>5, <1>6, <2>1
  <2>2. CASE j >= i
    <3>1. j - Len(l) \in 1 .. Len(q) - i /\ i + (j - Len(l)) = j + 1 /\ ~(j < i)
      BY <1>1, <1>3, <1>6, <2>2
    <3>2. w[j] = r[j - Len(l)]
      BY <1>1, <1>3, <1>5, <1>6, <1>4, <2>2
    <3>3. r[j - Len(l)] = q[j + 1]
      BY <1>4, <3>1
    <3> QED  BY <3>1, <3>2, <3>3
  <2> QED  BY <1>1, <1>6, <2>1, <2>2
<1> QED  BY <1>2, <1>5, <1>6, <1>7 DEF w

LEMMA WithoutNone ==
    ASSUME NEW q, NEW n, n \notin Elements(q)
    PROVE  Without(q, n) = q
BY DEF Without

LEMMA WithoutElements ==
    ASSUME NEW S, NEW q \in Seq(S), Distinct(q), NEW n
    PROVE  /\ Without(q, n) \in Seq(S) /\ Distinct(Without(q, n))
           /\ Elements(Without(q, n)) = Elements(q) \ {n}
<1>1. CASE n \notin Elements(q)
  BY <1>1, WithoutNone
<1>2. CASE n \in Elements(q)
  <2>1. PICK i \in 1 .. Len(q) : q[i] = n
    BY <1>2, ElementsAt
  <2> DEFINE r == Without(q, n)
  <2>2. /\ r \in Seq(S) /\ Len(r) = Len(q) - 1 /\ Len(q) \in Nat
        /\ \A j \in 1 .. Len(r) : r[j] = IF j < i THEN q[j] ELSE q[j + 1]
    <3>1. Len(q) \in Nat
      BY ElementsAt
    <3> QED  BY <2>1, <3>1, WithoutPlaces
  <2> HIDE DEF r
  <2>3. Distinct(r)
    <3>1. \A j, k \in 1 .. Len(q) : q[j] = q[k] => j = k
      BY DistinctAt
    <3>2. \A j, k \in 1 .. Len(r) : r[j] = r[k] => j = k
      BY <2>2, <3>1
    <3> QED  BY <2>2, <3>2, DistinctAt
  <2>4. ASSUME NEW j \in 1 .. Len(r) PROVE r[j] \in Elements(q) \ {n}
    <3>1. PICK k \in 1 .. Len(q) : k # i /\ r[j] = q[k]
      BY <2>2
    <3>2. q[k] \in Elements(q)
      BY ElementsAt
    <3>3. q[k] # q[i]
      BY <3>1, DistinctAt
    <3> QED  BY <2>1, <3>1, <3>2, <3>3
  <2>5. ASSUME NEW j \in 1 .. Len(q), q[j] # n PROVE \E k \in 1 .. Len(r) : r[k] = q[j]
    <3>1. CASE j < i
      BY <2>2, <3>1
    <3>2. CASE j > i
      <4>1. j - 1 \in 1 .. Len(r) /\ r[j - 1] = q[j]
        BY <2>2, <3>2
      <4> QED  BY <4>1
    <3> QED  BY <2>1, <2>5, <3>1, <3>2
  <2>6. Elements(r) = Elements(q) \ {n}
    <3>1. \A m \in Elements(q) \ {n} : \E k \in 1 .. Len(r) : r[k] = m
      BY <2>5, ElementsAt
    <3> QED  BY <2>2, <2>4, <3>1, HoldsAll
  <2> QED  BY <2>2, <2>3, <2>6 DEF r
<1> QED  BY <1>1, <1>2

\* What is put in at an index, from 0, follows so many.
LEMMA InsertPlaces ==
    ASSUME NEW S, NEW q \in Seq(S), NEW n \in S, NEW index \in 0 .. Len(q)
    PROVE  LET r == InsertAt(q, index, n)
           IN  /\ r \in Seq(S) /\ Len(r) = Len(q) + 1
               /\ \A j \in 1 .. Len(r) : r[j] = IF j <= index THEN q[j]
                                                ELSE IF j = index + 1 THEN n ELSE q[j - 1]
<1> DEFINE l == SubSeq(q, 1, index)
           m == <<n>>
           r == SubSeq(q, index + 1, Len(q))
<1>1. Len(q) \in Nat /\ InsertAt(q, index, n) = l \o m \o r
  BY ElementsAt DEF InsertAt
<1>2. l \in Seq(S) /\ Len(l) = index /\ \A j \in 1 .. index : l[j] = q[j]
  BY <1>1, SubSeqProperties
<1>3. /\ r \in Seq(S) /\ Len(r) = Len(q) - index
      /\ \A j \in 1 .. Len(q) - index : r[j] = q[index + j]
  BY <1>1, SubSeqProperties
<1>4. m \in Seq(S) /\ Len(m) = 1 /\ m[1] = n
  OBVIOUS
<1> HIDE DEF l, m, r
<1> DEFINE lm == l \o m
<1>5. /\ lm \in Seq(S) /\ Len(lm) = index + 1
      /\ \A j \in 1 .. index + 1 : lm[j] = IF j <= index THEN l[j] ELSE m[j - index]
  BY <1>2, <1>4, ConcatProperties
<1> HIDE DEF lm
<1> DEFINE w == lm \o r
<1>6. /\ w \in Seq(S) /\ Len(w) = Len(lm) + Len(r)
      /\ \A j \in 1 .. Len(lm) + Len(r) : w[j] = IF j <= Len(lm) THEN lm[j] ELSE r[j - Len(lm)]
  BY <1>3, <1>5, ConcatProperties
<1>7. InsertAt(q, index, n) = w
  BY <1>1 DEF lm
<1> HIDE DEF w
<1>8. Len(w) = Len(q) + 1
  BY <1>1, <1>3, <1>5, <1>6
<1>0. Len(q) \in Nat /\ index \in Nat /\ index <= Len(q)
  BY ElementsAt
<1>9. ASSUME NEW j \in 1 .. Len(w)
      PROVE  w[j] = IF j <= index THEN q[j] ELSE IF j = index + 1 THEN n ELSE q[j - 1]
  <2>1. CASE j <= index
    BY <1>1, <1>2, <1>5, <1>6, <1>8, <2>1
  <2>2. CASE j = index + 1
    BY <1>1, <1>4, <1>5, <1>6, <1>8, <2>2
  <2>3. CASE j > index + 1
    <3>1. j - Len(lm) \in 1 .. Len(q) - index /\ index + (j - Len(lm)) = j - 1
      BY <1>0, <1>5, <1>8, <2>3
    <3>2. w[j] = r[j - Len(lm)]
      BY <1>1, <1>3, <1>5, <1>6, <1>8, <2>3
    <3>3. r[j - Len(lm)] = q[index + (j - Len(lm))]
      BY <1>3, <3>1
    <3>4. ~(j <= index) /\ j # index + 1
      BY <1>0, <1>8, <2>3
    <3> QED  BY <3>1, <3>2, <3>3, <3>4
  <2> QED  BY <1>0, <1>8, <2>1, <2>2, <2>3
<1> QED  BY <1>6, <1>7, <1>8, <1>9

LEMMA InsertElements ==
    ASSUME NEW S, NEW q \in Seq(S), Distinct(q), NEW n \in S, n \notin Elements(q),
           NEW index \in 0 .. Len(q)
    PROVE  LET r == InsertAt(q, index, n)
           IN  /\ r \in Seq(S) /\ Distinct(r) /\ Elements(r) = Elements(q) \cup {n}
               /\ Len(r) = Len(q) + 1 /\ PlaceOf(r, n) = index + 1 /\ Without(r, n) = q
<1> DEFINE r == InsertAt(q, index, n)
<1>1. /\ r \in Seq(S) /\ Len(r) = Len(q) + 1 /\ Len(q) \in Nat
      /\ \A j \in 1 .. Len(r) : r[j] = IF j <= index THEN q[j]
                                       ELSE IF j = index + 1 THEN n ELSE q[j - 1]
  BY InsertPlaces, ElementsAt
<1>0. Len(q) \in Nat /\ index \in Nat /\ index <= Len(q)
  BY ElementsAt
<1>2. \A j \in 1 .. Len(q) : q[j] # n /\ q[j] \in Elements(q)
  BY ElementsAt
<1> HIDE DEF r
<1>10. ASSUME NEW j \in 1 .. Len(r)
       PROVE  \/ j \in 1 .. index /\ j \in 1 .. Len(q) /\ r[j] = q[j]
              \/ j = index + 1 /\ r[j] = n
              \/ j > index + 1 /\ j - 1 \in 1 .. Len(q) /\ r[j] = q[j - 1]
  <2>1. j \in Nat /\ 1 <= j /\ j <= Len(q) + 1
    BY <1>0, <1>1
  <2>2. CASE j <= index
    BY <1>0, <1>1, <2>1, <2>2
  <2>3. CASE j = index + 1
    BY <1>0, <1>1, <2>3
  <2>4. CASE j > index + 1
    <3>1. ~(j <= index) /\ j # index + 1 /\ j - 1 \in 1 .. Len(q)
      BY <1>0, <2>1, <2>4
    <3>2. r[j] = q[j - 1]
      BY <1>1, <3>1
    <3> QED  BY <2>4, <3>1, <3>2
  <2> QED  BY <1>0, <2>1, <2>2, <2>3, <2>4
<1>3. Distinct(r)
  <2>1. \A j, k \in 1 .. Len(q) : q[j] = q[k] => j = k
    BY DistinctAt
  <2>2. ASSUME NEW j \in 1 .. Len(r), NEW k \in 1 .. Len(r), r[j] = r[k] PROVE j = k
    <3>1. (j = index + 1) <=> (k = index + 1)
      <4>1. j # index + 1 => r[j] # n
        BY <1>0, <1>2, <1>10
      <4>2. k # index + 1 => r[k] # n
        BY <1>0, <1>2, <1>10
      <4>3. (j = index + 1 => r[j] = n) /\ (k = index + 1 => r[k] = n)
        BY <1>0, <1>10
      <4> QED  BY <2>2, <4>1, <4>2, <4>3
    <3>2. CASE j > index + 1 /\ k > index + 1
      <4>1. j - 1 = k - 1
        BY <1>0, <1>10, <2>1, <2>2, <3>2
      <4> QED  BY <1>1, <4>1
    <3>3. CASE j \in 1 .. index /\ k \in 1 .. index
      BY <1>0, <1>10, <2>1, <2>2, <3>3
    <3>4. CASE j \in 1 .. index /\ k > index + 1
      <4>1. j = k - 1
        BY <1>0, <1>10, <2>1, <2>2, <3>4
      <4> QED  BY <1>0, <3>4, <4>1
    <3>5. CASE k \in 1 .. index /\ j > index + 1
      <4>1. k = j - 1
        BY <1>0, <1>10, <2>1, <2>2, <3>5
      <4> QED  BY <1>0, <3>5, <4>1
    <3> QED  BY <1>10, <3>1, <3>2, <3>3, <3>4, <3>5
  <2> QED  BY <1>1, <2>2, DistinctAt
<1>4. \A j \in 1 .. Len(r) : r[j] \in Elements(q) \cup {n}
  BY <1>2, <1>10
<1>5. index + 1 \in 1 .. Len(r) /\ r[index + 1] = n
  BY <1>1
<1>6. ASSUME NEW j \in 1 .. Len(q) PROVE \E k \in 1 .. Len(r) : r[k] = q[j]
  <2>1. CASE j <= index
    BY <1>1, <2>1
  <2>2. CASE j > index
    <3>1. j + 1 \in 1 .. Len(r) /\ r[j + 1] = q[j]
      BY <1>1, <2>2
    <3> QED  BY <3>1
  <2> QED  BY <1>1, <2>1, <2>2
<1>7. Elements(r) = Elements(q) \cup {n}
  <2>0. \A m \in Elements(q) : \E i \in 1 .. Len(q) : q[i] = m
    BY ElementsAt
  <2>1. \A m \in Elements(q) \cup {n} : \E k \in 1 .. Len(r) : r[k] = m
    BY <1>5, <1>6, <2>0
  <2> QED  BY <1>1, <1>4, <2>1, HoldsAll
<1>8. PlaceOf(r, n) = index + 1
  BY <1>1, <1>3, <1>5, PlaceIs
<1>9. Without(r, n) = q
  <2> DEFINE w == Without(r, n)
  <2>1. /\ w \in Seq(S) /\ Len(w) = Len(r) - 1
        /\ \A j \in 1 .. Len(w) : w[j] = IF j < index + 1 THEN r[j] ELSE r[j + 1]
    BY <1>1, <1>3, <1>5, WithoutPlaces
  <2> HIDE DEF w
  <2>2. Len(w) = Len(q) /\ \A j \in 1 .. Len(w) : w[j] = q[j]
    <3>1. Len(w) = Len(q)
      BY <1>1, <2>1
    <3>2. ASSUME NEW j \in 1 .. Len(q) PROVE w[j] = q[j]
      <4>1. CASE j <= index
        BY <1>0, <1>1, <2>1, <3>1, <4>1
      <4>2. CASE j > index
        <5>1. ~(j < index + 1) /\ j + 1 \in 1 .. Len(r) /\ j + 1 > index + 1 /\ (j + 1) - 1 = j
          BY <1>0, <1>1, <4>2
        <5>2. w[j] = r[j + 1]
          BY <2>1, <3>1, <5>1
        <5>3. r[j + 1] = q[(j + 1) - 1]
          BY <1>0, <1>10, <5>1
        <5> QED  BY <5>1, <5>2, <5>3
      <4> QED  BY <1>0, <4>1, <4>2
    <3> QED  BY <3>1, <3>2
  <2>3. w = q
    BY <2>1, <2>2, SamePlaces
  <2> QED  BY <2>3 DEF w
<1> QED  BY <1>1, <1>3, <1>7, <1>8, <1>9 DEF r

LEMMA AppendElements ==
    ASSUME NEW S, NEW q \in Seq(S), Distinct(q), NEW n \in S, n \notin Elements(q)
    PROVE  LET r == Append(q, n)
           IN  /\ r \in Seq(S) /\ Distinct(r) /\ Elements(r) = Elements(q) \cup {n}
               /\ Len(r) = Len(q) + 1 /\ PlaceOf(r, n) = Len(r) /\ Without(r, n) = q
<1> DEFINE r == Append(q, n)
           t == InsertAt(q, Len(q), n)
<1>1. Len(q) \in Nat /\ r \in Seq(S) /\ Len(r) = Len(q) + 1
      /\ \A j \in 1 .. Len(r) : r[j] = IF j <= Len(q) THEN q[j] ELSE n
  BY AppendProperties, ElementsAt
<1>2. /\ t \in Seq(S) /\ Len(t) = Len(q) + 1
      /\ \A j \in 1 .. Len(t) : t[j] = IF j <= Len(q) THEN q[j]
                                       ELSE IF j = Len(q) + 1 THEN n ELSE q[j - 1]
  BY <1>1, InsertPlaces
<1>3. /\ Distinct(t) /\ Elements(t) = Elements(q) \cup {n}
      /\ PlaceOf(t, n) = Len(q) + 1 /\ Without(t, n) = q
  BY <1>1, InsertElements
<1> HIDE DEF r, t
<1>4. r = t
  BY <1>1, <1>2, SamePlaces
<1> QED  BY <1>1, <1>3, <1>4 DEF r

-----------------------------------------------------------------------------
(* Scenes                                                                  *)

\* What a scene is made of, whether or not it is a tree.
Shaped(s) ==
    /\ s = [children |-> s.children, name |-> s.name, grouped |-> s.grouped,
            property |-> s.property, links |-> s.links, inside |-> s.inside]
    /\ s.children \in [NodesOf(s) -> Seq(NodesOf(s))]
    /\ s.name = [n \in NodesOf(s) |-> s.name[n]]
    /\ s.property = [n \in NodesOf(s) |-> s.property[n]]
    /\ \A n \in NodesOf(s) : IsName(s.name[n])
    /\ \A l \in s.links : l = [from |-> l.from, to |-> l.to, flags |-> l.flags]

Whole(s) == Shaped(s) /\ IsScene(s)

\* The nodes of s are in t as they were, but for their children.
Keeps(s, t) ==
    /\ NodesOf(s) \subseteq NodesOf(t)
    /\ \A n \in NodesOf(s) : t.name[n] = s.name[n] /\ t.property[n] = s.property[n]
    /\ s.grouped \subseteq t.grouped /\ s.links \subseteq t.links

Closed(s, below) ==
    below \subseteq NodesOf(s) /\ \A k \in below : ChildrenOf(s, k) \subseteq below

LEMMA ChildrenIn ==
    ASSUME NEW s, Shaped(s), NEW n \in NodesOf(s)
    PROVE  s.children[n] \in Seq(NodesOf(s)) /\ ChildrenOf(s, n) \subseteq NodesOf(s)
BY ElementsAt DEF Shaped, ChildrenOf

LEMMA SubtreeHas ==
    ASSUME NEW s, Shaped(s), NEW n \in NodesOf(s)
    PROVE  n \in Subtree(s, n) /\ Closed(s, Subtree(s, n))
BY ChildrenIn DEF Subtree, Closed

LEMMA SubtreeLeast ==
    ASSUME NEW s, NEW n, NEW below, Closed(s, below), n \in below
    PROVE  Subtree(s, n) \subseteq below
BY DEF Subtree, Closed

\* The root leads to all nodes, so a closed set with the root is all of them.
LEMMA AllReached ==
    ASSUME NEW s, IsScene(s), NEW below, Closed(s, below), Root \in below
    PROVE  below = NodesOf(s)
<1>1. Subtree(s, Root) = NodesOf(s)
  BY DEF IsScene
<1>2. Subtree(s, Root) \subseteq below /\ below \subseteq NodesOf(s)
  BY SubtreeLeast DEF Closed
<1> QED  BY <1>1, <1>2

LEMMA ReachesAll ==
    ASSUME NEW s, Shaped(s), Root \in NodesOf(s),
           \A below : Closed(s, below) /\ Root \in below => below = NodesOf(s)
    PROVE  Subtree(s, Root) = NodesOf(s)
BY SubtreeHas

\* Every node but the root has one parent.
LEMMA HasParent ==
    ASSUME NEW s, Whole(s), NEW n \in NodesOf(s) \ {Root}
    PROVE  ParentOf(s, n) \in NodesOf(s) /\ n \in ChildrenOf(s, ParentOf(s, n))
<1> DEFINE below == {m \in NodesOf(s) : m = Root \/ \E p \in NodesOf(s) : m \in ChildrenOf(s, p)}
<1>1. Closed(s, below) /\ Root \in below
  BY ChildrenIn DEF Closed, Whole, IsScene
<1>2. below = NodesOf(s)
  BY <1>1, AllReached DEF Whole
<1>3. \E p \in NodesOf(s) : n \in ChildrenOf(s, p)
  BY <1>2
<1> QED  BY <1>3 DEF ParentOf

LEMMA OnlyParent ==
    ASSUME NEW s, IsScene(s), NEW p \in NodesOf(s), NEW n \in ChildrenOf(s, p)
    PROVE  ParentOf(s, n) = p
<1>1. \A m \in NodesOf(s) : n \in ChildrenOf(s, m) => m = p
  BY DEF IsScene
<1> QED  BY <1>1 DEF ParentOf

\* A scene whose nodes are all kept, or all owned by the root, stays whole.
LEMMA KeepAll ==
    ASSUME NEW s, Whole(s)
    PROVE  Keep(s, NodesOf(s)) = s
<1>1. \A n \in NodesOf(s) : Selected(s.children[n], NodesOf(s)) = s.children[n]
  BY ChildrenIn DEF Selected, ChildrenOf, Whole
<1>2. [n \in NodesOf(s) |-> Selected(s.children[n], NodesOf(s))] = s.children
  BY <1>1 DEF Whole, Shaped
<1>3. s.grouped \cap NodesOf(s) = s.grouped
  BY DEF Whole, IsScene
<1>4. {l \in s.links : {l.from, l.to} \subseteq NodesOf(s)} = s.links
  BY DEF Whole, IsScene
<1>5. s.inside \cap NodesOf(s) = s.inside
  BY DEF Whole, IsScene
<1> QED  BY <1>2, <1>3, <1>4, <1>5 DEF Keep, Whole, Shaped

LEMMA PackAll ==
    ASSUME NEW s, Whole(s), NEW owned, NodesOf(s) \subseteq owned
    PROVE  Pack(s, owned) = s
<1>1. UNION {Subtree(s, n) : n \in NodesOf(s) \ owned} = {}
  OBVIOUS
<1>2. Pack(s, owned) = Keep(s, NodesOf(s))
  BY <1>1 DEF Pack
<1> QED  BY <1>2, KeepAll

LEMMA NewSceneIsWhole ==
    ASSUME NEW name, IsName(name)
    PROVE  Whole(NewScene(name))
<1> DEFINE s == NewScene(name)
<1>1. /\ s = [children |-> s.children, name |-> s.name, grouped |-> s.grouped,
              property |-> s.property, links |-> s.links, inside |-> s.inside]
      /\ s.children = [n \in {Root} |-> <<>>] /\ s.name = [n \in {Root} |-> name]
      /\ s.grouped = {} /\ s.property = [n \in {Root} |-> DefaultValue] /\ s.links = {}
      /\ s.inside = {}
  BY DEF NewScene
<1> HIDE DEF s
<1>2. NodesOf(s) = {Root} /\ Elements(<<>>) = {} /\ Distinct(<<>>)
  BY <1>1 DEF NodesOf, Elements, Distinct
<1>3. ChildrenOf(s, Root) = {}
  BY <1>1, <1>2 DEF ChildrenOf
<1>4. Shaped(s)
  BY <1>1, <1>2 DEF Shaped
<1>5. Subtree(s, Root) = NodesOf(s)
  BY <1>2, <1>4, SubtreeHas DEF Closed
<1> QED  BY <1>1, <1>2, <1>3, <1>4, <1>5, RootAssumption DEF Whole, IsScene, s

-----------------------------------------------------------------------------
(* A scene made of another                                                 *)

\* A scene is read from its record, also when its nodes are given others for
\* children.
LEMMA FieldsAre ==
    ASSUME NEW kids, NEW name, NEW grouped, NEW property, NEW links, NEW inside, NEW t,
           t = [children |-> kids, name |-> name, grouped |-> grouped,
                property |-> property, links |-> links, inside |-> inside]
    PROVE  /\ t = [children |-> t.children, name |-> t.name, grouped |-> t.grouped,
                   property |-> t.property, links |-> t.links, inside |-> t.inside]
           /\ t.children = kids /\ t.name = name /\ t.grouped = grouped
           /\ t.property = property /\ t.links = links /\ t.inside = inside
OBVIOUS

LEMMA ChildrenChanged ==
    ASSUME NEW s, NEW old, NEW name, NEW grouped, NEW property, NEW links, NEW inside,
           s = [children |-> old, name |-> name, grouped |-> grouped,
                property |-> property, links |-> links, inside |-> inside],
           NEW kids, NEW t, t = [s EXCEPT !.children = kids]
    PROVE  /\ t = [children |-> t.children, name |-> t.name, grouped |-> t.grouped,
                   property |-> t.property, links |-> t.links, inside |-> t.inside]
           /\ t.children = kids /\ t.name = name /\ t.grouped = grouped
           /\ t.property = property /\ t.links = links /\ t.inside = inside
OBVIOUS

\* What a scene says of its nodes stays true with the same children.
LEMMA SameChildren ==
    ASSUME NEW s, Whole(s), NEW t, Shaped(t), t.children = s.children,
           \A n \in NodesOf(s) : \A c, d \in ChildrenOf(s, n) : t.name[c] = t.name[d] => c = d,
           \A n \in t.inside : \A c \in ChildrenOf(s, n) : t.name[c] # InnerName,
           t.grouped \subseteq NodesOf(s), t.inside \subseteq NodesOf(s),
           \A l \in t.links : l.from \in NodesOf(s) /\ l.to \in NodesOf(s)
    PROVE  Whole(t)
<1>1. NodesOf(t) = NodesOf(s) /\ \A n : ChildrenOf(t, n) = ChildrenOf(s, n)
  BY DEF NodesOf, ChildrenOf
<1>2. Subtree(t, Root) = Subtree(s, Root)
  BY <1>1 DEF Subtree
<1> QED  BY <1>1, <1>2 DEF Whole, IsScene

\* No sibling of n has the name, nor what its parent, if an instance, supplies.
NameIsFree(s, n, name) ==
    \A p \in NodesOf(s) : n \in ChildrenOf(s, p) =>
        /\ \A c \in ChildrenOf(s, p) \ {n} : s.name[c] # name
        /\ p \in s.inside => name # InnerName

\* A node is renamed: its siblings have other names.
LEMMA Renamed ==
    ASSUME NEW s, Whole(s), NEW n \in NodesOf(s), NEW name, IsName(name),
           NameIsFree(s, n, name), NEW t, t = [s EXCEPT !.name[n] = name]
    PROVE  /\ Whole(t) /\ NodesOf(t) = NodesOf(s) /\ t.grouped = s.grouped
           /\ t.property = s.property /\ t.links = s.links
<1> USE DEF Whole
<1>1. /\ t = [children |-> t.children, name |-> t.name, grouped |-> t.grouped,
              property |-> t.property, links |-> t.links, inside |-> t.inside]
      /\ t.children = s.children /\ t.name = [s.name EXCEPT ![n] = name]
      /\ t.grouped = s.grouped /\ t.property = s.property /\ t.links = s.links
      /\ t.inside = s.inside
  BY DEF Shaped
<1>2. NodesOf(t) = NodesOf(s)
  BY <1>1 DEF NodesOf
<1>3. /\ t.name = [m \in NodesOf(s) |-> t.name[m]] /\ t.name[n] = name
      /\ \A m \in NodesOf(s) \ {n} : t.name[m] = s.name[m]
  BY <1>1 DEF Shaped
<1>4. Shaped(t)
  BY <1>1, <1>2, <1>3 DEF Shaped
<1>5. ASSUME NEW m \in NodesOf(s), NEW c \in ChildrenOf(s, m), NEW d \in ChildrenOf(s, m),
             t.name[c] = t.name[d]
      PROVE  c = d
  <2>1. c \in NodesOf(s) /\ d \in NodesOf(s)
    BY ChildrenIn
  <2>2. CASE c # n /\ d # n
    BY <1>3, <1>5, <2>1, <2>2 DEF IsScene
  <2>3. CASE c = n \/ d = n
    <3>1. \A e \in ChildrenOf(s, m) \ {n} : s.name[e] # name
      BY <2>3 DEF NameIsFree
    <3> QED  BY <1>3, <1>5, <2>1, <2>3, <3>1
  <2> QED  BY <2>2, <2>3
<1>6. /\ t.grouped \subseteq NodesOf(s) /\ t.inside \subseteq NodesOf(s)
      /\ \A l \in t.links : l.from \in NodesOf(s) /\ l.to \in NodesOf(s)
  BY <1>1 DEF IsScene
<1>7. \A m \in t.inside : \A c \in ChildrenOf(s, m) : t.name[c] # InnerName
  <2>1. \A m \in NodesOf(s) : ChildrenOf(s, m) \subseteq NodesOf(s)
    BY ChildrenIn
  <2> QED  BY <1>1, <1>3, <1>6, <2>1 DEF IsScene, NameIsFree
<1>8. Whole(t)
  <2>1. \A m \in NodesOf(s) : \A c, d \in ChildrenOf(s, m) : t.name[c] = t.name[d] => c = d
    BY <1>5
  <2>2. t.children = s.children
    BY <1>1
  <2> HIDE DEF Whole
  <2> QED  BY Zenon, <1>4, <1>6, <1>7, <2>1, <2>2, SameChildren
<1> QED  BY <1>1, <1>2, <1>8

\* A property, the group or the connections change.
LEMMA Marked ==
    ASSUME NEW s, Whole(s), NEW t, Shaped(t), t.children = s.children, t.name = s.name,
           t.grouped \subseteq NodesOf(s), t.inside = s.inside,
           \A l \in t.links : l.from \in NodesOf(s) /\ l.to \in NodesOf(s)
    PROVE  Whole(t) /\ NodesOf(t) = NodesOf(s)
<1>1. /\ \A n \in NodesOf(s) : \A c, d \in ChildrenOf(s, n) : t.name[c] = t.name[d] => c = d
      /\ \A n \in t.inside : \A c \in ChildrenOf(s, n) : t.name[c] # InnerName
      /\ t.inside \subseteq NodesOf(s)
  BY DEF Whole, IsScene
<1>2. Whole(t)
  BY <1>1, SameChildren
<1> QED  BY <1>2 DEF NodesOf

\* A new node without children is added under p.
LEMMA LeafAdded ==
    ASSUME NEW s, Whole(s), NEW n \in Nodes \ NodesOf(s), NEW p \in NodesOf(s),
           NEW name, IsName(name), ~HasChildNamed(s, p, name),
           NEW t, t = AddChild(WithNode(s, n, name), p, n)
    PROVE  /\ Whole(t) /\ NodesOf(t) = NodesOf(s) \cup {n} /\ Keeps(s, t)
           /\ t.inside = s.inside /\ t.children[n] = <<>>
<1> USE DEF Whole
<1> DEFINE D == NodesOf(s)
           all == D \cup {n}
<1>1. PICK w, old, names, values :
          /\ w = WithNode(s, n, name)
          /\ old = [m \in all |-> IF m = n THEN <<>> ELSE s.children[m]]
          /\ names = [m \in all |-> IF m = n THEN name ELSE s.name[m]]
          /\ values = [m \in all |-> IF m = n THEN DefaultValue ELSE s.property[m]]
  OBVIOUS
<1>2. PICK kids : kids = [old EXCEPT ![p] = Append(old[p], n)]
  OBVIOUS
<1>3. /\ t = [children |-> t.children, name |-> t.name, grouped |-> t.grouped,
              property |-> t.property, links |-> t.links, inside |-> t.inside]
      /\ t.children = [m \in all |-> IF m = p THEN Append(s.children[p], n)
                                     ELSE IF m = n THEN <<>> ELSE s.children[m]]
      /\ t.name = [m \in all |-> IF m = n THEN name ELSE s.name[m]]
      /\ t.property = [m \in all |-> IF m = n THEN DefaultValue ELSE s.property[m]]
      /\ t.grouped = s.grouped /\ t.links = s.links /\ t.inside = s.inside
  <2>1. w = [children |-> old, name |-> names, grouped |-> s.grouped,
             property |-> values, links |-> s.links, inside |-> s.inside]
    BY <1>1 DEF WithNode
  <2>2. w.children = old
    BY <2>1
  <2>3. t = [w EXCEPT !.children = kids]
    BY <1>1, <1>2, <2>2 DEF AddChild
  <2>4. /\ t = [children |-> t.children, name |-> t.name, grouped |-> t.grouped,
                property |-> t.property, links |-> t.links, inside |-> t.inside]
        /\ t.children = kids /\ t.name = names /\ t.grouped = s.grouped
        /\ t.property = values /\ t.links = s.links /\ t.inside = s.inside
    BY ONLY <2>1, <2>3, ChildrenChanged
  <2>5. kids = [m \in all |-> IF m = p THEN Append(s.children[p], n)
                              ELSE IF m = n THEN <<>> ELSE s.children[m]]
    BY <1>1, <1>2
  <2> QED  BY <1>1, <2>4, <2>5
<1>4. NodesOf(t) = all
  BY <1>3 DEF NodesOf
<1>5. s.children[p] \in Seq(D) /\ ChildrenOf(s, p) \subseteq D /\ s.children[p] \in Seq(all)
  BY ChildrenIn, SeqMonotonic
<1>6. /\ t.children[p] \in Seq(all) /\ Distinct(t.children[p])
      /\ ChildrenOf(t, p) = ChildrenOf(s, p) \cup {n}
  BY <1>3, <1>5, AppendElements DEF ChildrenOf, IsScene
<1>7. t.children[n] = <<>> /\ ChildrenOf(t, n) = {} /\ Distinct(t.children[n])
  BY <1>3 DEF ChildrenOf, Elements, Distinct
<1>8. \A m \in D \ {p} : /\ t.children[m] = s.children[m] /\ ChildrenOf(t, m) = ChildrenOf(s, m)
                          /\ t.children[m] \in Seq(all) /\ ChildrenOf(s, m) \subseteq D
  BY <1>3, ChildrenIn, SeqMonotonic DEF ChildrenOf
<1>9. t.children \in [all -> Seq(all)]
  BY <1>3, <1>6, <1>7, <1>8
<1>10. Shaped(t)
  BY <1>3, <1>4, <1>9 DEF Shaped
<1>11. Subtree(t, Root) = NodesOf(t)
  <2> SUFFICES ASSUME NEW below, Closed(t, below), Root \in below
               PROVE  below = NodesOf(t)
    BY <1>4, <1>10, ReachesAll DEF IsScene
  <2>1. Closed(s, below \cap D)
    BY <1>5, <1>6, <1>8 DEF Closed
  <2>2. below \cap D = D
    BY <2>1, AllReached DEF IsScene
  <2>3. n \in below
    BY <1>6, <2>2 DEF Closed
  <2> QED  BY <1>4, <2>2, <2>3 DEF Closed
<1>12. ASSUME NEW m \in all
       PROVE  /\ Distinct(t.children[m]) /\ Root \notin ChildrenOf(t, m)
              /\ \A k \in all \ {m} : ChildrenOf(t, m) \cap ChildrenOf(t, k) = {}
              /\ \A c, d \in ChildrenOf(t, m) : t.name[c] = t.name[d] => c = d
              /\ m \in t.inside => \A c \in ChildrenOf(t, m) : t.name[c] # InnerName
  <2>1. Distinct(t.children[m])
    BY <1>6, <1>7, <1>8 DEF IsScene
  <2>2. Root \notin ChildrenOf(t, m)
    BY <1>6, <1>7, <1>8 DEF IsScene
  <2>3. ASSUME NEW k \in all \ {m} PROVE ChildrenOf(t, m) \cap ChildrenOf(t, k) = {}
    <3>1. \A j \in D : n \notin ChildrenOf(s, j)
      BY <1>5, <1>8
    <3>2. \A i, j \in D : i # j => ChildrenOf(s, i) \cap ChildrenOf(s, j) = {}
      BY DEF IsScene
    <3> QED  BY <1>6, <1>7, <1>8, <3>1, <3>2
  <2>4. ASSUME NEW c \in ChildrenOf(t, m), NEW d \in ChildrenOf(t, m), t.name[c] = t.name[d]
        PROVE  c = d
    <3>1. CASE m = p
      <4>1. \A e \in ChildrenOf(s, p) : e # n /\ t.name[e] = s.name[e] /\ s.name[e] # name
        BY <1>3, <1>5 DEF HasChildNamed, ChildNames
      <4>2. t.name[n] = name
        BY <1>3
      <4> QED  BY <1>6, <2>4, <3>1, <4>1, <4>2 DEF IsScene
    <3>2. CASE m # p /\ m # n
      BY <1>3, <1>8, <2>4, <3>2 DEF IsScene
    <3> QED  BY <1>7, <2>4, <3>1, <3>2
  <2>5. ASSUME m \in t.inside, NEW c \in ChildrenOf(t, m)  PROVE t.name[c] # InnerName
    <3>1. m \in D /\ m \in s.inside /\ ChildrenOf(s, m) \subseteq D
      BY <1>3, <2>5, ChildrenIn DEF IsScene
    <3>2. CASE c \in ChildrenOf(s, m)
      BY <1>3, <3>1, <3>2 DEF IsScene
    <3>3. CASE m = p /\ c = n
      BY <1>3, <3>1, <3>3 DEF HasChildNamed, ChildNames
    <3> QED  BY <1>6, <1>8, <2>5, <3>1, <3>2, <3>3
  <2> QED  BY <2>1, <2>2, <2>3, <2>4, <2>5
<1>13. t.grouped \subseteq all /\ t.inside \subseteq all /\ \A l \in t.links : {l.from, l.to} \subseteq all
  BY <1>3 DEF IsScene
<1>14. IsScene(t)
  BY <1>4, <1>11, <1>12, <1>13 DEF IsScene
<1> QED  BY <1>3, <1>4, <1>7, <1>10, <1>14 DEF Keeps

\* A child of a node outside a subtree is outside too, unless it is its top.
LEMMA OutsideStays ==
    ASSUME NEW s, Whole(s), NEW n \in NodesOf(s), NEW m \in NodesOf(s) \ Subtree(s, n),
           NEW c \in ChildrenOf(s, m), c # n
    PROVE  c \notin Subtree(s, n)
<1> USE DEF Whole
<1> SUFFICES ASSUME c \in Subtree(s, n) PROVE FALSE
  OBVIOUS
<1> DEFINE below == Subtree(s, n) \ {c}
<1>1. Closed(s, Subtree(s, n)) /\ n \in Subtree(s, n)
  BY SubtreeHas
<1>2. \A k \in Subtree(s, n) : k \in NodesOf(s) /\ k # m /\ c \notin ChildrenOf(s, k)
  BY <1>1 DEF Closed, IsScene
<1>3. Closed(s, below) /\ n \in below
  BY <1>1, <1>2 DEF Closed
<1>4. Subtree(s, n) \subseteq below
  BY <1>3, SubtreeLeast
<1> QED  BY <1>4

\* A node is not below itself.
LEMMA NotAbove ==
    ASSUME NEW s, Whole(s), NEW n \in NodesOf(s), NEW k \in Subtree(s, n)
    PROVE  n \notin ChildrenOf(s, k)
<1> USE DEF Whole
<1> SUFFICES ASSUME n \in ChildrenOf(s, k) PROVE FALSE
  OBVIOUS
<1> DEFINE outside == NodesOf(s) \ Subtree(s, n)
<1>1. Closed(s, Subtree(s, n)) /\ n \in Subtree(s, n) /\ k \in NodesOf(s)
  BY SubtreeHas DEF Closed
<1>2. Root \in outside
  <2>1. Closed(s, Subtree(s, n) \ {Root}) /\ n \in Subtree(s, n) \ {Root}
    BY <1>1 DEF Closed, IsScene
  <2>2. Root \notin Subtree(s, n)
    BY <2>1, SubtreeLeast
  <2> QED  BY <2>2 DEF IsScene
<1>3. ASSUME NEW m \in outside, NEW c \in ChildrenOf(s, m)
      PROVE  c \in outside
  <2>1. c # n
    BY <1>1 DEF IsScene
  <2>2. c \in NodesOf(s)
    BY ChildrenIn
  <2> QED  BY <2>1, <2>2, OutsideStays
<1>4. Closed(s, outside)
  BY <1>3 DEF Closed
<1>5. outside = NodesOf(s)
  BY <1>2, <1>4, AllReached
<1> QED  BY <1>1, <1>5

\* A node is taken from its siblings.
LEMMA ChildRemoved ==
    ASSUME NEW s, Whole(s), NEW n \in NodesOf(s) \ {Root}, NEW u, u = RemoveChild(s, n)
    PROVE  /\ u = [children |-> u.children, name |-> s.name, grouped |-> s.grouped,
                   property |-> s.property, links |-> s.links, inside |-> s.inside]
           /\ u.children \in [NodesOf(s) -> Seq(NodesOf(s))]
           /\ \A m \in NodesOf(s) : /\ u.children[m] = Without(s.children[m], n)
                                    /\ Distinct(u.children[m])
                                    /\ ChildrenOf(u, m) = ChildrenOf(s, m) \ {n}
<1> USE DEF Whole
<1> DEFINE p == ParentOf(s, n)
<1>1. p \in NodesOf(s) /\ n \in ChildrenOf(s, p)
  BY HasParent
<1>2. /\ u = [children |-> u.children, name |-> s.name, grouped |-> s.grouped,
              property |-> s.property, links |-> s.links, inside |-> s.inside]
      /\ u.children = [s.children EXCEPT ![p] = Without(s.children[p], n)]
  BY DEF RemoveChild, Shaped
<1> HIDE DEF p
<1>3. \A m \in NodesOf(s) \ {p} : n \notin Elements(s.children[m])
  BY <1>1 DEF IsScene, ChildrenOf
<1>4. ASSUME NEW m \in NodesOf(s)
      PROVE  /\ Without(s.children[m], n) \in Seq(NodesOf(s))
             /\ Distinct(Without(s.children[m], n))
             /\ Elements(Without(s.children[m], n)) = ChildrenOf(s, m) \ {n}
  <2>1. s.children[m] \in Seq(NodesOf(s)) /\ Distinct(s.children[m])
    BY ChildrenIn DEF IsScene
  <2> QED  BY <2>1, WithoutElements DEF ChildrenOf
<1>5. \A m \in NodesOf(s) : u.children[m] = Without(s.children[m], n)
  <2>1. \A m \in NodesOf(s) \ {p} : Without(s.children[m], n) = s.children[m]
    BY <1>3, WithoutNone
  <2> QED  BY <1>1, <1>2, <2>1 DEF Shaped
<1>6. u.children \in [NodesOf(s) -> Seq(NodesOf(s))]
  BY <1>1, <1>2, <1>4 DEF Shaped
<1> QED  BY <1>2, <1>4, <1>5, <1>6 DEF ChildrenOf

\* The nodes that are left when n and all below it are removed.
LEMMA SubtreeRemoved ==
    ASSUME NEW s, Whole(s), NEW n \in NodesOf(s) \ {Root}, NEW t, t = Removed(s, n)
    PROVE  /\ Whole(t) /\ NodesOf(t) = NodesOf(s) \ Subtree(s, n)
           /\ \A m \in NodesOf(t) : t.name[m] = s.name[m] /\ t.property[m] = s.property[m]
           /\ s.grouped \cap NodesOf(t) \subseteq t.grouped
           /\ \A l \in s.links : l.from \in NodesOf(t) /\ l.to \in NodesOf(t) => l \in t.links
<1> USE DEF Whole
<1> DEFINE D == NodesOf(s)
<1>0. PICK left : left = NodesOf(s) \ Subtree(s, n)
  OBVIOUS
<1> USE <1>0
<1>1. PICK u : u = RemoveChild(s, n)
  OBVIOUS
<1>2. /\ u = [children |-> u.children, name |-> s.name, grouped |-> s.grouped,
              property |-> s.property, links |-> s.links, inside |-> s.inside]
      /\ u.children \in [D -> Seq(D)]
      /\ \A m \in D : /\ u.children[m] = Without(s.children[m], n) /\ Distinct(u.children[m])
                       /\ ChildrenOf(u, m) = ChildrenOf(s, m) \ {n}
  BY <1>1, ChildRemoved
<1>3. ASSUME NEW m \in left
      PROVE  ChildrenOf(u, m) \subseteq left /\ u.children[m] \in Seq(left)
  <2>1. ChildrenOf(s, m) \subseteq D
    BY ChildrenIn
  <2>2. ChildrenOf(u, m) \subseteq left
    BY <1>2, <2>1, OutsideStays
  <2>3. u.children[m] \in Seq(D) /\ \A i \in 1 .. Len(u.children[m]) : u.children[m][i] \in left
    BY <1>2, <2>2, ElementsAt DEF ChildrenOf
  <2> QED  BY <2>2, <2>3, IsASeq, LenProperties
<1>4. \A m \in left : Selected(u.children[m], left) = u.children[m]
  BY <1>3 DEF Selected, ChildrenOf
<1>5. /\ t = [children |-> t.children, name |-> t.name, grouped |-> t.grouped,
              property |-> t.property, links |-> t.links, inside |-> t.inside]
      /\ t.children = [m \in left |-> u.children[m]]
      /\ t.name = [m \in left |-> s.name[m]] /\ t.property = [m \in left |-> s.property[m]]
      /\ t.grouped = s.grouped \cap left
      /\ t.links = {l \in s.links : {l.from, l.to} \subseteq left}
      /\ t.inside = s.inside \cap left
  <2>1. PICK kids, names, values, links :
            /\ kids = [m \in left |-> Selected(u.children[m], left)]
            /\ names = [m \in left |-> s.name[m]] /\ values = [m \in left |-> s.property[m]]
            /\ links = {l \in s.links : {l.from, l.to} \subseteq left}
    OBVIOUS
  <2>2. kids = [m \in left |-> u.children[m]]
    BY <1>4, <2>1
  <2>3. /\ u.name = s.name /\ u.grouped = s.grouped /\ u.property = s.property
        /\ u.links = s.links /\ u.inside = s.inside
    BY <1>2
  <2>4. t = [children |-> kids, name |-> names, grouped |-> s.grouped \cap left,
             property |-> values, links |-> links, inside |-> s.inside \cap left]
    BY <1>1, <2>1, <2>3 DEF Keep, Removed
  <2>5. /\ t = [children |-> t.children, name |-> t.name, grouped |-> t.grouped,
                property |-> t.property, links |-> t.links, inside |-> t.inside]
        /\ t.children = kids /\ t.name = names /\ t.grouped = s.grouped \cap left
        /\ t.property = values /\ t.links = links /\ t.inside = s.inside \cap left
    BY ONLY <2>4, FieldsAre
  <2> QED  BY <2>1, <2>2, <2>5
<1>6. NodesOf(t) = left /\ \A m \in left : ChildrenOf(t, m) = ChildrenOf(s, m) \ {n}
  BY <1>2, <1>5 DEF NodesOf, ChildrenOf
<1>7. Shaped(t)
  <2>1. t.children \in [left -> Seq(left)]
    BY <1>3, <1>5
  <2>2. \A m \in left : IsName(t.name[m])
    BY <1>5 DEF Shaped
  <2>3. \A l \in t.links : l = [from |-> l.from, to |-> l.to, flags |-> l.flags]
    BY <1>5 DEF Shaped
  <2> QED  BY <1>5, <1>6, <2>1, <2>2, <2>3 DEF Shaped
<1>8. Root \in left
  <2>1. Closed(s, D \ {Root}) /\ n \in D \ {Root}
    BY ChildrenIn DEF Closed, IsScene
  <2> QED  BY <2>1, SubtreeLeast DEF IsScene
<1>9. Subtree(t, Root) = NodesOf(t)
  <2> SUFFICES ASSUME NEW below, Closed(t, below), Root \in below
               PROVE  below = NodesOf(t)
    BY <1>6, <1>7, <1>8, ReachesAll
  <2>1. below \subseteq left /\ \A k \in below : ChildrenOf(s, k) \subseteq below \cup {n}
    BY <1>6 DEF Closed
  <2>2. Closed(s, Subtree(s, n)) /\ n \in Subtree(s, n)
    BY SubtreeHas
  <2>3. Closed(s, below \cup Subtree(s, n))
    BY <2>1, <2>2 DEF Closed
  <2>4. below \cup Subtree(s, n) = D
    BY <2>3, AllReached
  <2> QED  BY <1>6, <2>1, <2>4
<1>10. ASSUME NEW m \in left
       PROVE  /\ Distinct(t.children[m]) /\ Root \notin ChildrenOf(t, m)
              /\ \A k \in left \ {m} : ChildrenOf(t, m) \cap ChildrenOf(t, k) = {}
              /\ \A c, d \in ChildrenOf(t, m) : t.name[c] = t.name[d] => c = d
              /\ m \in t.inside => \A c \in ChildrenOf(t, m) : t.name[c] # InnerName
  <2>1. Distinct(t.children[m]) /\ Root \notin ChildrenOf(t, m)
    BY <1>2, <1>5, <1>6 DEF IsScene
  <2>2. \A k \in left \ {m} : ChildrenOf(t, m) \cap ChildrenOf(t, k) = {}
    BY <1>6 DEF IsScene
  <2>3. \A c \in ChildrenOf(t, m) : c \in ChildrenOf(s, m) /\ c \in left
    BY <1>6, <1>7, ChildrenIn
  <2>4. \A c \in ChildrenOf(t, m) : t.name[c] = s.name[c]
    BY <1>5, <2>3
  <2>5. /\ \A c, d \in ChildrenOf(s, m) : s.name[c] = s.name[d] => c = d
        /\ m \in s.inside => \A c \in ChildrenOf(s, m) : s.name[c] # InnerName
    BY DEF IsScene
  <2> QED  BY <1>5, <2>1, <2>2, <2>3, <2>4, <2>5
<1>11. NodesOf(t) \subseteq Nodes /\ t.grouped \subseteq left /\ t.inside \subseteq left
       /\ \A l \in t.links : {l.from, l.to} \subseteq left
  BY <1>5, <1>6 DEF IsScene
<1>12. IsScene(t)
  <2>1. Root \in NodesOf(t) /\ t.grouped \subseteq NodesOf(t) /\ t.inside \subseteq NodesOf(t)
        /\ \A l \in t.links : {l.from, l.to} \subseteq NodesOf(t)
    BY <1>6, <1>8, <1>11
  <2>2. \A m \in NodesOf(t) :
            /\ Distinct(t.children[m]) /\ Root \notin ChildrenOf(t, m)
            /\ \A k \in NodesOf(t) \ {m} : ChildrenOf(t, m) \cap ChildrenOf(t, k) = {}
            /\ \A c, d \in ChildrenOf(t, m) : t.name[c] = t.name[d] => c = d
            /\ m \in t.inside => \A c \in ChildrenOf(t, m) : t.name[c] # InnerName
    BY <1>6, <1>10
  <2> QED  BY <1>9, <1>11, <2>1, <2>2 DEF IsScene
<1> QED  BY <1>5, <1>6, <1>7, <1>12

\* The scene t is s but for the children of its nodes, which are those of s
\* with n taken from where it is, and put under p.
Moves(s, t, n, p) ==
    /\ t = [children |-> t.children, name |-> s.name, grouped |-> s.grouped,
            property |-> s.property, links |-> s.links, inside |-> s.inside]
    /\ t.children \in [NodesOf(s) -> Seq(NodesOf(s))]
    /\ \A m \in NodesOf(s) :
           /\ Distinct(t.children[m])
           /\ ChildrenOf(t, m) = (ChildrenOf(s, m) \ {n}) \cup IF m = p THEN {n} ELSE {}

\* A node is put, with all below it, under a node that is not below it, among
\* siblings of other names.
LEMMA Replanted ==
    ASSUME NEW s, Whole(s), NEW n \in NodesOf(s) \ {Root}, NEW p \in NodesOf(s) \ Subtree(s, n),
           \A c \in ChildrenOf(s, p) \ {n} : s.name[c] # s.name[n],
           p \in s.inside => s.name[n] # InnerName,
           NEW t, Moves(s, t, n, p)
    PROVE  Whole(t) /\ NodesOf(t) = NodesOf(s) /\ Subtree(t, n) = Subtree(s, n)
<1> USE DEF Whole, Moves
<1> DEFINE D == NodesOf(s)
<1>1. /\ t.name = s.name /\ t.grouped = s.grouped /\ t.property = s.property
      /\ t.links = s.links /\ t.inside = s.inside
  <2>1. PICK kids : kids = t.children
    OBVIOUS
  <2>2. t = [children |-> kids, name |-> s.name, grouped |-> s.grouped,
             property |-> s.property, links |-> s.links, inside |-> s.inside]
    BY <2>1
  <2> QED  BY ONLY <2>2, FieldsAre
<1>2. NodesOf(t) = D
  BY DEF NodesOf
<1>3. Shaped(t)
  BY <1>1, <1>2 DEF Shaped
<1>4. \A m \in D : /\ ChildrenOf(s, m) \subseteq ChildrenOf(t, m) \cup {n}
                   /\ ChildrenOf(t, m) \subseteq ChildrenOf(s, m) \cup {n}
                   /\ n \in ChildrenOf(t, m) <=> m = p
  OBVIOUS
<1>5. Closed(s, Subtree(s, n)) /\ n \in Subtree(s, n)
  BY SubtreeHas
<1>6. Closed(t, Subtree(t, n)) /\ n \in Subtree(t, n)
  BY <1>2, <1>3, SubtreeHas
<1>7. Subtree(t, n) = Subtree(s, n)
  <2>1. Closed(s, Subtree(t, n))
    BY <1>2, <1>4, <1>6 DEF Closed
  <2>2. Closed(t, Subtree(s, n))
    BY <1>2, <1>4, <1>5 DEF Closed
  <2>3. Subtree(s, n) \subseteq Subtree(t, n)
    BY <1>6, <2>1, SubtreeLeast
  <2>4. Subtree(t, n) \subseteq Subtree(s, n)
    BY <1>5, <2>2, SubtreeLeast
  <2> QED  BY <2>3, <2>4
<1>8. Subtree(t, Root) = NodesOf(t)
  <2> SUFFICES ASSUME NEW below, Closed(t, below), Root \in below
               PROVE  below = NodesOf(t)
    BY <1>2, <1>3, ReachesAll DEF IsScene
  <2>1. Closed(s, below \cup Subtree(s, n))
    BY <1>2, <1>4, <1>5 DEF Closed
  <2>2. below \cup Subtree(s, n) = D
    BY <2>1, AllReached
  <2>3. p \in below
    BY <2>2
  <2>4. n \in below
    BY <1>2, <1>4, <2>3 DEF Closed
  <2>5. Closed(s, Subtree(s, n) \cap below)
    BY <1>2, <1>4, <1>5, <2>4 DEF Closed
  <2>6. Subtree(s, n) \subseteq Subtree(s, n) \cap below
    BY <1>5, <2>4, <2>5, SubtreeLeast
  <2> QED  BY <1>2, <2>2, <2>6 DEF Closed
<1>9. ASSUME NEW m \in D
      PROVE  /\ Distinct(t.children[m]) /\ Root \notin ChildrenOf(t, m)
             /\ \A k \in D \ {m} : ChildrenOf(t, m) \cap ChildrenOf(t, k) = {}
             /\ \A c, d \in ChildrenOf(t, m) : t.name[c] = t.name[d] => c = d
             /\ m \in t.inside => \A c \in ChildrenOf(t, m) : t.name[c] # InnerName
  <2>1. Root \notin ChildrenOf(t, m)
    BY <1>4 DEF IsScene
  <2>2. \A k \in D \ {m} : ChildrenOf(s, m) \cap ChildrenOf(s, k) = {}
    BY DEF IsScene
  <2>3. \A k \in D \ {m} : ChildrenOf(t, m) \cap ChildrenOf(t, k) = {}
    BY <1>4, <2>2
  <2>4. /\ \A c, d \in ChildrenOf(s, m) : s.name[c] = s.name[d] => c = d
        /\ m \in s.inside => \A c \in ChildrenOf(s, m) : s.name[c] # InnerName
    BY DEF IsScene
  <2>5. /\ \A c, d \in ChildrenOf(t, m) : s.name[c] = s.name[d] => c = d
        /\ m \in s.inside => \A c \in ChildrenOf(t, m) : s.name[c] # InnerName
    <3>1. CASE m = p
      BY <2>4, <3>1
    <3>2. CASE m # p
      BY <2>4, <3>2
    <3> QED  BY <3>1, <3>2
  <2> QED  BY <1>1, <2>1, <2>3, <2>5
<1>10. IsScene(t)
  <2>1. Root \in NodesOf(t) /\ NodesOf(t) \subseteq Nodes /\ t.grouped \subseteq NodesOf(t)
        /\ t.inside \subseteq NodesOf(t)
        /\ \A l \in t.links : {l.from, l.to} \subseteq NodesOf(t)
    BY <1>1, <1>2 DEF IsScene
  <2>2. \A m \in NodesOf(t) :
            /\ Distinct(t.children[m]) /\ Root \notin ChildrenOf(t, m)
            /\ \A k \in NodesOf(t) \ {m} : ChildrenOf(t, m) \cap ChildrenOf(t, k) = {}
            /\ \A c, d \in ChildrenOf(t, m) : t.name[c] = t.name[d] => c = d
            /\ m \in t.inside => \A c \in ChildrenOf(t, m) : t.name[c] # InnerName
    BY <1>2, <1>9
  <2> QED  BY <1>8, <2>1, <2>2 DEF IsScene
<1> QED  BY <1>2, <1>3, <1>7, <1>10

\* What moving the node n to a place, from 0, among the children of p that are
\* nodes of the scene is to do.
MovedTo(s, t, p, n, place) ==
    /\ Whole(t) /\ NodesOf(t) = NodesOf(s) /\ Keeps(s, t) /\ t.inside = s.inside
    /\ ParentOf(t, n) = p /\ n \in ChildrenOf(t, p)
    /\ IndexOf(t, n) = place + Supplied(s, p)
    /\ Subtree(t, n) = Subtree(s, n)
    /\ \A m \in NodesOf(s) : Without(t.children[m], n) = Without(s.children[m], n)

LEMMA MovedWithin ==
    ASSUME NEW s, Whole(s), NEW p \in NodesOf(s), NEW n \in ChildrenOf(s, p),
           NEW index \in 0 .. (Len(s.children[p]) - 1),
           NEW t, t = PutAt(s, p, n, index)
    PROVE  MovedTo(s, t, p, n, index) /\ Len(t.children[p]) = Len(s.children[p])
<1> USE DEF Whole
<1> DEFINE D == NodesOf(s)
<1>1. PICK q : q = s.children[p]
  OBVIOUS
<1>2. PICK r : r = InsertAt(Without(q, n), index, n)
  OBVIOUS
<1>3. q \in Seq(D) /\ Distinct(q) /\ Elements(q) = ChildrenOf(s, p) /\ n \in D /\ n # Root
  BY <1>1, ChildrenIn DEF IsScene, ChildrenOf
<1>4. /\ Without(q, n) \in Seq(D) /\ Distinct(Without(q, n)) /\ Len(Without(q, n)) = Len(q) - 1
      /\ Elements(Without(q, n)) = Elements(q) \ {n} /\ Len(q) \in Nat
  <2>1. PICK i \in 1 .. Len(q) : q[i] = n
    BY <1>3, ElementsAt
  <2>2. Len(q) \in Nat /\ Len(Without(q, n)) = Len(q) - 1
    BY <1>3, <2>1, WithoutPlaces, ElementsAt
  <2> QED  BY <1>3, <2>2, WithoutElements
<1>5. /\ r \in Seq(D) /\ Distinct(r) /\ Elements(r) = Elements(q) /\ Len(r) = Len(q)
      /\ PlaceOf(r, n) = index + 1 /\ Without(r, n) = Without(q, n)
  <2>1. PICK u : u = Without(q, n)
    OBVIOUS
  <2>2. index \in 0 .. Len(u) /\ n \notin Elements(u) /\ Len(u) = Len(q) - 1
    BY <1>1, <1>4, <2>1
  <2>3. /\ r \in Seq(D) /\ Distinct(r) /\ Elements(r) = Elements(u) \cup {n}
        /\ Len(r) = Len(u) + 1 /\ PlaceOf(r, n) = index + 1 /\ Without(r, n) = u
    BY <1>2, <1>3, <1>4, <2>1, <2>2, InsertElements
  <2> QED  BY <1>3, <1>4, <2>1, <2>2, <2>3
<1>6. PICK kids : kids = [s.children EXCEPT ![p] = r]
  OBVIOUS
<1>7. t = [s EXCEPT !.children = kids]
  BY <1>1, <1>2, <1>6 DEF PutAt, Shaped
<1>8. /\ t = [children |-> t.children, name |-> s.name, grouped |-> s.grouped,
              property |-> s.property, links |-> s.links, inside |-> s.inside]
      /\ t.children = kids /\ t.name = s.name /\ t.grouped = s.grouped
      /\ t.property = s.property /\ t.links = s.links /\ t.inside = s.inside
  <2>1. PICK old : s = [children |-> old, name |-> s.name, grouped |-> s.grouped,
                        property |-> s.property, links |-> s.links, inside |-> s.inside]
    BY DEF Shaped
  <2> QED  BY ONLY <1>7, <2>1, ChildrenChanged
<1>9. /\ kids \in [D -> Seq(D)] /\ kids[p] = r /\ \A m \in D \ {p} : kids[m] = s.children[m]
  BY <1>5, <1>6 DEF Shaped
<1>10. ASSUME NEW m \in D
       PROVE  /\ Distinct(kids[m]) /\ Elements(kids[m]) = ChildrenOf(s, m)
              /\ (m # p => n \notin ChildrenOf(s, m))
              /\ Without(kids[m], n) = Without(s.children[m], n)
  <2>1. CASE m = p
    BY <1>1, <1>3, <1>5, <1>9, <2>1
  <2>2. CASE m # p
    BY <1>9, <2>2 DEF IsScene, ChildrenOf
  <2> QED  BY <2>1, <2>2
<1>11. p \notin Subtree(s, n)
  BY <1>3, NotAbove
<1>12. /\ \A c \in ChildrenOf(s, p) \ {n} : s.name[c] # s.name[n]
       /\ p \in s.inside => s.name[n] # InnerName
  BY DEF IsScene
<1>13. \A m \in D : /\ Distinct(t.children[m])
                    /\ ChildrenOf(t, m) = (ChildrenOf(s, m) \ {n}) \cup IF m = p THEN {n} ELSE {}
  BY <1>8, <1>10 DEF ChildrenOf
<1>14. Whole(t) /\ NodesOf(t) = D /\ Subtree(t, n) = Subtree(s, n)
  <2>1. Moves(s, t, n, p)
    BY <1>8, <1>9, <1>13 DEF Moves
  <2>2. n \in D \ {Root} /\ p \in D \ Subtree(s, n)
    BY <1>3, <1>11
  <2> HIDE DEF Whole
  <2> QED  BY Zenon, <1>12, <2>1, <2>2, Replanted
<1>15. ParentOf(t, n) = p /\ n \in ChildrenOf(t, p)
  BY <1>13, <1>14, OnlyParent
<1>16. IndexOf(t, n) = index + Supplied(s, p)
  <2>1. PlaceOf(t.children[p], n) = index + 1
    BY <1>5, <1>8, <1>9
  <2>2. Supplied(t, p) = Supplied(s, p) /\ Supplied(s, p) \in Nat
    BY <1>8 DEF Supplied
  <2> QED  BY <1>15, <2>1, <2>2 DEF IndexOf
<1>17. Keeps(s, t)
  BY <1>8, <1>14 DEF Keeps
<1> QED  BY <1>1, <1>5, <1>8, <1>9, <1>10, <1>14, <1>15, <1>16, <1>17 DEF MovedTo

LEMMA MovedAway ==
    ASSUME NEW s, Whole(s), NEW n \in NodesOf(s) \ {Root}, NEW p \in NodesOf(s) \ Subtree(s, n),
           p # ParentOf(s, n), ~HasChildNamed(s, p, s.name[n]),
           NEW t, t = AddChild(RemoveChild(s, n), p, n)
    PROVE  /\ MovedTo(s, t, p, n, Len(s.children[p]))
           /\ Len(t.children[p]) = Len(s.children[p]) + 1
<1> USE DEF Whole
<1> DEFINE D == NodesOf(s)
<1>1. PICK u : u = RemoveChild(s, n)
  OBVIOUS
<1>2. /\ u = [children |-> u.children, name |-> s.name, grouped |-> s.grouped,
              property |-> s.property, links |-> s.links, inside |-> s.inside]
      /\ u.children \in [D -> Seq(D)]
      /\ \A m \in D : /\ u.children[m] = Without(s.children[m], n) /\ Distinct(u.children[m])
                       /\ ChildrenOf(u, m) = ChildrenOf(s, m) \ {n}
  BY <1>1, ChildRemoved
<1>3. n \notin ChildrenOf(s, p)
  BY OnlyParent
<1>4. PICK q : q = s.children[p]
  OBVIOUS
<1>5. q \in Seq(D) /\ Distinct(q) /\ Elements(q) = ChildrenOf(s, p) /\ u.children[p] = q
      /\ Len(q) \in Nat
  <2>1. q \in Seq(D) /\ Distinct(q) /\ Elements(q) = ChildrenOf(s, p)
    BY <1>4, ChildrenIn DEF IsScene, ChildrenOf
  <2>2. u.children[p] = q
    BY <1>2, <1>3, <1>4, <2>1, WithoutNone
  <2> QED  BY <2>1, <2>2, ElementsAt
<1>6. PICK r : r = Append(q, n)
  OBVIOUS
<1>7. /\ r \in Seq(D) /\ Distinct(r) /\ Elements(r) = Elements(q) \cup {n}
      /\ Len(r) = Len(q) + 1 /\ PlaceOf(r, n) = Len(r) /\ Without(r, n) = q
  BY <1>3, <1>5, <1>6, AppendElements
<1>8. PICK kids : kids = [u.children EXCEPT ![p] = r]
  OBVIOUS
<1>9. /\ t = [children |-> t.children, name |-> t.name, grouped |-> t.grouped,
              property |-> t.property, links |-> t.links, inside |-> t.inside]
      /\ t.children = kids /\ t.name = s.name /\ t.grouped = s.grouped
      /\ t.property = s.property /\ t.links = s.links /\ t.inside = s.inside
  <2>1. t = [u EXCEPT !.children = [u.children EXCEPT ![p] = Append(u.children[p], n)]]
    BY <1>1 DEF AddChild
  <2>2. t = [u EXCEPT !.children = kids]
    BY <1>5, <1>6, <1>8, <2>1
  <2>3. PICK old : old = u.children
    OBVIOUS
  <2>4. u = [children |-> old, name |-> s.name, grouped |-> s.grouped,
             property |-> s.property, links |-> s.links, inside |-> s.inside]
    BY <1>2, <2>3
  <2> QED  BY ONLY <2>2, <2>4, ChildrenChanged
<1>10. t = [children |-> t.children, name |-> s.name, grouped |-> s.grouped,
            property |-> s.property, links |-> s.links, inside |-> s.inside]
  BY <1>9
<1>11. kids \in [D -> Seq(D)] /\ kids[p] = r /\ \A m \in D \ {p} : kids[m] = u.children[m]
  BY <1>2, <1>7, <1>8
<1>12. ASSUME NEW m \in D
       PROVE  /\ Distinct(kids[m])
              /\ Elements(kids[m]) = (ChildrenOf(s, m) \ {n}) \cup IF m = p THEN {n} ELSE {}
              /\ Without(kids[m], n) = Without(s.children[m], n)
  <2>1. CASE m = p
    BY <1>2, <1>3, <1>5, <1>7, <1>11, <2>1
  <2>2. CASE m # p
    <3>1. kids[m] = u.children[m] /\ Distinct(kids[m])
          /\ Elements(kids[m]) = ChildrenOf(s, m) \ {n}
      BY <1>2, <1>11, <2>2 DEF ChildrenOf
    <3>2. Without(kids[m], n) = kids[m]
      BY <3>1, WithoutNone
    <3> QED  BY <1>2, <2>2, <3>1, <3>2
  <2> QED  BY <2>1, <2>2
<1>13. /\ \A c \in ChildrenOf(s, p) \ {n} : s.name[c] # s.name[n]
       /\ p \in s.inside => s.name[n] # InnerName
  BY DEF HasChildNamed, ChildNames
<1>14. \A m \in D : /\ Distinct(t.children[m])
                    /\ ChildrenOf(t, m) = (ChildrenOf(s, m) \ {n}) \cup IF m = p THEN {n} ELSE {}
  BY <1>9, <1>12 DEF ChildrenOf
<1>15. Whole(t) /\ NodesOf(t) = D /\ Subtree(t, n) = Subtree(s, n)
  <2>1. Moves(s, t, n, p)
    BY <1>9, <1>10, <1>11, <1>14 DEF Moves
  <2> HIDE DEF Whole
  <2> QED  BY Zenon, <1>13, <2>1, Replanted
<1>16. ParentOf(t, n) = p /\ n \in ChildrenOf(t, p)
  BY <1>14, <1>15, OnlyParent
<1>17. IndexOf(t, n) = Len(q) + Supplied(s, p)
  <2>1. PlaceOf(t.children[p], n) = Len(q) + 1
    BY <1>5, <1>7, <1>9, <1>11
  <2>2. Supplied(t, p) = Supplied(s, p) /\ Supplied(s, p) \in Nat
    BY <1>9 DEF Supplied
  <2> QED  BY <1>5, <1>16, <2>1, <2>2 DEF IndexOf
<1>18. Keeps(s, t)
  BY <1>9, <1>15 DEF Keeps
<1> QED  BY <1>4, <1>7, <1>9, <1>11, <1>12, <1>15, <1>16, <1>17, <1>18 DEF MovedTo

\* The scene w has the scene s and copies in it: cf maps each node of the source
\* to its copy, and links are the connections of both.
HasCopies(s, copies, copyOf, cf, links, w) ==
    LET all == NodesOf(s) \cup copies
    IN  /\ \A m \in DOMAIN cf : copyOf[cf[m]] = m
        /\ \A c \in copies : cf[copyOf[c]] = c
        /\ s.links \subseteq links
        /\ \A l \in links \ s.links :
               /\ l = [from |-> l.from, to |-> l.to, flags |-> l.flags]
               /\ l.from \in all /\ l.to \in all
        /\ w = [children |-> [n \in all |->
                                 IF n \in copies
                                 THEN [i \in DOMAIN s.children[copyOf[n]] |->
                                           cf[s.children[copyOf[n]][i]]]
                                 ELSE s.children[n]],
                name     |-> [n \in all |-> s.name[IF n \in copies THEN copyOf[n] ELSE n]],
                grouped  |-> s.grouped \cup {c \in copies : copyOf[c] \in s.grouped},
                property |-> [n \in all |-> s.property[IF n \in copies THEN copyOf[n] ELSE n]],
                links    |-> links,
                inside   |-> s.inside \cup {c \in copies : copyOf[c] \in s.inside}]

LEMMA CopiesMade ==
    ASSUME NEW s, Whole(s), NEW source \in NodesOf(s), NEW copies \in SUBSET (Nodes \ NodesOf(s)),
           NEW copyOf \in [copies -> Subtree(s, source)],
           Elements(copyOf) = Subtree(s, source),
           \A c, d \in copies : copyOf[c] = copyOf[d] => c = d
    PROVE  \E cf \in [Subtree(s, source) -> copies] : \E links :
               HasCopies(s, copies, copyOf, cf, links, WithCopies(s, copyOf))
<1> USE DEF Whole
<1>0. PICK all, w : all = NodesOf(s) \cup copies /\ w = WithCopies(s, copyOf)
  OBVIOUS
<1> DEFINE S == Subtree(s, source)
           copyFor(n) == CHOOSE c \in copies : copyOf[c] = n
           cf == [m \in S |-> copyFor(m)]
           copied == {copyOf[c] : c \in copies}
           links == s.links \cup
                      {[from  |-> copyFor(l.from),
                        to    |-> IF l.to \in copied THEN copyFor(l.to) ELSE l.to,
                        flags |-> l.flags] : l \in {l \in s.links : l.from \in copied}}
<1>1. DOMAIN copyOf = copies /\ copied = S
  BY DEF Elements
<1>2. \A m \in S : copyFor(m) \in copies /\ copyOf[copyFor(m)] = m
  BY <1>1
<1>3. cf \in [S -> copies] /\ \A m \in S : cf[m] = copyFor(m) /\ copyOf[cf[m]] = m
  BY <1>2
<1>4. \A c \in copies : cf[copyOf[c]] = c
  BY <1>3
<1>5. Closed(s, S) /\ S \subseteq NodesOf(s)
  BY SubtreeHas DEF Closed
<1>6. ASSUME NEW l \in links \ s.links
      PROVE  /\ l = [from |-> l.from, to |-> l.to, flags |-> l.flags]
             /\ l.from \in all /\ l.to \in all
  <2>1. PICK k \in s.links : /\ k.from \in copied
                             /\ l = [from  |-> copyFor(k.from),
                                     to    |-> IF k.to \in copied THEN copyFor(k.to) ELSE k.to,
                                     flags |-> k.flags]
    BY <1>6
  <2>2. copyFor(k.from) \in all
    BY <1>0, <1>1, <1>2, <2>1
  <2>3. (IF k.to \in copied THEN copyFor(k.to) ELSE k.to) \in all
    BY <1>0, <1>1, <1>2, <2>1 DEF IsScene
  <2> QED  BY <2>1, <2>2, <2>3
<1>7. ASSUME NEW n \in copies
      PROVE  [i \in DOMAIN s.children[copyOf[n]] |-> copyFor(s.children[copyOf[n]][i])]
             = [i \in DOMAIN s.children[copyOf[n]] |-> cf[s.children[copyOf[n]][i]]]
  <2>1. copyOf[n] \in S /\ \A e \in ChildrenOf(s, copyOf[n]) : e \in S
    BY <1>5 DEF Closed
  <2> QED  BY <1>3, <2>1 DEF ChildrenOf, Elements
<1>8. w = [children |-> [n \in all |->
                            IF n \in copies
                            THEN [i \in DOMAIN s.children[copyOf[n]] |->
                                      copyFor(s.children[copyOf[n]][i])]
                            ELSE s.children[n]],
           name     |-> [n \in all |-> s.name[IF n \in copies THEN copyOf[n] ELSE n]],
           grouped  |-> s.grouped \cup {c \in copies : copyOf[c] \in s.grouped},
           property |-> [n \in all |-> s.property[IF n \in copies THEN copyOf[n] ELSE n]],
           links    |-> links,
           inside   |-> s.inside \cup {c \in copies : copyOf[c] \in s.inside}]
  BY <1>0, <1>1 DEF WithCopies
<1>9. [n \in all |-> IF n \in copies
                     THEN [i \in DOMAIN s.children[copyOf[n]] |-> copyFor(s.children[copyOf[n]][i])]
                     ELSE s.children[n]]
      = [n \in all |-> IF n \in copies
                       THEN [i \in DOMAIN s.children[copyOf[n]] |-> cf[s.children[copyOf[n]][i]]]
                       ELSE s.children[n]]
  BY <1>7
<1>10. s.links \subseteq links
  OBVIOUS
<1> HIDE DEF cf, links
<1>11. HasCopies(s, copies, copyOf, cf, links, w)
  BY <1>0, <1>3, <1>4, <1>6, <1>8, <1>9, <1>10 DEF HasCopies
<1> QED  BY <1>0, <1>3, <1>11

CopyAdded(s, copyOf, p, clone, new) ==
    AddChild([WithCopies(s, copyOf) EXCEPT !.name[clone] = new], p, clone)

\* The subtree's copy, renamed, is added under p.
LEMMA Copied ==
    ASSUME NEW s, Whole(s), NEW source \in NodesOf(s), NEW copies \in SUBSET (Nodes \ NodesOf(s)),
           NEW copyOf \in [copies -> Subtree(s, source)],
           Elements(copyOf) = Subtree(s, source),
           \A c, d \in copies : copyOf[c] = copyOf[d] => c = d,
           NEW clone \in copies, copyOf[clone] = source,
           NEW p \in NodesOf(s), NEW new, IsName(new), ~HasChildNamed(s, p, new),
           NEW t, t = CopyAdded(s, copyOf, p, clone, new)
    PROVE  /\ Whole(t) /\ NodesOf(t) = NodesOf(s) \cup copies /\ Keeps(s, t)
           /\ Subtree(t, clone) = copies /\ \A c \in copies : ChildrenOf(t, c) \subseteq copies
<1> USE DEF Whole, CopyAdded
<1> DEFINE S == Subtree(s, source)
           D == NodesOf(s)
<1>1. PICK w : w = WithCopies(s, copyOf)
  OBVIOUS
<1>2. PICK cf \in [S -> copies] : \E links : HasCopies(s, copies, copyOf, cf, links, w)
  BY <1>1, CopiesMade
<1>3. PICK links : HasCopies(s, copies, copyOf, cf, links, w)
  BY <1>2
<1>4. PICK all : all = D \cup copies
  OBVIOUS
<1> DEFINE Old(n) == IF n \in copies THEN copyOf[n] ELSE n
           Copy(n) == [i \in DOMAIN s.children[copyOf[n]] |-> cf[s.children[copyOf[n]][i]]]
<1>5. /\ \A m \in S : copyOf[cf[m]] = m
      /\ \A c \in copies : cf[copyOf[c]] = c
      /\ s.links \subseteq links
      /\ \A l \in links \ s.links : /\ l = [from |-> l.from, to |-> l.to, flags |-> l.flags]
                                   /\ l.from \in all /\ l.to \in all
      /\ w = [children |-> [n \in all |-> IF n \in copies THEN Copy(n) ELSE s.children[n]],
              name     |-> [n \in all |-> s.name[Old(n)]],
              grouped  |-> s.grouped \cup {c \in copies : copyOf[c] \in s.grouped},
              property |-> [n \in all |-> s.property[Old(n)]],
              links    |-> links,
              inside   |-> s.inside \cup {c \in copies : copyOf[c] \in s.inside}]
  BY <1>3, <1>4 DEF HasCopies
<1> HIDE DEF Copy
<1>6. /\ t = [children |-> t.children, name |-> t.name, grouped |-> t.grouped,
              property |-> t.property, links |-> t.links, inside |-> t.inside]
      /\ t.children = [n \in all |-> IF n = p THEN Append(s.children[p], clone)
                                     ELSE IF n \in copies THEN Copy(n) ELSE s.children[n]]
      /\ t.name = [n \in all |-> IF n = clone THEN new ELSE s.name[Old(n)]]
      /\ t.grouped = s.grouped \cup {c \in copies : copyOf[c] \in s.grouped}
      /\ t.property = [n \in all |-> s.property[Old(n)]]
      /\ t.links = links /\ t.inside = s.inside \cup {c \in copies : copyOf[c] \in s.inside}
  <2> DEFINE grouped == s.grouped \cup {c \in copies : copyOf[c] \in s.grouped}
             inside  == s.inside \cup {c \in copies : copyOf[c] \in s.inside}
  <2>1. PICK v, kids, names, values :
            /\ v = [w EXCEPT !.name[clone] = new]
            /\ kids = [n \in all |-> IF n \in copies THEN Copy(n) ELSE s.children[n]]
            /\ names = [n \in all |-> s.name[Old(n)]]
            /\ values = [n \in all |-> s.property[Old(n)]]
    OBVIOUS
  <2>2. w = [children |-> kids, name |-> names, grouped |-> grouped,
             property |-> values, links |-> links, inside |-> inside]
    BY <1>5, <2>1
  <2> HIDE DEF grouped, inside
  <2>3. PICK more : more = [names EXCEPT ![clone] = new]
    OBVIOUS
  <2>4. v = [children |-> kids, name |-> more, grouped |-> grouped,
             property |-> values, links |-> links, inside |-> inside]
    <3>1. v = [w EXCEPT !.name = [w.name EXCEPT ![clone] = new]]
      BY <2>1
    <3>2. w.name = names
      BY ONLY <2>2, FieldsAre
    <3> QED  BY ONLY <2>2, <2>3, <3>1, <3>2
  <2>5. v.children = kids
    BY ONLY <2>4, FieldsAre
  <2>6. PICK under : under = [kids EXCEPT ![p] = Append(kids[p], clone)]
    OBVIOUS
  <2>7. t = [v EXCEPT !.children = under]
    BY <1>1, <2>1, <2>5, <2>6 DEF AddChild
  <2>8. /\ t = [children |-> t.children, name |-> t.name, grouped |-> t.grouped,
                property |-> t.property, links |-> t.links, inside |-> t.inside]
        /\ t.children = under /\ t.name = more /\ t.grouped = grouped
        /\ t.property = values /\ t.links = links /\ t.inside = inside
    BY ONLY <2>4, <2>7, ChildrenChanged
  <2>9. kids[p] = s.children[p] /\ DOMAIN kids = all /\ p \in all /\ p \notin copies
    BY <1>4, <2>1
  <2>10. under = [n \in all |-> IF n = p THEN Append(s.children[p], clone)
                                ELSE IF n \in copies THEN Copy(n) ELSE s.children[n]]
    <3> DEFINE other(n) == IF n \in copies THEN Copy(n) ELSE s.children[n]
    <3>1. kids = [n \in all |-> other(n)]
      BY <2>1
    <3> HIDE DEF other
    <3>2. under = [n \in all |-> IF n = p THEN Append(s.children[p], clone) ELSE other(n)]
      BY <2>6, <2>9, <3>1
    <3> QED  BY <3>2 DEF other
  <2>11. more = [n \in all |-> IF n = clone THEN new ELSE s.name[Old(n)]]
    <3> HIDE DEF Old
    <3> QED  BY <2>1, <2>3
  <2> QED  BY <2>1, <2>8, <2>10, <2>11 DEF grouped, inside
<1>7. NodesOf(t) = all
  BY <1>6 DEF NodesOf
<1>8. Closed(s, S) /\ source \in S /\ S \subseteq D
  BY SubtreeHas DEF Closed
<1>9. ASSUME NEW c \in copies
      PROVE  /\ Copy(c) \in Seq(copies) /\ Distinct(Copy(c))
             /\ \A m \in ChildrenOf(s, copyOf[c]) : cf[m] \in Elements(Copy(c))
             /\ \A e \in Elements(Copy(c)) : e \in copies /\ copyOf[e] \in ChildrenOf(s, copyOf[c])
             /\ ChildrenOf(s, copyOf[c]) \subseteq S /\ copyOf[c] \in D
  <2> DEFINE q == s.children[copyOf[c]]
             r == Copy(c)
  <2>1. copyOf[c] \in S /\ copyOf[c] \in D /\ ChildrenOf(s, copyOf[c]) \subseteq S
    BY <1>8 DEF Closed
  <2>2. q \in Seq(D) /\ Distinct(q) /\ Elements(q) = ChildrenOf(s, copyOf[c])
    BY <2>1, ChildrenIn DEF IsScene, ChildrenOf
  <2>3. /\ Len(q) \in Nat /\ DOMAIN q = 1 .. Len(q) /\ \A i \in 1 .. Len(q) : q[i] \in S
        /\ \A i, j \in 1 .. Len(q) : q[i] = q[j] => i = j
        /\ \A m \in ChildrenOf(s, copyOf[c]) : \E i \in 1 .. Len(q) : q[i] = m
        /\ \A i \in 1 .. Len(q) : q[i] \in ChildrenOf(s, copyOf[c])
    BY <2>1, <2>2, ElementsAt, DistinctAt
  <2> HIDE DEF q
  <2>4. r = [i \in 1 .. Len(q) |-> cf[q[i]]]
    BY <2>3 DEF q, r, Copy
  <2> HIDE DEF r
  <2>5. r \in Seq(copies) /\ Len(r) = Len(q) /\ \A i \in 1 .. Len(q) : r[i] = cf[q[i]]
    BY <2>3, <2>4
  <2>6. \A i, j \in 1 .. Len(q) : r[i] = r[j] => i = j
    BY <1>5, <2>3, <2>5
  <2>7. \A m \in ChildrenOf(s, copyOf[c]) : cf[m] \in Elements(r)
    <3>1. \A i \in 1 .. Len(r) : r[i] \in Elements(r)
      BY <2>5, ElementsAt
    <3> QED  BY <2>3, <2>5, <3>1
  <2>8. \A e \in Elements(r) : e \in copies /\ copyOf[e] \in ChildrenOf(s, copyOf[c])
    <3>1. \A e \in Elements(r) : e \in copies /\ \E i \in 1 .. Len(r) : r[i] = e
      BY <2>5, ElementsAt
    <3>2. \A i \in 1 .. Len(q) : copyOf[r[i]] = q[i]
      BY <1>5, <2>3, <2>5
    <3> QED  BY <2>3, <2>5, <3>1, <3>2
  <2> QED  BY <2>1, <2>5, <2>6, <2>7, <2>8, DistinctAt DEF r
<1>10. ASSUME NEW m \in copies
       PROVE  /\ t.children[m] \in Seq(all) /\ Distinct(t.children[m])
              /\ \A k \in ChildrenOf(s, copyOf[m]) : cf[k] \in ChildrenOf(t, m)
              /\ \A c \in ChildrenOf(t, m) : c \in copies /\ copyOf[c] \in ChildrenOf(s, copyOf[m])
              /\ ChildrenOf(s, copyOf[m]) \subseteq S /\ copyOf[m] \in D
  <2>1. t.children[m] = Copy(m)
    BY <1>4, <1>6
  <2>2. \A q \in Seq(copies) : q \in Seq(all)
    BY <1>4, SeqMonotonic
  <2>3. PICK r : r = Copy(m)
    OBVIOUS
  <2>4. /\ r \in Seq(copies) /\ Distinct(r)
        /\ \A k \in ChildrenOf(s, copyOf[m]) : cf[k] \in Elements(r)
        /\ \A e \in Elements(r) : e \in copies /\ copyOf[e] \in ChildrenOf(s, copyOf[m])
        /\ ChildrenOf(s, copyOf[m]) \subseteq S /\ copyOf[m] \in D
    BY <1>9, <2>3
  <2> QED  BY <2>1, <2>2, <2>3, <2>4 DEF ChildrenOf
<1>11. ASSUME NEW m \in D
       PROVE  /\ t.children[m] \in Seq(all) /\ Distinct(t.children[m])
              /\ ChildrenOf(t, m) = ChildrenOf(s, m) \cup IF m = p THEN {clone} ELSE {}
  <2>1. s.children[m] \in Seq(all) /\ Distinct(s.children[m]) /\ m \in all /\ m \notin copies
        /\ Elements(s.children[m]) = ChildrenOf(s, m) /\ ChildrenOf(s, m) \subseteq D
    BY <1>4, ChildrenIn, SeqMonotonic DEF IsScene, ChildrenOf
  <2>2. CASE m = p
    <3>1. t.children[m] = Append(s.children[m], clone)
      BY <1>6, <2>1, <2>2
    <3>2. clone \in all /\ clone \notin Elements(s.children[m])
      BY <1>4, <2>1
    <3>3. PICK r : r = Append(s.children[m], clone)
      OBVIOUS
    <3>4. r \in Seq(all) /\ Distinct(r) /\ Elements(r) = ChildrenOf(s, m) \cup {clone}
      BY <2>1, <3>2, <3>3, AppendElements
    <3> QED  BY <2>2, <3>1, <3>3, <3>4 DEF ChildrenOf
  <2>3. CASE m # p
    <3>1. t.children[m] = s.children[m]
      BY <1>6, <2>1, <2>3
    <3> QED  BY <2>1, <2>3, <3>1 DEF ChildrenOf
  <2> QED  BY <2>2, <2>3
<1>12. Shaped(t)
  <2>1. t.children \in [all -> Seq(all)]
    <3>1. \A m \in all : t.children[m] \in Seq(all)
      BY <1>4, <1>10, <1>11
    <3> QED  BY <1>6, <3>1
  <2>2. \A m \in all : Old(m) \in D
    BY <1>4, <1>8
  <2>3. \A m \in all : IsName(t.name[m])
    <3>1. \A m \in all : t.name[m] = IF m = clone THEN new ELSE s.name[Old(m)]
      BY <1>6
    <3>2. \A m \in D : IsName(s.name[m])
      BY DEF Shaped
    <3> QED  BY <2>2, <3>1, <3>2
  <2>4. \A l \in t.links : l = [from |-> l.from, to |-> l.to, flags |-> l.flags]
    BY <1>5, <1>6 DEF Shaped
  <2>5. /\ t.name = [n \in all |-> t.name[n]] /\ t.property = [n \in all |-> t.property[n]]
    BY <1>6
  <2>6. t = [children |-> t.children, name |-> t.name, grouped |-> t.grouped,
             property |-> t.property, links |-> t.links, inside |-> t.inside]
    BY <1>6
  <2> QED  BY <1>7, <2>1, <2>3, <2>4, <2>5, <2>6 DEF Shaped
<1>13. ASSUME NEW below, Closed(t, below), clone \in below
       PROVE  copies \subseteq below
  <2> DEFINE T == {m \in S : cf[m] \in below}
  <2>1. ASSUME NEW m \in T, NEW k \in ChildrenOf(s, m)
        PROVE  k \in T
    <3>1. cf[m] \in copies /\ copyOf[cf[m]] = m /\ cf[m] \in below
      BY <1>5
    <3>2. cf[k] \in ChildrenOf(t, cf[m])
      BY <1>10, <3>1
    <3> QED  BY <1>8, <1>13, <3>1, <3>2 DEF Closed
  <2>2. Closed(s, T)
    BY <1>8, <2>1 DEF Closed
  <2>3. source \in T
    BY <1>5, <1>8, <1>13
  <2>4. S \subseteq T
    BY <2>2, <2>3, SubtreeLeast
  <2> QED  BY <1>5, <2>4
<1>14. Subtree(t, Root) = NodesOf(t)
  <2>1. Root \in D /\ Root \in NodesOf(t)
    BY <1>4, <1>7 DEF IsScene
  <2> SUFFICES ASSUME NEW below, Closed(t, below), Root \in below
               PROVE  below = NodesOf(t)
    BY <1>12, <2>1, ReachesAll
  <2>2. Closed(s, below \cap D)
    BY <1>11, ChildrenIn DEF Closed
  <2>3. below \cap D = D
    BY <2>1, <2>2, AllReached
  <2>4. clone \in below
    BY <1>11, <2>3 DEF Closed
  <2>5. copies \subseteq below
    BY <1>13, <2>4
  <2> QED  BY <1>4, <1>7, <2>3, <2>5 DEF Closed
<1>15. Subtree(t, clone) = copies
  <2>1. Closed(t, copies)
    BY <1>4, <1>7, <1>10 DEF Closed
  <2>2. Subtree(t, clone) \subseteq copies
    BY <2>1, SubtreeLeast
  <2> QED  BY <1>4, <1>7, <1>12, <1>13, <2>2, SubtreeHas
<1>16. \A k \in S : source \notin ChildrenOf(s, k)
  BY <1>8, NotAbove DEF Whole
<1>17. ASSUME NEW m \in copies
       PROVE  ChildrenOf(t, m) \subseteq copies \ {clone}
  BY <1>2, <1>5, <1>10, <1>16
<1>18. ASSUME NEW m \in all, NEW k \in all \ {m}
       PROVE  ChildrenOf(t, m) \cap ChildrenOf(t, k) = {}
  <2>1. \A i \in D, j \in copies : ChildrenOf(t, i) \cap ChildrenOf(t, j) = {}
    <3> TAKE i \in D, j \in copies
    <3>1. ChildrenOf(t, i) \subseteq D \cup {clone}
      BY <1>11, ChildrenIn
    <3> QED  BY <1>17, <3>1
  <2>2. CASE m \in D /\ k \in D
    <3>1. ChildrenOf(s, m) \cap ChildrenOf(s, k) = {} /\ ChildrenOf(s, m) \subseteq D
          /\ ChildrenOf(s, k) \subseteq D /\ clone \notin D
      BY <1>18, <2>2, ChildrenIn DEF IsScene
    <3>2. /\ ChildrenOf(t, m) = ChildrenOf(s, m) \cup IF m = p THEN {clone} ELSE {}
          /\ ChildrenOf(t, k) = ChildrenOf(s, k) \cup IF k = p THEN {clone} ELSE {}
      BY <1>11, <2>2
    <3> QED  BY <1>18, <3>1, <3>2
  <2>3. CASE m \in copies /\ k \in copies
    <3>1. copyOf[m] # copyOf[k] /\ copyOf[m] \in D /\ copyOf[k] \in D
      BY <1>10, <1>18, <2>3
    <3>2. ChildrenOf(s, copyOf[m]) \cap ChildrenOf(s, copyOf[k]) = {}
      BY <3>1 DEF IsScene
    <3>3. /\ \A c \in ChildrenOf(t, m) : copyOf[c] \in ChildrenOf(s, copyOf[m])
          /\ \A c \in ChildrenOf(t, k) : copyOf[c] \in ChildrenOf(s, copyOf[k])
      BY <1>10, <2>3
    <3> QED  BY <3>2, <3>3
  <2> QED  BY <1>4, <2>1, <2>2, <2>3
<1>19. ASSUME NEW m \in all
       PROVE  /\ \A c, d \in ChildrenOf(t, m) : t.name[c] = t.name[d] => c = d
              /\ m \in t.inside => \A c \in ChildrenOf(t, m) : t.name[c] # InnerName
  <2>1. CASE m \in D
    <3>1. \A c \in D : t.name[c] = s.name[c]
      BY <1>4, <1>6
    <3>2. t.name[clone] = new
      BY <1>4, <1>6
    <3>3. /\ \A c, d \in ChildrenOf(s, m) : s.name[c] = s.name[d] => c = d
          /\ m \in s.inside => \A c \in ChildrenOf(s, m) : s.name[c] # InnerName
          /\ m \in t.inside <=> m \in s.inside
      BY <1>6, <2>1 DEF IsScene
    <3>4. m = p => /\ \A c \in ChildrenOf(s, m) : s.name[c] # new
                   /\ m \in s.inside => new # InnerName
      BY DEF HasChildNamed, ChildNames
    <3>5. ChildrenOf(s, m) \subseteq D
      BY <2>1, ChildrenIn
    <3> QED  BY <1>11, <2>1, <3>1, <3>2, <3>3, <3>4, <3>5
  <2>2. CASE m \in copies
    <3>1. \A c \in copies \ {clone} : t.name[c] = s.name[copyOf[c]]
      BY <1>4, <1>6
    <3>2. \A c \in ChildrenOf(t, m) : c \in copies \ {clone} /\ copyOf[c] \in ChildrenOf(s, copyOf[m])
      BY <1>5, <1>10, <1>17, <2>2
    <3>3. /\ \A i, j \in ChildrenOf(s, copyOf[m]) : s.name[i] = s.name[j] => i = j
          /\ m \in t.inside => \A i \in ChildrenOf(s, copyOf[m]) : s.name[i] # InnerName
      <4>1. m \in t.inside => copyOf[m] \in s.inside
        BY <1>4, <1>6, <2>2 DEF IsScene
      <4> QED  BY <1>10, <2>2, <4>1 DEF IsScene
    <3>4. \A c, d \in copies : copyOf[c] = copyOf[d] => c = d
      OBVIOUS
    <3> QED  BY <3>1, <3>2, <3>3, <3>4
  <2> QED  BY <1>4, <2>1, <2>2
<1>20. ASSUME NEW m \in all
       PROVE  Distinct(t.children[m]) /\ Root \notin ChildrenOf(t, m)
  <2>1. Root \in D /\ \A k \in D : Root \notin ChildrenOf(s, k)
    BY DEF IsScene
  <2>2. CASE m \in D
    BY <1>11, <2>1, <2>2
  <2>3. CASE m \in copies
    BY <1>10, <1>17, <2>1, <2>3
  <2> QED  BY <1>4, <2>2, <2>3
<1>21. IsScene(t)
  <2>1. Root \in NodesOf(t) /\ NodesOf(t) \subseteq Nodes /\ t.grouped \subseteq NodesOf(t)
        /\ t.inside \subseteq NodesOf(t)
    BY <1>4, <1>6, <1>7 DEF IsScene
  <2>2. \A l \in t.links : {l.from, l.to} \subseteq NodesOf(t)
    <3>1. \A l \in s.links : l.from \in D /\ l.to \in D
      BY DEF IsScene
    <3>2. \A l \in t.links : l.from \in all /\ l.to \in all
      BY <1>4, <1>5, <1>6, <3>1
    <3> QED  BY <1>7, <3>2
  <2>3. \A m \in NodesOf(t) :
            /\ Distinct(t.children[m]) /\ Root \notin ChildrenOf(t, m)
            /\ \A k \in NodesOf(t) \ {m} : ChildrenOf(t, m) \cap ChildrenOf(t, k) = {}
            /\ \A c, d \in ChildrenOf(t, m) : t.name[c] = t.name[d] => c = d
            /\ m \in t.inside => \A c \in ChildrenOf(t, m) : t.name[c] # InnerName
    BY <1>7, <1>18, <1>19, <1>20
  <2> QED  BY <1>14, <2>1, <2>2, <2>3 DEF IsScene
<1>22. Keeps(s, t)
  <2>1. \A m \in D : m \in all /\ m # clone /\ Old(m) = m
    BY <1>4
  <2> HIDE DEF Old
  <2>2. \A m \in D : t.name[m] = s.name[m]
    BY <1>6, <2>1
  <2>3. \A m \in D : t.property[m] = s.property[m]
    <3>1. t.property = [m \in all |-> s.property[Old(m)]]
      BY <1>6
    <3> QED  BY <2>1, <3>1
  <2> QED  BY <1>4, <1>5, <1>6, <1>7, <2>2, <2>3 DEF Keeps
<1> QED  BY <1>4, <1>7, <1>12, <1>15, <1>17, <1>21, <1>22

-----------------------------------------------------------------------------
(* Names                                                                   *)

LEMMA LeastOf ==
    ASSUME NEW T \in SUBSET Nat, T # {}
    PROVE  \E k \in T : \A j \in T : k <= j
<1> DEFINE R == OpToRel(<, Nat)
<1>1. IsWellFoundedOn(R, Nat)
  BY NatLessThanWellFounded
<1>2. \A j, k \in Nat : j < k => <<j, k>> \in R
  BY DEF OpToRel
<1> HIDE DEF R
<1>3. PICK k \in T : \A j \in T : <<j, k>> \notin R
  BY <1>1, WFMin
<1>4. \A j \in T : ~(j < k) /\ j \in Nat /\ k \in Nat
  BY <1>2, <1>3
<1> QED  BY <1>4

LEMMA Suffixed ==
    ASSUME NEW base, IsName(base), NEW k
    PROVE  /\ IsName(Append(base, k)) /\ Len(base) \in Nat
           /\ Append(base, k)[Len(base) + 1] = k
<1> DEFINE S == Elements(base) \cup {k}
           r == Append(base, k)
<1>1. base \in Seq(S) /\ Len(base) \in Nat
  BY SeqMonotonic, LenProperties DEF IsName
<1>2. r \in Seq(S) /\ Len(r) = Len(base) + 1 /\ r[Len(base) + 1] = k
  BY <1>1, AppendProperties
<1>3. \A i \in 1 .. Len(r) : r[i] \in Elements(r)
  BY <1>2, ElementsAt
<1>4. r \in Seq(Elements(r))
  BY <1>2, <1>3, IsASeq, LenProperties
<1> QED  BY <1>1, <1>2, <1>4 DEF IsName

\* There is always a suffix that no sibling has, and the name that it makes is
\* new among them.
LEMMA NameResolved ==
    ASSUME NEW s, Whole(s), NEW p \in NodesOf(s), NEW base, IsName(base)
    PROVE  IsName(ResolveName(s, p, base)) /\ ~HasChildNamed(s, p, ResolveName(s, p, base))
<1>0. PICK q, count : q = s.children[p] /\ count = ChildCount(s, p)
  OBVIOUS
<1> DEFINE free(k) == ~HasChildNamed(s, p, Append(base, k))
           last    == count + 2
           \* the names of the children, the one that is supplied last
           has(i)  == IF i \in 1 .. Len(q) THEN s.name[q[i]] ELSE InnerName
<1>1. CASE ~HasChildNamed(s, p, base)
  BY <1>1 DEF ResolveName
<1>2. CASE HasChildNamed(s, p, base)
  <2>0. q \in Seq(NodesOf(s)) /\ Len(q) \in Nat /\ Elements(q) = ChildrenOf(s, p)
    BY <1>0, ChildrenIn, ElementsAt DEF Whole, ChildrenOf
  <2>1. /\ count \in Nat /\ Len(q) <= count
        /\ p \in s.inside => count = Len(q) + 1
    <3>1. count = Len(q) + Supplied(s, p) /\ Supplied(s, p) \in 0 .. 1
          /\ (p \in s.inside => Supplied(s, p) = 1)
      BY <1>0 DEF ChildCount, Supplied
    <3> QED  BY <2>0, <3>1
  <2>2. \E k \in 2 .. last : free(k)
    <3> SUFFICES ASSUME \A k \in 2 .. last : ~free(k) PROVE FALSE
      OBVIOUS
    <3>1. \A k \in 2 .. last : \E i \in 1 .. count : has(i) = Append(base, k)
      <4> TAKE k \in 2 .. last
      <4>1. Append(base, k) \in ChildNames(s, p)
        BY DEF HasChildNamed
      <4>2. CASE p \in s.inside /\ Append(base, k) = InnerName
        <5>1. count \in 1 .. count /\ count \notin 1 .. Len(q)
          BY <2>0, <2>1, <4>2
        <5> QED  BY <4>2, <5>1
      <4>3. CASE \E c \in Elements(q) : s.name[c] = Append(base, k)
        <5>1. PICK i \in 1 .. Len(q) : s.name[q[i]] = Append(base, k)
          BY <2>0, <4>3, ElementsAt
        <5>2. i \in 1 .. count
          BY <2>0, <2>1
        <5> QED  BY <5>1, <5>2
      <4> QED  BY <2>0, <4>1, <4>2, <4>3 DEF ChildNames
    <3> HIDE DEF has
    <3> DEFINE f == [k \in 2 .. last |-> CHOOSE i \in 1 .. count : has(i) = Append(base, k)]
    <3>2. f \in [2 .. last -> 1 .. count]
      BY <3>1
    <3>3. \A k \in 2 .. last : has(f[k]) = Append(base, k)
      BY <3>1
    <3>4. /\ IsFiniteSet(2 .. last) /\ Cardinality(2 .. last) = count + 1
          /\ IsFiniteSet(1 .. count) /\ Cardinality(1 .. count) = count
      <4>1. count \in Int /\ last \in Int /\ 2 <= last /\ last - 2 + 1 = count + 1
        BY <2>1
      <4>2. IsFiniteSet(2 .. last) /\ Cardinality(2 .. last) = last - 2 + 1
        BY <4>1, FS_Interval
      <4>3. IsFiniteSet(1 .. count) /\ Cardinality(1 .. count) = count
        BY <2>1, FS_Interval
      <4> QED  BY <4>1, <4>2, <4>3
    <3> HIDE DEF f
    <3>5. PICK j, k \in 2 .. last : j # k /\ f[j] = f[k]
      <4> HIDE DEF last
      <4>1. Cardinality(1 .. count) < Cardinality(2 .. last)
        BY <2>1, <3>4
      <4> QED  BY <3>2, <3>4, <4>1, FS_PigeonHole
    <3>6. Append(base, j) = Append(base, k)
      BY <3>3, <3>5
    <3> QED  BY <3>5, <3>6, Suffixed
  <2> HIDE DEF free
  <2>3. PICK k \in 2 .. last : free(k) /\ \A j \in 2 .. (k - 1) : ~free(j)
    <3> DEFINE T == {k \in 2 .. last : free(k)}
    <3>1. T \in SUBSET Nat /\ T # {}
      BY <2>1, <2>2
    <3>2. PICK k \in T : \A j \in T : k <= j
      BY <3>1, LeastOf
    <3>3. \A j \in 2 .. (k - 1) : j \in 2 .. last /\ ~(k <= j)
      BY <2>1, <3>1
    <3> QED  BY <3>2, <3>3
  <2> DEFINE suffix == CHOOSE j \in 2 .. last : free(j) /\ \A i \in 2 .. (j - 1) : ~free(i)
  <2>4. suffix \in 2 .. last /\ free(suffix)
    BY <2>3
  <2>5. ResolveName(s, p, base) = Append(base, suffix)
    BY <1>0, <1>2 DEF ResolveName, free
  <2> HIDE DEF suffix
  <2> QED  BY <2>4, <2>5, Suffixed DEF free
<1> QED  BY <1>1, <1>2

\* What the engine calls a node when its name is set is a name, and free.
LEMMA NamesSet ==
    ASSUME NEW s, Whole(s), NEW n \in NodesOf(s), NEW base, IsName(base),
           NEW name \in SetNames(s, n, base)
    PROVE  IsName(name) /\ NameIsFree(s, n, name)
<1> USE DEF Whole
<1> DEFINE taken == IF n = Root THEN {}
                    ELSE ChildNames(RemoveChild(s, n), ParentOf(s, n))
<1>1. \/ name = base /\ name \notin taken
      \/ \E k : name = Append(base, -k) /\ name \notin taken
  BY DEF SetNames, Numbered
<1>2. IsName(name)
  BY <1>1, Suffixed
<1>3. ASSUME NEW p \in NodesOf(s), n \in ChildrenOf(s, p)
      PROVE  /\ \A c \in ChildrenOf(s, p) \ {n} : s.name[c] # name
             /\ p \in s.inside => name # InnerName
  <2>1. n # Root /\ ParentOf(s, n) = p
    BY <1>3, OnlyParent DEF IsScene
  <2>2. PICK u : u = RemoveChild(s, n)
    OBVIOUS
  <2>3. u.name = s.name /\ u.inside = s.inside /\ ChildrenOf(u, p) = ChildrenOf(s, p) \ {n}
    BY <2>1, <2>2, ChildRemoved
  <2>4. name \notin ChildNames(u, p)
    BY <1>1, <2>1, <2>2
  <2> QED  BY <2>3, <2>4 DEF ChildNames
<1> QED  BY <1>2, <1>3 DEF NameIsFree

-----------------------------------------------------------------------------
(* What is inside instances                                                *)

\* A node without children may instance a scene with a node inside.
LEMMA InsideSet ==
    ASSUME NEW s, Whole(s), NEW n \in NodesOf(s), s.children[n] = <<>>,
           NEW t, t = [s EXCEPT !.inside = @ \cup {n}]
    PROVE  /\ Whole(t) /\ NodesOf(t) = NodesOf(s) /\ t.children = s.children
           /\ Keeps(s, t)
<1> USE DEF Whole
<1>1. PICK inside : inside = s.inside \cup {n}
  OBVIOUS
<1>2. t = [children |-> s.children, name |-> s.name, grouped |-> s.grouped,
           property |-> s.property, links |-> s.links, inside |-> inside]
  BY <1>1 DEF Shaped
<1>3. /\ t = [children |-> t.children, name |-> t.name, grouped |-> t.grouped,
              property |-> t.property, links |-> t.links, inside |-> t.inside]
      /\ t.children = s.children /\ t.name = s.name /\ t.grouped = s.grouped
      /\ t.property = s.property /\ t.links = s.links /\ t.inside = inside
  BY ONLY <1>2, FieldsAre
<1>4. NodesOf(t) = NodesOf(s)
  BY <1>3 DEF NodesOf
<1>5. Shaped(t)
  BY <1>3, <1>4 DEF Shaped
<1>6. ChildrenOf(s, n) = {}
  BY DEF ChildrenOf, Elements
<1>7. /\ \A m \in NodesOf(s) : \A c, d \in ChildrenOf(s, m) : t.name[c] = t.name[d] => c = d
      /\ \A m \in t.inside : \A c \in ChildrenOf(s, m) : t.name[c] # InnerName
      /\ t.grouped \subseteq NodesOf(s) /\ t.inside \subseteq NodesOf(s)
      /\ \A l \in t.links : l.from \in NodesOf(s) /\ l.to \in NodesOf(s)
  BY <1>1, <1>3, <1>6 DEF IsScene
<1>8. Whole(t)
  <2>1. t.children = s.children
    BY <1>3
  <2> HIDE DEF Whole
  <2> QED  BY Zenon, <1>5, <1>7, <2>1, SameChildren
<1> QED  BY <1>3, <1>4, <1>8 DEF Keeps

\* The scene t is s with a leaf at the head of the children of some instances,
\* which are the only nodes that may be named anew.
Exposed(s, t, leafOf) ==
    /\ Whole(t) /\ NodesOf(t) = NodesOf(s) \cup Elements(leafOf)
    /\ t.grouped = s.grouped /\ t.links = s.links /\ t.inside = s.inside
    /\ \A m \in NodesOf(s) :
           /\ t.property[m] = s.property[m]
           /\ t.children[m] = IF m \in DOMAIN leafOf THEN InsertAt(s.children[m], 0, leafOf[m])
                              ELSE s.children[m]
           /\ ChildrenOf(s, m) \subseteq ChildrenOf(t, m)
           /\ (\A p \in DOMAIN leafOf : m \notin ChildrenOf(s, p)) => t.name[m] = s.name[m]

\* What is inside the instances becomes part of the scene, with names that are
\* new there.
LEMMA InnerAdded ==
    ASSUME NEW s, Whole(s), NEW instances \in SUBSET s.inside,
           NEW leafOf \in [instances -> Nodes \ NodesOf(s)],
           \A j, k \in instances : leafOf[j] = leafOf[k] => j = k,
           NEW names,
           DOMAIN names = UNION {{leafOf[m]} \cup ChildrenOf(s, m) : m \in instances},
           \A c \in DOMAIN names : IsName(names[c]),
           \A m \in instances : LoadsAs(s, m, leafOf[m], names),
           NEW t, t = WithInner(s, leafOf, names)
    PROVE  Exposed(s, t, leafOf)
<1> USE DEF Whole
<1> DEFINE D == NodesOf(s)
<1>1. PICK leaves, all : leaves = Elements(leafOf) /\ all = D \cup leaves
  OBVIOUS
<1>2. /\ DOMAIN leafOf = instances /\ instances \subseteq D
      /\ \A m \in instances : leafOf[m] \in leaves
      /\ \A l \in leaves : l \in Nodes /\ l \notin D /\ \E m \in instances : leafOf[m] = l
  BY <1>1 DEF Elements, IsScene
<1>3. /\ t = [children |-> t.children, name |-> t.name, grouped |-> t.grouped,
              property |-> t.property, links |-> t.links, inside |-> t.inside]
      /\ t.children = [m \in all |-> IF m \in leaves THEN <<>>
                                     ELSE IF m \in instances
                                     THEN InsertAt(s.children[m], 0, leafOf[m])
                                     ELSE s.children[m]]
      /\ t.name = [m \in all |-> IF m \in DOMAIN names THEN names[m] ELSE s.name[m]]
      /\ t.grouped = s.grouped
      /\ t.property = [m \in all |-> IF m \in leaves THEN DefaultValue ELSE s.property[m]]
      /\ t.links = s.links /\ t.inside = s.inside
  <2>1. PICK kids, called, values :
            /\ kids = [m \in all |-> IF m \in leaves THEN <<>>
                                     ELSE IF m \in instances
                                     THEN InsertAt(s.children[m], 0, leafOf[m])
                                     ELSE s.children[m]]
            /\ called = [m \in all |-> IF m \in DOMAIN names THEN names[m] ELSE s.name[m]]
            /\ values = [m \in all |-> IF m \in leaves THEN DefaultValue ELSE s.property[m]]
    OBVIOUS
  <2>2. t = [children |-> kids, name |-> called, grouped |-> s.grouped,
             property |-> values, links |-> s.links, inside |-> s.inside]
    BY <1>1, <1>2, <2>1 DEF WithInner
  <2>3. /\ t = [children |-> t.children, name |-> t.name, grouped |-> t.grouped,
                property |-> t.property, links |-> t.links, inside |-> t.inside]
        /\ t.children = kids /\ t.name = called /\ t.grouped = s.grouped
        /\ t.property = values /\ t.links = s.links /\ t.inside = s.inside
    BY ONLY <2>2, FieldsAre
  <2> QED  BY <2>1, <2>3
<1>4. NodesOf(t) = all
  BY <1>3 DEF NodesOf
<1>5. \A m \in D : /\ s.children[m] \in Seq(D) /\ ChildrenOf(s, m) \subseteq D
                   /\ Distinct(s.children[m]) /\ s.children[m] \in Seq(all)
                   /\ Elements(s.children[m]) = ChildrenOf(s, m)
  BY <1>1, ChildrenIn, SeqMonotonic DEF IsScene, ChildrenOf
<1>6. ASSUME NEW m \in instances
      PROVE  /\ t.children[m] = InsertAt(s.children[m], 0, leafOf[m])
             /\ t.children[m] \in Seq(all) /\ Distinct(t.children[m])
             /\ ChildrenOf(t, m) = ChildrenOf(s, m) \cup {leafOf[m]}
  <2>1. PICK q, leaf : q = s.children[m] /\ leaf = leafOf[m]
    OBVIOUS
  <2>2. /\ m \in D /\ m \in all /\ m \notin leaves /\ leaf \in all
        /\ q \in Seq(all) /\ Distinct(q) /\ Elements(q) = ChildrenOf(s, m)
        /\ leaf \notin Elements(q)
    BY <1>1, <1>2, <1>5, <2>1
  <2>3. Len(q) \in Nat
    BY <2>2, ElementsAt
  <2>4. PICK r : r = InsertAt(q, 0, leaf)
    OBVIOUS
  <2>5. r \in Seq(all) /\ Distinct(r) /\ Elements(r) = Elements(q) \cup {leaf}
    BY <2>2, <2>3, <2>4, InsertElements
  <2>6. t.children[m] = r
    BY <1>3, <2>1, <2>2, <2>4
  <2> QED  BY <2>1, <2>2, <2>4, <2>5, <2>6 DEF ChildrenOf
<1>7. \A m \in D \ instances : /\ t.children[m] = s.children[m]
                              /\ t.children[m] \in Seq(all) /\ Distinct(t.children[m])
                              /\ ChildrenOf(t, m) = ChildrenOf(s, m)
  <2> TAKE m \in D \ instances
  <2>1. t.children[m] = s.children[m]
    BY <1>1, <1>2, <1>3
  <2> QED  BY <1>5, <2>1 DEF ChildrenOf
<1>8. \A l \in leaves : t.children[l] = <<>> /\ ChildrenOf(t, l) = {} /\ Distinct(t.children[l])
  <2> TAKE l \in leaves
  <2>1. t.children[l] = <<>>
    BY <1>1, <1>3
  <2> QED  BY <2>1 DEF ChildrenOf, Elements, Distinct
<1>9. \A m \in all : m \in instances \/ m \in D \ instances \/ m \in leaves
  BY <1>1
<1>10. Shaped(t)
  <2>1. t.children \in [all -> Seq(all)]
    <3>1. \A m \in instances : t.children[m] \in Seq(all)
      BY <1>6
    <3>2. \A m \in D \ instances : t.children[m] \in Seq(all)
      BY <1>7
    <3>0. <<>> \in Seq(all)
      OBVIOUS
    <3>3. \A m \in leaves : t.children[m] \in Seq(all)
      BY <1>8, <3>0, Zenon
    <3> QED  BY <1>3, <1>9, <3>1, <3>2, <3>3
  <2>2. \A m \in all : IsName(t.name[m])
    <3>1. leaves \subseteq DOMAIN names
      BY <1>2
    <3>2. \A m \in D : IsName(s.name[m])
      BY DEF Shaped
    <3>3. \A m \in all : t.name[m] = IF m \in DOMAIN names THEN names[m] ELSE s.name[m]
      BY <1>3
    <3> QED  BY <1>1, <3>1, <3>2, <3>3
  <2>3. t.name = [m \in all |-> t.name[m]] /\ t.property = [m \in all |-> t.property[m]]
    BY <1>3
  <2>4. \A l \in t.links : l = [from |-> l.from, to |-> l.to, flags |-> l.flags]
    BY <1>3 DEF Shaped
  <2>5. t = [children |-> t.children, name |-> t.name, grouped |-> t.grouped,
             property |-> t.property, links |-> t.links, inside |-> t.inside]
    BY <1>3
  <2> QED  BY <1>4, <2>1, <2>2, <2>3, <2>4, <2>5 DEF Shaped
<1>11. Subtree(t, Root) = NodesOf(t)
  <2>1. Root \in D /\ Root \in NodesOf(t)
    BY <1>1, <1>4 DEF IsScene
  <2> SUFFICES ASSUME NEW below, Closed(t, below), Root \in below
               PROVE  below = NodesOf(t)
    BY <1>10, <2>1, ReachesAll
  <2>2. Closed(s, below \cap D)
    <3>1. \A m \in D : ChildrenOf(s, m) \subseteq ChildrenOf(t, m) /\ ChildrenOf(s, m) \subseteq D
      BY <1>5, <1>6, <1>7
    <3> QED  BY <3>1 DEF Closed
  <2>3. below \cap D = D
    BY <2>1, <2>2, AllReached
  <2>4. \A l \in leaves : l \in below
    BY <1>2, <1>6, <2>3 DEF Closed
  <2> QED  BY <1>1, <1>4, <2>3, <2>4 DEF Closed
<1>12. \A m \in D : \A c \in ChildrenOf(s, m) : c \notin leaves
  BY <1>2, <1>5
<1>13. \A m, k \in D : m # k => ChildrenOf(s, m) \cap ChildrenOf(s, k) = {}
  BY DEF IsScene
<1>14. ASSUME NEW m \in all
       PROVE  \A k \in all \ {m} : ChildrenOf(t, m) \cap ChildrenOf(t, k) = {}
  <2> DEFINE Leaf(k) == IF k \in instances THEN {leafOf[k]} ELSE {}
  <2>1. \A k \in D : ChildrenOf(t, k) = ChildrenOf(s, k) \cup Leaf(k)
    BY <1>6, <1>7
  <2>2. \A j, k \in D : j # k => Leaf(j) \cap Leaf(k) = {}
    OBVIOUS
  <2>3. \A k \in D : Leaf(k) \subseteq leaves
    BY <1>2
  <2> HIDE DEF Leaf
  <2> QED  BY <1>1, <1>8, <1>12, <1>13, <2>1, <2>2, <2>3
<1>15. ASSUME NEW m \in instances
       PROVE  /\ \A c, d \in ChildrenOf(t, m) : t.name[c] = t.name[d] => c = d
              /\ \A c \in ChildrenOf(t, m) : t.name[c] # InnerName
  <2>1. PICK r : r = t.children[m]
    OBVIOUS
  <2>2. /\ r \in Seq(all) /\ Elements(r) = ChildrenOf(t, m)
        /\ r = InsertAt(s.children[m], 0, leafOf[m])
    BY <1>6, <2>1 DEF ChildrenOf
  <2>3. /\ DOMAIN r = 1 .. Len(r) /\ Len(r) \in Nat
        /\ \A i \in 1 .. Len(r) : r[i] \in Elements(r)
        /\ \A c \in Elements(r) : \E i \in 1 .. Len(r) : r[i] = c
    BY <2>2, ElementsAt
  <2>4. \A c \in ChildrenOf(t, m) : c \in all /\ c \in DOMAIN names
    BY <1>1, <1>2, <1>5, <1>6
  <2>5. \A c \in ChildrenOf(t, m) : t.name[c] = names[c]
    BY <1>3, <2>4
  <2>6. \A i \in 1 .. Len(r) :
            names[r[i]] \notin {InnerName} \cup {names[r[j]] : j \in 1 .. (i - 1)}
    <3>1. LoadsAs(s, m, leafOf[m], names)
      OBVIOUS
    <3>2. \A i \in DOMAIN r :
              names[r[i]] \notin {InnerName} \cup {names[r[j]] : j \in 1 .. (i - 1)}
      <4> SUFFICES ASSUME NEW i \in DOMAIN InsertAt(s.children[m], 0, leafOf[m])
                   PROVE  names[InsertAt(s.children[m], 0, leafOf[m])[i]] \notin
                            {InnerName} \cup {names[InsertAt(s.children[m], 0, leafOf[m])[j]] :
                                                  j \in 1 .. (i - 1)}
        BY <2>2, Zenon
      <4> QED  BY <3>1, Zenon DEF LoadsAs
    <3> QED  BY <2>3, <3>2
  <2>7. \A i, j \in 1 .. Len(r) : j < i => names[r[i]] # names[r[j]]
    <3> TAKE i, j \in 1 .. Len(r)
    <3> HAVE j < i
    <3>1. j \in 1 .. (i - 1)
      BY <2>3
    <3> QED  BY <2>6, <3>1
  <2>8. \A i, j \in 1 .. Len(r) : names[r[i]] = names[r[j]] => i = j
    BY <2>3, <2>7
  <2> QED  BY <2>2, <2>3, <2>5, <2>6, <2>8
<1>16. ASSUME NEW m \in D, \A p \in instances : m \notin ChildrenOf(s, p)
       PROVE  t.name[m] = s.name[m]
  <2>1. m \notin DOMAIN names /\ m \in all
    BY <1>1, <1>2, <1>16
  <2> QED  BY <1>3, <2>1
<1>17. ASSUME NEW m \in D \ instances
       PROVE  /\ \A c, d \in ChildrenOf(t, m) : t.name[c] = t.name[d] => c = d
              /\ m \in t.inside => \A c \in ChildrenOf(t, m) : t.name[c] # InnerName
  <2>1. \A c \in ChildrenOf(s, m) : c \in D /\ \A p \in instances : c \notin ChildrenOf(s, p)
    BY <1>2, <1>5, <1>13
  <2>2. \A c \in ChildrenOf(t, m) : c \in ChildrenOf(s, m) /\ t.name[c] = s.name[c]
    BY <1>7, <1>16, <2>1
  <2>3. /\ \A c, d \in ChildrenOf(s, m) : s.name[c] = s.name[d] => c = d
        /\ m \in s.inside => \A c \in ChildrenOf(s, m) : s.name[c] # InnerName
    BY DEF IsScene
  <2>4. t.inside = s.inside
    BY <1>3
  <2>5. \A c, d \in ChildrenOf(t, m) : t.name[c] = t.name[d] => c = d
    BY <2>2, <2>3
  <2> QED  BY <2>2, <2>3, <2>4, <2>5
<1>18. ASSUME NEW m \in all
       PROVE  /\ Distinct(t.children[m]) /\ Root \notin ChildrenOf(t, m)
              /\ \A c, d \in ChildrenOf(t, m) : t.name[c] = t.name[d] => c = d
              /\ m \in t.inside => \A c \in ChildrenOf(t, m) : t.name[c] # InnerName
  <2>1. Root \in D /\ \A k \in D : Root \notin ChildrenOf(s, k)
    BY DEF IsScene
  <2>2. CASE m \in instances
    BY <1>2, <1>6, <1>15, <2>1, <2>2
  <2>3. CASE m \in D \ instances
    BY <1>7, <1>17, <2>1, <2>3
  <2>4. CASE m \in leaves
    BY <1>8, <2>4
  <2> QED  BY <1>9, <2>2, <2>3, <2>4
<1>19. IsScene(t)
  <2>1. Root \in NodesOf(t) /\ NodesOf(t) \subseteq Nodes /\ t.grouped \subseteq NodesOf(t)
        /\ t.inside \subseteq NodesOf(t) /\ \A l \in t.links : {l.from, l.to} \subseteq NodesOf(t)
    BY <1>1, <1>2, <1>3, <1>4 DEF IsScene
  <2>2. \A m \in NodesOf(t) :
            /\ Distinct(t.children[m]) /\ Root \notin ChildrenOf(t, m)
            /\ \A k \in NodesOf(t) \ {m} : ChildrenOf(t, m) \cap ChildrenOf(t, k) = {}
            /\ \A c, d \in ChildrenOf(t, m) : t.name[c] = t.name[d] => c = d
            /\ m \in t.inside => \A c \in ChildrenOf(t, m) : t.name[c] # InnerName
    BY <1>4, <1>14, <1>18
  <2> QED  BY <1>11, <2>1, <2>2 DEF IsScene
<1>20. ASSUME NEW m \in D
       PROVE  /\ t.property[m] = s.property[m]
              /\ t.children[m] = IF m \in instances THEN InsertAt(s.children[m], 0, leafOf[m])
                                 ELSE s.children[m]
  <2>1. m \in all /\ m \notin leaves
    BY <1>1, <1>2
  <2> QED  BY <1>3, <1>6, <1>7, <2>1
<1>21. \A m \in D : ChildrenOf(s, m) \subseteq ChildrenOf(t, m)
  BY <1>6, <1>7
<1>22. Whole(t)
  BY <1>10, <1>19
<1> QED  BY <1>1, <1>2, <1>3, <1>4, <1>16, <1>20, <1>21, <1>22 DEF Exposed
=============================================================================
