------------------------ MODULE ProjectFilesProofs ------------------------
(***************************************************************************)
(* Proofs about ProjectFiles, for any keys, values, pointers, nodes and    *)
(* names: what a refusal leaves, and that what a set or a removal of a     *)
(* document did is what a get then finds, and nothing else.                *)
(***************************************************************************)
EXTENDS ProjectFiles, SceneTreeProofs, SequenceTheorems, TLAPS

-----------------------------------------------------------------------------
(* Places in a document                                                    *)

LEMMA Prefix ==
    ASSUME NEW S, NEW q \in Seq(S), NEW n \in 0 .. Len(q)
    PROVE  /\ SubSeq(q, 1, n) \in Seq(S) /\ Len(SubSeq(q, 1, n)) = n
           /\ \A i \in 1 .. n : SubSeq(q, 1, n)[i] = q[i]
<1>1. Len(q) \in Nat /\ \A i \in 1 .. Len(q) : q[i] \in S
  BY LenProperties
<1>2. \A i \in 1 .. n : q[i] \in S
  BY <1>1
<1> QED  BY <1>1, <1>2, SubSeqProperties

LEMMA WithinPointwise ==
    ASSUME NEW S, NEW t \in Seq(S), NEW p \in Seq(S)
    PROVE  Within(t, p) <=> Len(t) <= Len(p) /\ \A i \in 1 .. Len(t) : p[i] = t[i]
<1>1. Len(t) \in Nat /\ Len(p) \in Nat
  BY LenProperties
<1>2. CASE ~(Len(t) <= Len(p))
  BY <1>2 DEF Within
<1>3. CASE Len(t) <= Len(p)
  <2>1. /\ SubSeq(p, 1, Len(t)) \in Seq(S) /\ Len(SubSeq(p, 1, Len(t))) = Len(t)
        /\ \A i \in 1 .. Len(t) : SubSeq(p, 1, Len(t))[i] = p[i]
    BY <1>1, <1>3, Prefix
  <2>2. (\A i \in 1 .. Len(t) : p[i] = t[i]) => SubSeq(p, 1, Len(t)) = t
    BY <2>1, SeqEqual
  <2> QED  BY <1>3, <2>1, <2>2 DEF Within
<1> QED  BY <1>2, <1>3

\* What is placed at t is inside it, where it was.
LEMMA PlacedInside ==
    ASSUME NEW S, NEW t \in Seq(S), NEW p \in Seq(S)
    PROVE  t \o p \in Seq(S) /\ Within(t, t \o p) /\ InsideOf(t, t \o p) = p
<1>1. Len(t) \in Nat /\ Len(p) \in Nat
  BY LenProperties
<1>2. /\ t \o p \in Seq(S) /\ Len(t \o p) = Len(t) + Len(p)
      /\ \A i \in 1 .. Len(t) + Len(p) :
             (t \o p)[i] = IF i <= Len(t) THEN t[i] ELSE p[i - Len(t)]
  BY ConcatProperties
<1>3. Within(t, t \o p)
  <2>1. Len(t) <= Len(t \o p) /\ \A i \in 1 .. Len(t) : (t \o p)[i] = t[i]
    BY <1>1, <1>2
  <2> QED  BY <1>2, <2>1, WithinPointwise
<1>4. InsideOf(t, t \o p) = p
  <2> DEFINE rest == SubSeq(t \o p, Len(t) + 1, Len(t) + Len(p))
  <2>1. \A i \in Len(t) + 1 .. Len(t) + Len(p) : (t \o p)[i] \in S
    BY <1>1, <1>2, LenProperties
  <2>2. /\ rest \in Seq(S)
        /\ Len(rest) = IF Len(t) + 1 <= Len(t) + Len(p)
                       THEN (Len(t) + Len(p)) - (Len(t) + 1) + 1 ELSE 0
        /\ \A i \in 1 .. (Len(t) + Len(p)) - (Len(t) + 1) + 1 :
               rest[i] = (t \o p)[(Len(t) + 1) + i - 1]
    BY <1>1, <2>1, SubSeqProperties
  <2>3. Len(rest) = Len(p)
    BY <1>1, <2>2
  <2>4. ASSUME NEW i \in 1 .. Len(p)  PROVE rest[i] = p[i]
    <3>1. /\ i \in 1 .. (Len(t) + Len(p)) - (Len(t) + 1) + 1
          /\ (Len(t) + 1) + i - 1 = Len(t) + i
          /\ Len(t) + i \in 1 .. Len(t) + Len(p) /\ ~(Len(t) + i <= Len(t))
          /\ (Len(t) + i) - Len(t) = i
      BY <1>1
    <3> QED  BY <1>2, <2>2, <3>1
  <2> HIDE DEF rest
  <2>5. rest = p
    BY <2>2, <2>3, <2>4, SeqEqual
  <2> QED  BY <1>2, <2>5 DEF InsideOf, rest
<1> QED  BY <1>2, <1>3, <1>4

\* A shorter place is not inside t.
LEMMA ShorterIsOutside ==
    ASSUME NEW S, NEW t \in Seq(S), NEW n \in 0 .. (Len(t) - 1)
    PROVE  LET up == SubSeq(t, 1, n)
           IN  up \in Seq(S) /\ Len(up) = n /\ ~Within(t, up) /\ Above(up, t)
<1>1. Len(t) \in Nat /\ n \in 0 .. Len(t) /\ n # Len(t)
  BY LenProperties
<1>2. SubSeq(t, 1, n) \in Seq(S) /\ Len(SubSeq(t, 1, n)) = n
  BY <1>1, Prefix
<1>3. ~(Len(t) <= n)
  BY <1>1
<1> QED  BY <1>1, <1>2, <1>3 DEF Within, Above

\* What is above p is outside t when p is.
LEMMA UpIsOutside ==
    ASSUME NEW S, NEW t \in Seq(S), NEW p \in Seq(S), ~Within(t, p), NEW n \in 0 .. (Len(p) - 1)
    PROVE  LET up == SubSeq(p, 1, n)
           IN  up \in Seq(S) /\ ~Within(t, up)
<1>1. Len(t) \in Nat /\ Len(p) \in Nat
  BY LenProperties
<1> DEFINE up == SubSeq(p, 1, n)
<1>2. n \in 0 .. Len(p)
  BY <1>1
<1>3. /\ up \in Seq(S) /\ Len(up) = n
      /\ \A i \in 1 .. n : up[i] = p[i]
  BY <1>2, Prefix
<1> HIDE DEF up
<1>4. Within(t, up) => Len(t) <= n /\ \A i \in 1 .. Len(t) : up[i] = t[i]
  BY <1>3, WithinPointwise
<1>5. Within(t, up) => Len(t) <= Len(p) /\ \A i \in 1 .. Len(t) : p[i] = t[i]
  BY <1>1, <1>3, <1>4
<1>6. Within(t, up) => Within(t, p)
  BY <1>5, WithinPointwise
<1> QED  BY <1>3, <1>6 DEF up

\* The beginning of a beginning.
LEMMA PrefixOfPrefix ==
    ASSUME NEW S, NEW t \in Seq(S), NEW n \in 0 .. Len(t), NEW m \in 0 .. n
    PROVE  SubSeq(SubSeq(t, 1, n), 1, m) = SubSeq(t, 1, m)
<1> DEFINE p == SubSeq(t, 1, n)
<1>1. Len(t) \in Nat /\ m \in 0 .. Len(t) /\ \A i \in 1 .. m : i \in 1 .. n
  BY LenProperties
<1>2. p \in Seq(S) /\ Len(p) = n /\ \A i \in 1 .. n : p[i] = t[i]
  BY Prefix
<1> HIDE DEF p
<1>3. /\ SubSeq(p, 1, m) \in Seq(S) /\ Len(SubSeq(p, 1, m)) = m
      /\ \A i \in 1 .. m : SubSeq(p, 1, m)[i] = p[i]
  BY <1>2, Prefix
<1>4. /\ SubSeq(t, 1, m) \in Seq(S) /\ Len(SubSeq(t, 1, m)) = m
      /\ \A i \in 1 .. m : SubSeq(t, 1, m)[i] = t[i]
  BY <1>1, Prefix
<1>5. SubSeq(p, 1, m) = SubSeq(t, 1, m)
  BY <1>1, <1>2, <1>3, <1>4, SeqEqual
<1> QED  BY <1>5 DEF p

\* The beginning of two joined sequences.
LEMMA PrefixOfConcat ==
    ASSUME NEW S, NEW t \in Seq(S), NEW q \in Seq(S), NEW n \in 0 .. Len(t \o q)
    PROVE  SubSeq(t \o q, 1, n) = IF n <= Len(t) THEN SubSeq(t, 1, n)
                                  ELSE t \o SubSeq(q, 1, n - Len(t))
<1>1. /\ t \o q \in Seq(S) /\ Len(t \o q) = Len(t) + Len(q)
      /\ \A i \in 1 .. Len(t) + Len(q) :
             (t \o q)[i] = IF i <= Len(t) THEN t[i] ELSE q[i - Len(t)]
  BY ConcatProperties
<1>2. Len(t) \in Nat /\ Len(q) \in Nat
  BY LenProperties
<1> DEFINE up == SubSeq(t \o q, 1, n)
<1>3. up \in Seq(S) /\ Len(up) = n /\ \A i \in 1 .. n : up[i] = (t \o q)[i]
  BY <1>1, Prefix
<1> HIDE DEF up
<1>4. CASE n <= Len(t)
  <2>1. /\ SubSeq(t, 1, n) \in Seq(S) /\ Len(SubSeq(t, 1, n)) = n
        /\ \A i \in 1 .. n : SubSeq(t, 1, n)[i] = t[i]
    BY <1>2, <1>4, Prefix
  <2>2. \A i \in 1 .. n : i \in 1 .. Len(t) + Len(q) /\ i <= Len(t)
    BY <1>2, <1>4
  <2>3. up = SubSeq(t, 1, n)
    BY <1>1, <1>3, <2>1, <2>2, SeqEqual
  <2> QED  BY <1>4, <2>3 DEF up
<1>5. CASE ~(n <= Len(t))
  <2> DEFINE rest == SubSeq(q, 1, n - Len(t))
  <2>1. n - Len(t) \in 0 .. Len(q)
    BY <1>1, <1>2, <1>5
  <2>2. /\ rest \in Seq(S) /\ Len(rest) = n - Len(t)
        /\ \A i \in 1 .. (n - Len(t)) : rest[i] = q[i]
    BY <2>1, Prefix
  <2> HIDE DEF rest
  <2>3. /\ t \o rest \in Seq(S) /\ Len(t \o rest) = Len(t) + Len(rest)
        /\ \A i \in 1 .. Len(t) + Len(rest) :
               (t \o rest)[i] = IF i <= Len(t) THEN t[i] ELSE rest[i - Len(t)]
    BY <2>2, ConcatProperties
  <2>4. Len(t \o rest) = n
    BY <1>2, <2>2, <2>3
  <2>5. ASSUME NEW i \in 1 .. n  PROVE up[i] = (t \o rest)[i]
    <3>1. /\ i \in 1 .. Len(t) + Len(q) /\ i \in 1 .. Len(t) + Len(rest)
          /\ ~(i <= Len(t)) => i - Len(t) \in 1 .. (n - Len(t))
      BY <1>2, <2>1, <2>2
    <3> QED  BY <1>1, <1>3, <2>2, <2>3, <3>1
  <2>6. up = t \o rest
    BY <1>3, <2>3, <2>4, <2>5, SeqEqual
  <2> QED  BY <1>5, <2>6 DEF up, rest
<1> QED  BY <1>4, <1>5

-----------------------------------------------------------------------------
(* What Put and Cut leave                                                  *)

Kept(doc, t) == {p \in DOMAIN doc : ~Within(t, p)}
Made(t) == {SubSeq(t, 1, n) : n \in 0 .. (Len(t) - 1)}
Placed(t, value) == {t \o p : p \in DOMAIN value}

LEMMA PutPlaces ==
    ASSUME NEW doc, NEW t, NEW value
    PROVE  /\ DOMAIN Put(doc, t, value) = Kept(doc, t) \cup Made(t) \cup Placed(t, value)
           /\ \A p \in DOMAIN Put(doc, t, value) :
                  Put(doc, t, value)[p] = IF Within(t, p) THEN value[InsideOf(t, p)]
                                          ELSE IF p \in Made(t) THEN Object ELSE doc[p]
BY DEF Put, Kept, Made, Placed

\* The value is what is found at the place.
LEMMA PutIsRead ==
    ASSUME NEW doc, NEW t \in Seq(Keys), NEW value, IsDocument(value)
    PROVE  t \in DOMAIN Put(doc, t, value) /\ ValueAt(Put(doc, t, value), t) = value
<1> DEFINE new == Put(doc, t, value)
<1>1. /\ DOMAIN new = Kept(doc, t) \cup Made(t) \cup Placed(t, value)
      /\ \A p \in DOMAIN new : Within(t, p) => new[p] = value[InsideOf(t, p)]
  BY DEF Put, Kept, Made, Placed
<1>2. /\ <<>> \in DOMAIN value /\ DOMAIN value \subseteq Seq(Keys)
      /\ value = [p \in DOMAIN value |-> value[p]]
  BY DEF IsDocument
<1>3. \A p \in DOMAIN value :
          Within(t, t \o p) /\ InsideOf(t, t \o p) = p /\ t \o p \in DOMAIN new
  BY <1>1, <1>2, PlacedInside DEF Placed
<1>4. \A q \in DOMAIN new : Within(t, q) => \E p \in DOMAIN value : q = t \o p
  BY <1>1, ShorterIsOutside DEF Kept, Made, Placed
<1> HIDE DEF new
<1>5. {InsideOf(t, q) : q \in {q \in DOMAIN new : Within(t, q)}} = DOMAIN value
  <2>1. {InsideOf(t, q) : q \in {q \in DOMAIN new : Within(t, q)}} \subseteq DOMAIN value
    BY <1>3, <1>4
  <2>2. DOMAIN value \subseteq {InsideOf(t, q) : q \in {q \in DOMAIN new : Within(t, q)}}
    BY <1>3
  <2> QED  BY <2>1, <2>2
<1>6. \A p \in DOMAIN value : new[t \o p] = value[p]
  BY <1>1, <1>3
<1>7. ValueAt(new, t) = value
  BY <1>2, <1>5, <1>6, Zenon DEF ValueAt
<1>8. t \o <<>> = t
  BY ConcatEmptySeq
<1> QED  BY <1>2, <1>3, <1>7, <1>8 DEF new

\* What is outside the place stays, where objects only are on the way.
LEMMA PutKeeps ==
    ASSUME NEW doc, NEW t \in Seq(Keys), NEW value, IsDocument(value), ~Blocked(doc, t),
           NEW u, ~Within(t, u)
    PROVE  /\ u \in DOMAIN doc =>
                  u \in DOMAIN Put(doc, t, value) /\ Put(doc, t, value)[u] = doc[u]
           /\ u \in DOMAIN Put(doc, t, value) /\ u \notin DOMAIN doc =>
                  u \in {SubSeq(t, 1, n) : n \in 0 .. Len(t)}
<1>1. u \in Made(t) => Above(u, t) /\ u \in {SubSeq(t, 1, n) : n \in 0 .. Len(t)}
  <2> SUFFICES ASSUME u \in Made(t)
               PROVE  Above(u, t) /\ u \in {SubSeq(t, 1, n) : n \in 0 .. Len(t)}
    OBVIOUS
  <2>1. PICK n \in 0 .. (Len(t) - 1) : u = SubSeq(t, 1, n)
    BY DEF Made
  <2>2. n \in 0 .. Len(t)
    BY LenProperties
  <2> QED  BY <2>1, <2>2, ShorterIsOutside
<1>2. u \in Made(t) /\ u \in DOMAIN doc => doc[u] = Object
  BY <1>1 DEF Blocked
<1>3. u \notin Placed(t, value)
  <2>1. DOMAIN value \subseteq Seq(Keys)
    BY DEF IsDocument
  <2> QED  BY <2>1, PlacedInside DEF Placed
<1> DEFINE new == Put(doc, t, value)
<1>4. /\ DOMAIN new = Kept(doc, t) \cup Made(t) \cup Placed(t, value)
      /\ \A p \in DOMAIN new :
             new[p] = IF Within(t, p) THEN value[InsideOf(t, p)]
                      ELSE IF p \in Made(t) THEN Object ELSE doc[p]
  BY DEF Put, Kept, Made, Placed
<1> HIDE DEF new
<1>5. u \in DOMAIN doc => u \in DOMAIN new /\ new[u] = doc[u]
  BY <1>2, <1>4 DEF Kept
<1>6. u \in DOMAIN new /\ u \notin DOMAIN doc => u \in Made(t)
  BY <1>3, <1>4 DEF Kept
<1> QED  BY <1>1, <1>5, <1>6 DEF new

LEMMA PutIsDocument ==
    ASSUME NEW doc, IsDocument(doc), NEW t \in Seq(Keys), t # <<>>,
           NEW value, IsDocument(value)
    PROVE  IsDocument(Put(doc, t, value))
<1> DEFINE new == Put(doc, t, value)
<1>1. /\ DOMAIN new = Kept(doc, t) \cup Made(t) \cup Placed(t, value)
      /\ \A p \in DOMAIN new :
             new[p] = IF Within(t, p) THEN value[InsideOf(t, p)]
                      ELSE IF p \in Made(t) THEN Object ELSE doc[p]
  BY DEF Put, Kept, Made, Placed
<1>2. new = [p \in DOMAIN new |-> new[p]]
  BY DEF Put
<1>3. Len(t) \in Nat \ {0}
  BY EmptySeq
<1>4. \A n \in 0 .. (Len(t) - 1) :
          /\ SubSeq(t, 1, n) \in Seq(Keys) /\ Len(SubSeq(t, 1, n)) = n
          /\ ~Within(t, SubSeq(t, 1, n)) /\ SubSeq(t, 1, n) \in Made(t)
  BY ShorterIsOutside DEF Made
<1>5. \A p \in DOMAIN value :
          t \o p \in Seq(Keys) /\ Within(t, t \o p) /\ InsideOf(t, t \o p) = p
  BY PlacedInside DEF IsDocument
<1> HIDE DEF new
<1>6. \A p \in Made(t) : new[p] = Object /\ p \in DOMAIN new
  BY <1>1, <1>4 DEF Made
<1>7. \A p \in DOMAIN value : new[t \o p] = value[p] /\ t \o p \in DOMAIN new
  BY <1>1, <1>5 DEF Placed
<1>8. \A p \in Kept(doc, t) : p \in DOMAIN new /\ (new[p] = doc[p] \/ new[p] = Object)
  BY <1>1 DEF Kept
<1>9. <<>> \in DOMAIN new
  <2>1. 0 \in 0 .. (Len(t) - 1) /\ SubSeq(t, 1, 0) = <<>>
    BY <1>3, SubSeqEmpty
  <2> QED  BY <1>4, <1>6, <2>1
<1>10. ASSUME NEW p \in DOMAIN new
       PROVE  /\ p \in Seq(Keys) /\ new[p] \in Scalars \cup {Object}
              /\ \A n \in 0 .. (Len(p) - 1) :
                     SubSeq(p, 1, n) \in DOMAIN new /\ new[SubSeq(p, 1, n)] = Object
  <2>1. CASE p \in Kept(doc, t)
    <3>1. /\ p \in Seq(Keys) /\ doc[p] \in Scalars \cup {Object} /\ ~Within(t, p)
          /\ \A n \in 0 .. (Len(p) - 1) :
                 SubSeq(p, 1, n) \in DOMAIN doc /\ doc[SubSeq(p, 1, n)] = Object
      BY <2>1 DEF Kept, IsDocument
    <3>2. \A n \in 0 .. (Len(p) - 1) : SubSeq(p, 1, n) \in Kept(doc, t)
      BY <3>1, UpIsOutside DEF Kept
    <3> QED  BY <1>8, <2>1, <3>1, <3>2
  <2>2. CASE p \in Made(t)
    <3>1. PICK m \in 0 .. (Len(t) - 1) : p = SubSeq(t, 1, m)
      BY <2>2 DEF Made
    <3>2. p \in Seq(Keys) /\ Len(p) = m
      BY <1>4, <3>1
    <3>3. ASSUME NEW n \in 0 .. (Len(p) - 1)
          PROVE  SubSeq(p, 1, n) \in Made(t)
      <4>1. /\ n \in 0 .. (Len(t) - 1) /\ n \in 0 .. m /\ m \in 0 .. Len(t)
        BY <1>3, <3>2
      <4>2. SubSeq(p, 1, n) = SubSeq(t, 1, n)
        BY <3>1, <4>1, PrefixOfPrefix
      <4> QED  BY <1>4, <4>1, <4>2
    <3> QED  BY <1>6, <2>2, <3>2, <3>3
  <2>3. CASE p \in Placed(t, value)
    <3>1. PICK q \in DOMAIN value : p = t \o q
      BY <2>3 DEF Placed
    <3>2. /\ q \in Seq(Keys) /\ value[q] \in Scalars \cup {Object}
          /\ \A n \in 0 .. (Len(q) - 1) :
                 SubSeq(q, 1, n) \in DOMAIN value /\ value[SubSeq(q, 1, n)] = Object
      BY DEF IsDocument
    <3>3. p \in Seq(Keys) /\ new[p] = value[q]
      BY <1>5, <1>7, <3>1
    <3>4. Len(q) \in Nat /\ Len(p) = Len(t) + Len(q)
      BY <3>1, <3>2, LenProperties, ConcatProperties
    <3>5. ASSUME NEW n \in 0 .. (Len(p) - 1)
          PROVE  SubSeq(p, 1, n) \in DOMAIN new /\ new[SubSeq(p, 1, n)] = Object
      <4>1. n \in 0 .. Len(t \o q)
        BY <1>3, <3>1, <3>4
      <4>2. CASE n < Len(t)
        <5>1. n <= Len(t) /\ n \in 0 .. (Len(t) - 1)
          BY <1>3, <4>2
        <5>2. SubSeq(p, 1, n) = SubSeq(t, 1, n)
          BY <3>1, <3>2, <4>1, <5>1, PrefixOfConcat
        <5> QED  BY <1>4, <1>6, <5>1, <5>2
      <4>3. CASE n >= Len(t)
        <5>1. n - Len(t) \in 0 .. (Len(q) - 1)
          BY <1>3, <3>4, <4>3
        <5> DEFINE up == SubSeq(q, 1, n - Len(t))
        <5>2. up \in DOMAIN value /\ value[up] = Object
          BY <3>2, <5>1
        <5>3. SubSeq(p, 1, n) = t \o up
          <6>1. CASE n = Len(t)
            <7>1. up = <<>>
              BY <1>3, <6>1, SubSeqEmpty
            <7>2. SubSeq(p, 1, n) = SubSeq(t, 1, Len(t))
              BY <1>3, <3>1, <3>2, <4>1, <6>1, PrefixOfConcat
            <7> HIDE DEF up
            <7> QED  BY <7>1, <7>2, SubSeqFull, ConcatEmptySeq
          <6>2. CASE n # Len(t)
            <7>1. ~(n <= Len(t))
              BY <1>3, <4>3, <6>2
            <7> QED  BY <3>1, <3>2, <4>1, <7>1, PrefixOfConcat
          <6> QED  BY <6>1, <6>2
        <5> HIDE DEF up
        <5> QED  BY <1>7, <5>2, <5>3
      <4> QED  BY <1>3, <4>2, <4>3
    <3> QED  BY <3>2, <3>3, <3>5
  <2> QED  BY <1>1, <2>1, <2>2, <2>3
<1> QED  BY <1>2, <1>9, <1>10 DEF IsDocument, new

LEMMA CutIsDocument ==
    ASSUME NEW doc, IsDocument(doc), NEW t \in Seq(Keys), t # <<>>
    PROVE  IsDocument(Cut(doc, t))
<1> DEFINE new == Cut(doc, t)
<1>1. /\ DOMAIN new = Kept(doc, t) /\ new = [p \in DOMAIN new |-> new[p]]
      /\ \A p \in DOMAIN new : new[p] = doc[p]
  BY DEF Cut, Kept
<1> HIDE DEF new
<1>2. <<>> \in Kept(doc, t)
  <2>1. Len(t) \in Nat \ {0} /\ Len(<<>>) = 0
    BY EmptySeq
  <2>2. ~Within(t, <<>>)
    BY <2>1 DEF Within
  <2> QED  BY <2>2 DEF Kept, IsDocument
<1>3. ASSUME NEW p \in DOMAIN new
      PROVE  /\ p \in Seq(Keys) /\ new[p] \in Scalars \cup {Object}
             /\ \A n \in 0 .. (Len(p) - 1) :
                    SubSeq(p, 1, n) \in DOMAIN new /\ new[SubSeq(p, 1, n)] = Object
  <2>1. p \in DOMAIN doc /\ ~Within(t, p) /\ new[p] = doc[p]
    BY <1>1 DEF Kept
  <2>2. /\ p \in Seq(Keys) /\ doc[p] \in Scalars \cup {Object}
        /\ \A n \in 0 .. (Len(p) - 1) :
               SubSeq(p, 1, n) \in DOMAIN doc /\ doc[SubSeq(p, 1, n)] = Object
    BY <2>1 DEF IsDocument
  <2>3. \A n \in 0 .. (Len(p) - 1) : SubSeq(p, 1, n) \in Kept(doc, t)
    BY <2>1, <2>2, UpIsOutside DEF Kept
  <2> QED  BY <1>1, <2>1, <2>2, <2>3
<1> QED  BY <1>1, <1>2, <1>3 DEF IsDocument, new

-----------------------------------------------------------------------------
(* How calls end                                                           *)

LEMMA Left ==
    ASSUME NEW tool, NEW code, NEW subject, Leave(tool, code, subject)
    PROVE  /\ kind' = kind /\ file' = file
           /\ answer'.tool = tool /\ answer'.code = code /\ answer'.subject = subject
BY DEF Leave, Reply

LEMMA TextSaved ==
    ASSUME NEW tool, NEW next, NEW subject, SaveText(tool, next, subject)
    PROVE  /\ kind' = kind /\ file' \in {file, next} \cup Torn
           /\ answer'.code \in RefusalCodes => file' = file
           /\ answer'.tool = tool /\ answer'.subject = subject
           /\ answer'.code = "OK" => file' \in {next} \cup Torn
<1>1. CASE Leave(tool, "IO_ERROR", subject)
  BY <1>1, Left DEF RefusalCodes
<1>2. CASE /\ \/ Reply(tool, "OK", TRUE, subject)
              \/ Reply(tool, "EDITOR_STATE", FALSE, subject)
           /\ file' \in {next} \cup Torn
           /\ UNCHANGED kind
  BY <1>2 DEF Reply, RefusalCodes
<1> QED  BY <1>1, <1>2 DEF SaveText

LEMMA TextFinished ==
    ASSUME NEW tool, NEW r, r.changed \in BOOLEAN, NEW subject, FinishText(tool, r, subject)
    PROVE  /\ kind' = kind /\ answer'.tool = tool /\ answer'.subject = subject
           /\ answer'.code \in RefusalCodes => file' = file
           /\ file' = file \/ (r.changed /\ file' \in {r.content} \cup Torn)
           /\ answer'.code = "OK" => \/ ~r.changed /\ r.code = "OK" /\ file' = file
                                     \/ r.changed /\ file' \in {r.content} \cup Torn
<1>1. CASE ~r.changed /\ Leave(tool, r.code, subject)
  <2> DEFINE code == r.code
  <2>1. Leave(tool, code, subject)
    BY <1>1
  <2> HIDE DEF code
  <2>2. /\ kind' = kind /\ file' = file
        /\ answer'.tool = tool /\ answer'.code = code /\ answer'.subject = subject
    BY <2>1, Left
  <2> QED  BY <1>1, <2>2 DEF code
<1>2. CASE r.changed /\ SaveText(tool, r.content, subject)
  <2> DEFINE next == r.content
  <2>1. SaveText(tool, next, subject)
    BY <1>2
  <2> HIDE DEF next
  <2>2. /\ kind' = kind /\ file' \in {file, next} \cup Torn
        /\ answer'.code \in RefusalCodes => file' = file
        /\ answer'.tool = tool /\ answer'.subject = subject
        /\ answer'.code = "OK" => file' \in {next} \cup Torn
    BY <2>1, TextSaved
  <2> QED  BY <1>2, <2>2 DEF next
<1> QED  BY <1>1, <1>2 DEF FinishText

LEMMA ResourceSaved ==
    ASSUME NEW tool, NEW next, NEW subject, SaveResource(tool, next, subject)
    PROVE  /\ kind' = kind /\ file' \in {file, next} \cup Torn
           /\ answer'.code \in RefusalCodes => file' = file
BY DEF SaveResource, Reply, RefusalCodes

\* What holds of every call.
Plain == kind' = kind /\ (answer'.code \in RefusalCodes => file' = file)

LEMMA BadArgumentsEnds == ASSUME BadArguments
                          PROVE  Plain /\ file' = file /\ answer'.tool = "any"
BY Left DEF BadArguments, Plain

\* How a tool ends that takes a scene.
Ends(tool) ==
    \E subject : \/ \E code : Leave(tool, code, subject)
                 \/ \E next : SaveResource(tool, next, subject)

LEMMA EndsPlain ==
    ASSUME NEW tool, Ends(tool)
    PROVE  Plain /\ answer'.tool = tool
<1>1. ASSUME NEW code, NEW subject, Leave(tool, code, subject)
      PROVE  Plain /\ answer'.tool = tool
  BY <1>1, Left DEF Plain
<1>2. ASSUME NEW next, NEW subject, SaveResource(tool, next, subject)
      PROVE  Plain /\ answer'.tool = tool
  BY <1>2, ResourceSaved DEF Plain, SaveResource, Reply
<1> QED  BY <1>1, <1>2 DEF Ends

LEMMA OwnedEnds ==
    ASSUME NEW tool, NEW s, NEW n, NEW owned, NEW subject, SaveOwned(tool, s, n, owned, subject)
    PROVE  Ends(tool)
<1>1. \E next : SaveResource(tool, next, subject)
  BY DEF SaveOwned
<1> QED  BY <1>1 DEF Ends

LEMMA ReparentEnds ==
    ASSUME NEW n, NEW p, NEW i, ReparentNode(n, p, i)
    PROVE  Ends("scene.reparent_node")
<1>1. \/ \E code, subject : Leave("scene.reparent_node", code, subject)
      \/ \E next, subject : SaveResource("scene.reparent_node", next, subject)
      \/ \E s, m, owned, subject : SaveOwned("scene.reparent_node", s, m, owned, subject)
  BY DEF ReparentNode
<1> QED  BY <1>1, OwnedEnds DEF Ends

\* What a call for a scene may be: only one tool answers for a reparented
\* node.
LEMMA SceneCallIs ==
    ASSUME SceneCall
    PROVE  \/ SceneUnavailable
           \/ \E name \in RootNames, overwrite, open \in BOOLEAN : SceneCreate(name, overwrite, open)
           \/ Loaded /\ \E tool : tool # "scene.reparent_node" /\ Ends(tool)
           \/ Loaded /\ \E n, p \in NodesOf(file), i \in Indexes : ReparentNode(n, p, i)
<1> DEFINE Other == \E tool : tool # "scene.reparent_node" /\ Ends(tool)
<1>1. ASSUME NEW tool, tool # "scene.reparent_node", Ends(tool)  PROVE Other
  BY <1>1
<1> HIDE DEF Other
<1>2. ASSUME NEW p, NEW name, AddNode(p, name) \/ RenameNode(p, name)  PROVE Other
  <2>1. CASE AddNode(p, name)
    <3>1. \/ Leave("scene.add_node", "ALREADY_EXISTS", <<>>)
          \/ \E s, n : SaveOwned("scene.add_node", s, n, NodesOf(file), <<>>)
      BY <2>1 DEF AddNode
    <3> QED  BY <1>1, <3>1, OwnedEnds DEF Ends
  <2>2. CASE RenameNode(p, name)
    <3>1. Ends("scene.rename_node")
      BY <2>2 DEF RenameNode, Ends
    <3> QED  BY <1>1, <3>1
  <2> QED  BY <1>2, <2>1, <2>2
<1>3. ASSUME NEW n, NEW p, NEW name, DuplicateNode(n, p, name)  PROVE Other
  <2>1. \E s, m : SaveOwned("scene.duplicate_node", s, m, NodesOf(file), <<>>)
    BY <1>3 DEF DuplicateNode
  <2> QED  BY <1>1, <2>1, OwnedEnds
<1>4. ASSUME NEW p, NEW name, NEW inner, InstanceScene(p, name, inner)  PROVE Other
  <2>1. \E s, m : SaveOwned("scene.instance_scene", s, m, NodesOf(file), <<>>)
    BY <1>4 DEF InstanceScene
  <2> QED  BY <1>1, <2>1, OwnedEnds
<1>5. ASSUME NEW n, RemoveNode(n) \/ GroupAdd(n) \/ GroupRemove(n)  PROVE Other
  <2>1. Ends("scene.remove_node") \/ Ends("scene.group_add") \/ Ends("scene.group_remove")
    BY <1>5 DEF RemoveNode, GroupAdd, GroupRemove, Ends
  <2> QED  BY <1>1, <2>1
<1>6. ASSUME NEW n, NEW property, NEW v, NEW tool, tool # "scene.reparent_node",
             Assign(tool, n, property, v) \/ Configure(tool, n, property, v)
      PROVE  Other
  <2>1. Ends(tool)
    BY <1>6 DEF Assign, Configure, Ends
  <2> QED  BY <1>1, <1>6, <2>1
<1>7. ASSUME NEW n, NEW v, NEW overwrite, AttachScript(n, v, overwrite)  PROVE Other
  <2>1. Ends("script.attach")
    BY <1>7 DEF AttachScript, Ends
  <2> QED  BY <1>1, <2>1
<1>8. ASSUME NEW m, NEW n, NEW f, SignalConnect(m, n, f) \/ SignalDisconnect(m, n, f)
      PROVE  Other
  <2>1. Ends("scene.signal_connect") \/ Ends("scene.signal_disconnect")
    BY <1>8 DEF SignalConnect, SignalDisconnect, Ends
  <2> QED  BY <1>1, <2>1
<1>9. ASSUME NEW n, NEW a, NEW v, \/ SetProp(n, a[1], a[2])
                                 \/ Configure("scene.node_configure", n, a[1], a[2])
                                 \/ Configure("scene.transform_apply", n, "value", v)
      PROVE  Other
  <2>1. \/ Assign("scene.set_prop", n, a[1], a[2])
        \/ Configure("scene.node_configure", n, a[1], a[2])
        \/ Configure("scene.transform_apply", n, "value", v)
    BY <1>9 DEF SetProp
  <2> QED  BY <1>6, <2>1
<1> QED  BY <1>2, <1>3, <1>4, <1>5, <1>7, <1>8, <1>9 DEF SceneCall, Other

LEMMA SceneCallEnds == ASSUME SceneCall  PROVE Plain /\ kind = "scene"
<1>1. CASE SceneUnavailable
  BY <1>1, Left DEF SceneUnavailable, Plain
<1>2. ASSUME NEW name, NEW overwrite, NEW open, SceneCreate(name, overwrite, open)
      PROVE  Plain /\ kind = "scene"
  <2>1. ASSUME Reply("scene.create", "EDITOR_STATE", FALSE, <<>>), UNCHANGED kind
        PROVE  Plain
    BY <2>1 DEF Reply, Plain, RefusalCodes
  <2> QED  BY <1>2, <2>1, Left, ResourceSaved DEF SceneCreate, Plain
<1>3. CASE Loaded /\ \E tool : Ends(tool)
  BY <1>3, EndsPlain DEF Loaded
<1> QED  BY <1>1, <1>2, <1>3, SceneCallIs, ReparentEnds

LEMMA SourceCallEnds ==
    ASSUME TypeOK, SourceCall
    PROVE  Plain /\ TypeOK' /\ kind \in {"script", "resource"}
<1>1. ASSUME kind = "script", NEW tool, NEW next \in Texts \cup {file}, SaveText(tool, next, <<>>),
             next \in Texts \/ file # Missing
      PROVE  Plain /\ TypeOK'
  <2>1. kind' = kind /\ file' \in {file, next} \cup Torn
        /\ (answer'.code \in RefusalCodes => file' = file)
    BY <1>1, TextSaved
  <2> QED  BY <1>1, <2>1 DEF Plain, TypeOK, Unreadable
<1>2. ASSUME kind = "resource", NEW tool, NEW next \in Values, SaveResource(tool, next, <<>>)
      PROVE  Plain /\ TypeOK'
  <2>1. kind' = kind /\ file' \in {file, next} \cup Torn
        /\ (answer'.code \in RefusalCodes => file' = file)
    BY <1>2, ResourceSaved
  <2> QED  BY <1>2, <2>1 DEF Plain, TypeOK, Unreadable
<1>3. ASSUME NEW tool, NEW code, kind \in {"script", "resource"}, Leave(tool, code, <<>>)
      PROVE  Plain /\ TypeOK'
  <2>1. kind' = kind /\ file' = file
    BY <1>3, Left
  <2> QED  BY <1>3, <2>1 DEF Plain, TypeOK
<1>4. ASSUME NEW t \in Texts, NEW overwrite, ScriptCreate(t, overwrite) \/ ScriptEdit(t)
      PROVE  Plain /\ TypeOK' /\ kind = "script"
  <2>1. CASE ScriptCreate(t, overwrite)
    BY <1>1, <1>3, <2>1 DEF ScriptCreate
  <2>2. CASE ScriptEdit(t)
    BY <1>1, <1>3, <2>2 DEF ScriptEdit
  <2> QED  BY <1>4, <2>1, <2>2
<1>5. ASSUME NEW overwrite, ResourceCreate(overwrite)
      PROVE  Plain /\ TypeOK' /\ kind = "resource"
  BY <1>2, <1>3, <1>5, FileAssumption DEF ResourceCreate
<1>6. ASSUME NEW v \in Values, ResourceSet(v)
      PROVE  Plain /\ TypeOK' /\ kind = "resource"
  BY <1>2, <1>3, <1>6 DEF ResourceSet
<1> QED  BY <1>4, <1>5, <1>6 DEF SourceCall

-----------------------------------------------------------------------------
(* What the text tools do                                                  *)

\* A result that says OK, or a change; of a document that pointer p was for.
SetFacts(r, doc, p, value) ==
    LET t == Tokens(p)
    IN  /\ r.changed \in BOOLEAN
        /\ r.changed \/ r.code = "OK" =>
              p \in Pointers \ {Unrooted} /\ t \in Seq(Keys)
        /\ r.changed =>
              /\ r.content = value \/ (t # <<>> /\ r.content = Put(doc, t, value))
              /\ t \in DOMAIN r.content /\ ValueAt(r.content, t) = value
              /\ \A u : ~Within(t, u) =>
                     /\ u \in DOMAIN doc => u \in DOMAIN r.content /\ r.content[u] = doc[u]
                     /\ u \in DOMAIN r.content /\ u \notin DOMAIN doc =>
                            u \in {SubSeq(t, 1, n) : n \in 0 .. Len(t)}
        /\ ~r.changed /\ r.code = "OK" => t \in DOMAIN doc /\ ValueAt(doc, t) = value

\* A document is what is found at its root.
LEMMA RootValue ==
    ASSUME NEW value, IsDocument(value)
    PROVE  /\ <<>> \in DOMAIN value /\ ValueAt(value, <<>>) = value
           /\ \A u \in DOMAIN value : Within(<<>>, u)
<1>1. DOMAIN value \subseteq Seq(Keys) /\ <<>> \in DOMAIN value
      /\ value = [p \in DOMAIN value |-> value[p]]
  BY DEF IsDocument
<1>2. <<>> \in Seq(Keys)
  BY EmptySeq
<1>3. \A u \in DOMAIN value : <<>> \o u = u
  BY <1>1, ConcatEmptySeq
<1>4. \A u \in DOMAIN value : Within(<<>>, u) /\ InsideOf(<<>>, u) = u
  <2>1. \A u \in DOMAIN value : Within(<<>>, <<>> \o u) /\ InsideOf(<<>>, <<>> \o u) = u
    BY <1>1, <1>2, PlacedInside
  <2> QED  BY <1>3, <2>1
<1>5. {InsideOf(<<>>, q) : q \in {q \in DOMAIN value : Within(<<>>, q)}} = DOMAIN value
  BY <1>4
<1>6. ValueAt(value, <<>>) = value
  BY <1>1, <1>3, <1>5, Zenon DEF ValueAt
<1> QED  BY <1>1, <1>4, <1>6

\* With its typed objects as texts a document is one still.
LEMMA DecodedIsDocument ==
    ASSUME NEW v \in JsonValues, Decodes(v)
    PROVE  IsDocument(Decoded(v))
<1> DEFINE typed == TypedPlaces(v)
           kept  == {q \in DOMAIN v : \A t \in typed : ~Above(t, q)}
           d     == Decoded(v)
<1>1. /\ <<>> \in DOMAIN v /\ typed \subseteq DOMAIN v
      /\ \A p \in DOMAIN v :
             /\ p \in Seq(Keys) /\ v[p] \in Scalars \cup {Object}
             /\ \A n \in 0 .. (Len(p) - 1) :
                    SubSeq(p, 1, n) \in DOMAIN v /\ v[SubSeq(p, 1, n)] = Object
  BY FileAssumption DEF IsDocument, TypedPlaces
<1>2. \A p \in typed : Written(ValueAt(v, p)) \in Scalars
  BY FileAssumption DEF Decodes
<1>3. /\ d = [p \in DOMAIN d |-> d[p]] /\ DOMAIN d = kept
      /\ \A p \in kept : d[p] = IF p \in typed THEN Written(ValueAt(v, p)) ELSE v[p]
  BY DEF Decoded
<1> HIDE DEF typed, d
<1>4. <<>> \in kept
  <2> SUFFICES ASSUME NEW t \in typed, Above(t, <<>>)  PROVE FALSE
    BY <1>1
  <2>1. t \in Seq(Keys) /\ Len(t) \in Nat /\ Len(<<>>) = 0
    BY <1>1, LenProperties
  <2>2. t # <<>> /\ Len(t) <= 0
    BY <2>1 DEF Above, Within
  <2> QED  BY <2>1, <2>2, EmptySeq
<1>5. ASSUME NEW p \in kept, NEW n \in 0 .. (Len(p) - 1)
      PROVE  SubSeq(p, 1, n) \in kept /\ d[SubSeq(p, 1, n)] = Object
  <2> DEFINE up == SubSeq(p, 1, n)
  <2>1. /\ p \in Seq(Keys) /\ Len(p) \in Nat /\ n \in 0 .. Len(p) /\ n < Len(p)
        /\ up \in DOMAIN v /\ v[up] = Object
    BY <1>1, LenProperties
  <2>2. /\ up \in Seq(Keys) /\ Len(up) = n /\ \A i \in 1 .. n : up[i] = p[i]
        /\ Above(up, p)
    BY <2>1, Prefix, ShorterIsOutside
  <2> HIDE DEF up
  <2>3. ASSUME NEW t \in typed, Above(t, up)  PROVE FALSE
    <3>1. t \in Seq(Keys) /\ Len(t) \in Nat
      BY <1>1, LenProperties
    <3>2. Len(t) <= n /\ \A i \in 1 .. Len(t) : up[i] = t[i]
      BY <2>2, <2>3, <3>1, WithinPointwise DEF Above
    <3>3. Len(t) <= Len(p) /\ \A i \in 1 .. Len(t) : p[i] = t[i]
      BY <2>1, <2>2, <3>1, <3>2
    <3>4. Within(t, p) /\ t # p
      BY <2>1, <3>1, <3>2, <3>3, WithinPointwise
    <3> QED  BY <3>4 DEF Above
  <2>4. up \notin typed
    BY <2>2
  <2> QED  BY <1>3, <2>1, <2>3, <2>4 DEF up
<1>6. \A p \in kept : p \in Seq(Keys) /\ d[p] \in Scalars \cup {Object}
  BY <1>1, <1>2, <1>3
<1> QED  BY <1>3, <1>4, <1>5, <1>6 DEF IsDocument, d

LEMMA SetResult ==
    ASSUME NEW doc, IsDocument(doc), NEW p \in Pointers,
           NEW value, IsDocument(value), NEW r \in SetValue(doc, p, value)
    PROVE  SetFacts(r, doc, p, value)
<1> DEFINE t == Tokens(p)
<1>1. IsDocument(value) /\ (p # Unrooted => t \in Seq(Keys) /\ (p = <<>> => t = <<>>))
  BY FileAssumption
<1> HIDE DEF t
<1>2. ASSUME NEW code \in {"INVALID_ARGS", "INTERNAL"}, r = Refused(code, doc)
      PROVE  SetFacts(r, doc, p, value)
  <2>1. r.changed = FALSE /\ r.code = code
    BY <1>2 DEF Refused
  <2> QED  BY <2>1 DEF SetFacts
<1>3. CASE p = <<>> /\ p # Unrooted
  <2>1. t = <<>>
    BY <1>1, <1>3
  <2>2. CASE doc = value /\ r = Same(doc)
    <3>1. r.changed = FALSE
      BY <2>2 DEF Same, Refused
    <3>2. <<>> \in Seq(Keys) /\ t \in DOMAIN doc /\ ValueAt(doc, t) = value
      BY <1>1, <2>1, <2>2, RootValue, EmptySeq
    <3> QED  BY <1>3, <2>1, <3>1, <3>2 DEF SetFacts, t
  <2>3. CASE r = Changed(value)
    <3>1. r.changed = TRUE /\ r.content = value
      BY <2>3 DEF Changed
    <3>2. /\ <<>> \in Seq(Keys) /\ t \in DOMAIN value /\ ValueAt(value, t) = value
          /\ \A u \in DOMAIN value : Within(t, u)
      BY <1>1, <2>1, RootValue, EmptySeq
    <3>3. \A u \in DOMAIN doc : Within(t, u)
      BY <2>1, RootValue
    <3> QED  BY <1>3, <2>1, <3>1, <3>2, <3>3 DEF SetFacts, t
  <2>4. \/ doc = value /\ r = Same(doc)
        \/ r = Changed(value)
        \/ r = Refused("INTERNAL", doc)
    BY <1>3 DEF SetValue, Differs
  <2> QED  BY <1>2, <2>2, <2>3, <2>4
<1>4. CASE p # <<>> \/ p = Unrooted
  <2>1. CASE r = Changed(Put(doc, t, value)) /\ p # Unrooted /\ t # <<>> /\ ~Blocked(doc, t)
    <3>1. r.changed = TRUE /\ r.content = Put(doc, t, value)
      BY <2>1 DEF Changed
    <3>2. t \in DOMAIN Put(doc, t, value) /\ ValueAt(Put(doc, t, value), t) = value
      BY <1>1, <2>1, PutIsRead
    <3>3. \A u : ~Within(t, u) =>
              /\ u \in DOMAIN doc =>
                     u \in DOMAIN Put(doc, t, value) /\ Put(doc, t, value)[u] = doc[u]
              /\ u \in DOMAIN Put(doc, t, value) /\ u \notin DOMAIN doc =>
                     u \in {SubSeq(t, 1, n) : n \in 0 .. Len(t)}
      BY <1>1, <2>1, PutKeeps
    <3> QED  BY <1>1, <2>1, <3>1, <3>2, <3>3 DEF SetFacts, t
  <2>2. CASE r = Same(doc) /\ p # Unrooted /\ t \in DOMAIN doc /\ ValueAt(doc, t) = value
    <3>1. r.changed = FALSE
      BY <2>2 DEF Same, Refused
    <3> QED  BY <1>1, <2>2, <3>1 DEF SetFacts, t
  <2>3. \/ \E code \in {"INVALID_ARGS", "INTERNAL"} : r = Refused(code, doc)
        \/ r = Changed(Put(doc, t, value)) /\ p # Unrooted /\ t # <<>> /\ ~Blocked(doc, t)
        \/ r = Same(doc) /\ p # Unrooted /\ t \in DOMAIN doc /\ ValueAt(doc, t) = value
    <3>1. /\ p # <<>>
          /\ r \in IF p = Unrooted \/ ~IsObject(doc) THEN {Refused("INVALID_ARGS", doc)}
                   ELSE IF t = <<>> THEN {Refused("INTERNAL", doc)}
                   ELSE IF Blocked(doc, t) THEN {Refused("INVALID_ARGS", doc)}
                   ELSE IF t \notin DOMAIN doc THEN {Changed(Put(doc, t, value))}
                   ELSE IF ValueAt(doc, t) = value THEN {Same(doc)}
                   ELSE Differs(doc, Put(doc, t, value))
      BY <1>4, TokenAssumption DEF SetValue, t
    <3> QED  BY <3>1 DEF Differs
  <2> QED  BY <1>2, <2>1, <2>2, <2>3
<1> QED  BY <1>3, <1>4

LEMMA SetContent ==
    ASSUME NEW doc, IsDocument(doc), NEW p, NEW value, IsDocument(value), NEW r,
           SetFacts(r, doc, p, value), r.changed
    PROVE  IsDocument(r.content)
BY PutIsDocument DEF SetFacts

RemoveFacts(r, doc, p) ==
    LET t == Tokens(p)
    IN  /\ r.changed \in BOOLEAN
        /\ r.changed =>
              p # Unrooted /\ t \in Seq(Keys) /\ t # <<>> /\ r.content = Cut(doc, t)
        /\ ~r.changed /\ r.code = "OK" => p # Unrooted /\ (t \notin DOMAIN doc \/ t = <<>>)

LEMMA RemoveResult ==
    ASSUME NEW doc, IsDocument(doc), NEW p \in Pointers
    PROVE  RemoveFacts(RemoveValue(doc, p), doc, p)
<1> DEFINE t == Tokens(p)
           r == RemoveValue(doc, p)
<1>1. p # Unrooted => t \in Seq(Keys) /\ (p = <<>> => t = <<>>)
  BY FileAssumption
<1> HIDE DEF t
<1>2. ~IsObject(doc) => t \notin DOMAIN doc \/ t = <<>> \/ p = Unrooted
  <2> SUFFICES ASSUME t # <<>>, t \in DOMAIN doc  PROVE IsObject(doc)
    OBVIOUS
  <2>1. t \in Seq(Keys) /\ Len(t) \in Nat \ {0}
    BY EmptySeq DEF IsDocument
  <2>2. 0 \in 0 .. (Len(t) - 1) /\ SubSeq(t, 1, 0) = <<>>
    BY <2>1, SubSeqEmpty
  <2> QED  BY <2>2 DEF IsDocument, IsObject
<1>3. r = IF p \in {<<>>, Unrooted} THEN Refused("INVALID_ARGS", doc)
          ELSE IF ~IsObject(doc) THEN Same(doc)
          ELSE IF t = <<>> THEN Refused("INTERNAL", doc)
          ELSE IF t \notin DOMAIN doc THEN Same(doc)
          ELSE Changed(Cut(doc, t))
  BY DEF RemoveValue, t
<1> HIDE DEF r
<1>4. CASE p \in {<<>>, Unrooted} \/ (IsObject(doc) /\ t = <<>>)
  <2>1. r.changed = FALSE /\ r.code # "OK"
    BY <1>3, <1>4 DEF Refused, Same
  <2> QED  BY <2>1 DEF RemoveFacts, r
<1>5. CASE p \notin {<<>>, Unrooted} /\ (~IsObject(doc) \/ (t # <<>> /\ t \notin DOMAIN doc))
  <2>1. r.changed = FALSE
    BY <1>3, <1>5 DEF Refused, Same
  <2> QED  BY <1>2, <1>5, <2>1 DEF RemoveFacts, r, t
<1>6. CASE p \notin {<<>>, Unrooted} /\ IsObject(doc) /\ t # <<>> /\ t \in DOMAIN doc
  <2>1. r.changed = TRUE /\ r.content = Cut(doc, t)
    BY <1>3, <1>6 DEF Changed
  <2> QED  BY <1>1, <1>6, <2>1 DEF RemoveFacts, r, t
<1> QED  BY <1>4, <1>5, <1>6

-----------------------------------------------------------------------------
(* The JSON tools                                                          *)

LEMMA EmptyObjectIsDocument == IsDocument(EmptyObject)
<1>1. <<>> \in Seq(Keys) /\ Len(<<>>) = 0
  BY EmptySeq
<1>2. DOMAIN EmptyObject = {<<>>} /\ EmptyObject[<<>>] = Object
  BY DEF EmptyObject
<1>3. EmptyObject = [p \in DOMAIN EmptyObject |-> EmptyObject[p]]
  BY DEF EmptyObject
<1> QED  BY <1>1, <1>2, <1>3 DEF IsDocument

LEMMA DocumentLoaded ==
    ASSUME TypeOK, kind = "json", NEW create, LoadDocument(create).code = "OK"
    PROVE  LET doc == LoadDocument(create).content
           IN  IsDocument(doc) /\ (file \notin Unreadable => doc = file)
<1>1. CASE LoadDocument(create) = Same(EmptyObject) /\ file \in Unreadable
  BY <1>1, EmptyObjectIsDocument DEF Same, Refused
<1>2. CASE LoadDocument(create) = Same(file) /\ file \notin Unreadable
  BY <1>2 DEF Same, Refused, TypeOK
<1>3. CASE \E code \in {"NOT_FOUND", "IO_ERROR"} : LoadDocument(create) = Refused(code, file)
  BY <1>3 DEF Refused
<1> QED  BY <1>1, <1>2, <1>3 DEF LoadDocument, Unreadable, Torn

\* What JsonWriteIsRead and ConfigWriteIsRead ask of a step.
JsonSetRead ==
    Did("file.json_set") =>
        LET p == answer'.subject[1]
            t == Tokens(p)
        IN  /\ GetValue(file', p) = "OK"
            /\ ValueAt(file', t) = Decoded(answer'.subject[2])
            /\ JsonKept(t, {SubSeq(t, 1, n) : n \in 0 .. Len(t)})
JsonRemoveRead ==
    Did("file.json_remove") =>
        LET p == answer'.subject[1]
        IN  /\ GetValue(file', p) = "NOT_FOUND" \/ Tokens(p) = <<>>
            /\ JsonKept(Tokens(p), {})

LEMMA JsonSetEnds ==
    ASSUME TypeOK, NEW p \in Pointers, NEW v \in JsonValues \cup {BadValue}, NEW create,
           JsonSet(p, v, create)
    PROVE  /\ Plain /\ kind = "json" /\ TypeOK'
           /\ answer'.tool = "file.json_set" /\ JsonSetRead
<1> DEFINE doc == LoadDocument(create).content
           code == LoadDocument(create).code
           tool == "file.json_set"
<1>1. kind = "json"
  BY DEF JsonSet
<1>2. ASSUME NEW c, c # "OK", Leave(tool, c, <<>>)
      PROVE  /\ Plain /\ TypeOK' /\ answer'.tool = tool /\ JsonSetRead
  <2>1. /\ kind' = kind /\ file' = file /\ answer'.tool = tool /\ answer'.code = c
    BY <1>2, Left
  <2> QED  BY <1>2, <2>1 DEF Plain, TypeOK, JsonSetRead, Did
<1>3. ASSUME code = "OK", v # BadValue, Decodes(v), NEW r \in SetValue(doc, p, Decoded(v)),
             FinishText(tool, r, <<p, v>>)
      PROVE  /\ Plain /\ TypeOK' /\ answer'.tool = tool /\ JsonSetRead
  <2> DEFINE t == Tokens(p)
  <2>1. IsDocument(doc) /\ (file \notin Unreadable => doc = file)
    BY <1>1, <1>3, DocumentLoaded
  <2> HIDE DEF doc
  <2> DEFINE d == Decoded(v)
  <2>0. IsDocument(d)
    BY <1>3, DecodedIsDocument
  <2> HIDE DEF d
  <2>2. SetFacts(r, doc, p, d)
    BY <1>3, <2>0, <2>1, SetResult DEF d
  <2>3. r.changed \in BOOLEAN
    BY <2>2 DEF SetFacts
  <2>4. /\ kind' = kind /\ answer'.tool = tool /\ answer'.subject = <<p, v>>
        /\ answer'.code \in RefusalCodes => file' = file
        /\ file' = file \/ (r.changed /\ file' \in {r.content} \cup Torn)
        /\ answer'.code = "OK" => \/ ~r.changed /\ r.code = "OK" /\ file' = file
                                  \/ r.changed /\ file' \in {r.content} \cup Torn
    BY <1>3, <2>3, TextFinished
  <2>5. TypeOK'
    <3>1. r.changed => IsDocument(r.content)
      BY <2>0, <2>1, <2>2, SetContent
    <3>2. file' = file \/ file' \in Unreadable \/ (r.changed /\ file' = r.content)
      BY <2>4 DEF Unreadable
    <3> QED  BY <1>1, <2>4, <3>1, <3>2 DEF TypeOK, Unreadable, Torn
  <2>6. JsonSetRead
    <3> SUFFICES ASSUME answer'.code = "OK", file' \notin Unreadable
                 PROVE  /\ GetValue(file', p) = "OK" /\ ValueAt(file', t) = d
                        /\ JsonKept(t, {SubSeq(t, 1, n) : n \in 0 .. Len(t)})
      BY <2>4 DEF JsonSetRead, Did, d
    <3>1. p # Unrooted
      BY <2>2, <2>4 DEF SetFacts
    <3>2. CASE ~r.changed /\ r.code = "OK" /\ file' = file
      <4>1. doc = file' /\ t \in DOMAIN doc /\ ValueAt(doc, t) = d
        BY <2>1, <2>2, <3>2 DEF SetFacts
      <4> QED  BY <3>1, <3>2, <4>1 DEF GetValue, JsonKept
    <3>3. CASE r.changed /\ file' = r.content
      <4>1. /\ t \in DOMAIN file' /\ ValueAt(file', t) = d
            /\ \A u : ~Within(t, u) =>
                   /\ u \in DOMAIN doc => u \in DOMAIN file' /\ file'[u] = doc[u]
                   /\ u \in DOMAIN file' /\ u \notin DOMAIN doc =>
                          u \in {SubSeq(t, 1, n) : n \in 0 .. Len(t)}
        BY <2>2, <3>3 DEF SetFacts
      <4> HIDE DEF t
      <4>2. JsonKept(t, {SubSeq(t, 1, n) : n \in 0 .. Len(t)})
        BY <2>1, <4>1 DEF JsonKept
      <4> QED  BY <3>1, <4>1, <4>2 DEF GetValue, t
    <3> QED  BY <2>4, <3>2, <3>3 DEF Unreadable
  <2> QED  BY <2>4, <2>5, <2>6 DEF Plain
<1>4. \/ Leave(tool, "INVALID_ARGS", <<>>)
      \/ code # "OK" /\ Leave(tool, code, <<>>)
      \/ /\ code = "OK" /\ v # BadValue /\ Decodes(v)
         /\ \E r \in SetValue(doc, p, Decoded(v)) : FinishText(tool, r, <<p, v>>)
  BY DEF JsonSet
<1> HIDE DEF code, doc
<1> QED  BY <1>1, <1>2, <1>3, <1>4

LEMMA JsonRemoveEnds ==
    ASSUME TypeOK, NEW p \in Pointers, JsonRemove(p)
    PROVE  /\ Plain /\ kind = "json" /\ TypeOK'
           /\ answer'.tool = "file.json_remove" /\ JsonRemoveRead
<1> DEFINE doc == LoadDocument(FALSE).content
           code == LoadDocument(FALSE).code
           tool == "file.json_remove"
<1>1. kind = "json"
  BY DEF JsonRemove
<1>2. ASSUME code # "OK", Leave(tool, code, <<>>)
      PROVE  /\ Plain /\ TypeOK' /\ answer'.tool = tool /\ JsonRemoveRead
  <2> HIDE DEF code
  <2>1. /\ kind' = kind /\ file' = file /\ answer'.tool = tool /\ answer'.code = code
    BY <1>2, Left
  <2> QED  BY <1>2, <2>1 DEF Plain, TypeOK, JsonRemoveRead, Did
<1>3. ASSUME code = "OK", FinishText(tool, RemoveValue(doc, p), <<p>>)
      PROVE  /\ Plain /\ TypeOK' /\ answer'.tool = tool /\ JsonRemoveRead
  <2> DEFINE t == Tokens(p)
             r == RemoveValue(doc, p)
  <2>1. IsDocument(doc) /\ (file \notin Unreadable => doc = file)
    BY <1>1, <1>3, DocumentLoaded
  <2> HIDE DEF doc
  <2>2. RemoveFacts(r, doc, p)
    BY <2>1, RemoveResult
  <2>3. FinishText(tool, r, <<p>>)
    BY <1>3
  <2> HIDE DEF r
  <2>4. r.changed \in BOOLEAN
    BY <2>2 DEF RemoveFacts
  <2>5. /\ kind' = kind /\ answer'.tool = tool /\ answer'.subject = <<p>>
        /\ answer'.code \in RefusalCodes => file' = file
        /\ file' = file \/ (r.changed /\ file' \in {r.content} \cup Torn)
        /\ answer'.code = "OK" => \/ ~r.changed /\ r.code = "OK" /\ file' = file
                                  \/ r.changed /\ file' \in {r.content} \cup Torn
    BY <2>4, <2>3, TextFinished
  <2>6. r.changed => t \in Seq(Keys) /\ t # <<>> /\ r.content = Cut(doc, t)
    BY <2>2 DEF RemoveFacts
  <2>7. TypeOK'
    <3>1. r.changed => IsDocument(r.content)
      BY <2>1, <2>6, CutIsDocument
    <3>2. file' = file \/ file' \in Unreadable \/ (r.changed /\ file' = r.content)
      BY <2>5 DEF Unreadable
    <3> QED  BY <1>1, <2>5, <3>1, <3>2 DEF TypeOK, Unreadable, Torn
  <2>8. JsonRemoveRead
    <3> SUFFICES ASSUME answer'.code = "OK", file' \notin Unreadable
                 PROVE  /\ GetValue(file', p) = "NOT_FOUND" \/ t = <<>>
                        /\ JsonKept(t, {})
      BY <2>5 DEF JsonRemoveRead, Did
    <3>1. CASE ~r.changed /\ r.code = "OK" /\ file' = file
      <4>1. doc = file' /\ p # Unrooted /\ (t \notin DOMAIN doc \/ t = <<>>)
        BY <2>1, <2>2, <3>1 DEF RemoveFacts
      <4> QED  BY <3>1, <4>1 DEF GetValue, JsonKept
    <3>2. CASE r.changed /\ file' = Cut(doc, t) /\ t \in Seq(Keys) /\ t # <<>>
      <4>1. p # Unrooted
        BY <2>2, <3>2 DEF RemoveFacts
      <4>2. Within(t, t)
        <5>1. Len(t) \in Nat
          BY <3>2, LenProperties
        <5> QED  BY <3>2, <5>1, WithinPointwise
      <4>3. /\ DOMAIN Cut(doc, t) = {u \in DOMAIN doc : ~Within(t, u)}
            /\ \A u \in DOMAIN Cut(doc, t) : Cut(doc, t)[u] = doc[u]
        BY DEF Cut
      <4>4. t \notin DOMAIN file'
        BY <3>2, <4>2, <4>3
      <4>5. JsonKept(t, {})
        BY <2>1, <3>2, <4>3 DEF JsonKept
      <4> QED  BY <4>1, <4>4, <4>5 DEF GetValue
    <3> QED  BY <2>5, <2>6, <3>1, <3>2 DEF Unreadable
  <2> QED  BY <2>5, <2>7, <2>8 DEF Plain
<1>4. \/ code # "OK" /\ Leave(tool, code, <<>>)
      \/ code = "OK" /\ FinishText(tool, RemoveValue(doc, p), <<p>>)
  BY DEF JsonRemove
<1> QED  BY <1>1, <1>2, <1>3, <1>4

-----------------------------------------------------------------------------
(* The config tools                                                        *)

ConfigOK(config) ==
    DOMAIN config \subseteq Sections \X Keys /\ \A e \in DOMAIN config : config[e] \in ConfigValues

ConfigSetRead ==
    Did("file.cfg_set") \/ Did("project.import_set") =>
        LET e == <<answer'.subject[1], answer'.subject[2]>>
        IN  ConfigGet(file', e) = answer'.subject[3] /\ ConfigKept({e})
ConfigRemoveRead ==
    Did("file.cfg_remove") =>
        LET s    == answer'.subject[1]
            k    == answer'.subject[2]
            gone == {s} \X (IF k = Empty THEN Keys ELSE {k})
        IN  /\ \A e \in gone : ConfigGet(file', e) = Null
            /\ ConfigKept(gone)

LEMMA ConfigLoaded ==
    ASSUME TypeOK, kind = "cfg", NEW create, LoadConfig(create).code = "OK"
    PROVE  LET config == LoadConfig(create).content
           IN  ConfigOK(config) /\ (file \notin Unreadable => config = file)
<1>1. CASE LoadConfig(create) = Same(EmptyConfig) /\ file \in Unreadable
  <2>1. DOMAIN EmptyConfig = {}
    BY DEF EmptyConfig
  <2> QED  BY <1>1, <2>1 DEF Same, Refused, ConfigOK
<1>2. CASE LoadConfig(create) = Same(file) /\ file \notin Unreadable
  BY <1>2 DEF Same, Refused, TypeOK, ConfigOK
<1>3. CASE \E code \in {"NOT_FOUND", "IO_ERROR"} : LoadConfig(create) = Refused(code, file)
  BY <1>3 DEF Refused
<1> QED  BY <1>1, <1>2, <1>3 DEF LoadConfig, Unreadable, Torn

LEMMA ConfigPutIsRead ==
    ASSUME NEW config, NEW entry, NEW value
    PROVE  LET next == ConfigPut(config, entry, value)
           IN  /\ ConfigGet(next, entry) = value
               /\ \A e : e # entry => ConfigGet(next, e) = ConfigGet(config, e)
<1>1. CASE value = Null
  <2>1. ConfigPut(config, entry, value) = [e \in DOMAIN config \ {entry} |-> config[e]]
    BY <1>1 DEF ConfigPut
  <2> QED  BY <1>1, <2>1 DEF ConfigGet
<1>2. CASE value # Null
  <2>1. ConfigPut(config, entry, value)
          = [e \in DOMAIN config \cup {entry} |-> IF e = entry THEN value ELSE config[e]]
    BY <1>2 DEF ConfigPut
  <2> QED  BY <1>2, <2>1 DEF ConfigGet
<1> QED  BY <1>1, <1>2

LEMMA ConfigPutOK ==
    ASSUME NEW config, ConfigOK(config), NEW section \in Sections, NEW key \in Keys,
           NEW value \in ConfigValues \cup {Null}
    PROVE  ConfigOK(ConfigPut(config, <<section, key>>, value))
<1> DEFINE entry == <<section, key>>
<1>1. entry \in Sections \X Keys
  OBVIOUS
<1> HIDE DEF entry
<1>2. CASE value = Null
  <2>1. ConfigPut(config, entry, value) = [e \in DOMAIN config \ {entry} |-> config[e]]
    BY <1>2 DEF ConfigPut
  <2> QED  BY <2>1 DEF ConfigOK, entry
<1>3. CASE value # Null
  <2>1. ConfigPut(config, entry, value)
          = [e \in DOMAIN config \cup {entry} |-> IF e = entry THEN value ELSE config[e]]
    BY <1>3 DEF ConfigPut
  <2>2. value \in ConfigValues
    BY <1>3
  <2>3. ConfigOK(ConfigPut(config, entry, value))
    BY <1>1, <2>1, <2>2 DEF ConfigOK
  <2> QED  BY <2>3 DEF entry
<1> QED  BY <1>2, <1>3

LEMMA ConfigSetEnds ==
    ASSUME TypeOK, NEW section \in Sections \cup {Empty}, NEW key \in Keys \cup {Empty},
           NEW v \in ConfigValues \cup {Null, BadValue}, NEW create, NEW tool,
           ConfigSet(tool, section, key, v, create)
    PROVE  /\ Plain /\ kind = "cfg" /\ TypeOK' /\ answer'.tool = tool /\ ConfigSetRead
<1> DEFINE config == LoadConfig(create).content
           code == LoadConfig(create).code
           entry == <<section, key>>
           next == ConfigPut(config, entry, v)
<1>1. kind = "cfg"
  BY DEF ConfigSet
<1>2. ASSUME NEW c, c # "OK", Leave(tool, c, <<>>)
      PROVE  /\ Plain /\ TypeOK' /\ answer'.tool = tool /\ ConfigSetRead
  <2>1. /\ kind' = kind /\ file' = file /\ answer'.tool = tool /\ answer'.code = c
    BY <1>2, Left
  <2> QED  BY <1>2, <2>1 DEF Plain, TypeOK, ConfigSetRead, Did
<1>3. ASSUME code = "OK", v # BadValue, section # Empty, key # Empty,
             NEW r \in SetConfigValue(config, section, key, v),
             FinishText(tool, r, <<section, key, v>>)
      PROVE  /\ Plain /\ TypeOK' /\ answer'.tool = tool /\ ConfigSetRead
  <2>1. ConfigOK(config) /\ (file \notin Unreadable => config = file)
    BY <1>1, <1>3, ConfigLoaded
  <2> HIDE DEF config
  <2>2. /\ ConfigGet(next, entry) = v
        /\ \A e : e # entry => ConfigGet(next, e) = ConfigGet(config, e)
    BY ConfigPutIsRead
  <2>3. ConfigOK(next)
    BY <1>3, <2>1, ConfigPutOK
  <2>4. \/ r = Same(config) /\ ConfigGet(config, entry) = v
        \/ r = Changed(next)
        \/ r = Refused("INTERNAL", config)
    BY <1>3 DEF SetConfigValue, Differs
  <2> HIDE DEF next, entry
  <2>5. /\ r.changed \in BOOLEAN
        /\ r.changed => r.content = next
        /\ ~r.changed /\ r.code = "OK" => ConfigGet(config, entry) = v
    <3>1. CASE r = Same(config) /\ ConfigGet(config, entry) = v
      BY <3>1 DEF Same, Refused
    <3>2. CASE r = Changed(next)
      BY <3>2 DEF Changed
    <3>3. CASE r = Refused("INTERNAL", config)
      BY <3>3 DEF Refused
    <3> QED  BY <2>4, <3>1, <3>2, <3>3
  <2>6. /\ kind' = kind /\ answer'.tool = tool /\ answer'.subject = <<section, key, v>>
        /\ answer'.code \in RefusalCodes => file' = file
        /\ file' = file \/ (r.changed /\ file' \in {r.content} \cup Torn)
        /\ answer'.code = "OK" => \/ ~r.changed /\ r.code = "OK" /\ file' = file
                                  \/ r.changed /\ file' \in {r.content} \cup Torn
    BY <1>3, <2>5, TextFinished
  <2>7. TypeOK'
    <3>1. file' = file \/ file' \in Unreadable \/ file' = next
      BY <2>5, <2>6 DEF Unreadable
    <3> QED  BY <1>1, <2>3, <2>6, <3>1 DEF TypeOK, ConfigOK, Unreadable, Torn
  <2>8. ConfigSetRead
    <3> SUFFICES ASSUME answer'.code = "OK", file' \notin Unreadable
                 PROVE  ConfigGet(file', entry) = v /\ ConfigKept({entry})
      BY <2>6 DEF ConfigSetRead, Did, entry
    <3>1. CASE ~r.changed /\ r.code = "OK" /\ file' = file
      BY <2>1, <2>5, <3>1 DEF ConfigKept
    <3>2. CASE r.changed /\ file' = next
      BY <2>1, <2>2, <3>2 DEF ConfigKept
    <3> QED  BY <2>5, <2>6, <3>1, <3>2 DEF Unreadable
  <2> QED  BY <2>6, <2>7, <2>8 DEF Plain
<1>4. \/ Leave(tool, "INVALID_ARGS", <<>>)
      \/ code # "OK" /\ Leave(tool, code, <<>>)
      \/ /\ code = "OK" /\ v # BadValue /\ section # Empty /\ key # Empty
         /\ \E r \in SetConfigValue(config, section, key, v) :
                FinishText(tool, r, <<section, key, v>>)
  BY DEF ConfigSet
<1> HIDE DEF code, config
<1> QED  BY <1>1, <1>2, <1>3, <1>4

LEMMA ConfigRemoveEnds ==
    ASSUME TypeOK, NEW section \in Sections \cup {Empty}, NEW key \in Keys \cup {Empty},
           ConfigRemove(section, key)
    PROVE  /\ Plain /\ kind = "cfg" /\ TypeOK'
           /\ answer'.tool = "file.cfg_remove" /\ ConfigRemoveRead
<1> DEFINE config == LoadConfig(FALSE).content
           code == LoadConfig(FALSE).code
           tool == "file.cfg_remove"
           r == RemoveConfigValue(config, section, key)
           gone == {section} \X (IF key = Empty THEN Keys ELSE {key})
           found == {e \in DOMAIN config : e[1] = section /\ key \in {Empty, e[2]}}
           next == [e \in DOMAIN config \ found |-> config[e]]
<1>1. kind = "cfg"
  BY DEF ConfigRemove
<1>2. ASSUME NEW c, c # "OK", Leave(tool, c, <<>>)
      PROVE  /\ Plain /\ TypeOK' /\ answer'.tool = tool /\ ConfigRemoveRead
  <2>1. /\ kind' = kind /\ file' = file /\ answer'.tool = tool /\ answer'.code = c
    BY <1>2, Left
  <2> QED  BY <1>2, <2>1 DEF Plain, TypeOK, ConfigRemoveRead, Did
<1>3. ASSUME code = "OK", FinishText(tool, r, <<section, key>>)
      PROVE  /\ Plain /\ TypeOK' /\ answer'.tool = tool /\ ConfigRemoveRead
  <2>1. ConfigOK(config) /\ (file \notin Unreadable => config = file)
    BY <1>1, <1>3, ConfigLoaded
  <2>2. r = IF found = {} THEN Same(config) ELSE Changed(next)
    BY DEF RemoveConfigValue
  <2> HIDE DEF config, r
  <2>3. \A e \in Sections \X Keys : e \in DOMAIN config => (e \in found <=> e \in gone)
    BY TokenAssumption
  <2>4. found \subseteq gone
    BY <2>1, <2>3 DEF ConfigOK
  <2>5. /\ r.changed \in BOOLEAN
        /\ r.changed => r.content = next
        /\ ~r.changed => found = {}
    BY <2>2 DEF Same, Changed, Refused
  <2>6. /\ kind' = kind /\ answer'.tool = tool /\ answer'.subject = <<section, key>>
        /\ answer'.code \in RefusalCodes => file' = file
        /\ file' = file \/ (r.changed /\ file' \in {r.content} \cup Torn)
        /\ answer'.code = "OK" => \/ ~r.changed /\ r.code = "OK" /\ file' = file
                                  \/ r.changed /\ file' \in {r.content} \cup Torn
    BY <1>3, <2>5, TextFinished
  <2>7. TypeOK'
    <3>1. file' = file \/ file' \in Unreadable \/ file' = next
      BY <2>5, <2>6 DEF Unreadable
    <3>2. ConfigOK(next)
      BY <2>1 DEF ConfigOK
    <3> HIDE DEF next
    <3> QED  BY <1>1, <2>6, <3>1, <3>2 DEF TypeOK, ConfigOK, Unreadable, Torn
  <2>8. ConfigRemoveRead
    <3> SUFFICES ASSUME answer'.code = "OK", file' \notin Unreadable
                 PROVE  /\ \A e \in gone : ConfigGet(file', e) = Null
                        /\ ConfigKept(gone)
      BY <2>6 DEF ConfigRemoveRead, Did
    <3>1. \A e \in gone : e \in DOMAIN config => e \in found
      BY <2>1, <2>3 DEF ConfigOK
    <3>2. CASE found = {} /\ file' = config
      BY <2>1, <3>1, <3>2 DEF ConfigGet, ConfigKept
    <3>3. CASE file' = next
      <4>1. \A e : ConfigGet(next, e) = IF e \in found THEN Null ELSE ConfigGet(config, e)
        BY DEF ConfigGet
      <4> HIDE DEF next, found, gone
      <4>2. \A e \in gone : ConfigGet(file', e) = Null
        BY <3>1, <3>3, <4>1 DEF ConfigGet
      <4> QED  BY <2>1, <2>4, <3>3, <4>1, <4>2 DEF ConfigKept
    <3> QED  BY <2>1, <2>5, <2>6, <3>2, <3>3 DEF Unreadable
  <2> QED  BY <2>6, <2>7, <2>8 DEF Plain
<1>4. \/ Leave(tool, "INVALID_ARGS", <<>>)
      \/ code # "OK" /\ Leave(tool, code, <<>>)
      \/ code = "OK" /\ FinishText(tool, r, <<section, key>>)
  BY DEF ConfigRemove
<1> HIDE DEF code, r
<1> QED  BY <1>1, <1>2, <1>3, <1>4

-----------------------------------------------------------------------------
(* What the scene tools do                                                 *)

\* The scene t has what a tool may not take from s.
NoLoss(s, t, tool, subject) ==
    LET lost == NodesOf(s) \ NodesOf(t)
        by(tools) == tool \in tools
        sets(property) == /\ by({"scene.set_prop", "scene.node_configure"})
                          /\ subject = <<property>>
    IN  /\ lost # {} => by({"scene.remove_node"}) \/ sets("owner")
        /\ \A n \in NodesOf(s) \ lost :
               /\ t.name[n] # s.name[n] =>
                      \/ by({"scene.rename_node"}) \/ sets("name")
                      \/ /\ by({"scene.reparent_node"})
                         /\ ParentOf(t, n) \in t.inside
               /\ n \in s.grouped \ t.grouped => by({"scene.group_remove"})
               /\ t.property[n] # s.property[n] =>
                      by({"scene.transform_apply", "script.attach"}) \/ sets("value")
        /\ \A l \in s.links \ t.links :
               {l.from, l.to} \cap lost # {} \/ by({"scene.signal_disconnect"})

\* A call leaves a scene that is whole, and takes nothing that it may not.
SceneKept ==
    file' \notin Unreadable =>
        Whole(file') /\ NoLoss(file, file', answer'.tool, answer'.subject)

LEMMA NothingLost ==
    ASSUME NEW s, NEW t, Keeps(s, t), NEW tool, NEW subject
    PROVE  NoLoss(s, t, tool, subject)
BY DEF Keeps, NoLoss

LEMMA LeftAlone ==
    ASSUME Whole(file), NEW tool, NEW code, NEW subject, Leave(tool, code, subject)
    PROVE  SceneKept
<1>1. file' = file
  BY Left
<1>2. NoLoss(file, file, answer'.tool, answer'.subject)
  BY DEF NoLoss
<1> QED  BY <1>1, <1>2 DEF SceneKept

LEMMA SavedWhole ==
    ASSUME Whole(file), NEW tool, NEW subject, NEW t, Whole(t), NoLoss(file, t, tool, subject),
           SaveResource(tool, t, subject)
    PROVE  SceneKept
<1>1. answer'.tool = tool /\ answer'.subject = subject /\ file' \in {file, t} \cup Torn
  BY DEF SaveResource, Reply
<1>2. NoLoss(file, file, tool, subject)
  BY DEF NoLoss
<1> QED  BY <1>1, <1>2 DEF SceneKept, Unreadable

LEMMA PropertySet ==
    ASSUME NEW s, Whole(s), NEW n \in NodesOf(s), NEW value, NEW tool, NEW subject,
           \/ tool \in {"scene.transform_apply", "script.attach"}
           \/ tool \in {"scene.set_prop", "scene.node_configure"} /\ subject = <<"value">>,
           NEW t, t = [s EXCEPT !.property[n] = value]
    PROVE  Whole(t) /\ NoLoss(s, t, tool, subject)
<1>1. PICK property : property = [s.property EXCEPT ![n] = value]
  OBVIOUS
<1>2. t = [children |-> s.children, name |-> s.name, grouped |-> s.grouped,
           property |-> property, links |-> s.links, inside |-> s.inside]
  BY <1>1 DEF Whole, Shaped
<1>3. /\ t = [children |-> t.children, name |-> t.name, grouped |-> t.grouped,
              property |-> t.property, links |-> t.links, inside |-> t.inside]
      /\ t.children = s.children /\ t.name = s.name /\ t.grouped = s.grouped
      /\ t.property = property /\ t.links = s.links /\ t.inside = s.inside
  BY ONLY <1>2, FieldsAre
<1>4. property = [m \in NodesOf(s) |-> property[m]]
  BY <1>1 DEF Whole, Shaped
<1>5. Shaped(t)
  BY <1>3, <1>4 DEF Whole, Shaped, NodesOf
<1>6. t.grouped \subseteq NodesOf(s) /\ \A l \in t.links : l.from \in NodesOf(s) /\ l.to \in NodesOf(s)
  BY <1>3 DEF Whole, IsScene
<1>7. Whole(t) /\ NodesOf(t) = NodesOf(s)
  BY <1>3, <1>5, <1>6, Marked
<1> QED  BY <1>3, <1>7 DEF NoLoss

LEMMA GroupSet ==
    ASSUME NEW s, Whole(s), NEW grouped \in SUBSET NodesOf(s), NEW tool, NEW subject,
           s.grouped \subseteq grouped \/ tool = "scene.group_remove",
           NEW t, t = [s EXCEPT !.grouped = grouped]
    PROVE  Whole(t) /\ NoLoss(s, t, tool, subject)
<1>1. t = [children |-> s.children, name |-> s.name, grouped |-> grouped,
           property |-> s.property, links |-> s.links, inside |-> s.inside]
  BY DEF Whole, Shaped
<1>2. /\ t = [children |-> t.children, name |-> t.name, grouped |-> t.grouped,
              property |-> t.property, links |-> t.links, inside |-> t.inside]
      /\ t.children = s.children /\ t.name = s.name /\ t.grouped = grouped
      /\ t.property = s.property /\ t.links = s.links /\ t.inside = s.inside
  BY ONLY <1>1, FieldsAre
<1>3. Shaped(t)
  BY <1>2 DEF Whole, Shaped, NodesOf
<1>4. t.grouped \subseteq NodesOf(s) /\ \A l \in t.links : l.from \in NodesOf(s) /\ l.to \in NodesOf(s)
  BY <1>2 DEF Whole, IsScene
<1>5. Whole(t) /\ NodesOf(t) = NodesOf(s)
  BY <1>2, <1>3, <1>4, Marked
<1> QED  BY <1>2, <1>5 DEF NoLoss

LEMMA LinksSet ==
    ASSUME NEW s, Whole(s), NEW links, NEW tool, NEW subject,
           \A l \in links \ s.links : /\ l = [from |-> l.from, to |-> l.to, flags |-> l.flags]
                                     /\ l.from \in NodesOf(s) /\ l.to \in NodesOf(s),
           s.links \subseteq links \/ tool = "scene.signal_disconnect",
           NEW t, t = [s EXCEPT !.links = links]
    PROVE  Whole(t) /\ NoLoss(s, t, tool, subject)
<1>1. t = [children |-> s.children, name |-> s.name, grouped |-> s.grouped,
           property |-> s.property, links |-> links, inside |-> s.inside]
  BY DEF Whole, Shaped
<1>2. /\ t = [children |-> t.children, name |-> t.name, grouped |-> t.grouped,
              property |-> t.property, links |-> t.links, inside |-> t.inside]
      /\ t.children = s.children /\ t.name = s.name /\ t.grouped = s.grouped
      /\ t.property = s.property /\ t.links = links /\ t.inside = s.inside
  BY ONLY <1>1, FieldsAre
<1>3. \A l \in links : /\ l = [from |-> l.from, to |-> l.to, flags |-> l.flags]
                       /\ l.from \in NodesOf(s) /\ l.to \in NodesOf(s)
  BY DEF Whole, Shaped, IsScene
<1>4. Shaped(t)
  BY <1>2, <1>3 DEF Whole, Shaped, NodesOf
<1>5. t.grouped \subseteq NodesOf(s) /\ \A l \in t.links : l.from \in NodesOf(s) /\ l.to \in NodesOf(s)
  BY <1>2, <1>3 DEF Whole, IsScene
<1>6. Whole(t) /\ NodesOf(t) = NodesOf(s)
  BY <1>2, <1>4, <1>5, Marked
<1> QED  BY <1>2, <1>6 DEF NoLoss

\* A scene is saved whole when the root owns all of it but a subtree, whose
\* owner it becomes then, and with it the owner of what is inside the
\* instances there.
LEMMA OwnedSaved ==
    ASSUME NEW s, Whole(s), NEW n, NEW owned, NodesOf(s) \subseteq owned \cup Subtree(s, n),
           NEW tool, NEW subject, SaveOwned(tool, s, n, owned, subject)
    PROVE  \E leafOf, t :
               /\ leafOf \in [s.inside \cap Subtree(s, n) -> Nodes \ NodesOf(s)]
               /\ Exposed(s, t, leafOf) /\ SaveResource(tool, t, subject)
<1> DEFINE instances == s.inside \cap Subtree(s, n)
           names == {s.name[c] : c \in NodesOf(s)}
                      \cup {Append(InnerName, -k) : k \in 2 .. (Cardinality(Nodes) + 2)}
           Named(leafOf) == UNION {{leafOf[m]} \cup ChildrenOf(s, m) : m \in instances}
           Opens(leafOf, name) ==
               /\ \A j, k \in instances : leafOf[j] = leafOf[k] => j = k
               /\ \A m \in instances : LoadsAs(s, m, leafOf[m], name)
               /\ SaveResource(tool, WithInner(s, leafOf, name), subject)
<1>1. Pack(s, AssignOwnerRecursive(s, n, owned)) = s
  BY PackAll DEF AssignOwnerRecursive
<1>2. \E leafOf \in [instances -> Nodes \ NodesOf(s)] :
          \E name \in [Named(leafOf) -> names] : Opens(leafOf, name)
  <2> DEFINE Saves(packed) ==
                 LET within == packed.inside \cap Subtree(packed, n)
                     called == {packed.name[c] : c \in NodesOf(packed)}
                                 \cup {Append(InnerName, -k) : k \in 2 .. (Cardinality(Nodes) + 2)}
                     fresh  == Nodes \ NodesOf(packed)
                 IN  \E leafOf \in [within -> fresh] :
                     \E name \in [UNION {{leafOf[m]} \cup ChildrenOf(packed, m) : m \in within} -> called] :
                         /\ \A j, k \in within : leafOf[j] = leafOf[k] => j = k
                         /\ \A m \in within : LoadsAs(packed, m, leafOf[m], name)
                         /\ SaveResource(tool, WithInner(packed, leafOf, name), subject)
  <2>1. Saves(Pack(s, AssignOwnerRecursive(s, n, owned)))
    BY DEF SaveOwned
  <2>2. Saves(s)
    <3> HIDE DEF Saves
    <3> QED  BY <1>1, <2>1
  <2> QED  BY <2>2
<1> HIDE DEF Opens, Named, names
<1>3. PICK leafOf, name :
          /\ leafOf \in [instances -> Nodes \ NodesOf(s)]
          /\ name \in [Named(leafOf) -> names] /\ Opens(leafOf, name)
  BY <1>2
<1>4. PICK t : t = WithInner(s, leafOf, name)
  OBVIOUS
<1>5. \A x \in names : IsName(x)
  <2>1. \A c \in NodesOf(s) : IsName(s.name[c])
    BY DEF Whole, Shaped
  <2>2. \A k : IsName(Append(InnerName, k))
    BY InnerAssumption, Suffixed
  <2> QED  BY <2>1, <2>2 DEF names
<1>6. DOMAIN name = Named(leafOf) /\ \A c \in DOMAIN name : IsName(name[c])
  BY <1>3, <1>5
<1>7. Exposed(s, t, leafOf)
  <2>1. instances \in SUBSET s.inside
    OBVIOUS
  <2>2. DOMAIN name = UNION {{leafOf[m]} \cup ChildrenOf(s, m) : m \in instances}
    BY <1>6 DEF Named
  <2>3. /\ \A j, k \in instances : leafOf[j] = leafOf[k] => j = k
        /\ \A m \in instances : LoadsAs(s, m, leafOf[m], name)
    BY <1>3 DEF Opens
  <2> HIDE DEF instances
  <2> QED  BY <1>3, <1>4, <1>6, <2>1, <2>2, <2>3, InnerAdded
<1>8. SaveResource(tool, t, subject)
  BY <1>3, <1>4 DEF Opens
<1> QED  BY <1>3, <1>7, <1>8

\* Nothing is lost when what is inside instances becomes part of the scene:
\* their children are new, or it is a reparent.
LEMMA ExposedKeeps ==
    ASSUME NEW f, Whole(f), NEW s, Whole(s), Keeps(f, s), NEW leafOf, DOMAIN leafOf \subseteq s.inside,
           NEW t, Exposed(s, t, leafOf), NEW tool, NEW subject,
           \/ tool = "scene.reparent_node"
           \/ \A p \in DOMAIN leafOf : ChildrenOf(s, p) \cap NodesOf(f) = {}
    PROVE  Whole(t) /\ NoLoss(f, t, tool, subject)
<1>1. /\ Whole(t) /\ NodesOf(f) \subseteq NodesOf(s) /\ NodesOf(s) \subseteq NodesOf(t)
      /\ f.grouped \subseteq t.grouped /\ f.links \subseteq t.links
      /\ \A m \in NodesOf(f) : t.property[m] = f.property[m]
  BY DEF Exposed, Keeps
<1>2. ASSUME NEW m \in NodesOf(f), t.name[m] # f.name[m]
      PROVE  tool = "scene.reparent_node" /\ ParentOf(t, m) \in t.inside
  <2>1. PICK p \in DOMAIN leafOf : m \in ChildrenOf(s, p)
    BY <1>1, <1>2 DEF Exposed, Keeps
  <2>2. p \in NodesOf(s) /\ p \in NodesOf(t) /\ p \in t.inside
    BY <1>1 DEF Whole, IsScene, Exposed
  <2>3. m \in ChildrenOf(t, p)
    BY <2>1, <2>2 DEF Exposed
  <2>4. ParentOf(t, m) = p
    BY <1>1, <2>2, <2>3, OnlyParent DEF Whole
  <2> QED  BY <2>1, <2>2, <2>4
<1> QED  BY <1>1, <1>2 DEF NoLoss

\* New nodes are added, and saved: n, and what is below it.
LEMMA NewSaved ==
    ASSUME Whole(file), NEW s, Whole(s), Keeps(file, s), NEW n, NEW added,
           NodesOf(s) = NodesOf(file) \cup added, added \cap NodesOf(file) = {},
           Subtree(s, n) = added, \A c \in added : ChildrenOf(s, c) \subseteq added,
           NEW tool, SaveOwned(tool, s, n, NodesOf(file), <<>>)
    PROVE  SceneKept
<1>1. PICK leafOf, t :
          /\ leafOf \in [s.inside \cap Subtree(s, n) -> Nodes \ NodesOf(s)]
          /\ Exposed(s, t, leafOf) /\ SaveResource(tool, t, <<>>)
  BY OwnedSaved
<1>2. /\ DOMAIN leafOf \subseteq s.inside
      /\ \A p \in DOMAIN leafOf : ChildrenOf(s, p) \cap NodesOf(file) = {}
  BY <1>1
<1>3. Whole(t) /\ NoLoss(file, t, tool, <<>>)
  BY <1>1, <1>2, ExposedKeeps
<1> QED  BY <1>1, <1>3, SavedWhole

\* Of one node.
LEMMA LeafAlone ==
    ASSUME NEW s, Whole(s), NEW n \in NodesOf(s), s.children[n] = <<>>
    PROVE  Subtree(s, n) = {n} /\ ChildrenOf(s, n) = {}
<1>1. ChildrenOf(s, n) = {}
  BY DEF ChildrenOf, Elements
<1>2. Closed(s, {n})
  BY <1>1 DEF Closed
<1> QED  BY <1>1, <1>2, SubtreeHas, SubtreeLeast DEF Whole

LEMMA AddNodeKeeps ==
    ASSUME Whole(file), NEW p \in NodesOf(file), NEW name \in NodeNames, AddNode(p, name)
    PROVE  SceneKept
<1>1. CASE HasChildNamed(file, p, name)
  BY <1>1, LeftAlone DEF AddNode
<1>2. CASE ~HasChildNamed(file, p, name)
  <2>1. IsName(name)
    BY FileAssumption
  <2>2. PICK n \in Unused :
            SaveOwned("scene.add_node", AddChild(WithNode(file, n, name), p, n), n,
                      NodesOf(file), <<>>)
    BY <1>2 DEF AddNode
  <2>3. PICK s : s = AddChild(WithNode(file, n, name), p, n)
    OBVIOUS
  <2>4. /\ Whole(s) /\ NodesOf(s) = NodesOf(file) \cup {n} /\ Keeps(file, s)
        /\ s.children[n] = <<>>
    BY <1>2, <2>1, <2>3, LeafAdded DEF Unused
  <2>5. Subtree(s, n) = {n} /\ ChildrenOf(s, n) = {}
    BY <2>4, LeafAlone
  <2>6. SaveOwned("scene.add_node", s, n, NodesOf(file), <<>>) /\ {n} \cap NodesOf(file) = {}
    BY <2>2, <2>3 DEF Unused
  <2> QED  BY <2>4, <2>5, <2>6, NewSaved
<1> QED  BY <1>1, <1>2

LEMMA InstanceSceneKeeps ==
    ASSUME Whole(file), NEW p \in NodesOf(file), NEW name \in NodeNames \cup {<<>>},
           NEW inner \in BOOLEAN, InstanceScene(p, name, inner)
    PROVE  SceneKept
<1> DEFINE base == IF name = <<>> THEN SourceName ELSE name
           new  == ResolveName(file, p, base)
           opened(s, n) == IF inner THEN [s EXCEPT !.inside = @ \cup {n}] ELSE s
<1>1. IsName(base)
  BY FileAssumption
<1>2. PICK n \in Unused :
          SaveOwned("scene.instance_scene", opened(AddChild(WithNode(file, n, new), p, n), n), n,
                    NodesOf(file), <<>>)
  BY Zenon DEF InstanceScene
<1> HIDE DEF base
<1>3. IsName(new) /\ ~HasChildNamed(file, p, new)
  BY <1>1, NameResolved
<1> HIDE DEF new
<1>4. PICK s : s = AddChild(WithNode(file, n, new), p, n)
  OBVIOUS
<1>5. /\ Whole(s) /\ NodesOf(s) = NodesOf(file) \cup {n} /\ Keeps(file, s)
      /\ s.children[n] = <<>>
  BY <1>3, <1>4, LeafAdded DEF Unused
<1>6. PICK t : t = opened(s, n)
  OBVIOUS
<1>7. Whole(t) /\ NodesOf(t) = NodesOf(s) /\ t.children = s.children /\ Keeps(s, t)
  <2>1. CASE inner
    <3>1. t = [s EXCEPT !.inside = @ \cup {n}]
      BY <1>6, <2>1
    <3> QED  BY <1>5, <3>1, InsideSet
  <2>2. CASE ~inner
    BY <1>5, <1>6, <2>2 DEF Keeps
  <2> QED  BY <2>1, <2>2
<1>8. Keeps(file, t) /\ t.children[n] = <<>> /\ NodesOf(t) = NodesOf(file) \cup {n}
  BY <1>5, <1>7 DEF Keeps
<1>9. Subtree(t, n) = {n} /\ ChildrenOf(t, n) = {}
  BY <1>7, <1>8, LeafAlone
<1>10. SaveOwned("scene.instance_scene", t, n, NodesOf(file), <<>>) /\ {n} \cap NodesOf(file) = {}
  BY <1>2, <1>4, <1>6 DEF Unused
<1> QED  BY <1>7, <1>8, <1>9, <1>10, NewSaved

LEMMA DuplicateNodeKeeps ==
    ASSUME Whole(file), NEW source \in NodesOf(file), NEW p \in NodesOf(file),
           NEW name \in NodeNames \cup {<<>>}, DuplicateNode(source, p, name)
    PROVE  SceneKept
<1> DEFINE base  == IF name = <<>> THEN file.name[source] ELSE name
           new   == ResolveName(file, p, base)
<1>1. IsName(base)
  BY FileAssumption DEF Whole, Shaped
<1> DEFINE Done(copies, copyOf) ==
               LET clone == CHOOSE c \in copies : copyOf[c] = source
                   s     == AddChild([WithCopies(file, copyOf) EXCEPT !.name[clone] = new],
                                     p, clone)
               IN  /\ Elements(copyOf) = Subtree(file, source)
                   /\ \A c, d \in copies : copyOf[c] = copyOf[d] => c = d
                   /\ SaveOwned("scene.duplicate_node", s, clone, NodesOf(file), <<>>)
<1>2. PICK copies \in SUBSET Unused : \E copyOf \in [copies -> Subtree(file, source)] :
          Done(copies, copyOf)
  BY DEF DuplicateNode
<1>3. PICK copyOf \in [copies -> Subtree(file, source)] : Done(copies, copyOf)
  BY <1>2
<1> HIDE DEF base
<1>4. IsName(new) /\ ~HasChildNamed(file, p, new)
  BY <1>1, NameResolved
<1> HIDE DEF new
<1> DEFINE clone == CHOOSE c \in copies : copyOf[c] = source
           s     == AddChild([WithCopies(file, copyOf) EXCEPT !.name[clone] = new], p, clone)
<1>5. clone \in copies /\ copyOf[clone] = source
  <2>1. source \in Elements(copyOf)
    BY <1>3, SubtreeHas DEF Whole
  <2>2. \E c \in copies : copyOf[c] = source
    BY <2>1 DEF Elements
  <2> QED  BY <2>2
<1>6. SaveOwned("scene.duplicate_node", s, clone, NodesOf(file), <<>>)
  BY <1>3
<1> HIDE DEF clone
<1>7. copies \in SUBSET (Nodes \ NodesOf(file)) /\ copies \cap NodesOf(file) = {}
  BY DEF Unused
<1>8. /\ Whole(s) /\ NodesOf(s) = NodesOf(file) \cup copies /\ Keeps(file, s)
      /\ Subtree(s, clone) = copies /\ \A c \in copies : ChildrenOf(s, c) \subseteq copies
  <2>1. /\ Elements(copyOf) = Subtree(file, source)
        /\ \A c, d \in copies : copyOf[c] = copyOf[d] => c = d
    BY <1>3
  <2> HIDE DEF Done
  <2>2. s = CopyAdded(file, copyOf, p, clone, new)
    BY DEF CopyAdded
  <2> HIDE DEF s
  <2> QED  BY <1>4, <1>5, <1>7, <2>1, <2>2, Copied
<1> HIDE DEF s
<1> QED  BY <1>6, <1>7, <1>8, NewSaved

\* A node is removed, with what is below it: what a removal may do, and the
\* owner when it is set.
LEMMA RemovedKeeps ==
    ASSUME NEW s, Whole(s), NEW n \in NodesOf(s) \ {Root}, NEW tool, NEW subject,
           \/ tool = "scene.remove_node"
           \/ tool \in {"scene.set_prop", "scene.node_configure"} /\ subject = <<"owner">>,
           NEW t, t = Removed(s, n)
    PROVE  Whole(t) /\ NoLoss(s, t, tool, subject)
<1>1. /\ Whole(t) /\ NodesOf(t) = NodesOf(s) \ Subtree(s, n)
      /\ \A m \in NodesOf(t) : t.name[m] = s.name[m] /\ t.property[m] = s.property[m]
      /\ s.grouped \cap NodesOf(t) \subseteq t.grouped
      /\ \A l \in s.links : l.from \in NodesOf(t) /\ l.to \in NodesOf(t) => l \in t.links
  BY SubtreeRemoved
<1>2. \A l \in s.links : l.from \in NodesOf(s) /\ l.to \in NodesOf(s)
  BY DEF Whole, IsScene
<1> QED  BY <1>1, <1>2 DEF NoLoss

LEMMA RemoveNodeKeeps ==
    ASSUME Whole(file), NEW n \in NodesOf(file), RemoveNode(n)
    PROVE  SceneKept
<1>1. CASE n = Root
  BY <1>1, LeftAlone DEF RemoveNode
<1>2. CASE n # Root
  <2>1. SaveResource("scene.remove_node", Removed(file, n), <<>>)
    BY <1>2 DEF RemoveNode
  <2> QED  BY <1>2, <2>1, RemovedKeeps, SavedWhole
<1> QED  BY <1>1, <1>2

\* A node is given another name that is free.
LEMMA RenamedKeeps ==
    ASSUME NEW s, Whole(s), NEW n \in NodesOf(s), NEW name, IsName(name), NameIsFree(s, n, name),
           NEW tool, NEW subject,
           \/ tool = "scene.rename_node"
           \/ tool \in {"scene.set_prop", "scene.node_configure"} /\ subject = <<"name">>,
           NEW t, t = [s EXCEPT !.name[n] = name]
    PROVE  Whole(t) /\ NoLoss(s, t, tool, subject)
<1>1. /\ Whole(t) /\ NodesOf(t) = NodesOf(s) /\ t.grouped = s.grouped
      /\ t.property = s.property /\ t.links = s.links
  BY Renamed
<1> QED  BY <1>1 DEF NoLoss

LEMMA RenameNodeKeeps ==
    ASSUME Whole(file), NEW n \in NodesOf(file), NEW name \in NodeNames, RenameNode(n, name)
    PROVE  SceneKept
<1>1. CASE n = Root \/ file.name[n] = name \/ HasChildNamed(file, ParentOf(file, n), name)
  BY <1>1, LeftAlone DEF RenameNode
<1>2. CASE n # Root /\ file.name[n] # name /\ ~HasChildNamed(file, ParentOf(file, n), name)
  <2>1. IsName(name)
    BY FileAssumption
  <2>2. NameIsFree(file, n, name)
    <3>1. \A p \in NodesOf(file) : n \in ChildrenOf(file, p) => ParentOf(file, n) = p
      BY OnlyParent DEF Whole
    <3> QED  BY <1>2, <3>1 DEF NameIsFree, HasChildNamed, ChildNames
  <2>3. SaveResource("scene.rename_node", [file EXCEPT !.name[n] = name], <<>>)
    BY <1>2 DEF RenameNode
  <2>4. PICK t : t = [file EXCEPT !.name[n] = name]
    OBVIOUS
  <2>5. Whole(t) /\ NoLoss(file, t, "scene.rename_node", <<>>)
    BY <2>1, <2>2, <2>4, RenamedKeeps
  <2> QED  BY <2>3, <2>4, <2>5, SavedWhole
<1> QED  BY <1>1, <1>2

\* A property of a node is set: its owner, its name, or a value.
LEMMA AssignKeeps ==
    ASSUME Whole(file), NEW n \in NodesOf(file), NEW property, NEW value, NEW tool,
           <<property, value>> \in Assignments,
           \/ tool \in {"scene.set_prop", "scene.node_configure"}
           \/ tool = "scene.transform_apply" /\ property = "value",
           Assign(tool, n, property, value)
    PROVE  SceneKept
<1>1. PICK next \in Assigned(file, n, property, value) : SaveResource(tool, next, <<property>>)
  BY DEF Assign
<1>2. Whole(next) /\ NoLoss(file, next, tool, <<property>>)
  <2>1. CASE property = "owner"
    <3>1. next = IF n = Root THEN file ELSE Removed(file, n)
      BY <2>1 DEF Assigned
    <3>2. CASE n = Root
      BY <3>1, <3>2 DEF NoLoss
    <3>3. CASE n # Root
      BY <2>1, <3>1, <3>3, RemovedKeeps
    <3> QED  BY <3>2, <3>3
  <2>2. CASE property = "name"
    <3>1. IsName(value)
      BY <2>2, FileAssumption DEF Assignments
    <3>2. PICK name \in SetNames(file, n, value) : next = [file EXCEPT !.name[n] = name]
      BY <2>2 DEF Assigned
    <3>3. IsName(name) /\ NameIsFree(file, n, name)
      BY <3>1, NamesSet
    <3> QED  BY <2>2, <3>2, <3>3, RenamedKeeps
  <2>3. CASE property = "value"
    <3>1. next = [file EXCEPT !.property[n] = value]
      BY <2>3 DEF Assigned
    <3> QED  BY <2>3, <3>1, PropertySet
  <2> QED  BY <2>1, <2>2, <2>3 DEF Assignments
<1> QED  BY <1>1, <1>2, SavedWhole

LEMMA SetToolKeeps ==
    ASSUME Whole(file), NEW n \in NodesOf(file), NEW a \in Assignments, NEW v \in Values,
           NEW overwrite,
           \/ SetProp(n, a[1], a[2]) \/ Configure("scene.node_configure", n, a[1], a[2])
           \/ Configure("scene.transform_apply", n, "value", v)
           \/ AttachScript(n, v, overwrite)
    PROVE  SceneKept
<1>1. a = <<a[1], a[2]>> /\ <<"value", v>> \in Assignments
  BY DEF Assignments
<1>2. CASE SetProp(n, a[1], a[2])
  <2>1. Assign("scene.set_prop", n, a[1], a[2])
    BY <1>2 DEF SetProp
  <2> QED  BY <1>1, <2>1, AssignKeeps
<1>3. CASE Configure("scene.node_configure", n, a[1], a[2])
  <2>1. \/ \E code : Leave("scene.node_configure", code, <<a[1]>>)
        \/ Assign("scene.node_configure", n, a[1], a[2])
    BY <1>3 DEF Configure
  <2> QED  BY <1>1, <2>1, AssignKeeps, LeftAlone
<1>4. CASE Configure("scene.transform_apply", n, "value", v)
  <2>1. \/ \E code : Leave("scene.transform_apply", code, <<"value">>)
        \/ Assign("scene.transform_apply", n, "value", v)
    BY <1>4 DEF Configure
  <2> QED  BY <1>1, <2>1, AssignKeeps, LeftAlone
<1>5. CASE AttachScript(n, v, overwrite)
  <2>1. PICK t : t = [file EXCEPT !.property[n] = v]
    OBVIOUS
  <2>2. Whole(t) /\ NoLoss(file, t, "script.attach", <<>>)
    BY <2>1, PropertySet
  <2>3. \/ \E code : Leave("script.attach", code, <<>>)
        \/ SaveResource("script.attach", t, <<>>)
    BY <1>5, <2>1 DEF AttachScript
  <2> QED  BY <2>2, <2>3, LeftAlone, SavedWhole
<1> QED  BY <1>2, <1>3, <1>4, <1>5

LEMMA GroupToolKeeps ==
    ASSUME Whole(file), NEW n \in NodesOf(file), GroupAdd(n) \/ GroupRemove(n)
    PROVE  SceneKept
<1>1. CASE GroupAdd(n)
  <2> DEFINE grouped == file.grouped \cup {n}
             t == [file EXCEPT !.grouped = grouped]
  <2>1. grouped \in SUBSET NodesOf(file)
    BY DEF Whole, IsScene
  <2>2. Whole(t) /\ NoLoss(file, t, "scene.group_add", <<>>)
    BY <2>1, GroupSet
  <2>3. \/ Leave("scene.group_add", "OK", <<>>)
        \/ SaveResource("scene.group_add", t, <<>>)
    BY <1>1 DEF GroupAdd
  <2> HIDE DEF t
  <2> QED  BY <2>2, <2>3, LeftAlone, SavedWhole
<1>2. CASE GroupRemove(n)
  <2> DEFINE grouped == file.grouped \ {n}
             t == [file EXCEPT !.grouped = grouped]
  <2>1. grouped \in SUBSET NodesOf(file)
    BY DEF Whole, IsScene
  <2>2. Whole(t) /\ NoLoss(file, t, "scene.group_remove", <<>>)
    BY <2>1, GroupSet
  <2>3. \/ Leave("scene.group_remove", "OK", <<>>)
        \/ SaveResource("scene.group_remove", t, <<>>)
    BY <1>2 DEF GroupRemove
  <2> HIDE DEF t
  <2> QED  BY <2>2, <2>3, LeftAlone, SavedWhole
<1> QED  BY <1>1, <1>2

LEMMA SignalToolKeeps ==
    ASSUME Whole(file), NEW from \in NodesOf(file), NEW to \in NodesOf(file), NEW flags,
           SignalConnect(from, to, flags) \/ SignalDisconnect(from, to, flags)
    PROVE  SceneKept
<1>1. CASE SignalConnect(from, to, flags)
  <2> DEFINE link  == [from |-> from, to |-> to, flags |-> flags]
             links == file.links \cup {link}
             t     == [file EXCEPT !.links = links]
  <2>1. \A l \in links \ file.links : /\ l = [from |-> l.from, to |-> l.to, flags |-> l.flags]
                                      /\ l.from \in NodesOf(file) /\ l.to \in NodesOf(file)
    OBVIOUS
  <2>2. \/ Leave("scene.signal_connect", "OK", <<>>)
        \/ SaveResource("scene.signal_connect", t, <<>>)
        \/ SaveResource("scene.signal_connect", file, <<>>)
    BY <1>1 DEF SignalConnect
  <2>3. file.links \subseteq links
    OBVIOUS
  <2> HIDE DEF links
  <2>4. Whole(t) /\ NoLoss(file, t, "scene.signal_connect", <<>>)
    BY <2>1, <2>3, LinksSet
  <2>5. NoLoss(file, file, "scene.signal_connect", <<>>)
    BY DEF NoLoss
  <2> HIDE DEF t
  <2> QED  BY <2>2, <2>4, <2>5, LeftAlone, SavedWhole
<1>2. CASE SignalDisconnect(from, to, flags)
  <2> DEFINE match == {l \in file.links : l.from = from /\ l.to = to
                                            /\ flags \in {<<>>, <<l.flags>>}}
             links == file.links \ match
             t     == [file EXCEPT !.links = links]
  <2>1. links \ file.links = {}
    OBVIOUS
  <2>2. \/ Leave("scene.signal_disconnect", "OK", <<>>)
        \/ SaveResource("scene.signal_disconnect", t, <<>>)
    BY <1>2 DEF SignalDisconnect
  <2> HIDE DEF links
  <2>3. Whole(t) /\ NoLoss(file, t, "scene.signal_disconnect", <<>>)
    BY <2>1, LinksSet
  <2> HIDE DEF t
  <2> QED  BY <2>2, <2>3, LeftAlone, SavedWhole
<1> QED  BY <1>1, <1>2

\* Where a node is to be among the children of p.
Between(first, last, index) ==
    IF index = <<>> \/ index[1] > last THEN last
    ELSE IF index[1] < first THEN first ELSE index[1]
IsAt(t, n, p, index) ==
    /\ ParentOf(t, n) = p
    /\ IndexOf(t, n) = Between(Supplied(t, p), ChildCount(t, p) - 1, index)

\* Where it and all others are to be once it was put there.
PutUnder(s, t, n, p, index) ==
    /\ IsAt(t, n, p, index)
    /\ \A m \in NodesOf(s) :
           \/ Without(t.children[m], n) = Without(s.children[m], n)
           \/ /\ m \in s.inside \cap Subtree(s, n)
              /\ \E leaf \in NodesOf(t) \ NodesOf(s) :
                     t.children[m] = InsertAt(s.children[m], 0, leaf)

LEMMA SavedUnder ==
    ASSUME Whole(file), NEW n, NEW p, NEW index, NEW t, Whole(t),
           NoLoss(file, t, "scene.reparent_node", <<n, p, index>>), PutUnder(file, t, n, p, index),
           SaveResource("scene.reparent_node", t, <<n, p, index>>)
    PROVE  /\ SceneKept /\ answer'.tool = "scene.reparent_node"
           /\ answer'.changed => /\ answer'.subject = <<n, p, index>>
                                 /\ PutUnder(file, file', n, p, index)
<1>1. SceneKept
  BY SavedWhole
<1> QED  BY <1>1 DEF SaveResource, Reply

\* A node under its parent, so many places from the first that it may have.
LEMMA PlacedAt ==
    ASSUME NEW s, NEW t, NEW n, NEW p, NEW place, MovedTo(s, t, p, n, place), NEW index,
           NEW first, first = Supplied(s, p), NEW long \in Nat, long = Len(t.children[p]),
           place + first = Between(first, long + first - 1, index)
    PROVE  IsAt(t, n, p, index)
<1>1. Supplied(t, p) = first
  BY DEF MovedTo, Supplied
<1>2. ParentOf(t, n) = p /\ IndexOf(t, n) = place + first /\ ChildCount(t, p) = long + first
  BY <1>1 DEF MovedTo, ChildCount
<1>3. ChildCount(t, p) - 1 = long + first - 1
  <2>1. first \in Nat
    BY DEF Supplied
  <2> QED  BY <1>2, <2>1
<1> QED  BY <1>1, <1>2, <1>3, Zenon DEF IsAt

\* Among its siblings.
LEMMA MovedAmong ==
    ASSUME Whole(file), NEW n \in NodesOf(file) \ {Root}, NEW p \in NodesOf(file),
           ParentOf(file, n) = p, NEW i \in Nat, i <= ChildCount(file, p),
           NEW at, at = NormalizeIndex(i, ChildCount(file, p)),
           NEW t, t = MoveChild(file, p, n, at)
    PROVE  (\E k : MovedTo(file, t, p, n, k)) /\ IsAt(t, n, p, <<i>>)
<1>1. PICK q, first : q = file.children[p] /\ first = Supplied(file, p)
  OBVIOUS
<1>2. q \in Seq(NodesOf(file)) /\ n \in Elements(q) /\ n \in ChildrenOf(file, p)
  BY <1>1, HasParent, ChildrenIn DEF ChildrenOf, Whole
<1>3. /\ Len(q) \in Nat /\ Len(q) > 0 /\ ChildCount(file, p) = Len(q) + first
      /\ first = IF p \in file.inside THEN 1 ELSE 0
  <2>1. PICK j \in 1 .. Len(q) : q[j] = n
    BY <1>2, ElementsAt
  <2>2. Len(q) \in Nat /\ Len(q) > 0
    BY <1>2, <2>1, ElementsAt
  <2>3. first = IF p \in file.inside THEN 1 ELSE 0
    BY <1>1 DEF Supplied
  <2> QED  BY <1>1, <2>2, <2>3 DEF ChildCount
<1>4. PICK place : place = OwnIndex(file, p, at)
  OBVIOUS
<1>5. /\ at \in 0 .. (Len(q) + first - 1)
      /\ at = IF i > Len(q) + first - 1 THEN Len(q) + first - 1 ELSE i
  BY <1>3 DEF NormalizeIndex
<1>6. /\ place \in 0 .. (Len(q) - 1) /\ place \in Nat
      /\ place + first = IF at < first THEN first ELSE at
  <2>1. CASE p \in file.inside
    BY <1>3, <1>4, <1>5, <2>1 DEF OwnIndex
  <2>2. CASE p \notin file.inside
    BY <1>3, <1>4, <1>5, <2>2 DEF OwnIndex
  <2> QED  BY <2>1, <2>2
<1>7. MovedTo(file, t, p, n, place) /\ Len(t.children[p]) = Len(q)
  BY <1>1, <1>2, <1>4, <1>6, MovedWithin DEF MoveChild
<1>8. place + first = Between(first, Len(q) + first - 1, <<i>>)
  <2>1. <<i>>[1] = i /\ <<i>> # <<>>
    OBVIOUS
  <2>2. place + first = IF i > Len(q) + first - 1 THEN Len(q) + first - 1
                        ELSE IF i < first THEN first ELSE i
    BY <1>3, <1>5, <1>6
  <2> QED  BY <2>1, <2>2 DEF Between
<1>9. IsAt(t, n, p, <<i>>)
  BY <1>1, <1>7, <1>8, PlacedAt
<1> QED  BY <1>7, <1>9

\* To another parent: to the end, and then to the index.
LEMMA MovedOver ==
    ASSUME Whole(file), NEW n \in NodesOf(file) \ {Root},
           NEW p \in NodesOf(file) \ Subtree(file, n), ParentOf(file, n) # p,
           ~HasChildNamed(file, p, file.name[n]),
           NEW index,
           index # <<>> => index[1] \in Nat /\ index[1] <= ChildCount(file, p),
           NEW away, away = AddChild(RemoveChild(file, n), p, n),
           NEW t, t = IF index # <<>>
                      THEN MoveChild(away, p, n,
                                     NormalizeIndex(index[1], ChildCount(file, p) + 1))
                      ELSE away
    PROVE  (\E k : MovedTo(file, t, p, n, k)) /\ IsAt(t, n, p, index)
<1>1. PICK long, first : long = Len(file.children[p]) /\ first = Supplied(file, p)
  OBVIOUS
<1>2. /\ long \in Nat /\ ChildCount(file, p) = long + first
      /\ first = IF p \in file.inside THEN 1 ELSE 0
  <2>1. file.children[p] \in Seq(NodesOf(file))
    BY ChildrenIn DEF Whole
  <2>2. long \in Nat
    BY <1>1, <2>1, ElementsAt
  <2>3. first = IF p \in file.inside THEN 1 ELSE 0
    BY <1>1 DEF Supplied
  <2> QED  BY <1>1, <2>2, <2>3 DEF ChildCount
<1>3. MovedTo(file, away, p, n, long) /\ Len(away.children[p]) = long + 1
  BY <1>1, MovedAway
<1>4. CASE index = <<>>
  <2>1. t = away
    BY <1>4
  <2>2. long + first = Between(first, (long + 1) + first - 1, index)
    BY <1>2, <1>4 DEF Between
  <2>3. IsAt(t, n, p, index)
    BY <1>1, <1>3, <2>1, <2>2, PlacedAt
  <2> QED  BY <1>3, <2>1, <2>3
<1>5. CASE index # <<>>
  <2>1. PICK i \in Nat : i = index[1] /\ index # <<>> /\ i <= long + first
    BY <1>2, <1>5
  <2>2. NormalizeIndex(i, long + first + 1) = i
    BY <1>2, <2>1 DEF NormalizeIndex
  <2>3. PICK place : place = OwnIndex(away, p, i)
    OBVIOUS
  <2>4. t = PutAt(away, p, n, place)
    BY <1>2, <1>5, <2>1, <2>2, <2>3 DEF MoveChild
  <2>5. /\ Whole(away) /\ NodesOf(away) = NodesOf(file) /\ n \in ChildrenOf(away, p)
        /\ p \in NodesOf(away) /\ away.inside = file.inside
    BY <1>3 DEF MovedTo
  <2>6. /\ place \in 0 .. long /\ place \in Nat
        /\ place + first = IF i < first THEN first ELSE i
    <3>1. CASE p \in file.inside
      BY <1>2, <2>1, <2>3, <2>5, <3>1 DEF OwnIndex
    <3>2. CASE p \notin file.inside
      BY <1>2, <2>1, <2>3, <2>5, <3>2 DEF OwnIndex
    <3> QED  BY <3>1, <3>2
  <2>7. MovedTo(away, t, p, n, place) /\ Len(t.children[p]) = long + 1
    <3>1. place \in 0 .. (Len(away.children[p]) - 1)
      BY ONLY <1>2, <1>3, <2>6
    <3> QED  BY <1>3, <2>4, <2>5, <3>1, MovedWithin
  <2>8. Keeps(file, t)
    BY <1>3, <2>7 DEF MovedTo, Keeps
  <2>9. Supplied(away, p) = Supplied(file, p)
    BY <2>5 DEF Supplied
  <2>10. MovedTo(file, t, p, n, place)
    BY <1>3, <2>7, <2>8, <2>9 DEF MovedTo
  <2>11. place + first = Between(first, (long + 1) + first - 1, index)
    BY <1>2, <2>1, <2>6 DEF Between
  <2>12. IsAt(t, n, p, index)
    BY <1>1, <2>7, <2>10, <2>11, PlacedAt
  <2> QED  BY <2>10, <2>12
<1> QED  BY <1>4, <1>5

\* And what is inside the instances that moved with it.
LEMMA ExposedUnder ==
    ASSUME NEW f, Whole(f), NEW n \in NodesOf(f) \ {Root}, NEW p \in NodesOf(f) \ Subtree(f, n),
           NEW s, NEW k, MovedTo(f, s, p, n, k), NEW index, IsAt(s, n, p, index),
           NEW leafOf \in [s.inside \cap Subtree(s, n) -> Nodes \ NodesOf(s)],
           NEW t, Exposed(s, t, leafOf)
    PROVE  PutUnder(f, t, n, p, index)
<1>1. /\ DOMAIN leafOf = f.inside \cap Subtree(f, n) /\ p \notin DOMAIN leafOf
      /\ p \in NodesOf(s) /\ p \in NodesOf(t) /\ NodesOf(s) = NodesOf(f)
      /\ t.inside = s.inside /\ Whole(s) /\ Whole(t) /\ n \in ChildrenOf(s, p)
  BY DEF MovedTo, Exposed
<1>2. t.children[p] = s.children[p] /\ n \in ChildrenOf(t, p)
  BY <1>1 DEF Exposed
<1>3. ParentOf(t, n) = p /\ ParentOf(s, n) = p
  BY <1>1, <1>2, OnlyParent DEF Whole
<1>4. /\ IndexOf(t, n) = IndexOf(s, n) /\ Supplied(t, p) = Supplied(s, p)
      /\ ChildCount(t, p) = ChildCount(s, p)
  BY <1>1, <1>2, <1>3 DEF IndexOf, Supplied, ChildCount
<1>5. IsAt(t, n, p, index)
  BY <1>3, <1>4 DEF IsAt
<1>6. ASSUME NEW m \in NodesOf(f), m \notin DOMAIN leafOf
      PROVE  Without(t.children[m], n) = Without(f.children[m], n)
  <2>1. t.children[m] = s.children[m]
    BY <1>1, <1>6 DEF Exposed
  <2> QED  BY <2>1 DEF MovedTo
<1>7. ASSUME NEW m \in DOMAIN leafOf
      PROVE  /\ m \in f.inside \cap Subtree(f, n)
             /\ \E leaf \in NodesOf(t) \ NodesOf(f) : t.children[m] = InsertAt(f.children[m], 0, leaf)
  <2>1. m \in f.inside \cap Subtree(f, n) /\ m \in NodesOf(f) /\ m # p
    BY <1>1 DEF Whole, IsScene
  <2>2. n \notin ChildrenOf(f, m)
    BY <2>1, NotAbove
  <2>3. n \notin ChildrenOf(s, m)
    BY <1>1, <1>3, <2>1, OnlyParent DEF Whole
  <2>4. s.children[m] = f.children[m]
    <3>1. Without(s.children[m], n) = s.children[m]
      BY <2>3, WithoutNone DEF ChildrenOf
    <3>2. Without(f.children[m], n) = f.children[m]
      BY <2>2, WithoutNone DEF ChildrenOf
    <3> QED  BY <2>1, <3>1, <3>2 DEF MovedTo
  <2>5. t.children[m] = InsertAt(f.children[m], 0, leafOf[m])
    BY <1>1, <2>1, <2>4 DEF Exposed
  <2>6. leafOf[m] \in NodesOf(t) \ NodesOf(f)
    BY <1>1 DEF Exposed, Elements
  <2> QED  BY <2>1, <2>5, <2>6
<1> QED  BY <1>5, <1>6, <1>7 DEF PutUnder

LEMMA ReparentNodeKeeps ==
    ASSUME Whole(file), NEW n \in NodesOf(file), NEW p \in NodesOf(file), NEW index \in Indexes,
           ReparentNode(n, p, index)
    PROVE  /\ SceneKept /\ answer'.tool = "scene.reparent_node"
           /\ answer'.changed => /\ answer'.subject = <<n, p, index>>
                                 /\ PutUnder(file, file', n, p, index)
<1> DEFINE tool    == "scene.reparent_node"
           subject == <<n, p, index>>
           count   == ChildCount(file, p)
           old     == ParentOf(file, n)
           at      == NormalizeIndex(index[1], count)
           away    == AddChild(RemoveChild(file, n), p, n)
           moved   == IF index # <<>>
                      THEN MoveChild(away, p, n, NormalizeIndex(index[1], count + 1))
                      ELSE away
           owned   == NodesOf(file) \ Subtree(file, n)
           within  == MoveChild(file, p, n, at)
           right   == /\ n # Root /\ p \notin Subtree(file, n)
                      /\ index # <<>> => ~(index[1] < 0) /\ ~(index[1] > count)
                      /\ old # p => ~HasChildNamed(file, p, file.name[n])
                      /\ old = p => index # <<>>
<1>1. \/ \E code : Leave(tool, code, <<>>)
      \/ right /\ old = p /\ SaveResource(tool, within, subject)
      \/ right /\ old # p /\ SaveOwned(tool, moved, n, owned, subject)
  <2> DEFINE wrong == \/ n = Root
                      \/ p \in Subtree(file, n)
                      \/ index # <<>> /\ index[1] < 0
             taken == old # p /\ HasChildNamed(file, p, file.name[n])
             past  == index # <<>> /\ index[1] > count
             there == old = p /\ (index # <<>> => IndexOf(file, n) = at)
  <2>1. IF wrong THEN Leave(tool, "INVALID_ARGS", <<>>)
        ELSE IF taken THEN Leave(tool, "ALREADY_EXISTS", <<>>)
        ELSE IF past THEN Leave(tool, "INVALID_ARGS", <<>>)
        ELSE IF there THEN Leave(tool, "OK", <<>>)
        ELSE IF old = p THEN SaveResource(tool, within, subject)
        ELSE SaveOwned(tool, moved, n, owned, subject)
    BY SMTT(30) DEF ReparentNode
  <2>2. ~wrong /\ ~taken /\ ~past /\ ~there => right
    OBVIOUS
  <2> HIDE DEF wrong, taken, past, there, right, within, moved, subject, tool
  <2> QED  BY <2>1, <2>2
<1>2. index # <<>> => index = <<index[1]>> /\ index[1] \in Int
  BY DEF Indexes
<1>3. count \in Nat
  <2>1. file.children[p] \in Seq(NodesOf(file))
    BY ChildrenIn DEF Whole
  <2>2. Len(file.children[p]) \in Nat /\ Supplied(file, p) \in Nat
    BY <2>1, ElementsAt DEF Supplied
  <2> QED  BY <2>2 DEF ChildCount
<1>4. right /\ index # <<>> => index[1] \in Nat /\ index[1] <= count
  BY <1>2, <1>3
<1>5. CASE \E code : Leave(tool, code, <<>>)
  <2>1. answer'.changed = FALSE /\ answer'.tool = tool
    BY <1>5 DEF Leave, Reply
  <2> QED  BY <1>5, <2>1, LeftAlone
<1>6. CASE right /\ old = p /\ SaveResource(tool, within, subject)
  <2>1. PICK k : MovedTo(file, within, p, n, k) /\ IsAt(within, n, p, <<index[1]>>)
    BY <1>4, <1>6, MovedAmong
  <2> HIDE DEF within, at
  <2>2. Whole(within) /\ NoLoss(file, within, tool, subject)
    BY <2>1, NothingLost DEF MovedTo
  <2>3. PutUnder(file, within, n, p, index)
    <3>1. IsAt(within, n, p, index)
      BY <1>2, <1>6, <2>1
    <3> QED  BY <2>1, <3>1 DEF PutUnder, MovedTo
  <2> QED  BY <1>6, <2>2, <2>3, SavedUnder
<1>7. CASE right /\ old # p /\ SaveOwned(tool, moved, n, owned, subject)
  <2>1. PICK k : MovedTo(file, moved, p, n, k) /\ IsAt(moved, n, p, index)
    BY <1>2, <1>4, <1>7, MovedOver
  <2> HIDE DEF moved
  <2>2. Whole(moved) /\ Keeps(file, moved) /\ NodesOf(moved) \subseteq owned \cup Subtree(moved, n)
    BY <2>1 DEF MovedTo
  <2>3. PICK leafOf, t :
            /\ leafOf \in [moved.inside \cap Subtree(moved, n) -> Nodes \ NodesOf(moved)]
            /\ Exposed(moved, t, leafOf) /\ SaveResource(tool, t, subject)
    BY <1>7, <2>2, OwnedSaved
  <2>4. DOMAIN leafOf \subseteq moved.inside
    BY <2>3
  <2>5. Whole(t) /\ NoLoss(file, t, tool, subject)
    BY <2>2, <2>3, <2>4, ExposedKeeps
  <2>6. PutUnder(file, t, n, p, index)
    BY <1>7, <2>1, <2>3, ExposedUnder
  <2> QED  BY <2>3, <2>5, <2>6, SavedUnder
<1> QED  BY <1>1, <1>5, <1>6, <1>7

LEMMA SceneCreated ==
    ASSUME NEW name \in RootNames, NEW overwrite, NEW open, SceneCreate(name, overwrite, open)
    PROVE  /\ file' \in {file} \cup Torn \/ Whole(file')
           /\ answer'.tool = "scene.create"
<1>1. Whole(NewScene(name))
  BY FileAssumption, NewSceneIsWhole
<1>2. \/ \E code : Leave("scene.create", code, <<>>)
      \/ SaveResource("scene.create", NewScene(name), <<>>)
      \/ Reply("scene.create", "EDITOR_STATE", FALSE, <<>>) /\ file' = NewScene(name)
  BY DEF SceneCreate
<1>3. CASE \E code : Leave("scene.create", code, <<>>)
  BY <1>3, Left
<1>4. CASE SaveResource("scene.create", NewScene(name), <<>>)
  BY <1>1, <1>4 DEF SaveResource, Reply
<1>5. CASE Reply("scene.create", "EDITOR_STATE", FALSE, <<>>) /\ file' = NewScene(name)
  BY <1>1, <1>5 DEF Reply
<1> QED  BY <1>2, <1>3, <1>4, <1>5

\* Only one tool answers for a reparented node.
LEMMA OtherTools ==
    ASSUME SceneCall, answer'.tool = "scene.reparent_node"
    PROVE  Loaded /\ \E n, p \in NodesOf(file), i \in Indexes : ReparentNode(n, p, i)
<1>1. ~SceneUnavailable
  BY Left DEF SceneUnavailable
<1>2. ~\E name \in RootNames, overwrite, open \in BOOLEAN : SceneCreate(name, overwrite, open)
  BY SceneCreated
<1>3. ~\E tool : tool # "scene.reparent_node" /\ Ends(tool)
  BY EndsPlain
<1> QED  BY <1>1, <1>2, <1>3, SceneCallIs

\* Any tool on a scene that is there.
LEMMA LoadedSceneKept ==
    ASSUME Whole(file), Loaded, SceneCall
    PROVE  SceneKept \/ (answer'.tool = "scene.create"
                           /\ (file' \notin Unreadable => Whole(file')))
<1>1. ~SceneUnavailable
  BY DEF SceneUnavailable, Loaded
<1>2. ASSUME NEW name \in RootNames, NEW overwrite, NEW open, SceneCreate(name, overwrite, open)
      PROVE  answer'.tool = "scene.create" /\ (file' \notin Unreadable => Whole(file'))
  BY <1>2, SceneCreated DEF Unreadable
<1>3. ASSUME NEW p \in NodesOf(file), NEW name \in NodeNames, AddNode(p, name) \/ RenameNode(p, name)
      PROVE  SceneKept
  BY <1>3, AddNodeKeeps, RenameNodeKeeps
<1>4. ASSUME NEW n \in NodesOf(file), NEW p \in NodesOf(file), NEW name \in NodeNames \cup {<<>>},
             DuplicateNode(n, p, name)
      PROVE  SceneKept
  BY <1>4, DuplicateNodeKeeps
<1>5. ASSUME NEW p \in NodesOf(file), NEW name \in NodeNames \cup {<<>>}, NEW inner \in BOOLEAN,
             InstanceScene(p, name, inner)
      PROVE  SceneKept
  BY <1>5, InstanceSceneKeeps
<1>6. ASSUME NEW n \in NodesOf(file), RemoveNode(n) \/ GroupAdd(n) \/ GroupRemove(n)
      PROVE  SceneKept
  BY <1>6, RemoveNodeKeeps, GroupToolKeeps
<1>7. ASSUME NEW n \in NodesOf(file), NEW p \in NodesOf(file), NEW i \in Indexes,
             ReparentNode(n, p, i)
      PROVE  SceneKept
  BY <1>7, ReparentNodeKeeps
<1>8. ASSUME NEW n \in NodesOf(file), NEW a \in Assignments,
             SetProp(n, a[1], a[2]) \/ Configure("scene.node_configure", n, a[1], a[2])
      PROVE  SceneKept
  BY <1>8, SetToolKeeps, FileAssumption
<1>9. ASSUME NEW n \in NodesOf(file), NEW v \in Values, NEW overwrite,
             \/ Configure("scene.transform_apply", n, "value", v)
             \/ AttachScript(n, v, overwrite)
      PROVE  SceneKept
  <2>1. <<"owner", Null>> \in Assignments
    BY DEF Assignments
  <2> QED  BY <1>9, <2>1, SetToolKeeps
<1>10. ASSUME NEW from \in NodesOf(file), NEW to \in NodesOf(file), NEW flags,
              SignalConnect(from, to, flags) \/ SignalDisconnect(from, to, flags)
       PROVE  SceneKept
  BY <1>10, SignalToolKeeps
<1> QED  BY <1>1, <1>2, <1>3, <1>4, <1>5, <1>6, <1>7, <1>8, <1>9, <1>10 DEF SceneCall

-----------------------------------------------------------------------------
(* The theorems                                                            *)

LEMMA ReadsEnd ==
    ASSUME TypeOK, \/ \E p \in Pointers : JsonGet(p)
                   \/ \E s, k : ConfigRead(s, k)
                   \/ BadArguments
    PROVE  /\ Plain /\ TypeOK'
           /\ answer'.tool \in {"file.json_get", "file.cfg_get", "any"}
<1> SUFFICES ASSUME Plain, file' = file,
                    answer'.tool \in {"file.json_get", "file.cfg_get", "any"}
             PROVE  TypeOK'
  <2>1. CASE \E p \in Pointers : JsonGet(p)
    BY <2>1, Left DEF JsonGet, Plain
  <2>2. CASE \E s, k : ConfigRead(s, k)
    BY <2>2, Left DEF ConfigRead, Plain
  <2> QED  BY <2>1, <2>2, BadArgumentsEnds
<1> QED  BY DEF TypeOK, Plain

\* Every step, from a state that is well typed.
LEMMA Steps ==
    ASSUME TypeOK, Next
    PROVE  /\ Plain /\ TypeOK'
           /\ kind = "json" => JsonSetRead /\ JsonRemoveRead
           /\ kind = "cfg" => ConfigSetRead /\ ConfigRemoveRead
<1>1. CASE BadArguments \/ (\E p \in Pointers : JsonGet(p)) \/ \E s, k : ConfigRead(s, k)
  BY <1>1, ReadsEnd DEF JsonSetRead, JsonRemoveRead, ConfigSetRead, ConfigRemoveRead, Did
<1>2. CASE SceneCall
  <2>1. Plain /\ kind = "scene"
    BY <1>2, SceneCallEnds
  <2> QED  BY <2>1 DEF TypeOK, Plain
<1>3. CASE \E p \in Pointers, v \in JsonValues \cup {BadValue}, create \in BOOLEAN :
               JsonSet(p, v, create)
  BY <1>3, JsonSetEnds DEF JsonRemoveRead, Did
<1>4. CASE \E p \in Pointers : JsonRemove(p)
  BY <1>4, JsonRemoveEnds DEF JsonSetRead, Did
<1>5. CASE \E s \in Sections \cup {Empty}, k \in Keys \cup {Empty},
             v \in ConfigValues \cup {Null, BadValue}, create \in BOOLEAN :
               \/ ConfigSet("file.cfg_set", s, k, v, create)
               \/ ConfigSet("project.import_set", s, k, v, FALSE)
  <2>1. PICK s \in Sections \cup {Empty}, k \in Keys \cup {Empty},
             v \in ConfigValues \cup {Null, BadValue}, create \in BOOLEAN,
             tool \in {"file.cfg_set", "project.import_set"} : ConfigSet(tool, s, k, v, create)
    BY <1>5
  <2>2. Plain /\ kind = "cfg" /\ TypeOK' /\ answer'.tool = tool /\ ConfigSetRead
    BY <2>1, ConfigSetEnds
  <2>3. tool # "file.cfg_remove"
    OBVIOUS
  <2> QED  BY <2>2, <2>3 DEF ConfigRemoveRead, Did
<1>6. CASE \E s \in Sections \cup {Empty}, k \in Keys \cup {Empty} : ConfigRemove(s, k)
  BY <1>6, ConfigRemoveEnds DEF ConfigSetRead, Did
<1>7. CASE SourceCall
  BY <1>7, SourceCallEnds
<1> QED  BY <1>1, <1>2, <1>3, <1>4, <1>5, <1>6, <1>7 DEF Next, DocumentCall

\* Whatever the tools write, a JSON document has an object at every place
\* above a place that it has, and a config file only what was put there.
THEOREM TypeCorrect == Spec => []TypeOK
<1>1. Init => TypeOK
  BY DEF Init, TypeOK, Unreadable
<1>2. TypeOK /\ [Next]_vars => TypeOK'
  <2>1. ASSUME TypeOK, UNCHANGED vars  PROVE TypeOK'
    BY <2>1 DEF vars, TypeOK
  <2> QED  BY <2>1, Steps
<1> QED  BY <1>1, <1>2, PTL DEF Spec

\* An answer that says that the call was wrong, or that the engine stopped
\* the script, left the file as it was.
THEOREM RefusalsChangeNothing == Spec => RefusedUntouched
<1>1. TypeOK /\ [Next]_vars => [answer'.code \in RefusalCodes => file' = file]_vars
  BY Steps DEF Plain
<1> QED  BY <1>1, TypeCorrect, PTL DEF Spec, RefusedUntouched

\* A get after a JSON set that succeeded finds the value, with the text of each
\* typed object that decoded in the object's place, and after a removal nothing;
\* the rest of the document is as it was (json_set_tool.gd,
\* json_document_store.gd).
THEOREM JsonWritesAreRead == Spec => JsonWriteIsRead
<1>1. TypeOK /\ [Next]_vars => [kind = "json" => JsonSetRead /\ JsonRemoveRead]_vars
  BY Steps
<1> QED  BY <1>1, TypeCorrect, PTL DEF Spec, JsonWriteIsRead, JsonSetRead, JsonRemoveRead

\* The same of config files, for keys and for whole sections.
THEOREM ConfigWritesAreRead == Spec => ConfigWriteIsRead
<1>1. TypeOK /\ [Next]_vars => [kind = "cfg" => ConfigSetRead /\ ConfigRemoveRead]_vars
  BY Steps
<1> QED  BY <1>1, TypeCorrect, PTL DEF Spec, ConfigWriteIsRead, ConfigSetRead, ConfigRemoveRead

\* What the scene is made of, besides that it is a tree.
SceneIsWhole == kind = "scene" /\ file \notin Unreadable => Whole(file)

LEMMA SceneSteps ==
    ASSUME TypeOK, SceneIsWhole, Next
    PROVE  /\ SceneIsWhole'
           /\ kind = "scene" /\ file \notin Unreadable /\ file' \notin Unreadable
                 /\ answer'.tool # "scene.create" => NoLoss(file, file', answer'.tool, answer'.subject)
           /\ kind = "scene" /\ answer'.tool = "scene.reparent_node" /\ answer'.changed =>
                 PutUnder(file, file', answer'.subject[1], answer'.subject[2], answer'.subject[3])
<1>1. kind' = kind
  BY Steps DEF Plain
<1>2. CASE kind # "scene"
  BY <1>1, <1>2 DEF SceneIsWhole
<1>3. CASE kind = "scene"
  <2>1. BadArguments \/ SceneCall
    <3>1. \A p, v, create : ~JsonGet(p) /\ ~JsonRemove(p) /\ ~JsonSet(p, v, create)
      BY <1>3 DEF JsonGet, JsonRemove, JsonSet
    <3>2. \A x, k : ~ConfigRead(x, k) /\ ~ConfigRemove(x, k)
      BY <1>3 DEF ConfigRead, ConfigRemove
    <3>3. \A tool, x, k, v, create : ~ConfigSet(tool, x, k, v, create)
      BY <1>3 DEF ConfigSet
    <3>4. ~SourceCall
      BY <1>3 DEF SourceCall, ScriptCreate, ScriptEdit, ResourceCreate, ResourceSet
    <3> QED  BY <3>1, <3>2, <3>3, <3>4 DEF Next, DocumentCall
  <2>2. CASE BadArguments
    <3>1. file' = file /\ answer'.tool = "any"
      BY <2>2, BadArgumentsEnds
    <3>2. NoLoss(file, file, "any", answer'.subject)
      BY DEF NoLoss
    <3> QED  BY <1>1, <3>1, <3>2 DEF SceneIsWhole
  <2>3. CASE SceneCall /\ file \in Unreadable
    <3>1. SceneUnavailable
          \/ \E name \in RootNames, overwrite, open \in BOOLEAN : SceneCreate(name, overwrite, open)
      BY <2>3 DEF SceneCall, Loaded, Unreadable
    <3>2. file' \in Unreadable \/ Whole(file')
      BY <2>3, <3>1, Left, SceneCreated DEF SceneUnavailable, Unreadable
    <3>3. answer'.tool # "scene.reparent_node"
      BY <2>3, OtherTools DEF Loaded, Unreadable
    <3> QED  BY <2>3, <3>2, <3>3 DEF SceneIsWhole
  <2>4. CASE SceneCall /\ file \notin Unreadable
    <3>1. Whole(file) /\ Loaded
      BY <1>3, <2>4 DEF SceneIsWhole, Loaded, Unreadable
    <3>2. SceneKept \/ (answer'.tool = "scene.create"
                          /\ (file' \notin Unreadable => Whole(file')))
      BY <2>4, <3>1, LoadedSceneKept
    <3>3. ASSUME answer'.tool = "scene.reparent_node", answer'.changed
          PROVE  PutUnder(file, file', answer'.subject[1], answer'.subject[2], answer'.subject[3])
      <4>1. PICK n \in NodesOf(file), p \in NodesOf(file), i \in Indexes : ReparentNode(n, p, i)
        BY <2>4, <3>3, OtherTools
      <4>2. answer'.subject = <<n, p, i>> /\ PutUnder(file, file', n, p, i)
        BY <3>1, <3>3, <4>1, ReparentNodeKeeps
      <4> QED  BY <4>2
    <3> QED  BY <3>2, <3>3 DEF SceneIsWhole, SceneKept
  <2> QED  BY <2>1, <2>2, <2>3, <2>4
<1> QED  BY <1>2, <1>3

LEMMA ScenesAreWhole == Spec => [](TypeOK /\ SceneIsWhole)
<1>1. Init => SceneIsWhole
  BY DEF Init, SceneIsWhole, Unreadable
<1>2. TypeOK /\ SceneIsWhole /\ [Next]_vars => SceneIsWhole'
  <2>1. ASSUME SceneIsWhole, UNCHANGED vars  PROVE SceneIsWhole'
    BY <2>1 DEF vars, SceneIsWhole
  <2> QED  BY <2>1, SceneSteps
<1> QED  BY <1>1, <1>2, TypeCorrect, PTL DEF Spec

\* Whatever the scene tools add, copy, instance, move, rename, set and remove,
\* what they save is, once opened, a tree under its root, with siblings that
\* differ in name; also where an instance, or a subtree with instances below
\* it, is saved with its inner nodes as nodes of the scene
\* (instance_scene_tool.gd, node_path_service.gd).
THEOREM ScenesAreTrees == Spec => []SceneIsTree
<1>1. SceneIsWhole => SceneIsTree
  BY DEF SceneIsWhole, SceneIsTree, Whole
<1> QED  BY <1>1, ScenesAreWhole, PTL

\* Only the tool that is for it takes a node, a name, a membership, a value or
\* a connection from a scene, or a tool that sets the property owner or name;
\* and only a move of an instance with its inner node numbers a node anew.
THEOREM ScenesLoseNothing == Spec => NothingVanishes
<1>1. TypeOK /\ SceneIsWhole /\ [Next]_vars =>
          [kind = "scene" /\ file \notin Unreadable /\ file' \notin Unreadable
             /\ answer'.tool # "scene.create" => NoLoss(file, file', answer'.tool, answer'.subject)]_vars
  BY SceneSteps
<1> QED  BY <1>1, ScenesAreWhole, PTL DEF Spec, NothingVanishes, NoLoss

\* A reparented node is where the call said, after what an instance supplies,
\* and all others keep their order, behind the inner node that is now saved
\* (reparent_node_tool.gd).
THEOREM ReparentsAreExact == Spec => ReparentIsExact
<1>1. TypeOK /\ SceneIsWhole /\ [Next]_vars =>
          [kind = "scene" /\ answer'.tool = "scene.reparent_node" /\ answer'.changed =>
              PutUnder(file, file', answer'.subject[1], answer'.subject[2],
                       answer'.subject[3])]_vars
  BY SceneSteps
<1> QED  BY <1>1, ScenesAreWhole, PTL DEF Spec, ReparentIsExact, PutUnder, IsAt, Between
=============================================================================
