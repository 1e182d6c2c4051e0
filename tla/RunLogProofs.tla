---------------------------- MODULE RunLogProofs ----------------------------
(***************************************************************************)
(* Proofs about RunLog, for any ring size, filters, pages and readers.     *)
(***************************************************************************)
EXTENDS RunLog, FiniteSetTheorems, SequenceTheorems, WellFoundedInduction, TLAPS

\* A set of positions that is not empty has a last one.
LEMMA LastExists ==
    ASSUME NEW n \in Nat, NEW S \in SUBSET (1..n), S # {}
    PROVE  \E i \in S : \A j \in S : j <= i
<1> DEFINE T == {n - i : i \in S}
<1>1. T \subseteq Nat /\ T # {}
  <2>1. \A i \in S : n - i \in Nat
    OBVIOUS
  <2>2. PICK i \in S : TRUE
    OBVIOUS
  <2>3. n - i \in T
    BY <2>2
  <2> QED  BY <2>1, <2>3
<1>2. PICK x \in T : \A y \in T : ~ (<<y, x>> \in OpToRel(<, Nat))
  BY <1>1, WFMin, NatLessThanWellFounded
<1>3. \A y \in T : ~ (y < x)
  BY <1>1, <1>2 DEF OpToRel
<1>4. PICK i \in S : x = n - i
  BY <1>2
<1>5. ASSUME NEW j \in S PROVE j <= i
  <2>1. n - j \in T
    BY <1>5
  <2>2. ~ (n - j < n - i)
    BY <1>3, <1>4, <2>1
  <2> QED  BY <1>4, <1>5, <2>2
<1> QED  BY <1>5

\* A page is an initial segment of what was asked for.
LEMMA PageIsInitial ==
    ASSUME NEW n \in Nat, NEW S \in SUBSET (1..n), NEW max \in Nat
    PROVE  /\ FirstOf(S, max) \subseteq S
           /\ \A i \in FirstOf(S, max), j \in S : j <= i => j \in FirstOf(S, max)
<1>1. CASE max = 0
  BY <1>1 DEF FirstOf
<1>2. CASE max # 0
  <2> SUFFICES ASSUME NEW i \in FirstOf(S, max), NEW j \in S, j <= i
               PROVE  j \in FirstOf(S, max)
    BY <1>2 DEF FirstOf
  <2> DEFINE upto(k) == {l \in S : l <= k}
  <2>1. IsFiniteSet(S)
    <3>1. IsFiniteSet(1..n)
      BY FS_Interval
    <3> QED  BY <3>1, FS_Subset
  <2>2. IsFiniteSet(upto(i)) /\ i \in S /\ Cardinality(upto(i)) <= max
    BY <1>2, <2>1, FS_Subset DEF FirstOf
  <2>3. upto(j) \in SUBSET upto(i)
    <3>1. i \in Int /\ j \in Int /\ \A l \in S : l \in Int
      BY <2>2
    <3>2. \A l \in S : l <= j => l <= i
      BY <3>1
    <3> QED  BY <3>2
  <2>4. /\ IsFiniteSet(upto(j))
        /\ Cardinality(upto(j)) <= Cardinality(upto(i))
    BY <2>2, <2>3, FS_Subset
  <2>5. Cardinality(upto(j)) \in Nat /\ Cardinality(upto(i)) \in Nat
    BY <2>2, <2>4, FS_CardinalityType
  <2>6. Cardinality(upto(j)) <= max
    BY <2>2, <2>4, <2>5
  <2> HIDE DEF upto
  <2>7. FirstOf(S, max) = {k \in S : Cardinality(upto(k)) <= max}
    BY <1>2 DEF FirstOf, upto
  <2> QED  BY <2>6, <2>7
<1> QED  BY <1>1, <1>2

-----------------------------------------------------------------------------
\* The ring after a row was appended.
LEMMA KeepNewestRows ==
    ASSUME NEW s \in Seq(Row)
    PROVE  /\ KeepNewest(s) \in Seq(Row)
           /\ Len(KeepNewest(s)) = IF Len(s) <= MaxLogRows THEN Len(s) ELSE MaxLogRows
           /\ \A i \in DOMAIN KeepNewest(s) :
                /\ i + Len(s) - Len(KeepNewest(s)) \in DOMAIN s
                /\ KeepNewest(s)[i] = s[i + Len(s) - Len(KeepNewest(s))]
<1>1. MaxLogRows \in Nat /\ MaxLogRows # 0
  BY RunLogAssumption
<1>2. CASE Len(s) <= MaxLogRows
  BY <1>2 DEF KeepNewest
<1>3. CASE Len(s) > MaxLogRows
  <2> DEFINE m == Len(s) - MaxLogRows + 1
             n == Len(s)
             t == SubSeq(s, m, n)
  <2>1. m \in Int /\ n \in Int /\ m >= 1 /\ m <= n /\ n - m + 1 = MaxLogRows
    BY <1>1, <1>3
  <2>2. \A i \in m .. n : s[i] \in Row
    BY <2>1
  <2>3. /\ t \in Seq(Row) /\ Len(t) = n - m + 1
        /\ \A i \in 1 .. n - m + 1 : t[i] = s[m + i - 1]
    BY <2>1, <2>2, SubSeqProperties
  <2>4. KeepNewest(s) = t
    BY <1>1, <1>3 DEF KeepNewest
  <2>5. Len(t) = MaxLogRows /\ DOMAIN t = 1..MaxLogRows
    BY <2>1, <2>3
  <2> HIDE DEF t
  <2>6. ASSUME NEW i \in DOMAIN t
        PROVE  i + Len(s) - Len(t) \in DOMAIN s /\ t[i] = s[i + Len(s) - Len(t)]
    <3>1. i \in 1..MaxLogRows /\ i + Len(s) - Len(t) = m + i - 1
      BY <1>1, <2>5
    <3>2. t[i] = s[m + i - 1]
      BY <2>1, <2>3, <3>1
    <3>3. m + i - 1 \in 1..Len(s) /\ DOMAIN s = 1..Len(s)
      BY <1>1, <1>3, <3>1
    <3> QED  BY <3>1, <3>2, <3>3
  <2> QED  BY <1>3, <2>3, <2>4, <2>5, <2>6
<1> QED  BY <1>1, <1>2, <1>3

-----------------------------------------------------------------------------
(* The inductive invariant.  Room says that the bound on rows leaves room  *)
(* for what is on its way.                                                 *)

Room == next + Len(arriving) <= RowsEver + 1

IInv == TypeOK /\ Room /\ RingIsNewest /\ ReadOnce

LEMMA InvInit == Init => IInv
<1> SUFFICES ASSUME Init PROVE IInv
  OBVIOUS
<1>1. RowsEver \in Nat /\ MaxLogRows \in Nat /\ Nobody \notin Readers
  BY RunLogAssumption
<1>2. rows = <<>> /\ Len(rows) = 0 /\ DOMAIN rows = {} /\ arriving = <<>> /\ Len(arriving) = 0
  BY DEF Init
<1>3. TypeOK
  BY <1>1, <1>2 DEF Init, TypeOK
<1>4. Room /\ RingIsNewest
  BY <1>1, <1>2 DEF Init, Room, RingIsNewest
<1>5. ReadOnce
  BY <1>1, <1>2 DEF Init, ReadOnce
<1> QED  BY <1>3, <1>4, <1>5 DEF IInv

\* A message of a game is only put on its way.
LEMMA ArriveStep ==
    ASSUME IInv, NEW l \in Levels, Arrive(l)
    PROVE  IInv'
<1>1. /\ arriving' = Append(arriving, l) /\ next + Len(arriving) <= RowsEver
      /\ UNCHANGED <<rows, next, cursor, got, follower>>
  BY DEF Arrive
<1>2. arriving \in Seq(Levels) /\ next \in Nat /\ RowsEver \in Nat
  BY RunLogAssumption DEF IInv, TypeOK
<1>3. arriving' \in Seq(Levels) /\ Len(arriving') = Len(arriving) + 1
  BY <1>1, <1>2, AppendProperties
<1>4. TypeOK' /\ Room'
  BY SMTT(30), <1>1, <1>2, <1>3 DEF IInv, TypeOK, Room
<1>5. RingIsNewest' /\ ReadOnce'
  BY <1>1 DEF IInv, RingIsNewest, ReadOnce, Filtered
<1> QED  BY <1>4, <1>5 DEF IInv

\* A captured message gets the next cursor, and what is retained of the older
\* rows keeps the cursor and the level it had.
LEMMA CaptureStep ==
    ASSUME IInv, Capture
    PROVE  IInv'
<1> DEFINE new == [cursor |-> next, level |-> Head(arriving)]
           s   == Append(rows, new)
<1>1. /\ follower = Nobody /\ arriving # <<>> /\ arriving' = Tail(arriving)
      /\ rows' = KeepNewest(s) /\ next' = next + 1
      /\ UNCHANGED <<cursor, got, follower>>
  BY DEF Capture, AppendLog
<1>2. /\ RowsEver \in Nat /\ MaxLogRows \in Nat \ {0} /\ next \in 1..(RowsEver + 1)
      /\ rows \in Seq(Row) /\ arriving \in Seq(Levels)
  BY RunLogAssumption DEF IInv, TypeOK
<1>3. /\ Head(arriving) \in Levels /\ Tail(arriving) \in Seq(Levels)
      /\ Len(Tail(arriving)) = Len(arriving) - 1 /\ Len(arriving) \in Nat \ {0}
  BY <1>1, <1>2, HeadTailProperties
<1>4. next <= RowsEver
  BY <1>2, <1>3 DEF IInv, Room
<1>5. new \in Row
  BY <1>2, <1>3, <1>4 DEF Row
<1>6. /\ s \in Seq(Row) /\ Len(s) = Len(rows) + 1
      /\ \A i \in 1..Len(rows) : s[i] = rows[i]
      /\ s[Len(rows) + 1] = new
  BY <1>2, <1>5, AppendProperties
<1> HIDE DEF s
<1>7. /\ rows' \in Seq(Row)
      /\ Len(rows') = IF Len(s) <= MaxLogRows THEN Len(s) ELSE MaxLogRows
      /\ \A i \in DOMAIN rows' :
           /\ i + Len(s) - Len(rows') \in DOMAIN s
           /\ rows'[i] = s[i + Len(s) - Len(rows')]
  BY <1>1, <1>6, KeepNewestRows
<1>8. /\ Len(rows) = IF next - 1 <= MaxLogRows THEN next - 1 ELSE MaxLogRows
      /\ \A i \in DOMAIN rows : rows[i].cursor = next - Len(rows) + i - 1
  BY DEF IInv, RingIsNewest
<1>9. \A i \in DOMAIN s : s[i].cursor = next - Len(rows) + i - 1
  <2> SUFFICES ASSUME NEW i \in DOMAIN s PROVE s[i].cursor = next - Len(rows) + i - 1
    OBVIOUS
  <2>1. Len(rows) \in Nat /\ i \in 1..(Len(rows) + 1)
    BY <1>2, <1>6
  <2>2. CASE i \in 1..Len(rows)
    BY <1>2, <1>6, <1>8, <2>2
  <2>3. CASE i = Len(rows) + 1
    BY <1>2, <1>6, <2>1, <2>3
  <2> QED  BY <2>1, <2>2, <2>3
<1>10. RingIsNewest'
  <2>1. Len(rows) \in Nat /\ Len(s) \in Nat /\ Len(rows') \in Nat
    BY <1>2, <1>6, <1>7
  <2>2. Len(rows') = IF next' - 1 <= MaxLogRows THEN next' - 1 ELSE MaxLogRows
    BY <1>1, <1>2, <1>6, <1>7, <1>8, <2>1
  <2>3. ASSUME NEW i \in DOMAIN rows'
        PROVE  rows'[i].cursor = next' - Len(rows') + i - 1
    <3>1. /\ i + Len(s) - Len(rows') \in DOMAIN s
          /\ rows'[i] = s[i + Len(s) - Len(rows')]
      BY <1>7
    <3>2. rows'[i].cursor = next - Len(rows) + (i + Len(s) - Len(rows')) - 1
      BY <1>9, <3>1
    <3>3. i \in Int
      BY <1>7
    <3> QED  BY <1>1, <1>2, <1>6, <2>1, <3>2, <3>3
  <2> QED  BY <2>2, <2>3 DEF RingIsNewest
<1>11. TypeOK' /\ Room'
  BY <1>1, <1>2, <1>3, <1>4, <1>7 DEF IInv, TypeOK, Room
<1>12. ReadOnce'
  <2> SUFFICES ASSUME NEW r \in Readers
               PROVE  /\ cursor[r] < next + 1
                      /\ \A k \in 1..RowsEver :
                           got[r][k] <= 1 /\ (k > cursor[r] => got[r][k] = 0)
                      /\ \A i \in DOMAIN rows' :
                           rows'[i].cursor <= cursor[r] =>
                             got[r][rows'[i].cursor] =
                               IF rows'[i].level \in Wanted[r] THEN 1 ELSE 0
    BY <1>1 DEF ReadOnce
  <2>1. cursor[r] \in Nat /\ cursor[r] < next
    BY DEF IInv, TypeOK, ReadOnce
  <2>2. ASSUME NEW i \in DOMAIN rows', rows'[i].cursor <= cursor[r]
        PROVE  \E j \in DOMAIN rows : rows'[i] = rows[j]
    <3> DEFINE j == i + Len(s) - Len(rows')
    <3>1. j \in DOMAIN s /\ rows'[i] = s[j]
      BY <1>7
    <3>2. j # Len(rows) + 1
      BY <1>2, <1>6, <2>1, <2>2, <3>1
    <3>3. j \in 1..Len(rows)
      BY <1>2, <1>6, <3>1, <3>2
    <3> QED  BY <1>6, <3>1, <3>3, <1>2
  <2> QED  BY SMTT(30), <1>2, <2>1, <2>2 DEF IInv, ReadOnce
<1> QED  BY <1>10, <1>11, <1>12 DEF IInv

\* What a response does to its reader.  The page is the beginning of what the
\* reader wants behind its cursor, and positions and cursors have one order, so
\* the new cursor parts what the reader got from what it will get.
LEMMA RespondStep ==
    ASSUME IInv, NEW r \in Readers, NEW max \in Pages, Respond(r, max),
           UNCHANGED <<rows, next>>
    PROVE  /\ cursor' \in [Readers -> 0..RowsEver]
           /\ got' \in [Readers -> [1..RowsEver -> Nat]]
           /\ ReadOnce'
<1> DEFINE page == FirstOf(Filtered(r), max)
           c == NextCursor(r, page)
           hit(k) == \E i \in page : rows[i].cursor = k
<1>1. /\ cursor' = [cursor EXCEPT ![r] = c]
      /\ got' = [got EXCEPT ![r] = [k \in 1..RowsEver |-> IF hit(k) THEN @[k] + 1 ELSE @[k]]]
  BY DEF Respond
<1>2. /\ RowsEver \in Nat /\ max \in Nat /\ next \in 1..(RowsEver + 1)
      /\ rows \in Seq(Row) /\ DOMAIN rows = 1..Len(rows) /\ Len(rows) \in Nat
      /\ cursor \in [Readers -> 0..RowsEver]
      /\ got \in [Readers -> [1..RowsEver -> Nat]]
  BY RunLogAssumption DEF IInv, TypeOK
<1>3. \A i \in 1..Len(rows) :
        rows[i] \in Row /\ rows[i].cursor = next - Len(rows) + i - 1
  <2>1. \A i \in DOMAIN rows : rows[i].cursor = next - Len(rows) + i - 1
    BY DEF IInv, RingIsNewest
  <2>2. \A i \in 1..Len(rows) : rows[i] \in Row
    BY <1>2
  <2> QED  BY <1>2, <2>1, <2>2
<1>4. /\ page \subseteq Filtered(r) /\ Filtered(r) \subseteq 1..Len(rows)
      /\ \A i \in page, j \in Filtered(r) : j <= i => j \in page
  <2>1. Filtered(r) \in SUBSET (1..Len(rows))
    BY <1>2 DEF Filtered
  <2> QED  BY <1>2, <2>1, PageIsInitial
<1>5. \A i \in page : rows[i].cursor > cursor[r] /\ rows[i].level \in Wanted[r]
  BY <1>4 DEF Filtered
<1>6. /\ c \in 0..RowsEver /\ c < next /\ cursor[r] <= c
      /\ \A i \in page : rows[i].cursor <= c
      /\ \A i \in Filtered(r) : rows[i].cursor <= c => i \in page
  <2>0. cursor[r] \in 0..RowsEver /\ cursor[r] < next
    BY <1>2 DEF IInv, ReadOnce
  <2>1. CASE page = {}
    <3>1. c = cursor[r]
      BY <2>1 DEF NextCursor
    <3>2. \A i \in Filtered(r) : rows[i].cursor > cursor[r]
      BY DEF Filtered
    <3>3. \A i \in Filtered(r) : rows[i].cursor \in Int
      BY <1>3, <1>4 DEF Row
    <3> HIDE DEF c, page
    <3> QED  BY <1>2, <2>0, <2>1, <3>1, <3>2, <3>3
  <2>2. CASE page # {}
    <3> DEFINE last == CHOOSE i \in page : \A j \in page : j <= i
    <3>1. page \in SUBSET (1..Len(rows))
      BY <1>4
    <3> HIDE DEF page
    <3>2. last \in page /\ \A j \in page : j <= last
      BY <1>2, <2>2, <3>1, LastExists
    <3>3. c = rows[last].cursor
      BY <2>2 DEF NextCursor
    <3> HIDE DEF last, c
    <3>4. last \in 1..Len(rows) /\ c = next - Len(rows) + last - 1 /\ rows[last] \in Row
      BY <1>3, <3>1, <3>2, <3>3
    <3>5. c \in 0..RowsEver /\ c < next
      <4>1. rows[last].cursor \in 1..RowsEver
        BY <3>4 DEF Row
      <4> QED  BY <1>2, <3>3, <3>4, <4>1
    <3>6. cursor[r] <= c
      BY <1>2, <1>5, <2>0, <3>2, <3>3, <3>5
    <3>7. \A i \in page : rows[i].cursor <= c
      BY <1>2, <1>3, <3>1, <3>2, <3>4
    <3>8. ASSUME NEW i \in Filtered(r), rows[i].cursor <= c
          PROVE  i \in page
      <4>1. i \in 1..Len(rows) /\ rows[i].cursor = next - Len(rows) + i - 1
        BY <1>3, <1>4
      <4>2. i <= last
        BY <1>2, <3>4, <3>8, <4>1
      <4> QED  BY <1>4, <3>2, <4>2
    <3> QED  BY <3>5, <3>6, <3>7, <3>8
  <2> QED  BY <2>1, <2>2
<1> HIDE DEF c, page
<1>7. cursor' \in [Readers -> 0..RowsEver] /\ cursor'[r] = c
  BY <1>1, <1>2, <1>6
<1>8. \A k \in 1..RowsEver : got'[r][k] = IF hit(k) THEN got[r][k] + 1 ELSE got[r][k]
  BY <1>1, <1>2
<1>9. got' \in [Readers -> [1..RowsEver -> Nat]]
  <2>1. \A k \in 1..RowsEver : got[r][k] \in Nat
    BY <1>2
  <2>2. [k \in 1..RowsEver |-> IF hit(k) THEN got[r][k] + 1 ELSE got[r][k]] \in [1..RowsEver -> Nat]
    BY <2>1
  <2> QED  BY <1>1, <1>2, <2>2
<1>10. \A k \in 1..RowsEver : hit(k) => cursor[r] < k /\ k <= c
  BY <1>5, <1>6
<1>11. \A k \in 1..RowsEver :
         /\ got[r][k] \in Nat /\ got[r][k] <= 1
         /\ k > cursor[r] => got[r][k] = 0
  BY <1>2 DEF IInv, ReadOnce
<1>12. cursor[r] \in Int /\ c \in Int
  BY <1>2, <1>6
<1>13. \A k \in 1..RowsEver : got'[r][k] <= 1 /\ (k > c => got'[r][k] = 0)
  BY <1>6, <1>8, <1>10, <1>11, <1>12
<1>14. ASSUME NEW i \in DOMAIN rows, rows[i].cursor <= c
       PROVE  got'[r][rows[i].cursor] = IF rows[i].level \in Wanted[r] THEN 1 ELSE 0
  <2> DEFINE k == rows[i].cursor
  <2>1. i \in 1..Len(rows) /\ k \in 1..RowsEver
    BY <1>2, <1>3 DEF Row
  <2>2. CASE k <= cursor[r]
    <3>1. got[r][k] = IF rows[i].level \in Wanted[r] THEN 1 ELSE 0
      BY <2>2 DEF IInv, ReadOnce
    <3>2. ~hit(k)
      BY <1>10, <1>12, <2>1, <2>2
    <3> QED  BY <1>8, <2>1, <3>1, <3>2
  <2>3. CASE k > cursor[r]
    <3>1. got[r][k] = 0
      BY <1>11, <2>1, <2>3
    <3>2. CASE rows[i].level \in Wanted[r]
      <4>1. i \in page
        BY <1>6, <1>14, <2>3, <3>2 DEF Filtered
      <4>2. hit(k)
        BY <4>1
      <4> QED  BY <1>8, <2>1, <3>1, <3>2, <4>2
    <3>3. CASE rows[i].level \notin Wanted[r]
      <4>1. ASSUME NEW j \in page, rows[j].cursor = k PROVE FALSE
        <5>1. j \in 1..Len(rows)
          BY <1>4, <4>1
        <5>2. j = i
          BY <1>2, <1>3, <2>1, <4>1, <5>1
        <5> QED  BY <1>5, <3>3, <4>1, <5>2
      <4>2. ~hit(k)
        BY <4>1
      <4> QED  BY <1>8, <2>1, <3>1, <3>3, <4>2
    <3> QED  BY <3>2, <3>3
  <2> QED  BY <1>12, <2>1, <2>2, <2>3
<1>15. ReadOnce'
  <2>1. \A q \in Readers \ {r} : cursor'[q] = cursor[q] /\ got'[q] = got[q]
    BY <1>1, <1>2
  <2>2. ASSUME NEW q \in Readers \ {r}
        PROVE  /\ cursor'[q] < next
               /\ \A k \in 1..RowsEver :
                    got'[q][k] <= 1 /\ (k > cursor'[q] => got'[q][k] = 0)
               /\ \A i \in DOMAIN rows :
                    rows[i].cursor <= cursor'[q] =>
                      got'[q][rows[i].cursor] = IF rows[i].level \in Wanted[q] THEN 1 ELSE 0
    BY <2>1 DEF IInv, ReadOnce
  <2>3. /\ cursor'[r] < next
        /\ \A k \in 1..RowsEver :
             got'[r][k] <= 1 /\ (k > cursor'[r] => got'[r][k] = 0)
        /\ \A i \in DOMAIN rows :
             rows[i].cursor <= cursor'[r] =>
               got'[r][rows[i].cursor] = IF rows[i].level \in Wanted[r] THEN 1 ELSE 0
    BY <1>6, <1>7, <1>13, <1>14
  <2> QED  BY <2>2, <2>3 DEF ReadOnce
<1> QED  BY <1>7, <1>9, <1>15

\* A response, at once or as a window ends, keeps the invariant.
LEMMA ListStep ==
    ASSUME IInv, NEW r \in Readers, NEW max \in Pages, List(r, max) \/ EndFollow(r, max)
    PROVE  IInv'
<1>1. Respond(r, max) /\ UNCHANGED <<rows, next, arriving>> /\ follower' = Nobody
  BY DEF List, EndFollow
<1>2. TypeOK' /\ Room' /\ RingIsNewest' /\ ReadOnce'
  BY <1>1, RespondStep DEF IInv, TypeOK, Room, RingIsNewest
<1> QED  BY <1>2 DEF IInv

LEMMA FollowStep ==
    ASSUME IInv, NEW r \in Readers, Follow(r)
    PROVE  IInv'
  BY DEF Follow, IInv, TypeOK, Room, RingIsNewest, ReadOnce, Filtered

\* Every behaviour of run.logs keeps the invariant.
THEOREM LogInvariance == Spec => []IInv
<1>1. IInv /\ [Next]_vars => IInv'
  <2> SUFFICES ASSUME IInv, [Next]_vars PROVE IInv'
    OBVIOUS
  <2>1. CASE Next
    BY <2>1, ArriveStep, CaptureStep, ListStep, FollowStep DEF Next
  <2>2. CASE UNCHANGED vars
    BY <2>2 DEF vars, IInv, TypeOK, Room, RingIsNewest, ReadOnce, Filtered
  <2> QED  BY <2>1, <2>2
<1> QED  BY InvInit, <1>1, PTL DEF Spec

\* _append_log and execute_logs keep the types of the service's state.
THEOREM LogTypes == Spec => []TypeOK
<1>1. IInv => TypeOK
  BY DEF IInv
<1> QED  BY LogInvariance, <1>1, PTL

\* _append_log keeps the newest rows, under consecutive cursors.
THEOREM LogKeepsNewest == Spec => []RingIsNewest
<1>1. IInv => RingIsNewest
  BY DEF IInv
<1> QED  BY LogInvariance, <1>1, PTL

\* A caller of run.logs that passes next_cursor on misses no row that it wants
\* and is still held, and gets none twice.
THEOREM LogReadOnce == Spec => []ReadOnce
<1>1. IInv => ReadOnce
  BY DEF IInv
<1> QED  BY LogInvariance, <1>1, PTL
=============================================================================
