---------------------------- MODULE FbDiskProofs ----------------------------
(***************************************************************************)
(* Theorems about the file area of a fbinst disk, for any sizes of the     *)
(* areas and the sectors, any files, archives and layouts.                 *)
(***************************************************************************)
EXTENDS FbDiskInv, FiniteSetTheorems, WellFoundedInduction, SequenceTheorems, TLAPS

-----------------------------------------------------------------------------
(* Numbers.                                                                *)

\* A set of naturals that is not empty has a least element.
LEMMA Least ==
  ASSUME NEW S \in SUBSET Nat, S # {}
  PROVE  \E m \in S : \A n \in S : m <= n
<1>1. PICK m \in S : \A n \in S : ~(<<n, m>> \in OpToRel(<, Nat))
  BY NatLessThanWellFounded, WFMin
<1>2. \A n \in S : ~(n < m)
  BY <1>1 DEF OpToRel
<1>3. QED
  BY <1>2

LEMMA MinIsLeast ==
  ASSUME NEW S \in SUBSET Nat, S # {}
  PROVE  Min(S) \in S /\ \A n \in S : Min(S) <= n
<1>1. PICK m \in S : \A n \in S : m <= n
  BY Least
<1>2. QED
  BY <1>1 DEF Min

\* The largest of a set that has one.
LEMMA MaxIs ==
  ASSUME NEW S \in SUBSET Int, NEW m \in S, \A n \in S : n <= m
  PROVE  Max(S) = m
<1>1. \A x \in S : (\A n \in S : x >= n) => x = m
  OBVIOUS
<1>2. QED
  BY <1>1 DEF Max

\* What holds of 0 and passes from each number to the next holds up to len.
LEMMA UpTo ==
  ASSUME NEW G, NEW len \in Nat, 0 \in G,
         \A k \in 1 .. len : k - 1 \in G => k \in G
  PROVE  \A k \in 0 .. len : k \in G
<1> DEFINE Bad == {k \in 0 .. len : k \notin G}
<1>1. SUFFICES ASSUME Bad # {} PROVE FALSE
  OBVIOUS
<1>2. Bad \in SUBSET Nat
  OBVIOUS
<1>3. PICK n \in Bad : \A k \in Bad : n <= k
  <2> HIDE DEF Bad
  <2>1. QED
    BY <1>1, <1>2, Least
<1>4. n \in 1 .. len /\ n \notin G
  BY <1>3
<1>5. n - 1 \in 0 .. len /\ n - 1 \notin Bad
  BY <1>3, <1>4
<1>6. QED
  BY <1>4, <1>5

LEMMA Division ==
  ASSUME NEW n \in Nat, NEW v \in Nat \ {0}
  PROVE  /\ n % v \in 0 .. v - 1
         /\ n \div v \in Nat
         /\ n = (n \div v) * v + (n % v)
  OBVIOUS

LEMMA Times ==
  ASSUME NEW k \in Nat, NEW m \in Nat, NEW v \in Nat, k <= m
  PROVE  k * v <= m * v
<1>1. PICK e \in Nat : m = k + e
  <2> WITNESS m - k \in Nat
  <2>1. QED
    OBVIOUS
<1>2. m * v = k * v + e * v
  BY <1>1
<1>3. e * v \in Nat /\ k * v \in Nat
  OBVIOUS
<1>4. QED
  BY <1>2, <1>3

\* A number of sectors: enough for the bytes, and one less is too few.
LEMMA Ceiling ==
  ASSUME NEW a \in Nat, NEW b \in Nat \ {0}
  PROVE  /\ CeilDiv(a, b) \in Nat
         /\ a <= CeilDiv(a, b) * b
         /\ CeilDiv(a, b) * b < a + b
<1>1. a + b - 1 \in Nat
  OBVIOUS
<1>2. /\ CeilDiv(a, b) \in Nat
      /\ a + b - 1 = CeilDiv(a, b) * b + ((a + b - 1) % b)
      /\ (a + b - 1) % b \in 0 .. b - 1
  BY <1>1, Division DEF CeilDiv
<1> HIDE DEF CeilDiv
<1>3. CeilDiv(a, b) * b \in Nat
  BY <1>2
<1>4. QED
  BY <1>2, <1>3

\* No number of sectors that is enough is smaller.
LEMMA CeilingLeast ==
  ASSUME NEW a \in Nat, NEW b \in Nat \ {0}, NEW n \in Nat, a <= n * b
  PROVE  CeilDiv(a, b) <= n
<1> DEFINE c == CeilDiv(a, b)
<1>1. c \in Nat /\ c * b < a + b
  BY Ceiling
<1> HIDE DEF c
<1>2. SUFFICES ASSUME n + 1 <= c PROVE FALSE
  BY <1>1 DEF c
<1>3. (n + 1) * b <= c * b
  BY <1>1, <1>2, Times
<1>4. (n + 1) * b = n * b + b /\ n * b \in Nat /\ c * b \in Nat
  BY <1>1
<1>5. QED
  BY <1>1, <1>3, <1>4

LEMMA CeilingGrows ==
  ASSUME NEW a \in Nat, NEW e \in Nat, NEW b \in Nat \ {0}, a <= e
  PROVE  CeilDiv(a, b) <= CeilDiv(e, b)
<1>1. CeilDiv(e, b) \in Nat /\ e <= CeilDiv(e, b) * b
  BY Ceiling
<1>2. CeilDiv(e, b) * b \in Nat
  BY <1>1
<1>3. a <= CeilDiv(e, b) * b
  BY <1>1, <1>2
<1>4. QED
  BY <1>1, <1>3, CeilingLeast

LEMMA CeilingShrinks ==
  ASSUME NEW a \in Nat, NEW b \in Nat \ {0}, NEW e \in Nat \ {0}, b <= e
  PROVE  CeilDiv(a, e) <= CeilDiv(a, b)
<1> DEFINE c == CeilDiv(a, b)
<1>1. c \in Nat /\ a <= c * b
  BY Ceiling
<1> HIDE DEF c
<1>2. b * c <= e * c
  BY <1>1, Times
<1>3. c * b = b * c /\ c * e = e * c /\ c * b \in Nat /\ c * e \in Nat
  BY <1>1
<1>4. a <= c * e
  BY <1>1, <1>2, <1>3
<1>5. QED
  BY <1>1, <1>4, CeilingLeast DEF c

LEMMA CeilingOfNone ==
  ASSUME NEW b \in Nat \ {0}
  PROVE  CeilDiv(0, b) = 0
<1>1. 0 <= 0 * b
  OBVIOUS
<1>2. CeilDiv(0, b) \in Nat /\ CeilDiv(0, b) <= 0
  BY <1>1, Ceiling, CeilingLeast
<1>3. QED
  BY <1>2

LEMMA CeilingOfSome ==
  ASSUME NEW a \in Nat \ {0}, NEW b \in Nat \ {0}
  PROVE  CeilDiv(a, b) \in Nat \ {0}
<1>1. CeilDiv(a, b) \in Nat /\ a <= CeilDiv(a, b) * b
  BY Ceiling
<1>2. 0 * b = 0
  OBVIOUS
<1>3. QED
  BY <1>1, <1>2

\* The sectors that are full, and one more when a piece is left over.
LEMMA CeilingWhole ==
  ASSUME NEW a \in Nat, NEW b \in Nat \ {0}
  PROVE  /\ a \div b \in Nat /\ a % b \in Nat
         /\ a \div b <= CeilDiv(a, b)
         /\ a % b # 0 => a \div b < CeilDiv(a, b)
<1> DEFINE c == CeilDiv(a, b)
           q == a \div b
           r == a % b
<1>1. c \in Nat /\ a <= c * b
  BY Ceiling
<1>2. q \in Nat /\ r \in 0 .. b - 1 /\ a = q * b + r
  BY Division
<1> HIDE DEF c, q, r
<1>3. q * b \in Nat /\ c * b \in Nat /\ r \in Nat
  BY <1>1, <1>2
<1>4. q <= c
  <2>1. SUFFICES ASSUME c + 1 <= q PROVE FALSE
    BY <1>1, <1>2
  <2>2. (c + 1) * b <= q * b
    BY <1>1, <1>2, <2>1, Times
  <2>3. (c + 1) * b = c * b + b
    BY <1>1
  <2>4. QED
    BY <1>1, <1>2, <1>3, <2>2, <2>3
<1>5. q # c \/ r = 0
  BY <1>1, <1>2, <1>3
<1>6. QED
  BY <1>2, <1>3, <1>4, <1>5, <1>1 DEF c, q, r

-----------------------------------------------------------------------------
(* Lists that are laid out.                                                *)

LEMMA RoomIs ==
  ASSUME NEW start
  PROVE  Room(start) \in Nat \ {0}
BY FbAssumption DEF Room

LEMMA EndIs ==
  ASSUME NEW m \in FileItem
  PROVE  /\ Count(m.start, m.size) \in Nat
         /\ m.size > 0 => Count(m.start, m.size) > 0
         /\ End(m) \in Nat /\ End(m) = m.start + Count(m.start, m.size)
<1>1. m.start \in Nat /\ m.size \in Nat
  BY DEF FileItem
<1>2. Room(m.start) \in Nat \ {0}
  BY RoomIs
<1>3. CeilDiv(m.size, Room(m.start)) \in Nat
  BY <1>1, <1>2, Ceiling
<1>4. m.size > 0 => CeilDiv(m.size, Room(m.start)) \in Nat \ {0}
  BY <1>1, <1>2, CeilingOfSome
<1>5. QED
  BY <1>1, <1>3, <1>4 DEF Count, End

\* A file of the list lies inside the file area, and inside one area.
LEMMA ItemIs ==
  ASSUME NEW l, GoodList(l), NEW i \in 1 .. Len(l)
  PROVE  /\ l[i] \in FileItem
         /\ l[i].name \in Names /\ l[i].start \in Nat /\ l[i].size \in Nat \ {0}
         /\ End(l[i]) \in Nat /\ l[i].start < End(l[i])
         /\ First <= l[i].start /\ End(l[i]) <= Total
         /\ l[i].start < Pri => End(l[i]) <= Pri
         /\ i < Len(l) => End(l[i]) <= l[i + 1].start
<1>1. l \in Seq(FileItem) /\ Laid(l)
  BY DEF GoodList
<1>2. l[i] \in FileItem
  BY <1>1, ElementOfSeq
<1>3. l[i].name \in Names /\ l[i].start \in Nat /\ l[i].size \in Nat
  BY <1>2 DEF FileItem
<1>4. /\ l[i].size > 0 /\ First <= l[i].start /\ End(l[i]) <= Total
      /\ l[i].start < Pri => End(l[i]) <= Pri
      /\ i < Len(l) => End(l[i]) <= l[i + 1].start
  BY <1>1, <1>3, FbAssumption DEF Laid
<1>5. End(l[i]) \in Nat /\ l[i].start < End(l[i])
  BY <1>2, <1>3, <1>4, EndIs
<1>6. QED
  BY <1>2, <1>3, <1>4, <1>5

\* A file ends before any later one begins.
LEMMA InOrder ==
  ASSUME NEW l, GoodList(l), NEW i \in 1 .. Len(l), NEW j \in 1 .. Len(l), i < j
  PROVE  End(l[i]) <= l[j].start
<1> DEFINE G == {d \in Nat : i + 1 + d <= Len(l) => End(l[i]) <= l[i + 1 + d].start}
           len == j - i - 1
<1>0. Len(l) \in Nat
  BY LenProperties DEF GoodList
<1>1. 0 \in G
  BY <1>0, ItemIs
<1>2. ASSUME NEW k \in 1 .. len, k - 1 \in G PROVE k \in G
  <2>1. i + k \in 1 .. Len(l) /\ i + k < Len(l) /\ i + 1 + (k - 1) = i + k
    BY <1>0
  <2>2. End(l[i]) <= l[i + k].start
    BY <1>0, <1>2, <2>1
  <2>3. l[i + k].start < End(l[i + k]) /\ End(l[i + k]) <= l[i + k + 1].start
    BY <2>1, ItemIs
  <2>4. i + k + 1 \in 1 .. Len(l) /\ i + 1 + k = i + k + 1
    BY <2>1
  <2>5. /\ End(l[i]) \in Nat /\ l[i + k].start \in Nat /\ End(l[i + k]) \in Nat
        /\ l[i + k + 1].start \in Nat
    BY <2>1, <2>4, ItemIs
  <2>6. End(l[i]) <= l[i + k + 1].start
    <3> DEFINE a == End(l[i])
               b == l[i + k].start
               c == End(l[i + k])
               d == l[i + k + 1].start
    <3>1. a \in Nat /\ b \in Nat /\ c \in Nat /\ d \in Nat /\ a <= b /\ b < c /\ c <= d
      BY <2>2, <2>3, <2>5
    <3> HIDE DEF a, b, c, d
    <3>2. a <= d
      BY <3>1
    <3>3. QED
      BY <3>2 DEF a, d
  <2>7. End(l[i]) <= l[i + 1 + k].start /\ k \in Nat
    BY <2>4, <2>6
  <2>8. QED
    BY <2>7
<1>3. len \in Nat
  OBVIOUS
<1>4. \A k \in 0 .. len : k \in G
  <2> HIDE DEF G, len
  <2>1. QED
    BY <1>1, <1>2, <1>3, UpTo
<1>5. len \in G
  <2> HIDE DEF G, len
  <2>1. QED
    BY <1>3, <1>4
<1>6. i + 1 + len = j
  OBVIOUS
<1>7. i + 1 + len <= Len(l) => End(l[i]) <= l[i + 1 + len].start
  <2> HIDE DEF len
  <2>1. QED
    BY <1>5
<1>8. QED
  <2> HIDE DEF len
  <2>1. QED
    BY <1>0, <1>6, <1>7

\* The gaps between the files, from the first to the last.
LEMMA Gaps ==
  ASSUME NEW l, GoodList(l), NEW i \in 1 .. Len(l) + 1
  PROVE  /\ GapBegin(l, i) \in Nat /\ First <= GapBegin(l, i)
         /\ GapEnd(l, i) \in Nat /\ GapEnd(l, i) <= Total
         /\ \A j \in 1 .. i - 1 : GapEnd(l, j) \in Nat /\ GapEnd(l, j) <= GapBegin(l, i)
<1>0. Len(l) \in Nat
  BY LenProperties DEF GoodList
<1>1. GapBegin(l, i) \in Nat /\ First <= GapBegin(l, i)
  <2>1. CASE i = 1
    BY <2>1, FbAssumption DEF GapBegin
  <2>2. CASE i # 1
    <3>1. i - 1 \in 1 .. Len(l)
      BY <1>0, <2>2
    <3>2. End(l[i - 1]) \in Nat /\ First <= l[i - 1].start /\ l[i - 1].start < End(l[i - 1])
          /\ l[i - 1].start \in Nat
      BY <3>1, ItemIs
    <3>3. QED
      BY <2>2, <3>2, FbAssumption DEF GapBegin
  <2>3. QED
    BY <2>1, <2>2
<1>2. GapEnd(l, i) \in Nat /\ GapEnd(l, i) <= Total
  <2>1. CASE i > Len(l)
    BY <2>1, FbAssumption DEF GapEnd
  <2>2. CASE ~(i > Len(l))
    <3>1. i \in 1 .. Len(l)
      BY <1>0, <2>2
    <3>2. l[i].start \in Nat /\ l[i].start < End(l[i]) /\ End(l[i]) <= Total /\ End(l[i]) \in Nat
      BY <3>1, ItemIs
    <3>3. QED
      BY <2>2, <3>2, FbAssumption DEF GapEnd
  <2>3. QED
    BY <2>1, <2>2
<1>3. ASSUME NEW j \in 1 .. i - 1 PROVE GapEnd(l, j) \in Nat /\ GapEnd(l, j) <= GapBegin(l, i)
  <2>1. j \in 1 .. Len(l) /\ i - 1 \in 1 .. Len(l) /\ ~(j > Len(l)) /\ i # 1
    BY <1>0
  <2>2. /\ l[j].start \in Nat /\ l[j].start < End(l[j]) /\ End(l[j]) \in Nat
        /\ l[i - 1].start \in Nat /\ End(l[i - 1]) \in Nat /\ l[i - 1].start < End(l[i - 1])
    BY <2>1, ItemIs
  <2>3. j < i - 1 => End(l[j]) <= l[i - 1].start
    BY <2>1, InOrder
  <2>4. l[j].start <= End(l[i - 1])
    <3>1. CASE j = i - 1
      BY <2>2, <3>1
    <3>2. CASE j < i - 1
      BY <2>2, <2>3, <3>2
    <3>3. QED
      BY <3>1, <3>2
  <2>5. QED
    BY <2>1, <2>2, <2>4 DEF GapBegin, GapEnd
<1>4. QED
  BY <1>1, <1>2, <1>3

\* A list without one of its files.
LEMMA RemoveKeeps ==
  ASSUME NEW l, GoodList(l), NEW p \in 1 .. Len(l)
  PROVE  /\ GoodList(RemoveAt(l, p)) /\ Len(RemoveAt(l, p)) = Len(l) - 1
         /\ \A i \in 1 .. Len(l) - 1 : RemoveAt(l, p)[i] = l[IF i < p THEN i ELSE i + 1]
         /\ \A i \in 1 .. Len(RemoveAt(l, p)) : \E j \in 1 .. Len(l) :
              j # p /\ RemoveAt(l, p)[i] = l[j]
<1> DEFINE r == RemoveAt(l, p)
           f(i) == IF i < p THEN i ELSE i + 1
<1>0. l \in Seq(FileItem) /\ Len(l) \in Nat /\ Laid(l)
  BY LenProperties DEF GoodList
<1>1. /\ r \in Seq(FileItem) /\ Len(r) = Len(l) - 1
      /\ \A i \in 1 .. Len(l) - 1 : r[i] = l[f(i)]
  <2> DEFINE a == SubSeq(l, 1, p - 1)
             b == SubSeq(l, p + 1, Len(l))
  <2>1. (\A i \in 1 .. p - 1 : l[i] \in FileItem) /\ (\A i \in p + 1 .. Len(l) : l[i] \in FileItem)
    BY <1>0, ElementOfSeq
  <2>2. a \in Seq(FileItem) /\ Len(a) = p - 1 /\ \A i \in 1 .. p - 1 : a[i] = l[i]
    <3>1. /\ a \in Seq(FileItem) /\ Len(a) = IF 1 <= p - 1 THEN p - 1 - 1 + 1 ELSE 0
          /\ \A i \in 1 .. p - 1 - 1 + 1 : a[i] = l[1 + i - 1]
      BY <1>0, <2>1, SubSeqProperties
    <3> HIDE DEF a
    <3>2. QED
      BY <3>1
  <2>3. b \in Seq(FileItem) /\ Len(b) = Len(l) - p /\ \A i \in 1 .. Len(l) - p : b[i] = l[p + i]
    <3>1. /\ b \in Seq(FileItem) /\ Len(b) = IF p + 1 <= Len(l) THEN Len(l) - (p + 1) + 1 ELSE 0
          /\ \A i \in 1 .. Len(l) - (p + 1) + 1 : b[i] = l[p + 1 + i - 1]
      BY <1>0, <2>1, SubSeqProperties
    <3> HIDE DEF b
    <3>2. QED
      BY <1>0, <3>1
  <2>4. r = a \o b
    BY DEF RemoveAt
  <2> HIDE DEF a, b, r
  <2>5. /\ a \o b \in Seq(FileItem) /\ Len(a \o b) = Len(a) + Len(b)
        /\ \A i \in 1 .. Len(a) + Len(b) :
             (a \o b)[i] = IF i <= Len(a) THEN a[i] ELSE b[i - Len(a)]
    BY <2>2, <2>3, ConcatProperties
  <2>6. ASSUME NEW i \in 1 .. Len(l) - 1 PROVE r[i] = l[f(i)]
    <3>1. i \in 1 .. Len(a) + Len(b) /\ Len(a) = p - 1 /\ Len(b) = Len(l) - p
      BY <1>0, <2>2, <2>3
    <3>2. CASE i < p
      <4>1. i <= Len(a) /\ i \in 1 .. p - 1 /\ f(i) = i
        BY <1>0, <3>1, <3>2
      <4>2. (a \o b)[i] = a[i] /\ a[i] = l[i]
        BY <2>2, <2>5, <3>1, <4>1
      <4>3. QED
        BY <2>4, <4>1, <4>2
    <3>3. CASE ~(i < p)
      <4>1. ~(i <= Len(a)) /\ i - Len(a) \in 1 .. Len(l) - p /\ f(i) = i + 1
        BY <1>0, <3>1, <3>3
      <4>2. (a \o b)[i] = b[i - Len(a)] /\ b[i - Len(a)] = l[p + (i - Len(a))]
        BY <2>3, <2>5, <3>1, <4>1
      <4>3. p + (i - Len(a)) = i + 1
        BY <3>1
      <4>4. QED
        BY <2>4, <4>1, <4>2, <4>3
    <3>4. QED
      BY <3>2, <3>3
  <2>7. QED
    BY <1>0, <2>2, <2>3, <2>4, <2>5, <2>6
<1>2. \A i \in 1 .. Len(r) : f(i) \in 1 .. Len(l) /\ f(i) # p /\ r[i] = l[f(i)]
  BY <1>0, <1>1
<1> HIDE DEF r
<1>3. Laid(r)
  <2>1. ASSUME NEW i \in 1 .. Len(r)
        PROVE  /\ r[i].start >= First /\ r[i].size > 0 /\ End(r[i]) <= Total
               /\ r[i].start < Pri => End(r[i]) <= Pri
               /\ i < Len(r) => End(r[i]) <= r[i + 1].start
    <3>1. f(i) \in 1 .. Len(l) /\ r[i] = l[f(i)]
      BY <1>2
    <3>2. /\ r[i].start \in Nat /\ r[i].size \in Nat \ {0} /\ First <= r[i].start
          /\ End(r[i]) <= Total /\ (r[i].start < Pri => End(r[i]) <= Pri)
      BY <3>1, ItemIs
    <3>3. ASSUME i < Len(r) PROVE End(r[i]) <= r[i + 1].start
      <4>1. i + 1 \in 1 .. Len(r)
        BY <1>0, <1>1, <3>3
      <4>2. f(i + 1) \in 1 .. Len(l) /\ r[i + 1] = l[f(i + 1)]
        BY <1>2, <4>1
      <4>3. f(i) < f(i + 1)
        OBVIOUS
      <4>4. QED
        BY <3>1, <4>2, <4>3, InOrder
    <3>4. QED
      BY <3>2, <3>3, FbAssumption
  <2>2. ASSUME NEW i \in 1 .. Len(r), NEW j \in 1 .. Len(r), r[i].name = r[j].name
        PROVE  i = j
    <3>1. l[f(i)].name = l[f(j)].name /\ f(i) \in 1 .. Len(l) /\ f(j) \in 1 .. Len(l)
      BY <1>2, <2>2
    <3>2. f(i) = f(j)
      BY <1>0, <3>1 DEF Laid
    <3>3. QED
      BY <3>2
  <2>3. Len(r) <= Capacity
    BY <1>0, <1>1, FbAssumption DEF Laid
  <2>4. QED
    BY <2>1, <2>2, <2>3 DEF Laid
<1>4. QED
  BY <1>1, <1>2, <1>3 DEF GoodList, r

\* Deleting a file leaves a list that is laid out and does not name it.
LEMMA WithoutKeeps ==
  ASSUME NEW l, GoodList(l), NEW name
  PROVE  /\ GoodList(Without(l, name)) /\ ~Has(Without(l, name), name)
         /\ NamesOf(Without(l, name)) \subseteq NamesOf(l)
<1>1. CASE ~Has(l, name)
  BY <1>1 DEF Without
<1>2. CASE Has(l, name)
  <2>1. Place(l, name) \in 1 .. Len(l) /\ l[Place(l, name)].name = name
    BY <1>2 DEF Has, Place
  <2> DEFINE r == RemoveAt(l, Place(l, name))
  <2>2. /\ GoodList(r)
        /\ \A i \in 1 .. Len(r) : \E j \in 1 .. Len(l) : j # Place(l, name) /\ r[i] = l[j]
    BY <2>1, RemoveKeeps
  <2>3. \A j \in 1 .. Len(l) : l[j].name = name => j = Place(l, name)
    BY <2>1 DEF GoodList, Laid
  <2>4. Without(l, name) = r
    BY <1>2 DEF Without
  <2> HIDE DEF r
  <2>5. ~Has(r, name)
    BY <2>2, <2>3 DEF Has
  <2>6. NamesOf(r) \subseteq NamesOf(l)
    BY <2>2 DEF NamesOf
  <2>7. QED
    BY <2>2, <2>4, <2>5, <2>6
<1>3. QED
  BY <1>1, <1>2

-----------------------------------------------------------------------------
(* find_space and alloc_file.                                              *)

\* A file in a gap where it fits leaves the list laid out.
LEMMA InsertKeeps ==
  ASSUME NEW l, GoodList(l), Len(l) < Capacity, NEW i \in 1 .. Len(l) + 1,
         NEW m \in FileItem, m.size > 0, ~Has(l, m.name),
         GapBegin(l, i) <= m.start, End(m) <= GapEnd(l, i),
         m.start < Pri => End(m) <= Pri
  PROVE  /\ GoodList(InsertAt(l, i, m))
         /\ Len(InsertAt(l, i, m)) = Len(l) + 1
         /\ InsertAt(l, i, m)[i] = m
         /\ \A k \in 1 .. Len(l) + 1 :
              k # i => InsertAt(l, i, m)[k] = l[IF k < i THEN k ELSE k - 1]
         /\ NamesOf(InsertAt(l, i, m)) \subseteq NamesOf(l) \cup {m.name}
<1> DEFINE r == InsertAt(l, i, m)
           f(k) == IF k < i THEN k ELSE k - 1
<1>0. l \in Seq(FileItem) /\ Len(l) \in Nat /\ Laid(l)
  BY LenProperties DEF GoodList
<1>1. /\ r \in Seq(FileItem) /\ Len(r) = Len(l) + 1 /\ r[i] = m
      /\ \A k \in 1 .. Len(l) + 1 : k # i => r[k] = l[f(k)]
  <2> DEFINE a == SubSeq(l, 1, i - 1)
             b == SubSeq(l, i, Len(l))
             c == <<m>>
  <2>1. (\A k \in 1 .. i - 1 : l[k] \in FileItem) /\ (\A k \in i .. Len(l) : l[k] \in FileItem)
    BY <1>0, ElementOfSeq
  <2>2. a \in Seq(FileItem) /\ Len(a) = i - 1 /\ \A k \in 1 .. i - 1 : a[k] = l[k]
    <3>1. /\ a \in Seq(FileItem) /\ Len(a) = IF 1 <= i - 1 THEN i - 1 - 1 + 1 ELSE 0
          /\ \A k \in 1 .. i - 1 - 1 + 1 : a[k] = l[1 + k - 1]
      BY <1>0, <2>1, SubSeqProperties
    <3> HIDE DEF a
    <3>2. QED
      BY <3>1
  <2>3. b \in Seq(FileItem) /\ Len(b) = Len(l) + 1 - i /\ \A k \in 1 .. Len(l) + 1 - i : b[k] = l[i + k - 1]
    <3>1. /\ b \in Seq(FileItem) /\ Len(b) = IF i <= Len(l) THEN Len(l) - i + 1 ELSE 0
          /\ \A k \in 1 .. Len(l) - i + 1 : b[k] = l[i + k - 1]
      BY <1>0, <2>1, SubSeqProperties
    <3>2. Len(l) - i + 1 = Len(l) + 1 - i /\ (~(i <= Len(l)) => Len(l) + 1 - i = 0)
      BY <1>0
    <3> HIDE DEF b
    <3>3. Len(b) = Len(l) + 1 - i
      BY <3>1, <3>2
    <3>4. QED
      BY <3>1, <3>2, <3>3
  <2>4. c \in Seq(FileItem) /\ Len(c) = 1 /\ c[1] = m
    OBVIOUS
  <2>5. r = (a \o c) \o b
    BY DEF InsertAt
  <2> HIDE DEF a, b, c, r
  <2>6. /\ a \o c \in Seq(FileItem) /\ Len(a \o c) = i
        /\ \A k \in 1 .. i : (a \o c)[k] = IF k <= Len(a) THEN a[k] ELSE c[k - Len(a)]
    <3>1. Len(a) + Len(c) = i
      BY <2>2, <2>4
    <3>2. QED
      BY <2>2, <2>4, <3>1, ConcatProperties
  <2>7. /\ r \in Seq(FileItem) /\ Len(r) = Len(l) + 1
        /\ \A k \in 1 .. Len(l) + 1 : r[k] = IF k <= i THEN (a \o c)[k] ELSE b[k - i]
    <3> DEFINE d == a \o c
    <3>1. d \in Seq(FileItem) /\ Len(d) = i /\ Len(d) + Len(b) = Len(l) + 1
      BY <1>0, <2>3, <2>6
    <3> HIDE DEF d
    <3>2. /\ d \o b \in Seq(FileItem) /\ Len(d \o b) = Len(d) + Len(b)
          /\ \A k \in 1 .. Len(d) + Len(b) :
               (d \o b)[k] = IF k <= Len(d) THEN d[k] ELSE b[k - Len(d)]
      BY <2>3, <3>1, ConcatProperties
    <3>3. r = d \o b
      BY <2>5 DEF d
    <3>4. QED
      BY <3>1, <3>2, <3>3 DEF d
  <2>8. r[i] = m
    <3>1. i \in 1 .. i /\ ~(i <= Len(a)) /\ i - Len(a) = 1 /\ i <= i
      BY <2>2
    <3>2. QED
      BY <1>0, <2>4, <2>6, <2>7, <3>1
  <2>9. ASSUME NEW k \in 1 .. Len(l) + 1, k # i PROVE r[k] = l[f(k)]
    <3>1. CASE k < i
      <4>1. k \in 1 .. i /\ k <= Len(a) /\ k \in 1 .. i - 1 /\ k <= i /\ f(k) = k
        BY <2>2, <3>1
      <4>2. r[k] = (a \o c)[k] /\ (a \o c)[k] = a[k] /\ a[k] = l[k]
        BY <2>2, <2>6, <2>7, <4>1
      <4>3. QED
        BY <4>1, <4>2
    <3>2. CASE i < k
      <4>1. ~(k <= i) /\ k - i \in 1 .. Len(l) + 1 - i /\ f(k) = k - 1 /\ i + (k - i) - 1 = k - 1
        BY <1>0, <3>2
      <4>2. r[k] = b[k - i] /\ b[k - i] = l[i + (k - i) - 1]
        BY <2>3, <2>7, <4>1
      <4>3. QED
        BY <4>1, <4>2
    <3>3. QED
      BY <2>9, <3>1, <3>2
  <2>10. QED
    BY <2>7, <2>8, <2>9
<1>2. \A k \in 1 .. Len(r) : k # i => f(k) \in 1 .. Len(l) /\ r[k] = l[f(k)]
  <2>1. \A k \in 1 .. Len(l) + 1 : k # i => f(k) \in 1 .. Len(l)
    BY <1>0
  <2> HIDE DEF r, f
  <2>2. QED
    BY <1>1, <2>1
<1> HIDE DEF r
<1>3. m.start \in Nat /\ m.size \in Nat /\ End(m) \in Nat /\ m.start < End(m) /\ m.name \in Names
  <2>1. m.start \in Nat /\ m.size \in Nat /\ m.name \in Names
    BY DEF FileItem
  <2>2. QED
    BY <2>1, EndIs
<1>4. /\ GapBegin(l, i) \in Nat /\ First <= GapBegin(l, i)
      /\ GapEnd(l, i) \in Nat /\ GapEnd(l, i) <= Total
  BY Gaps
<1>5. Laid(r)
  <2>1. ASSUME NEW k \in 1 .. Len(r)
        PROVE  /\ r[k].start >= First /\ r[k].size > 0 /\ End(r[k]) <= Total
               /\ r[k].start < Pri => End(r[k]) <= Pri
               /\ k < Len(r) => End(r[k]) <= r[k + 1].start
    <3>1. CASE k = i
      <4>1. r[k] = m /\ m.start >= First /\ End(m) <= Total
        BY <1>1, <1>3, <1>4, <3>1, FbAssumption
      <4>2. ASSUME k < Len(r) PROVE End(r[k]) <= r[k + 1].start
        <5>1. k + 1 \in 1 .. Len(r) /\ k + 1 # i /\ f(k + 1) = i /\ ~(i > Len(l))
          BY <1>0, <1>1, <3>1, <4>2
        <5>2. r[k + 1] = l[i] /\ GapEnd(l, i) = l[i].start
          BY <1>2, <5>1 DEF GapEnd
        <5>3. QED
          BY <4>1, <5>2
      <4>3. QED
        BY <4>1, <4>2
    <3>2. CASE k # i
      <4>1. f(k) \in 1 .. Len(l) /\ r[k] = l[f(k)]
        BY <1>2, <3>2
      <4>2. /\ r[k].start \in Nat /\ r[k].size \in Nat \ {0} /\ First <= r[k].start
            /\ End(r[k]) <= Total /\ (r[k].start < Pri => End(r[k]) <= Pri)
        BY <4>1, ItemIs
      <4>3. ASSUME k < Len(r), k + 1 = i PROVE End(r[k]) <= r[k + 1].start
        <5>1. r[k + 1] = m /\ f(k) = i - 1 /\ i # 1
          BY <1>1, <4>3
        <5>2. End(r[k]) = GapBegin(l, i)
          BY <4>1, <5>1 DEF GapBegin
        <5>3. QED
          BY <5>1, <5>2
      <4>4. ASSUME k < Len(r), k + 1 # i PROVE End(r[k]) <= r[k + 1].start
        <5>1. k + 1 \in 1 .. Len(r)
          BY <1>0, <1>1, <4>4
        <5>2. f(k + 1) \in 1 .. Len(l) /\ r[k + 1] = l[f(k + 1)]
          BY <1>2, <4>4, <5>1
        <5>3. f(k) < f(k + 1)
          BY <3>2, <4>4, <1>0, <1>1
        <5>4. QED
          BY <4>1, <5>2, <5>3, InOrder
      <4>5. QED
        BY <4>2, <4>3, <4>4, FbAssumption
    <3>3. QED
      BY <3>1, <3>2
  <2>2. ASSUME NEW k \in 1 .. Len(r), NEW j \in 1 .. Len(r), r[k].name = r[j].name
        PROVE  k = j
    <3>1. \A h \in 1 .. Len(r) : h # i => r[h].name # m.name
      BY <1>2 DEF Has
    <3>2. CASE k = i \/ j = i
      BY <1>1, <2>2, <3>1, <3>2
    <3>3. CASE k # i /\ j # i
      <4>1. l[f(k)].name = l[f(j)].name /\ f(k) \in 1 .. Len(l) /\ f(j) \in 1 .. Len(l)
        BY <1>2, <2>2, <3>3
      <4>2. f(k) = f(j)
        BY <1>0, <4>1 DEF Laid
      <4>3. QED
        BY <3>3, <4>2
    <3>4. QED
      BY <3>2, <3>3
  <2>3. Len(r) <= Capacity
    BY <1>0, <1>1, FbAssumption
  <2>4. QED
    BY <2>1, <2>2, <2>3 DEF Laid
<1>6. NamesOf(r) \subseteq NamesOf(l) \cup {m.name}
  <2>1. ASSUME NEW k \in 1 .. Len(r) PROVE r[k].name \in NamesOf(l) \cup {m.name}
    <3>1. k = i => r[k].name = m.name
      BY <1>1
    <3>2. k # i => r[k].name \in NamesOf(l)
      BY <1>2 DEF NamesOf
    <3>3. QED
      BY <3>1, <3>2
  <2>2. QED
    BY <2>1 DEF NamesOf
<1>7. QED
  BY <1>1, <1>5, <1>6 DEF GoodList, r

\* Where find_space puts a file: inside the gap and inside one area.
LEMMA SpaceIs ==
  ASSUME NEW l, GoodList(l), NEW i \in 1 .. Len(l) + 1, NEW size \in Nat \ {0},
         NEW ext \in BOOLEAN, SpaceIn(l, i, size, ext) # -1
  PROVE  LET s == SpaceIn(l, i, size, ext) IN
         /\ s \in Nat /\ GapBegin(l, i) <= s
         /\ s + Count(s, size) <= GapEnd(l, i)
         /\ s < Pri => s + Count(s, size) <= Pri
         /\ s = GapBegin(l, i) \/ s = Pri
<1> DEFINE begin == GapBegin(l, i)
           end == GapEnd(l, i)
           inPri == CeilDiv(size, PriBytes)
           inExt == CeilDiv(size, ExtBytes)
           before == \E j \in 1 .. i - 1 : Straddles(l, j)
           count == IF before THEN inExt ELSE inPri
           s == SpaceIn(l, i, size, ext)
<1>0. First \in Nat /\ Pri \in Nat /\ Total \in Nat
  BY FbAssumption
<1>1. begin \in Nat /\ end \in Nat
  BY Gaps
<1>2. inPri \in Nat \ {0} /\ inExt \in Nat \ {0} /\ inExt <= inPri
  <2>1. PriBytes \in Nat \ {0} /\ ExtBytes \in Nat \ {0} /\ PriBytes <= ExtBytes
    BY FbAssumption
  <2>2. QED
    BY <2>1, CeilingOfSome, CeilingShrinks
<1>3. s = IF ~Straddles(l, i)
            THEN IF (begin >= Pri \/ ~ext) /\ end - begin >= count THEN begin ELSE -1
          ELSE IF ~ext /\ Pri - begin >= inPri THEN begin
          ELSE IF end - Pri >= inExt THEN Pri
          ELSE -1
  BY DEF SpaceIn
<1>4. before => begin >= Pri
  <2>1. SUFFICES ASSUME NEW j \in 1 .. i - 1, Straddles(l, j) PROVE begin >= Pri
    OBVIOUS
  <2>2. GapEnd(l, j) > Pri /\ GapEnd(l, j) \in Nat /\ GapEnd(l, j) <= begin
    BY <2>1, Gaps DEF Straddles
  <2>3. QED
    BY <1>0, <1>1, <2>2
<1>5. Straddles(l, i) <=> begin < Pri /\ end > Pri
  BY DEF Straddles
<1>6. \A x : Count(x, size) = IF x >= Pri THEN inExt ELSE inPri
  BY DEF Count, Room
<1>7. s # -1
  OBVIOUS
<1> HIDE DEF begin, end, inPri, inExt, before, s
<1>8. CASE ~Straddles(l, i)
  <2>1. s = begin /\ end - begin >= count
    BY <1>3, <1>7, <1>8
  <2>2. CASE begin >= Pri
    <3>1. Count(s, size) = inExt /\ inExt <= count
      BY <1>2, <1>6, <2>1, <2>2
    <3>2. count \in Nat
      BY <1>2
    <3>3. s + Count(s, size) <= end
      <4> HIDE DEF count
      <4>1. QED
        BY <1>1, <1>2, <2>1, <3>1, <3>2
    <3>4. QED
      BY <1>0, <1>1, <2>1, <2>2, <3>3 DEF begin, end, s
  <2>3. CASE begin < Pri
    <3>1. ~before /\ end <= Pri
      BY <1>0, <1>1, <1>4, <1>5, <1>8, <2>3
    <3>2. Count(s, size) = inPri /\ count = inPri
      BY <1>0, <1>1, <1>6, <2>1, <2>3, <3>1
    <3>3. s + Count(s, size) <= end
      BY <1>1, <1>2, <2>1, <3>2
    <3>4. s + Count(s, size) <= Pri /\ s \in Nat
      BY <1>0, <1>1, <1>2, <2>1, <3>1, <3>2, <3>3
    <3>5. QED
      BY <1>1, <2>1, <3>3, <3>4 DEF begin, end, s
  <2>4. QED
    BY <1>0, <1>1, <2>2, <2>3
<1>9. CASE Straddles(l, i)
  <2>1. begin < Pri /\ end > Pri
    BY <1>5, <1>9
  <2>2. CASE ~ext /\ Pri - begin >= inPri
    <3>1. s = begin /\ Count(s, size) = inPri
      BY <1>0, <1>1, <1>3, <1>6, <1>9, <2>1, <2>2
    <3>2. s \in Nat /\ s + Count(s, size) <= Pri /\ s + Count(s, size) <= end
      BY <1>0, <1>1, <1>2, <2>1, <2>2, <3>1
    <3>3. QED
      BY <1>1, <3>1, <3>2 DEF begin, end, s
  <2>3. CASE ~(~ext /\ Pri - begin >= inPri)
    <3>1. s = Pri /\ end - Pri >= inExt
      BY <1>3, <1>7, <1>9, <2>3
    <3>2. Count(s, size) = inExt
      BY <1>0, <1>6, <3>1
    <3>3. s \in Nat /\ begin <= s /\ s + Count(s, size) <= end /\ ~(s < Pri)
      BY <1>0, <1>1, <1>2, <2>1, <3>1, <3>2
    <3>4. QED
      BY <3>1, <3>3 DEF begin, end, s
  <2>4. QED
    BY <2>2, <2>3
<1>10. QED
  BY <1>8, <1>9

(* The file lies at the beginning of a gap, or of the extended area, in the *)
(* list without the older file of its name.                                *)
InGap(l, name, m, r) ==
  LET rest == Without(l, name) IN
  /\ Len(rest) < Capacity
  /\ \E i \in 1 .. Len(rest) + 1 :
       /\ r = InsertAt(rest, i, m)
       /\ GapBegin(rest, i) <= m.start /\ End(m) <= GapEnd(rest, i)
       /\ m.start = GapBegin(rest, i) \/ m.start = Pri
       /\ m.start < Pri => End(m) <= Pri

\* What alloc_file makes of a list: it stays laid out, and has the file.
LEMMA AllocKeeps ==
  ASSUME NEW l, GoodList(l), NEW f, f.name \in Names, f.size \in Nat \ {0},
         f.ext \in BOOLEAN, Alloc(l, f) # <<>>
  PROVE  LET m == Find(Alloc(l, f), f.name) IN
         /\ GoodList(Alloc(l, f))
         /\ NamesOf(Alloc(l, f)) \subseteq NamesOf(l) \cup {f.name}
         /\ m.name = f.name /\ m.size = f.size
         /\ \E i \in 1 .. Len(Alloc(l, f)) : m = Alloc(l, f)[i]
         /\ InGap(l, f.name, m, Alloc(l, f))
<1> DEFINE rest == Without(l, f.name)
           fits == Fitting(rest, f.size, f.ext)
           i == Min(fits)
           m == [name |-> f.name, start |-> SpaceIn(rest, i, f.size, f.ext), size |-> f.size]
           r == InsertAt(rest, i, m)
<1>1. GoodList(rest) /\ ~Has(rest, f.name) /\ NamesOf(rest) \subseteq NamesOf(l)
  BY WithoutKeeps
<1>2. Alloc(l, f) = IF fits = {} \/ Len(rest) >= Capacity THEN <<>> ELSE r
  BY DEF Alloc
<1>3. fits # {} /\ ~(Len(rest) >= Capacity) /\ Alloc(l, f) = r
  BY <1>2
<1>4. Len(rest) \in Nat
  BY <1>1, LenProperties DEF GoodList
<1>5. Len(rest) < Capacity
  BY <1>3, <1>4, FbAssumption
<1>6. i \in fits
  <2>1. fits \in SUBSET Nat
    BY <1>4 DEF Fitting
  <2> HIDE DEF fits
  <2>2. QED
    BY <1>3, <2>1, MinIsLeast
<1>7. i \in 1 .. Len(rest) + 1 /\ SpaceIn(rest, i, f.size, f.ext) # -1
  BY <1>6 DEF Fitting
<1> HIDE DEF i, rest, fits
<1> DEFINE s == SpaceIn(rest, i, f.size, f.ext)
<1>8. /\ s \in Nat /\ GapBegin(rest, i) <= s
      /\ s + Count(s, f.size) <= GapEnd(rest, i)
      /\ s < Pri => s + Count(s, f.size) <= Pri
      /\ s = GapBegin(rest, i) \/ s = Pri
  BY <1>1, <1>7, SpaceIs
<1> HIDE DEF s
<1>9. m \in FileItem /\ m.name = f.name /\ m.start = s /\ m.size = f.size
  BY <1>8 DEF FileItem, s
<1> HIDE DEF m
<1>10. m.size > 0 /\ End(m) = s + Count(s, f.size)
  BY <1>9 DEF End
<1>11. GoodList(r) /\ Len(r) = Len(rest) + 1 /\ r[i] = m /\ NamesOf(r) \subseteq NamesOf(rest) \cup {m.name}
  BY <1>1, <1>5, <1>7, <1>8, <1>9, <1>10, InsertKeeps
<1> HIDE DEF r
<1>12. i \in 1 .. Len(r) /\ r[i].name = f.name
  BY <1>7, <1>9, <1>11
<1>13. Place(r, f.name) \in 1 .. Len(r) /\ r[Place(r, f.name)].name = f.name
  BY <1>12 DEF Place
<1>14. Place(r, f.name) = i
  BY <1>11, <1>12, <1>13 DEF GoodList, Laid
<1>15. Find(r, f.name) = m
  BY <1>11, <1>14 DEF Find
<1>16. NamesOf(r) \subseteq NamesOf(l) \cup {f.name}
  BY <1>1, <1>9, <1>11
<1>17. m = r[i]
  BY <1>11
<1>18. InGap(l, f.name, m, r)
  BY <1>5, <1>7, <1>8, <1>9, <1>10 DEF InGap, rest, r
<1>19. QED
  BY <1>3, <1>9, <1>11, <1>12, <1>15, <1>16, <1>17, <1>18

-----------------------------------------------------------------------------
(* Transfers.                                                              *)

LEMMA IsSequence ==
  ASSUME NEW T, NEW n \in Nat, NEW v \in [1 .. n -> T]
  PROVE  v \in Seq(T)
OBVIOUS

LEMMA OfItself ==
  ASSUME NEW S, NEW s \in Seq(S)
  PROVE  s \in Seq({s[i] : i \in DOMAIN s})
<1> DEFINE T == {s[i] : i \in DOMAIN s}
<1>1. Len(s) \in Nat /\ s \in [1 .. Len(s) -> S] /\ DOMAIN s = 1 .. Len(s)
  BY LenProperties
<1>2. s \in [1 .. Len(s) -> T]
  BY <1>1
<1> HIDE DEF T
<1>3. s \in Seq(T)
  BY <1>1, <1>2, IsSequence
<1>4. QED
  BY <1>3 DEF T

LEMMA BatchFrom ==
  ASSUME NEW A, NEW S, \A t \in S : t.to \in A /\ t.from \in Sectors, NEW b \in Seq(S),
         \A i, j \in 1 .. Len(b) : b[i].to = b[j].to => i = j
  PROVE  GoodBatch(b, A)
<1>1. b \in Seq({b[i] : i \in DOMAIN b})
  BY OfItself
<1>2. \A i \in 1 .. Len(b) : b[i] \in S
  BY ElementOfSeq
<1>3. QED
  BY <1>1, <1>2 DEF GoodBatch

LEMMA WorkFrom ==
  ASSUME NEW A, NEW B, \A b \in B : GoodBatch(b, A), NEW w \in Seq(B)
  PROVE  Into(w, A)
<1>1. w \in Seq({w[i] : i \in DOMAIN w})
  BY OfItself
<1>2. \A i \in 1 .. Len(w) : w[i] \in B
  BY ElementOfSeq
<1>3. QED
  BY <1>1, <1>2 DEF Into

LEMMA WorkIs ==
  ASSUME NEW A, NEW w, Into(w, A)
  PROVE  LET B == {w[i] : i \in DOMAIN w} IN w \in Seq(B) /\ \A b \in B : GoodBatch(b, A)
<1>1. w \in Seq({w[i] : i \in DOMAIN w}) /\ \A i \in 1 .. Len(w) : GoodBatch(w[i], A)
  BY DEF Into
<1>2. DOMAIN w = 1 .. Len(w)
  BY <1>1, LenProperties
<1>3. QED
  BY <1>1, <1>2

LEMMA NoWork == \A A : Into(<<>>, A)
<1>1. <<>> \in Seq({})
  BY EmptySeq
<1>2. QED
  BY <1>1, WorkFrom

LEMMA IntoMore ==
  ASSUME NEW A, NEW B, A \subseteq B, NEW w, Into(w, A)
  PROVE  Into(w, B)
BY DEF Into, GoodBatch

LEMMA WorkAfter ==
  ASSUME NEW A, NEW v, NEW w, Into(v, A), Into(w, A)
  PROVE  Into(v \o w, A)
<1> DEFINE S == {v[i] : i \in DOMAIN v}
           T == {w[i] : i \in DOMAIN w}
<1>1. v \in Seq(S) /\ w \in Seq(T) /\ (\A b \in S : GoodBatch(b, A)) /\ \A b \in T : GoodBatch(b, A)
  BY WorkIs
<1> HIDE DEF S, T
<1>2. v \in Seq(S \cup T) /\ w \in Seq(S \cup T)
  BY <1>1, SeqMonotonic
<1>3. v \o w \in Seq(S \cup T)
  BY <1>2, ConcatProperties
<1>4. QED
  BY <1>1, <1>3, WorkFrom

\* One transfer.
LEMMA OneTransfer ==
  ASSUME NEW A, NEW t, t.to \in A, t.from \in Sectors
  PROVE  GoodBatch(<<t>>, A)
<1> DEFINE b == <<t>>
<1>1. b \in Seq({t}) /\ Len(b) = 1
  OBVIOUS
<1>2. \A i, j \in 1 .. Len(b) : i = j
  <2> HIDE DEF b
  <2>1. QED
    BY <1>1
<1>3. \A u \in {t} : u.to \in A /\ u.from \in Sectors
  OBVIOUS
<1>4. GoodBatch(b, A)
  <2> HIDE DEF b
  <2>1. QED
    BY <1>1, <1>2, <1>3, BatchFrom
<1>5. QED
  BY <1>4

(* n transfers to sectors one after the other. *)
Flat(s, base, n) ==
  /\ s = [i \in 1 .. n |-> s[i]]
  /\ \A i \in 1 .. n : s[i].to = base + i - 1 /\ s[i].from \in Sectors

LEMMA FlatIs ==
  ASSUME NEW s, NEW base \in Nat, NEW n \in Nat, Flat(s, base, n)
  PROVE  /\ s \in Seq({s[i] : i \in 1 .. n}) /\ Len(s) = n
         /\ \A i, j \in 1 .. n : s[i].to = s[j].to => i = j
<1> DEFINE S == {s[i] : i \in 1 .. n}
<1>1. DOMAIN s = 1 .. n /\ s \in [1 .. n -> S]
  <2>1. s = [i \in 1 .. n |-> s[i]]
    BY DEF Flat
  <2>2. [i \in 1 .. n |-> s[i]] \in [1 .. n -> S]
    OBVIOUS
  <2> HIDE DEF S
  <2>3. QED
    BY <2>1, <2>2
<1> HIDE DEF S
<1>2. s \in Seq(S)
  BY <1>1, IsSequence
<1>3. Len(s) \in Nat /\ DOMAIN s = 1 .. Len(s)
  BY <1>2, LenProperties
<1>4. Len(s) = n
  BY <1>1, <1>3
<1>5. \A i, j \in 1 .. n : s[i].to = s[j].to => i = j
  BY DEF Flat
<1>6. QED
  BY <1>2, <1>4, <1>5 DEF S

\* The batches that a list of transfers is cut into.
LEMMA BatchIs ==
  ASSUME NEW S, NEW s \in Seq(S), NEW i \in 1 .. CeilDiv(Len(s), Chunk)
  PROVE  LET a == (i - 1) * Chunk
             z == Min({i * Chunk, Len(s)})
             b == Batches(s)[i]
         IN /\ a \in Nat /\ z \in Nat /\ a < z /\ z <= Len(s) /\ z <= i * Chunk
            /\ z = i * Chunk \/ z = Len(s)
            /\ b \in Seq(S) /\ Len(b) = z - a /\ \A j \in 1 .. z - a : b[j] = s[a + j]
<1> DEFINE n == CeilDiv(Len(s), Chunk)
           a == (i - 1) * Chunk
           z == Min({i * Chunk, Len(s)})
           b == Batches(s)[i]
<1>1. Len(s) \in Nat /\ Chunk \in Nat \ {0}
  BY LenProperties, FbAssumption
<1>2. n \in Nat /\ n * Chunk < Len(s) + Chunk
  BY <1>1, Ceiling
<1>3. i - 1 \in Nat /\ i \in Nat /\ n - 1 \in Nat /\ i - 1 <= n - 1
  BY <1>2
<1>4. (i - 1) * Chunk \in Nat /\ i * Chunk \in Nat /\ i * Chunk = (i - 1) * Chunk + Chunk
  BY <1>1, <1>3
<1>5. a \in Nat /\ a < Len(s) /\ a < i * Chunk
  <2>1. (i - 1) * Chunk <= (n - 1) * Chunk
    BY <1>1, <1>3, Times
  <2> HIDE DEF n
  <2>2. (n - 1) * Chunk = n * Chunk - Chunk /\ n * Chunk \in Nat /\ (n - 1) * Chunk \in Nat
    BY <1>1, <1>2, <1>3
  <2>3. (i - 1) * Chunk < Len(s)
    BY <1>1, <1>2, <1>4, <2>1, <2>2
  <2>4. QED
    BY <1>1, <1>4, <2>3
<1>6. z \in Nat /\ z <= Len(s) /\ z <= i * Chunk /\ (z = i * Chunk \/ z = Len(s))
  <2>1. {i * Chunk, Len(s)} \in SUBSET Nat /\ {i * Chunk, Len(s)} # {}
    BY <1>1, <1>4
  <2>2. z \in {i * Chunk, Len(s)} /\ \A x \in {i * Chunk, Len(s)} : z <= x
    BY <2>1, MinIsLeast
  <2> HIDE DEF z
  <2>3. QED
    BY <1>1, <1>4, <2>2
<1>7. b = SubSeq(s, a + 1, z)
  BY DEF Batches
<1> HIDE DEF a, z, n, b
<1>8. a < z
  BY <1>1, <1>4, <1>5, <1>6
<1>9. \A j \in a + 1 .. z : s[j] \in S
  <2>1. \A j \in a + 1 .. z : j \in 1 .. Len(s)
    BY <1>1, <1>5, <1>6
  <2>2. QED
    BY <2>1, ElementOfSeq
<1>10. /\ b \in Seq(S) /\ Len(b) = IF a + 1 <= z THEN z - (a + 1) + 1 ELSE 0
       /\ \A j \in 1 .. z - (a + 1) + 1 : b[j] = s[a + 1 + j - 1]
  <2>1. a + 1 \in Int /\ z \in Int
    BY <1>5, <1>6
  <2>2. QED
    BY <1>7, <1>9, <2>1, SubSeqProperties
<1>11. Len(b) = z - a
  BY <1>5, <1>6, <1>8, <1>10
<1>12. \A j \in 1 .. z - a : b[j] = s[a + j]
  <2>1. ASSUME NEW j \in 1 .. z - a PROVE b[j] = s[a + j]
    <3>1. j \in 1 .. z - (a + 1) + 1 /\ a + 1 + j - 1 = a + j
      BY <1>5, <1>6
    <3>2. QED
      BY <1>10, <3>1
  <2>2. QED
    BY <2>1
<1>13. b \in Seq(S)
  BY <1>10
<1>14. QED
  BY <1>5, <1>6, <1>8, <1>11, <1>12, <1>13 DEF a, z, b

LEMMA BatchesGood ==
  ASSUME NEW s, NEW base \in Nat, NEW n \in Nat, Flat(s, base, n)
  PROVE  Into(Batches(s), base .. base + n - 1)
<1> DEFINE S == {s[i] : i \in 1 .. n}
           c == CeilDiv(Len(s), Chunk)
           A == base .. base + n - 1
           w == Batches(s)
           B == {w[i] : i \in 1 .. c}
<1>1. s \in Seq(S) /\ Len(s) = n /\ \A i, j \in 1 .. n : s[i].to = s[j].to => i = j
  BY FlatIs
<1>2. \A t \in S : t.to \in A /\ t.from \in Sectors
  BY DEF Flat
<1>3. c \in Nat
  BY <1>1, Ceiling, FbAssumption
<1> HIDE DEF S, A
<1>4. ASSUME NEW i \in 1 .. c PROVE GoodBatch(w[i], A)
  <2> DEFINE a == (i - 1) * Chunk
             z == Min({i * Chunk, Len(s)})
             b == w[i]
  <2>1. /\ a \in Nat /\ z \in Nat /\ a < z /\ z <= Len(s)
        /\ b \in Seq(S) /\ Len(b) = z - a /\ \A j \in 1 .. z - a : b[j] = s[a + j]
    <3>1. s \in Seq(S) /\ i \in 1 .. CeilDiv(Len(s), Chunk)
      BY <1>1
    <3>2. QED
      BY <3>1, BatchIs
  <2> HIDE DEF a, z, b
  <2>2. ASSUME NEW j \in 1 .. Len(b), NEW k \in 1 .. Len(b), b[j].to = b[k].to PROVE j = k
    <3>1. a + j \in 1 .. n /\ a + k \in 1 .. n /\ b[j] = s[a + j] /\ b[k] = s[a + k]
      BY <1>1, <2>1
    <3>2. a + j = a + k
      BY <1>1, <2>2, <3>1
    <3>3. QED
      BY <2>1, <3>2
  <2>3. GoodBatch(b, A)
    BY <1>2, <2>1, <2>2, BatchFrom
  <2>4. QED
    BY <2>3 DEF b
<1>5. w \in [1 .. c -> B] /\ \A b \in B : GoodBatch(b, A)
  <2>1. w = [i \in 1 .. c |-> SubSeq(s, (i - 1) * Chunk + 1, Min({i * Chunk, Len(s)}))]
    BY DEF Batches
  <2> HIDE DEF w, c
  <2>2. QED
    BY <1>4, <2>1
<1> HIDE DEF w, c, B
<1>6. w \in Seq(B)
  BY <1>3, <1>5, IsSequence
<1>7. QED
  BY <1>5, <1>6, WorkFrom DEF w, A

SectorsIn(base, n) == base .. base + n - 1

LEMMA InTheArea ==
  ASSUME NEW base \in Nat, NEW n \in Nat, First <= base, base + n <= Total
  PROVE  SectorsIn(base, n) \subseteq Sectors
BY FbAssumption DEF SectorsIn, Sectors

\* copy_disk stays inside the area when both places do.
CopyOf(to, from, n) ==
  [i \in 1 .. n |-> [to |-> to + i - 1, from |-> from + i - 1, keep |-> Room(to), over |-> Blank(Fill)]]

LEMMA CopyFlat ==
  ASSUME NEW to \in Nat, NEW from \in Nat, NEW n \in Nat, First <= from, from + n <= Total
  PROVE  Flat(CopyOf(to, from, n), to, n) /\ Copied(to, from, n) = Batches(CopyOf(to, from, n))
<1> DEFINE t(i) == [to |-> to + i - 1, from |-> from + i - 1, keep |-> Room(to), over |-> Blank(Fill)]
           s == CopyOf(to, from, n)
<1>1. s = [i \in 1 .. n |-> t(i)]
  BY DEF CopyOf
<1>2. \A i \in 1 .. n : t(i).to = to + i - 1 /\ t(i).from \in Sectors
  <2>1. \A i \in 1 .. n : from + i - 1 \in Sectors
    BY FbAssumption DEF Sectors
  <2>2. QED
    BY <2>1
<1> HIDE DEF t, s
<1>3. \A i \in 1 .. n : s[i] = t(i)
  BY <1>1
<1>4. s = [i \in 1 .. n |-> s[i]]
  BY <1>1
<1>5. Flat(s, to, n)
  BY <1>2, <1>3, <1>4 DEF Flat
<1>6. QED
  BY <1>5 DEF s, Copied, CopyOf

LEMMA CopiedGood ==
  ASSUME NEW to \in Nat, NEW from \in Nat, NEW n \in Nat,
         First <= to, First <= from, to + n <= Total, from + n <= Total
  PROVE  Into(Copied(to, from, n), SectorsIn(to, n))
BY CopyFlat, BatchesGood DEF SectorsIn

SectorsOf(m) == m.start .. End(m) - 1

\* The sectors of a file.
LEMMA FileSectors ==
  ASSUME NEW m \in FileItem, First <= m.start, End(m) <= Total
  PROVE  /\ SectorsOf(m) = SectorsIn(m.start, Count(m.start, m.size))
         /\ SectorsOf(m) \subseteq Sectors
         /\ m.start \in Nat /\ Count(m.start, m.size) \in Nat
         /\ m.start + Count(m.start, m.size) = End(m)
<1>1. /\ m.start \in Nat /\ Count(m.start, m.size) \in Nat
      /\ End(m) = m.start + Count(m.start, m.size)
  BY EndIs DEF FileItem
<1>2. QED
  BY <1>1, InTheArea DEF SectorsOf, SectorsIn

SaveOf(m, bytes) ==
  LET n == Room(m.start) IN
  [i \in 1 .. Count(m.start, m.size) |->
     [to |-> m.start + i - 1, from |-> m.start + i - 1, keep |-> 0,
      over |-> [k \in 1 .. ExtBytes |->
                  IF k <= n /\ (i - 1) * n + k <= m.size THEN bytes[(i - 1) * n + k]
                  ELSE Left]]]

LEMMA SaveFlat ==
  ASSUME NEW m \in FileItem, First <= m.start, End(m) <= Total, NEW bytes
  PROVE  /\ Flat(SaveOf(m, bytes), m.start, Count(m.start, m.size))
         /\ Saved(m, bytes) = Batches(SaveOf(m, bytes))
<1> DEFINE n == Room(m.start)
           over(i) == [k \in 1 .. ExtBytes |->
                         IF k <= n /\ (i - 1) * n + k <= m.size THEN bytes[(i - 1) * n + k]
                         ELSE Left]
           t(i) == [to |-> m.start + i - 1, from |-> m.start + i - 1, keep |-> 0, over |-> over(i)]
           c == Count(m.start, m.size)
           s == SaveOf(m, bytes)
<1>1. s = [i \in 1 .. c |-> t(i)]
  BY DEF SaveOf
<1>2. \A i \in 1 .. c : t(i).to = m.start + i - 1 /\ t(i).from \in Sectors
  <2> HIDE DEF over
  <2>1. \A i \in 1 .. c : t(i).to = m.start + i - 1 /\ t(i).from = m.start + i - 1
    OBVIOUS
  <2>2. m.start \in Nat /\ c \in Nat /\ m.start + c <= Total
    BY FileSectors
  <2> HIDE DEF t, c
  <2>3. \A i \in 1 .. c : m.start + i - 1 \in Sectors
    BY <2>2, FbAssumption DEF Sectors
  <2>4. QED
    BY <2>1, <2>3
<1> HIDE DEF t, s, c
<1>3. \A i \in 1 .. c : s[i] = t(i)
  BY <1>1
<1>4. s = [i \in 1 .. c |-> s[i]]
  BY <1>1
<1>5. Flat(s, m.start, c)
  BY <1>2, <1>3, <1>4 DEF Flat
<1>6. Saved(m, bytes) = Batches(s)
  BY DEF Saved, SaveOf, s
<1>7. QED
  BY <1>5, <1>6 DEF s, c

LEMMA SavedGood ==
  ASSUME NEW m \in FileItem, First <= m.start, End(m) <= Total, NEW bytes
  PROVE  Into(Saved(m, bytes), SectorsOf(m))
BY SaveFlat, FileSectors, BatchesGood DEF SectorsIn

LEMMA SavedBuffGood ==
  ASSUME NEW m \in FileItem, First <= m.start, End(m) <= Total, NEW bytes
  PROVE  Into(SavedBuff(m, bytes), SectorsOf(m))
<1> DEFINE over == [k \in 1 .. ExtBytes |-> IF k <= Len(bytes) THEN bytes[k] ELSE Left]
           t(i) == [to |-> m.start + i - 1, from |-> m.start, keep |-> 0, over |-> over]
           c == Count(m.start, m.size)
           B == {<<t(i)>> : i \in 1 .. c}
           s == [i \in 1 .. c |-> <<t(i)>>]
<1>1. CASE m.start >= Pri
  <2>1. SavedBuff(m, bytes) = Saved(m, bytes)
    BY <1>1 DEF SavedBuff
  <2>2. QED
    BY <2>1, SavedGood
<1>2. CASE ~(m.start >= Pri)
  <2>1. SavedBuff(m, bytes) = s
    BY <1>2 DEF SavedBuff
  <2>2. \A i \in 1 .. c : t(i).to \in SectorsOf(m) /\ t(i).from \in Sectors
    <3> HIDE DEF over
    <3>1. \A i \in 1 .. c : t(i).to = m.start + i - 1 /\ t(i).from = m.start
      OBVIOUS
    <3>2. /\ SectorsOf(m) = SectorsIn(m.start, c) /\ SectorsOf(m) \subseteq Sectors
          /\ m.start \in Nat /\ c \in Nat
      BY FileSectors
    <3> HIDE DEF t, c
    <3>3. \A i \in 1 .. c : m.start + i - 1 \in SectorsIn(m.start, c) /\ m.start \in SectorsIn(m.start, c)
      BY <3>2 DEF SectorsIn
    <3>4. QED
      BY <3>1, <3>2, <3>3
  <2>3. c \in Nat
    BY FileSectors
  <2> HIDE DEF t, c
  <2>4. \A i \in 1 .. c : GoodBatch(<<t(i)>>, SectorsOf(m))
    BY <2>2, OneTransfer
  <2>5. \A b \in B : GoodBatch(b, SectorsOf(m))
    BY <2>4
  <2>6. s \in [1 .. c -> B]
    OBVIOUS
  <2> HIDE DEF s, B
  <2>7. s \in Seq(B)
    BY <2>3, <2>6, IsSequence
  <2>8. QED
    BY <2>1, <2>5, <2>7, WorkFrom
<1>3. QED
  BY <1>1, <1>2

(* The parts of what is copied and filled when a file goes on an older     *)
(* one's bytes: the sectors that are full, the rest of the bytes, the rest *)
(* of the sectors.                                                         *)
Whole(m, old) == old.size \div Room(m.start)
Kept(m, old) == old.size % Room(m.start)
At(m, old) == m.start + Whole(m, old)
Beyond(m, old) == IF Kept(m, old) = 0 THEN At(m, old) ELSE At(m, old) + 1
PartCopied(m, old) ==
  IF m.start = old.start THEN <<>> ELSE Copied(m.start, old.start, Whole(m, old))
Piece(m, old) ==
  [to |-> At(m, old), from |-> old.start + Whole(m, old), keep |-> Kept(m, old), over |-> Blank(Fill)]
PartKept(m, old) == IF Kept(m, old) = 0 THEN <<>> ELSE << <<Piece(m, old)>> >>
FillOf(m, old) ==
  [i \in 1 .. End(m) - Beyond(m, old) |->
     [to |-> Beyond(m, old) + i - 1, from |-> m.start, keep |-> 0, over |-> Blank(Fill)]]

LEMMA GrownIs ==
  \A m, old : Grown(m, old) = (PartCopied(m, old) \o PartKept(m, old)) \o Batches(FillOf(m, old))
BY DEF Grown, Whole, Kept, At, Beyond, PartCopied, Piece, PartKept, FillOf

Growing(m, old) ==
  /\ m \in FileItem /\ First <= m.start /\ End(m) <= Total /\ m.size > 0
  /\ old.start \in Nat /\ First <= old.start /\ old.size \in Nat
  /\ old.size <= m.size /\ Room(m.start) = Room(old.start)
  /\ old.start + Count(old.start, old.size) <= Total

LEMMA GrowingIs ==
  ASSUME NEW m, NEW old, Growing(m, old)
  PROVE  /\ m.start \in Nat /\ m.size \in Nat /\ Room(m.start) \in Nat \ {0}
         /\ End(m) \in Nat /\ End(m) = m.start + Count(m.start, m.size)
         /\ Whole(m, old) \in Nat /\ Kept(m, old) \in 0 .. Room(m.start) - 1
         /\ old.size = Whole(m, old) * Room(m.start) + Kept(m, old)
         /\ At(m, old) \in Nat /\ At(m, old) = m.start + Whole(m, old) /\ At(m, old) <= End(m)
         /\ Kept(m, old) # 0 => At(m, old) < End(m) /\ old.start + Whole(m, old) < Total
         /\ old.start + Whole(m, old) <= Total
         /\ Beyond(m, old) \in Nat /\ m.start <= Beyond(m, old) /\ Beyond(m, old) <= End(m)
         /\ old.start + Whole(m, old) <= old.start + Count(old.start, old.size)
         /\ Kept(m, old) # 0 => old.start + Whole(m, old) < old.start + Count(old.start, old.size)
         /\ Count(old.start, old.size) \in Nat
<1> DEFINE n == Room(m.start)
           whole == old.size \div n
           kept == old.size % n
           c == Count(m.start, m.size)
           o == Count(old.start, old.size)
<1>0. /\ m \in FileItem /\ old.start \in Nat /\ old.size \in Nat
      /\ old.size <= m.size /\ n = Room(old.start) /\ old.start + o <= Total
      /\ End(m) <= Total
  BY DEF Growing
<1>1. /\ m.start \in Nat /\ m.size \in Nat /\ n \in Nat \ {0}
      /\ c \in Nat /\ End(m) \in Nat /\ End(m) = m.start + c
  BY <1>0, RoomIs, EndIs DEF FileItem
<1>2. /\ whole \in Nat /\ kept \in Nat /\ o \in Nat
      /\ whole <= o /\ (kept # 0 => whole < o)
  BY <1>0, <1>1, Ceiling, CeilingWhole DEF Count
<1>3. o <= c
  BY <1>0, <1>1, CeilingGrows DEF Count
<1>4. kept \in 0 .. n - 1 /\ old.size = whole * n + kept
  BY <1>0, <1>1, Division
<1>5. Whole(m, old) = whole /\ Kept(m, old) = kept
  BY DEF Whole, Kept
<1>6. First \in Nat /\ Total \in Nat
  BY FbAssumption
<1> HIDE DEF whole, kept, c, n, o
<1>7. At(m, old) = m.start + whole /\ At(m, old) \in Nat
  BY <1>1, <1>2, <1>5 DEF At
<1>8. /\ At(m, old) <= End(m) /\ (kept # 0 => At(m, old) < End(m) /\ old.start + whole < Total)
      /\ old.start + whole <= Total
  BY <1>0, <1>1, <1>2, <1>3, <1>6, <1>7
<1>9. Beyond(m, old) \in Nat /\ m.start <= Beyond(m, old) /\ Beyond(m, old) <= End(m)
  BY <1>1, <1>2, <1>5, <1>7, <1>8 DEF Beyond
<1>10. old.start + whole <= old.start + o /\ (kept # 0 => old.start + whole < old.start + o)
  BY <1>0, <1>2
<1>11. QED
  BY <1>1, <1>2, <1>4, <1>5, <1>7, <1>8, <1>9, <1>10 DEF c, n, o

LEMMA FillFlat ==
  ASSUME NEW m, NEW old, Growing(m, old)
  PROVE  Flat(FillOf(m, old), Beyond(m, old), End(m) - Beyond(m, old))
<1> DEFINE r == Beyond(m, old)
           n == End(m) - r
           t(i) == [to |-> r + i - 1, from |-> m.start, keep |-> 0, over |-> Blank(Fill)]
           s == FillOf(m, old)
<1>1. s = [i \in 1 .. n |-> t(i)]
  BY DEF FillOf
<1>2. \A i \in 1 .. n : t(i).to = r + i - 1 /\ t(i).from = m.start
  OBVIOUS
<1>3. m.start \in Sectors
  <2>1. m \in FileItem /\ m.size > 0 /\ First <= m.start /\ End(m) <= Total
    BY DEF Growing
  <2>2. Count(m.start, m.size) > 0
    BY <2>1, EndIs
  <2>3. QED
    BY <2>1, <2>2, GrowingIs, FileSectors, FbAssumption DEF Sectors
<1> HIDE DEF t, s, n, r
<1>4. \A i \in 1 .. n : s[i] = t(i)
  BY <1>1
<1>5. s = [i \in 1 .. n |-> s[i]]
  BY <1>1
<1>6. Flat(s, r, n)
  BY <1>2, <1>3, <1>4, <1>5 DEF Flat
<1>7. QED
  BY <1>6 DEF s, n, r

LEMMA PieceIs ==
  ASSUME NEW m, NEW old, Growing(m, old), Kept(m, old) # 0
  PROVE  Piece(m, old).to \in SectorsOf(m) /\ Piece(m, old).from \in Sectors
<1>1. Piece(m, old).to = At(m, old) /\ Piece(m, old).from = old.start + Whole(m, old)
  BY DEF Piece
<1>2. At(m, old) \in SectorsOf(m)
  BY GrowingIs DEF SectorsOf
<1>3. old.start + Whole(m, old) \in Sectors
  BY GrowingIs, FbAssumption DEF Sectors, Growing
<1>4. QED
  BY <1>1, <1>2, <1>3

\* Each part stays in its sectors of the file.
LEMMA PartsGood ==
  ASSUME NEW m, NEW old, Growing(m, old)
  PROVE  /\ Into(PartCopied(m, old), SectorsIn(m.start, Whole(m, old)))
         /\ SectorsIn(m.start, Whole(m, old)) \subseteq SectorsOf(m)
         /\ Into(PartKept(m, old), {At(m, old)} \cap SectorsOf(m))
         /\ Into(Batches(FillOf(m, old)), SectorsIn(Beyond(m, old), End(m) - Beyond(m, old)))
         /\ SectorsIn(Beyond(m, old), End(m) - Beyond(m, old)) \subseteq SectorsOf(m)
<1>1. Into(PartCopied(m, old), SectorsIn(m.start, Whole(m, old)))
  <2>1. Into(Copied(m.start, old.start, Whole(m, old)), SectorsIn(m.start, Whole(m, old)))
    BY GrowingIs, CopiedGood, FbAssumption DEF Growing
  <2>2. QED
    BY <2>1, NoWork DEF PartCopied
<1>2. SectorsIn(m.start, Whole(m, old)) \subseteq SectorsOf(m)
  BY GrowingIs DEF SectorsIn, SectorsOf
<1>3. Into(PartKept(m, old), {At(m, old)} \cap SectorsOf(m))
  <2>1. CASE Kept(m, old) = 0
    BY <2>1, NoWork DEF PartKept
  <2>2. CASE Kept(m, old) # 0
    <3> DEFINE b == <<Piece(m, old)>>
    <3>1. Piece(m, old).to \in {At(m, old)} \cap SectorsOf(m)
      BY <2>2, PieceIs DEF Piece
    <3>2. GoodBatch(b, {At(m, old)} \cap SectorsOf(m))
      BY <2>2, <3>1, PieceIs, OneTransfer
    <3> HIDE DEF b
    <3>3. <<b>> \in Seq({b})
      OBVIOUS
    <3>4. Into(<<b>>, {At(m, old)} \cap SectorsOf(m))
      BY <3>2, <3>3, WorkFrom
    <3>5. QED
      BY <2>2, <3>4 DEF PartKept, b
  <2>3. QED
    BY <2>1, <2>2
<1>4. Into(Batches(FillOf(m, old)), SectorsIn(Beyond(m, old), End(m) - Beyond(m, old)))
  <2> DEFINE r == Beyond(m, old)
             n == End(m) - r
  <2>1. r \in Nat /\ n \in Nat
    BY GrowingIs
  <2>2. Flat(FillOf(m, old), r, n)
    BY FillFlat
  <2> HIDE DEF n, r
  <2>3. Into(Batches(FillOf(m, old)), r .. r + n - 1)
    BY <2>1, <2>2, BatchesGood
  <2>4. QED
    BY <2>3 DEF SectorsIn, n, r
<1>5. SectorsIn(Beyond(m, old), End(m) - Beyond(m, old)) \subseteq SectorsOf(m)
  BY GrowingIs DEF SectorsIn, SectorsOf
<1>6. QED
  BY <1>1, <1>2, <1>3, <1>4, <1>5

LEMMA GrownGood ==
  ASSUME NEW m, NEW old, Growing(m, old)
  PROVE  Into(Grown(m, old), SectorsOf(m))
<1> DEFINE first == PartCopied(m, old)
           second == PartKept(m, old)
           third == Batches(FillOf(m, old))
<1>1. Into(first, SectorsOf(m)) /\ Into(second, SectorsOf(m)) /\ Into(third, SectorsOf(m))
  <2> DEFINE A == SectorsIn(m.start, Whole(m, old))
             B == {At(m, old)} \cap SectorsOf(m)
             C == SectorsIn(Beyond(m, old), End(m) - Beyond(m, old))
  <2>1. B \subseteq SectorsOf(m)
    OBVIOUS
  <2>2. Into(first, A) /\ A \subseteq SectorsOf(m)
    BY PartsGood
  <2>3. Into(second, B)
    BY PartsGood
  <2>4. Into(third, C) /\ C \subseteq SectorsOf(m)
    BY PartsGood
  <2> HIDE DEF A, B, C, first, second, third
  <2>5. QED
    BY <2>1, <2>2, <2>3, <2>4, IntoMore
<1> HIDE DEF first, second, third
<1>2. QED
  BY <1>1, WorkAfter, GrownIs DEF first, second, third

-----------------------------------------------------------------------------
(* Folds.  FoldLeft is a function on sets of positions, which is first     *)
(* shown to exist; then it goes from left to right.  The folds of the model *)
(* are taken together.                                                     *)

Nowhere == [at |-> First, list |-> <<>>, moves |-> <<>>]
Unloaded == [ok |-> TRUE, list |-> hdr, moves |-> <<>>, plan |-> truth]

(* An operation and what it begins with. *)
Base(op) == op[2]
Step(op, acc, m) ==
  IF op[1] = "pack" THEN PackOne(acc, m)
  ELSE IF op[1] = "load" THEN LoadOne(acc, m)
  ELSE Moved(acc, m)
Next1(op, f, s, t) == IF t = {} THEN Base(op) ELSE Step(op, f[t \ {Max(t)}], s[Max(t)])
Iter(op, f, D, s) == f = [t \in D |-> Next1(op, f, s, t)]

\* The fold over the positions up to n is defined.
LEMMA IterExists ==
  ASSUME NEW op, NEW s, NEW len \in Nat
  PROVE  \E f : Iter(op, f, SUBSET (1 .. len), s)
<1> DEFINE Small(n) == {t \in SUBSET (1 .. len) : \A i \in t : i <= n}
           Good(n) == \E f : Iter(op, f, Small(n), s)
           Bad == {n \in 0 .. len : ~Good(n)}
<1>1. Good(0)
  <2> DEFINE f == [t \in Small(0) |-> Base(op)]
  <2>1. Small(0) = {{}}
    OBVIOUS
  <2>2. Iter(op, f, Small(0), s)
    BY <2>1 DEF Iter, Next1
  <2>3. QED
    BY <2>2
<1>2. ASSUME NEW n \in Nat, Good(n) PROVE Good(n + 1)
  <2>1. PICK f : Iter(op, f, Small(n), s)
    BY <1>2
  <2> DEFINE h == [t \in Small(n + 1) |-> Next1(op, f, s, t)]
  <2>2. ASSUME NEW t \in Small(n + 1), t # {}
        PROVE  t \ {Max(t)} \in Small(n)
    <3>1. PICK m \in t : \A i \in t : i <= m
      <4> DEFINE Rest == {len - i : i \in t}
      <4>1. \A i \in t : i \in 1 .. len
        OBVIOUS
      <4>2. Rest \in SUBSET Nat
        BY <4>1
      <4>3. Rest # {}
        BY <2>2
      <4>4. PICK k \in Rest : \A j \in Rest : k <= j
        <5> HIDE DEF Rest
        <5>1. QED
          BY <4>2, <4>3, Least
      <4>5. PICK m \in t : k = len - m
        BY <4>4
      <4>6. \A i \in t : len - m <= len - i
        BY <4>4, <4>5
      <4>7. QED
        BY <4>1, <4>6
    <3>2. Max(t) = m
      BY <3>1, MaxIs
    <3>3. \A i \in t \ {m} : i <= n
      BY <3>1
    <3>4. QED
      BY <3>2, <3>3
  <2>3. \A t \in Small(n) : f[t] = Next1(op, f, s, t)
    BY <2>1 DEF Iter
  <2>4. \A t \in Small(n) : t \in Small(n + 1) /\ h[t] = f[t]
    <3>1. \A t \in Small(n) : t \in Small(n + 1)
      OBVIOUS
    <3>2. QED
      BY <2>3, <3>1
  <2>5. ASSUME NEW t \in Small(n + 1) PROVE Next1(op, f, s, t) = Next1(op, h, s, t)
    <3> HIDE DEF h, Small
    <3>1. CASE t = {}
      BY <3>1 DEF Next1
    <3>2. CASE t # {}
      <4>1. h[t \ {Max(t)}] = f[t \ {Max(t)}]
        BY <2>2, <2>4, <3>2
      <4>2. QED
        BY <4>1 DEF Next1
    <3>3. QED
      BY <3>1, <3>2
  <2>6. h = [t \in Small(n + 1) |-> Next1(op, h, s, t)]
    <3> HIDE DEF Small
    <3>1. QED
      BY <2>5
  <2>7. QED
    BY <2>6 DEF Iter
<1>3. Good(len)
  <2> HIDE DEF Good
  <2>1. SUFFICES ASSUME Bad # {} PROVE FALSE
    OBVIOUS
  <2>2. PICK n \in Bad : \A k \in Bad : n <= k
    <3>1. Bad \in SUBSET Nat
      OBVIOUS
    <3> HIDE DEF Bad
    <3>2. QED
      BY <2>1, <3>1, Least
  <2>3. n # 0 /\ n \in 0 .. len /\ ~Good(n)
    BY <1>1, <2>2
  <2>4. n - 1 \in Nat /\ n - 1 \notin Bad
    BY <2>2, <2>3
  <2>5. Good(n - 1)
    BY <2>3, <2>4
  <2>6. Good((n - 1) + 1)
    BY <1>2, <2>4, <2>5
  <2>7. QED
    BY <2>3, <2>6
<1>4. Small(len) = SUBSET (1 .. len)
  OBVIOUS
<1>5. QED
  BY <1>3, <1>4

\* The result, element by element.
Result(op, s) == (CHOOSE f : Iter(op, f, SUBSET DOMAIN s, s))[DOMAIN s]

(* A fold over len elements, with what it has made of the first k of them. *)
Steps(op, s, len) ==
  \E acc : /\ acc[0] = Base(op)
           /\ \A k \in 1 .. len : acc[k] = Step(op, acc[k - 1], s[k])
           /\ Result(op, s) = acc[len]

\* A fold goes over its sequence from the first element to the last.
LEMMA FoldGoesOn ==
  ASSUME NEW op, NEW s, NEW len \in Nat, DOMAIN s = 1 .. len
  PROVE  Steps(op, s, len)
<1> DEFINE f == CHOOSE f : Iter(op, f, SUBSET (1 .. len), s)
           acc == [k \in 0 .. len |-> f[1 .. k]]
<1>1. Iter(op, f, SUBSET (1 .. len), s)
  BY IterExists
<1>2. \A t \in SUBSET (1 .. len) : f[t] = Next1(op, f, s, t)
  <2> HIDE DEF f
  <2>1. QED
    BY <1>1 DEF Iter
<1>3. acc[0] = Base(op)
  <2> HIDE DEF f
  <2>1. 1 .. 0 = {} /\ {} \in SUBSET (1 .. len)
    OBVIOUS
  <2>2. f[{}] = Base(op)
    BY <1>2, <2>1 DEF Next1
  <2>3. QED
    BY <2>1, <2>2
<1>4. ASSUME NEW k \in 1 .. len PROVE acc[k] = Step(op, acc[k - 1], s[k])
  <2> HIDE DEF f
  <2>1. 1 .. k \in SUBSET (1 .. len) /\ k \in 1 .. k
    <3>1. \A i \in 1 .. k : i \in 1 .. len
      OBVIOUS
    <3>2. QED
      BY <3>1
  <2>2. Max(1 .. k) = k
    <3>1. 1 .. k \in SUBSET Int /\ \A i \in 1 .. k : i <= k
      OBVIOUS
    <3> HIDE DEF acc
    <3>2. QED
      BY <2>1, <3>1, MaxIs
  <2>3. (1 .. k) \ {k} = 1 .. k - 1
    OBVIOUS
  <2>4. f[1 .. k] = Step(op, f[1 .. k - 1], s[k])
    BY <1>2, <2>1, <2>2, <2>3 DEF Next1
  <2>5. QED
    BY <2>4
<1>5. Result(op, s) = acc[len]
  BY DEF Result
<1>6. QED
  BY <1>3, <1>4, <1>5 DEF Steps

LEMMA PackedIs == FoldLeft(PackOne, Nowhere, hdr) = Result(<<"pack", Nowhere>>, hdr)
  BY DEF FoldLeft, MapThenFoldSet, Result, Iter, Next1, Step, Base

LEMMA LoadedIs ==
  \A archive : FoldLeft(LoadOne, Unloaded, archive) = Result(<<"load", Unloaded>>, archive)
  BY DEF FoldLeft, MapThenFoldSet, Result, Iter, Next1, Step, Base

LEMMA FinalIs == \A d, w : Final(d, w) = Result(<<"move", d>>, w)
  BY DEF Final, FoldLeft, MapThenFoldSet, Result, Iter, Next1, Step, Base

-----------------------------------------------------------------------------
(* What commands make of the list, and what they have to do for it.        *)

\* The file that alloc_file put in the list.
LEMMA Allocated ==
  ASSUME NEW l, GoodList(l), NEW f, f.name \in Names, f.size \in Nat \ {0},
         f.ext \in BOOLEAN, Alloc(l, f) # <<>>
  PROVE  LET m == Find(Alloc(l, f), f.name) IN
         /\ m \in FileItem /\ First <= m.start /\ End(m) <= Total
         /\ m.size = f.size /\ m.start \in Nat
<1> DEFINE r == Alloc(l, f)
           m == Find(r, f.name)
<1>1. GoodList(r) /\ m.size = f.size /\ \E i \in 1 .. Len(r) : m = r[i]
  BY AllocKeeps
<1> HIDE DEF r, m
<1>2. PICK i \in 1 .. Len(r) : m = r[i]
  BY <1>1
<1>3. m \in FileItem /\ First <= m.start /\ End(m) <= Total /\ m.start \in Nat
  BY <1>1, <1>2, ItemIs
<1>4. QED
  BY <1>1, <1>3 DEF r, m

\* A file that follows the last one.
LEMMA AppendKeeps ==
  ASSUME NEW l, GoodList(l), Len(l) < Capacity, NEW m \in FileItem, m.size > 0,
         ~Has(l, m.name), GapBegin(l, Len(l) + 1) <= m.start, End(m) <= Total,
         m.start < Pri => End(m) <= Pri
  PROVE  /\ GoodList(Append(l, m)) /\ Len(Append(l, m)) = Len(l) + 1
         /\ Append(l, m)[Len(l) + 1] = m
<1> DEFINE i == Len(l) + 1
<1>1. l \in Seq(FileItem) /\ Len(l) \in Nat
  BY LenProperties DEF GoodList
<1>2. i \in 1 .. Len(l) + 1 /\ GapEnd(l, i) = Total /\ i - 1 = Len(l)
  BY <1>1 DEF GapEnd
<1>3. /\ GoodList(InsertAt(l, i, m)) /\ Len(InsertAt(l, i, m)) = Len(l) + 1
      /\ InsertAt(l, i, m)[i] = m
  BY <1>2, InsertKeeps
<1>4. InsertAt(l, i, m) = Append(l, m)
  <2>1. SubSeq(l, 1, i - 1) = l
    BY <1>1, <1>2, SubSeqFull
  <2>2. SubSeq(l, i, Len(l)) = <<>>
    BY <1>1, SubSeqEmpty
  <2>3. Append(l, m) \in Seq(FileItem) /\ Append(l, m) = l \o <<m>>
    BY <1>1, AppendProperties, AppendIsConcat
  <2>4. Append(l, m) \o <<>> = Append(l, m)
    BY <2>3, ConcatEmptySeq
  <2>5. InsertAt(l, i, m) = (l \o <<m>>) \o <<>>
    BY <2>1, <2>2 DEF InsertAt
  <2>6. QED
    BY <2>3, <2>4, <2>5
<1>5. QED
  BY <1>3, <1>4

(* What pack has made of the first k files. *)
Packed(acc, k) ==
  /\ GoodList(acc.list) /\ Len(acc.list) = k
  /\ \A i \in 1 .. k : acc.list[i].name = hdr[i].name
  /\ acc.at = GapBegin(acc.list, k + 1)
  /\ k < Len(hdr) => acc.at <= hdr[k + 1].start
  /\ Into(acc.moves, Sectors)

(* Where pack puts a file. *)
PackTo(at, m) == IF at < Pri /\ m.start >= Pri THEN Pri ELSE at
PutAt(m, to) == [m EXCEPT !.start = to]

LEMMA PackPlace ==
  ASSUME GoodList(hdr), NEW k \in 1 .. Len(hdr), NEW a, Packed(a, k - 1)
  PROVE  LET m == hdr[k]
             to == PackTo(a.at, m)
             n == Count(m.start, m.size)
             new == PutAt(m, to)
         IN /\ a.at \in Nat /\ First <= a.at /\ a.at <= to /\ to \in Nat /\ to <= m.start
            /\ new \in FileItem /\ new.name = m.name /\ new.start = to /\ new.size = m.size
            /\ n \in Nat /\ End(m) = m.start + n /\ End(new) = to + n /\ End(new) <= Total
            /\ Room(to) = Room(m.start) /\ (to < Pri => End(new) <= Pri) /\ End(new) <= End(m)
<1> DEFINE m == hdr[k]
           to == PackTo(a.at, m)
           n == Count(m.start, m.size)
           new == PutAt(m, to)
<1>0. First \in Nat /\ Pri \in Nat /\ Total \in Nat /\ First < Pri
  BY FbAssumption
<1>1. /\ m \in FileItem /\ m.start \in Nat /\ m.size \in Nat \ {0} /\ m.name \in Names
      /\ First <= m.start /\ End(m) <= Total /\ (m.start < Pri => End(m) <= Pri)
  BY ItemIs
<1>2. n \in Nat /\ End(m) = m.start + n
  BY <1>1, EndIs
<1>3. Len(hdr) \in Nat /\ k \in Nat
  BY LenProperties DEF GoodList
<1>4. a.at \in Nat /\ First <= a.at /\ a.at <= m.start
  <2>1. /\ GoodList(a.list) /\ Len(a.list) = k - 1 /\ a.at = GapBegin(a.list, k - 1 + 1)
        /\ k - 1 < Len(hdr) => a.at <= hdr[k - 1 + 1].start
    BY DEF Packed
  <2>2. k - 1 + 1 = k /\ k \in 1 .. Len(a.list) + 1 /\ k - 1 < Len(hdr)
    BY <1>3, <2>1
  <2>3. GapBegin(a.list, k) \in Nat /\ First <= GapBegin(a.list, k)
    BY <2>1, <2>2, Gaps
  <2>4. QED
    BY <2>1, <2>2, <2>3
<1>5. to = IF a.at < Pri /\ m.start >= Pri THEN Pri ELSE a.at
  BY DEF PackTo
<1> HIDE DEF m, n, to
<1>6. to \in Nat /\ First <= to /\ to <= m.start /\ a.at <= to /\ (to < Pri => m.start < Pri)
  BY <1>0, <1>1, <1>4, <1>5
<1>7. new \in FileItem /\ new.name = m.name /\ new.start = to /\ new.size = m.size
  BY <1>1, <1>6 DEF FileItem, PutAt
<1> HIDE DEF new
<1>8. Room(to) = Room(m.start)
  BY <1>0, <1>1, <1>4, <1>5 DEF Room
<1>9. End(new) = to + n
  BY <1>7, <1>8 DEF End, Count, n
<1>10. End(new) <= Total /\ (to < Pri => End(new) <= Pri) /\ End(new) <= End(m)
  BY <1>0, <1>1, <1>2, <1>6, <1>9
<1>11. QED
  BY <1>2, <1>4, <1>6, <1>7, <1>8, <1>9, <1>10 DEF m, n, to, new

LEMMA PackedOne ==
  ASSUME GoodList(hdr), NEW k \in 1 .. Len(hdr), NEW a, Packed(a, k - 1)
  PROVE  Packed(PackOne(a, hdr[k]), k)
<1> DEFINE m == hdr[k]
           to == PackTo(a.at, m)
           n == Count(m.start, m.size)
           new == PutAt(m, to)
           copied == Copied(to, m.start, n)
           r == PackOne(a, m)
<1>0. First \in Nat /\ Pri \in Nat /\ Total \in Nat /\ First < Pri /\ Capacity \in Nat
  BY FbAssumption
<1>1. /\ m \in FileItem /\ m.name \in Names /\ m.start \in Nat /\ m.size \in Nat \ {0}
      /\ First <= m.start /\ End(m) <= Total /\ (m.start < Pri => End(m) <= Pri)
      /\ (k < Len(hdr) => End(m) <= hdr[k + 1].start)
  BY ItemIs
<1>2. /\ a.at \in Nat /\ First <= a.at /\ a.at <= to /\ to \in Nat /\ to <= m.start
      /\ new \in FileItem /\ new.name = m.name /\ new.start = to /\ new.size = m.size
      /\ n \in Nat /\ End(m) = m.start + n /\ End(new) = to + n /\ End(new) <= Total
      /\ (to < Pri => End(new) <= Pri) /\ End(new) <= End(m)
  BY PackPlace
<1>3. r = [at |-> to + n, list |-> Append(a.list, new),
           moves |-> IF to = m.start THEN a.moves ELSE a.moves \o copied]
  BY DEF PackOne, PackTo, PutAt
<1>4. Len(hdr) \in Nat /\ Len(hdr) <= Capacity /\ k \in Nat
  BY LenProperties DEF GoodList, Laid
<1>5. /\ GoodList(a.list) /\ Len(a.list) = k - 1 /\ Into(a.moves, Sectors)
      /\ \A i \in 1 .. k - 1 : a.list[i].name = hdr[i].name
      /\ a.at = GapBegin(a.list, k)
  <2>1. k - 1 + 1 = k
    BY <1>4
  <2>2. QED
    BY <2>1 DEF Packed
<1> HIDE DEF m, n, r, copied, new, to
<1>8. First <= to
  BY <1>0, <1>2
<1>13. ~Has(a.list, new.name)
  <2>1. ASSUME NEW i \in 1 .. Len(a.list) PROVE a.list[i].name # m.name
    <3>1. i \in 1 .. k - 1 /\ i \in 1 .. Len(hdr) /\ i # k
      BY <1>4, <1>5
    <3>2. a.list[i].name = hdr[i].name
      BY <1>5, <3>1
    <3>3. hdr[i].name # hdr[k].name
      BY <1>4, <3>1 DEF GoodList, Laid
    <3>4. QED
      BY <3>2, <3>3 DEF m
  <2>2. QED
    BY <1>2, <2>1 DEF Has
<1>14. /\ GoodList(Append(a.list, new)) /\ Len(Append(a.list, new)) = Len(a.list) + 1
       /\ Append(a.list, new)[Len(a.list) + 1] = new
  <2>1. Len(a.list) < Capacity /\ Len(a.list) + 1 = k /\ new.size > 0
    BY <1>1, <1>4, <1>5, <1>2, <1>0
  <2>2. GapBegin(a.list, Len(a.list) + 1) <= new.start
    BY <1>5, <1>2, <1>8, <2>1
  <2>3. new.start < Pri => End(new) <= Pri
    BY <1>2
  <2>4. QED
    BY <1>5, <1>2, <1>13, <2>1, <2>2, <2>3, AppendKeeps
<1> DEFINE l == Append(a.list, new)
<1>15. Len(l) = k /\ l[k] = new /\ \A i \in 1 .. k - 1 : l[i] = a.list[i]
  <2>1. a.list \in Seq(FileItem)
    BY <1>5 DEF GoodList
  <2>2. \A i \in 1 .. Len(a.list) : l[i] = a.list[i]
    BY <1>2, <2>1, AppendProperties
  <2> HIDE DEF l
  <2>3. Len(a.list) + 1 = k
    BY <1>4, <1>5
  <2>4. QED
    BY <1>5, <1>14, <2>2, <2>3 DEF l
<1>16. GoodList(l)
  BY <1>14
<1> HIDE DEF l
<1>17. \A i \in 1 .. k : l[i].name = hdr[i].name
  <2>1. ASSUME NEW i \in 1 .. k PROVE l[i].name = hdr[i].name
    <3>1. CASE i = k
      BY <1>2, <1>15, <3>1 DEF m
    <3>2. CASE i # k
      <4>1. i \in 1 .. k - 1
        BY <1>4, <3>2
      <4>2. QED
        BY <1>5, <1>15, <4>1
    <3>3. QED
      BY <3>1, <3>2
  <2>2. QED
    BY <2>1
<1>18. GapBegin(l, k + 1) = to + n
  <2>1. k + 1 # 1 /\ k + 1 - 1 = k
    BY <1>4
  <2>2. QED
    BY <1>2, <1>15, <2>1 DEF GapBegin
<1>19. k < Len(hdr) => to + n <= hdr[k + 1].start
  <2>1. SUFFICES ASSUME k < Len(hdr) PROVE to + n <= hdr[k + 1].start
    OBVIOUS
  <2>2. k + 1 \in 1 .. Len(hdr)
    BY <1>4, <2>1
  <2>3. hdr[k + 1].start \in Nat
    BY <2>2, ItemIs
  <2>4. QED
    BY <1>1, <1>2, <2>1, <2>3
<1>20. Into(IF to = m.start THEN a.moves ELSE a.moves \o copied, Sectors)
  <2>1. to + n <= Total /\ m.start + n <= Total
    BY <1>1, <1>2
  <2>2. Into(copied, Sectors)
    BY <1>1, <1>2, <1>8, <2>1, CopiedGood, InTheArea, IntoMore DEF copied
  <2>3. Into(a.moves \o copied, Sectors)
    BY <1>5, <2>2, WorkAfter
  <2>4. QED
    BY <1>5, <2>3
<1>21. r.at = to + n /\ r.list = l /\ r.moves = IF to = m.start THEN a.moves ELSE a.moves \o copied
  BY <1>3 DEF l
<1>22. Packed(r, k)
  BY <1>15, <1>16, <1>17, <1>18, <1>19, <1>20, <1>21 DEF Packed
<1>23. QED
  BY <1>22 DEF r, m

(* The steps of pack, from the list that is empty. *)
PackRun(len) ==
  \E acc : /\ acc[0] = Nowhere
           /\ \A k \in 1 .. len : acc[k] = PackOne(acc[k - 1], hdr[k])
           /\ FoldLeft(PackOne, Nowhere, hdr) = acc[len]
           /\ \A k \in 0 .. len : Packed(acc[k], k)

LEMMA PackRuns ==
  ASSUME GoodList(hdr)
  PROVE  PackRun(Len(hdr))
<1> DEFINE len == Len(hdr)
<1>1. len \in Nat /\ DOMAIN hdr = 1 .. len
  BY LenProperties DEF GoodList
<1>2. Steps(<<"pack", Nowhere>>, hdr, len)
  BY <1>1, FoldGoesOn
<1>3. PICK acc : /\ acc[0] = Nowhere
                 /\ \A k \in 1 .. len : acc[k] = PackOne(acc[k - 1], hdr[k])
                 /\ Result(<<"pack", Nowhere>>, hdr) = acc[len]
  BY <1>2 DEF Steps, Step, Base
<1> DEFINE G == {k \in Nat : Packed(acc[k], k)}
<1>4. Packed(acc[0], 0)
  <2>1. GoodList(<<>>) /\ Len(<<>>) = 0
    BY EmptySeq, FbAssumption DEF GoodList, Laid
  <2>2. 0 < Len(hdr) => First <= hdr[1].start
    BY <1>1, ItemIs
  <2>3. Nowhere.at = First /\ Nowhere.list = <<>> /\ Nowhere.moves = <<>>
    BY DEF Nowhere
  <2>4. GapBegin(<<>>, 0 + 1) = First
    BY DEF GapBegin
  <2>5. QED
    BY <1>3, <2>1, <2>2, <2>3, <2>4, NoWork DEF Packed
<1>5. 0 \in G
  BY <1>4
<1>6. ASSUME NEW k \in 1 .. len, k - 1 \in G PROVE k \in G
  <2>1. Packed(acc[k - 1], k - 1)
    BY <1>6
  <2>2. Packed(PackOne(acc[k - 1], hdr[k]), k)
    BY <2>1, PackedOne
  <2>3. QED
    BY <1>3, <2>2
<1>7. \A k \in 0 .. len : k \in G
  <2> HIDE DEF G, len
  <2>1. QED
    BY <1>1, <1>5, <1>6, UpTo
<1>8. \A k \in 0 .. len : Packed(acc[k], k)
  BY <1>7
<1>9. FoldLeft(PackOne, Nowhere, hdr) = acc[len]
  BY <1>3, PackedIs
<1> HIDE DEF len
<1>10. PackRun(len)
  BY <1>3, <1>8, <1>9 DEF PackRun
<1>11. QED
  BY <1>10 DEF len

\* Pack: the files move down and stay in order and apart.
LEMMA PackKeeps ==
  ASSUME GoodList(hdr)
  PROVE  LET p == FoldLeft(PackOne, Nowhere, hdr) IN GoodList(p.list) /\ Into(p.moves, Sectors)
<1>1. Len(hdr) \in Nat
  BY LenProperties DEF GoodList
<1>2. PICK acc : /\ FoldLeft(PackOne, Nowhere, hdr) = acc[Len(hdr)]
                 /\ \A k \in 0 .. Len(hdr) : Packed(acc[k], k)
  BY PackRuns DEF PackRun
<1>3. QED
  BY <1>1, <1>2 DEF Packed

(* What load has made of the archive so far. *)
LoadedSoFar(acc) ==
  /\ acc = [ok |-> acc.ok, list |-> acc.list, moves |-> acc.moves, plan |-> acc.plan]
  /\ acc.ok \in BOOLEAN /\ GoodList(acc.list) /\ Into(acc.moves, Sectors)

LEMMA LoadedOne ==
  ASSUME NEW a, LoadedSoFar(a), NEW f, f.name \in Names, f.size \in Nat \ {0}, f.ext \in BOOLEAN
  PROVE  LoadedSoFar(LoadOne(a, f))
<1> DEFINE l == Alloc(a.list, f)
           bytes == Content(f.name, runs + 1, f.size)
           m == Find(l, f.name)
           r == LoadOne(a, f)
<1>1. GoodList(a.list) /\ Into(a.moves, Sectors) /\ a.ok \in BOOLEAN
  BY DEF LoadedSoFar
<1>2. CASE ~a.ok \/ l = <<>>
  <2>1. r = [a EXCEPT !.ok = FALSE]
    BY <1>2 DEF LoadOne
  <2>2. a = [ok |-> a.ok, list |-> a.list, moves |-> a.moves, plan |-> a.plan]
    BY DEF LoadedSoFar
  <2>3. r = [ok |-> FALSE, list |-> a.list, moves |-> a.moves, plan |-> a.plan]
    BY <2>1, <2>2
  <2> HIDE DEF r
  <2>4. r.ok = FALSE /\ r.list = a.list /\ r.moves = a.moves /\ r.plan = a.plan
    BY <2>3
  <2>5. LoadedSoFar(r)
    BY <1>1, <2>3, <2>4 DEF LoadedSoFar
  <2>6. QED
    BY <2>5 DEF r
<1>3. CASE ~(~a.ok \/ l = <<>>)
  <2> DEFINE moves == a.moves \o Saved(m, bytes)
             plan == [a.plan EXCEPT ![f.name] = Holds(bytes, "ok")]
  <2>1. r = [ok |-> TRUE, list |-> l, moves |-> moves, plan |-> plan]
    BY <1>3 DEF LoadOne
  <2>2. GoodList(l)
    BY <1>1, <1>3, AllocKeeps
  <2>3. m \in FileItem /\ First <= m.start /\ End(m) <= Total
    BY <1>1, <1>3, Allocated
  <2> HIDE DEF r, l, m, bytes, plan
  <2>4. Into(moves, Sectors)
    BY <1>1, <2>3, SavedGood, FileSectors, IntoMore, WorkAfter
  <2> HIDE DEF moves
  <2>5. r.ok = TRUE /\ r.list = l /\ r.moves = moves /\ r.plan = plan
    BY <2>1
  <2>6. LoadedSoFar(r)
    BY <2>1, <2>2, <2>4, <2>5 DEF LoadedSoFar
  <2>7. QED
    BY <2>6 DEF r
<1>4. QED
  BY <1>2, <1>3

(* The steps of load, from the list on the disk. *)
LoadRun(archive, len) ==
  \E acc : /\ acc[0] = Unloaded
           /\ \A k \in 1 .. len : acc[k] = LoadOne(acc[k - 1], archive[k])
           /\ FoldLeft(LoadOne, Unloaded, archive) = acc[len]
           /\ \A k \in 0 .. len : LoadedSoFar(acc[k])

LEMMA LoadRuns ==
  ASSUME GoodList(hdr), NEW archive \in Archives
  PROVE  LoadRun(archive, Len(archive))
<1> DEFINE len == Len(archive)
           File == [name : Names, size : Nat \ {0}, ext : BOOLEAN]
<1>1. archive \in Seq(File)
  BY LayoutsAssumption
<1>2. len \in Nat /\ DOMAIN archive = 1 .. len
  BY <1>1, LenProperties
<1>3. Steps(<<"load", Unloaded>>, archive, len)
  BY <1>2, FoldGoesOn
<1>4. PICK acc : /\ acc[0] = Unloaded
                 /\ \A k \in 1 .. len : acc[k] = LoadOne(acc[k - 1], archive[k])
                 /\ Result(<<"load", Unloaded>>, archive) = acc[len]
  BY <1>3 DEF Steps, Step, Base
<1> DEFINE G == {k \in Nat : LoadedSoFar(acc[k])}
<1>5. LoadedSoFar(Unloaded)
  <2>1. /\ Unloaded.ok = TRUE /\ Unloaded.list = hdr /\ Unloaded.moves = <<>>
        /\ Unloaded.plan = truth
    BY DEF Unloaded
  <2>2. Unloaded = [ok |-> Unloaded.ok, list |-> Unloaded.list, moves |-> Unloaded.moves,
                    plan |-> Unloaded.plan]
    BY DEF Unloaded
  <2>3. QED
    BY <2>1, <2>2, NoWork DEF LoadedSoFar
<1>6. 0 \in G
  BY <1>4, <1>5
<1>7. ASSUME NEW k \in 1 .. len, k - 1 \in G PROVE k \in G
  <2>1. archive[k] \in File
    BY <1>1, ElementOfSeq
  <2>2. LoadedSoFar(LoadOne(acc[k - 1], archive[k]))
    BY <1>7, <2>1, LoadedOne
  <2>3. QED
    BY <1>4, <2>2
<1>8. \A k \in 0 .. len : k \in G
  <2> HIDE DEF G, len
  <2>1. QED
    BY <1>2, <1>6, <1>7, UpTo
<1>9. \A k \in 0 .. len : LoadedSoFar(acc[k])
  BY <1>8
<1>10. FoldLeft(LoadOne, Unloaded, archive) = acc[len]
  BY <1>4, LoadedIs
<1> HIDE DEF len
<1>11. LoadRun(archive, len)
  BY <1>4, <1>9, <1>10 DEF LoadRun
<1>12. QED
  BY <1>11 DEF len

\* Load: the files of the archive that have room are added one by one.
LEMMA LoadKeeps ==
  ASSUME GoodList(hdr), NEW archive \in Archives
  PROVE  LoadedSoFar(FoldLeft(LoadOne, Unloaded, archive))
<1>1. Len(archive) \in Nat
  BY LayoutsAssumption, LenProperties
<1>2. PICK acc : /\ FoldLeft(LoadOne, Unloaded, archive) = acc[Len(archive)]
                 /\ \A k \in 0 .. Len(archive) : LoadedSoFar(acc[k])
  BY LoadRuns DEF LoadRun
<1>3. QED
  BY <1>1, <1>2

-----------------------------------------------------------------------------
(* Commands.                                                               *)

LEMMA FoundIs ==
  ASSUME NEW l, GoodList(l), NEW name, Has(l, name)
  PROVE  /\ Place(l, name) \in 1 .. Len(l) /\ Find(l, name) = l[Place(l, name)]
         /\ l[Place(l, name)].name = name
         /\ Find(l, name) \in FileItem /\ Find(l, name).start \in Nat
         /\ Find(l, name).size \in Nat \ {0} /\ First <= Find(l, name).start
         /\ End(Find(l, name)) <= Total
<1>1. Place(l, name) \in 1 .. Len(l) /\ l[Place(l, name)].name = name
  BY DEF Has, Place
<1>2. QED
  BY <1>1, ItemIs DEF Find

LEMMA NamesAre ==
  ASSUME NEW l, GoodList(l)
  PROVE  NamesOf(l) \subseteq Names
BY ItemIs DEF NamesOf

\* A command that has planned well keeps the invariant when it starts.
LEMMA StartKeeps ==
  ASSUME IInv, Called, NEW l, GoodList(l), NEW t, Into(t, Sectors), NEW ends \in BOOLEAN,
         NEW plan, NEW replaced, Start(l, t, ends, plan, replaced)
  PROVE  IInv'
<1>1. /\ running' = TRUE /\ commits' = ends /\ list' = l /\ work' = t
      /\ touched' = replaced \cap NamesOf(hdr) /\ runs' = runs + 1
      /\ disk' = disk /\ hdr' = hdr /\ buf' = buf
  BY DEF Start
<1>2. NamesOf(hdr) \subseteq Names
  BY NamesAre DEF IInv
<1>3. touched' \subseteq Names
  BY <1>1, <1>2
<1>4. runs' \in 0 .. MaxRuns
  BY <1>1, FbAssumption DEF Called, IInv
<1>5. PrimaryNumbered'
  BY <1>1 DEF IInv, PrimaryNumbered, Carries
<1>6. GoodList(hdr)' /\ GoodList(list)'
  BY <1>1 DEF IInv
<1>7. Into(work, Sectors)' /\ GoodBuf(buf)'
  BY <1>1 DEF IInv
<1>8. /\ DOMAIN disk' = Sectors
      /\ \A s \in Sectors : DOMAIN disk'[s] = 1 .. ExtBytes
      /\ running' \in BOOLEAN /\ commits' \in BOOLEAN
  BY <1>1 DEF IInv
<1>9. QED
  BY <1>3, <1>4, <1>5, <1>6, <1>7, <1>8 DEF IInv

LEMMA AddKeeps ==
  ASSUME IInv, NEW name \in Names, NEW size \in Sizes, NEW ext \in BOOLEAN,
         Add(name, size, ext)
  PROVE  IInv'
<1> DEFINE f == [name |-> name, size |-> size, ext |-> ext]
           l == Alloc(hdr, f)
           bytes == Content(name, runs + 1, size)
           plan == [truth EXCEPT ![name] = Holds(bytes, "ok")]
           m == Find(l, name)
<1>1. Called /\ l # <<>> /\ Start(l, Saved(m, bytes), TRUE, plan, {name})
  BY DEF Add
<1>2. GoodList(hdr)
  BY DEF IInv
<1>3. f.name \in Names /\ f.size \in Nat \ {0} /\ f.ext \in BOOLEAN /\ f.name = name
  BY FbAssumption
<1> HIDE DEF f
<1>4. GoodList(l)
  BY <1>1, <1>2, <1>3, AllocKeeps
<1>5. m \in FileItem /\ First <= m.start /\ End(m) <= Total
  BY <1>1, <1>2, <1>3, Allocated
<1> HIDE DEF l, bytes, plan, m
<1>6. Into(Saved(m, bytes), Sectors)
  BY <1>5, SavedGood, FileSectors, IntoMore
<1>7. QED
  BY <1>1, <1>4, <1>6, StartKeeps

\* The bytes of a menu that is added to.
LEMMA FrontIs ==
  ASSUME NEW m \in FileItem, m.size > 0
  PROVE  Len(Front(Read(disk, m))) \in Nat
<1> DEFINE e(i) == disk[m.start + (i - 1) \div Room(m.start)][((i - 1) % Room(m.start)) + 1]
           n == m.size
           s == [i \in 1 .. n |-> e(i)]
           S == {e(i) : i \in 1 .. n}
<1>1. n \in Nat /\ n > 0
  BY DEF FileItem
<1>2. Read(disk, m) = s
  BY DEF Read
<1> HIDE DEF n, e
<1>3. s \in [1 .. n -> S]
  OBVIOUS
<1>4. s \in Seq(S) /\ Len(s) = n
  <2>1. Len(s) = n
    BY <1>1
  <2> HIDE DEF S, s
  <2>2. QED
    BY <1>1, <1>3, <2>1, IsSequence
<1> HIDE DEF s, S
<1>5. \A i \in 1 .. n - 1 : s[i] \in S
  BY <1>1, <1>3
<1>6. Len(SubSeq(s, 1, n - 1)) = IF 1 <= n - 1 THEN n - 1 - 1 + 1 ELSE 0
  BY <1>1, <1>5, SubSeqProperties
<1>7. Front(s) = SubSeq(s, 1, n - 1)
  BY <1>4 DEF Front
<1>8. QED
  BY <1>1, <1>2, <1>6, <1>7

LEMMA AddMenuKeeps ==
  ASSUME IInv, NEW name \in Names, NEW size \in Sizes, NEW append \in BOOLEAN,
         AddMenu(name, size, append)
  PROVE  IInv'
<1> DEFINE new == Content(name, runs + 1, size)
           old == IF append /\ Has(hdr, name) THEN Front(Read(disk, Find(hdr, name))) ELSE <<>>
           meant == IF append /\ Has(hdr, name) THEN Front(truth[name].bytes) ELSE <<>>
           f == [name |-> name, size |-> Len(old) + size, ext |-> FALSE]
           l == Alloc(hdr, f)
           m == Find(l, name)
           kind == IF old # <<>> /\ truth[name].kind # "ok" THEN truth[name].kind
                   ELSE IF m.start < Pri /\ m.size > PriBytes THEN "menu" ELSE "ok"
           plan == [truth EXCEPT ![name] = Holds(meant \o new, kind)]
<1>1. Called /\ l # <<>> /\ Start(l, SavedBuff(m, old \o new), TRUE, plan, {name})
  BY DEF AddMenu
<1>2. GoodList(hdr)
  BY DEF IInv
<1>3. Len(old) \in Nat
  <2>1. CASE append /\ Has(hdr, name)
    <3>1. Find(hdr, name) \in FileItem /\ Find(hdr, name).size > 0
      BY <1>2, <2>1, FoundIs
    <3>2. QED
      BY <2>1, <3>1, FrontIs
  <2>2. CASE ~(append /\ Has(hdr, name))
    BY <2>2
  <2>3. QED
    BY <2>1, <2>2
<1> HIDE DEF old, meant, new, kind, plan
<1>4. f.name \in Names /\ f.size \in Nat \ {0} /\ f.ext \in BOOLEAN /\ f.name = name
  <2>1. size \in Nat \ {0}
    BY FbAssumption
  <2>2. Len(old) + size \in Nat \ {0}
    BY <1>3, <2>1
  <2>3. QED
    BY <2>2
<1> HIDE DEF f
<1>5. GoodList(l)
  BY <1>1, <1>2, <1>4, AllocKeeps
<1>6. m \in FileItem /\ First <= m.start /\ End(m) <= Total
  BY <1>1, <1>2, <1>4, Allocated
<1> HIDE DEF l, m
<1>7. Into(SavedBuff(m, old \o new), Sectors)
  BY <1>6, SavedBuffGood, FileSectors, IntoMore
<1>8. QED
  BY <1>1, <1>5, <1>7, StartKeeps

\* A list with one of its files made shorter.
LEMMA CutIs ==
  ASSUME GoodList(hdr), NEW name, Has(hdr, name), NEW size \in Nat \ {0},
         Find(hdr, name).size >= size
  PROVE  LET p == Place(hdr, name)
             l == [hdr EXCEPT ![p].size = size]
             cut == [Find(hdr, name) EXCEPT !.size = size]
         IN /\ GoodList(l) /\ Len(l) = Len(hdr) /\ p \in 1 .. Len(hdr)
            /\ \A j \in 1 .. Len(hdr) : l[j] = IF j = p THEN cut ELSE hdr[j]
            /\ cut.name = name /\ cut.start = Find(hdr, name).start /\ cut.size = size
<1> DEFINE p == Place(hdr, name)
           l == [hdr EXCEPT ![p].size = size]
<1>1. /\ p \in 1 .. Len(hdr) /\ Find(hdr, name) = hdr[p] /\ hdr[p].size >= size
      /\ hdr[p].name = name
  BY FoundIs
<1>2. GoodList(hdr) /\ hdr \in Seq(FileItem) /\ Len(hdr) \in Nat
  BY LenProperties DEF GoodList
<1>3. p \in 1 .. Len(hdr) /\ hdr[p].size >= size
  BY <1>1
<1>4. size \in Nat \ {0}
  OBVIOUS
<1> HIDE DEF p
<1> DEFINE cut == [hdr[p] EXCEPT !.size = size]
<1>5. hdr[p] \in FileItem /\ hdr[p].size \in Nat /\ hdr[p].start \in Nat
  BY <1>2, <1>3, ItemIs
<1>6. cut \in FileItem /\ cut.name = hdr[p].name /\ cut.start = hdr[p].start /\ cut.size = size
  BY <1>4, <1>5 DEF FileItem
<1>7. l = [hdr EXCEPT ![p] = cut]
  OBVIOUS
<1> HIDE DEF cut, l
<1>8. /\ l \in Seq(FileItem) /\ Len(l) = Len(hdr)
      /\ \A j \in 1 .. Len(hdr) : l[j] = IF j = p THEN cut ELSE hdr[j]
  BY <1>2, <1>3, <1>6, <1>7, ExceptSeq
<1>9. End(cut) \in Nat /\ End(cut) <= End(hdr[p])
  <2>1. Room(hdr[p].start) \in Nat \ {0}
    BY RoomIs
  <2>2. CeilDiv(size, Room(hdr[p].start)) <= CeilDiv(hdr[p].size, Room(hdr[p].start))
    BY <1>3, <1>4, <1>5, <2>1, CeilingGrows
  <2>3. Count(cut.start, cut.size) <= Count(hdr[p].start, hdr[p].size)
    BY <1>6, <2>2 DEF Count
  <2>4. /\ Count(cut.start, cut.size) \in Nat /\ Count(hdr[p].start, hdr[p].size) \in Nat
        /\ End(cut) = cut.start + Count(cut.start, cut.size)
        /\ End(hdr[p]) = hdr[p].start + Count(hdr[p].start, hdr[p].size)
    BY <1>5, <1>6, EndIs
  <2>5. QED
    BY <1>5, <1>6, <2>3, <2>4
<1>10. \A j \in 1 .. Len(l) : /\ l[j].name = hdr[j].name /\ l[j].start = hdr[j].start
                              /\ l[j].size > 0 /\ End(l[j]) \in Nat /\ End(l[j]) <= End(hdr[j])
  <2>1. ASSUME NEW j \in 1 .. Len(l)
        PROVE  /\ l[j].name = hdr[j].name /\ l[j].start = hdr[j].start
               /\ l[j].size > 0 /\ End(l[j]) \in Nat /\ End(l[j]) <= End(hdr[j])
    <3>1. CASE j = p
      BY <1>3, <1>4, <1>6, <1>8, <1>9, <3>1
    <3>2. CASE j # p
      <4>1. l[j] = hdr[j] /\ j \in 1 .. Len(hdr)
        BY <1>8, <3>2
      <4>2. hdr[j].size > 0 /\ End(hdr[j]) \in Nat
        BY <1>2, <4>1, ItemIs
      <4>3. QED
        BY <4>1, <4>2
    <3>3. QED
      BY <3>1, <3>2
  <2>2. QED
    BY <2>1
<1>11. Laid(l)
  <2>1. ASSUME NEW j \in 1 .. Len(l)
        PROVE  /\ l[j].start >= First /\ l[j].size > 0 /\ End(l[j]) <= Total
               /\ l[j].start < Pri => End(l[j]) <= Pri
               /\ j < Len(l) => End(l[j]) <= l[j + 1].start
    <3>1. j \in 1 .. Len(hdr)
      BY <1>8
    <3>2. /\ l[j].start = hdr[j].start /\ l[j].size > 0 /\ End(l[j]) \in Nat
          /\ End(l[j]) <= End(hdr[j])
      BY <1>10
    <3>3. /\ hdr[j].start \in Nat /\ End(hdr[j]) \in Nat /\ First <= hdr[j].start
          /\ End(hdr[j]) <= Total /\ (hdr[j].start < Pri => End(hdr[j]) <= Pri)
          /\ (j < Len(hdr) => End(hdr[j]) <= hdr[j + 1].start)
      BY <1>2, <3>1, ItemIs
    <3>4. ASSUME j < Len(l) PROVE End(l[j]) <= l[j + 1].start
      <4>1. j + 1 \in 1 .. Len(l) /\ j + 1 \in 1 .. Len(hdr) /\ j < Len(hdr)
        BY <1>2, <1>8, <3>4
      <4>2. l[j + 1].start = hdr[j + 1].start
        BY <1>10, <4>1
      <4>3. hdr[j + 1].start \in Nat
        BY <1>2, <4>1, ItemIs
      <4>4. QED
        BY <3>2, <3>3, <4>1, <4>2, <4>3
    <3>5. QED
      BY <3>2, <3>3, <3>4, FbAssumption
  <2>2. ASSUME NEW i \in 1 .. Len(l), NEW j \in 1 .. Len(l), l[i].name = l[j].name
        PROVE  i = j
    <3>1. hdr[i].name = hdr[j].name
      BY <1>10, <2>2
    <3>2. QED
      BY <1>2, <1>8, <3>1 DEF GoodList, Laid
  <2>3. Len(l) <= Capacity
    BY <1>2, <1>8 DEF GoodList, Laid
  <2>4. QED
    BY <2>1, <2>2, <2>3 DEF Laid
<1>12. GoodList(l)
  BY <1>8, <1>11 DEF GoodList
<1>13. cut = [Find(hdr, name) EXCEPT !.size = size] /\ cut.name = name
  BY <1>1, <1>6 DEF cut
<1>14. cut.start = Find(hdr, name).start
  BY <1>1, <1>6
<1>15. QED
  <2> HIDE DEF l
  <2>1. QED
    BY <1>3, <1>6, <1>8, <1>12, <1>13, <1>14 DEF l, p

LEMMA CutKeeps ==
  ASSUME IInv, NEW name \in Names, NEW size \in Sizes, Cut(name, size)
  PROVE  IInv'
<1> DEFINE l == [hdr EXCEPT ![Place(hdr, name)].size = size]
           plan == [truth EXCEPT ![name].bytes = SubSeq(truth[name].bytes, 1, size)]
<1>1. Called /\ Has(hdr, name) /\ Find(hdr, name).size >= size /\ Start(l, <<>>, TRUE, plan, {})
  BY DEF Cut
<1>2. GoodList(hdr) /\ size \in Nat \ {0}
  BY FbAssumption DEF IInv
<1>3. GoodList(l)
  BY <1>1, <1>2, CutIs
<1> HIDE DEF l, plan
<1>4. QED
  BY <1>1, <1>3, NoWork, StartKeeps

LEMMA GrowKeeps ==
  ASSUME IInv, NEW name \in Names, NEW size \in Sizes, Grow(name, size)
  PROVE  IInv'
<1> DEFINE old == Find(hdr, name)
           f == [name |-> name, size |-> size, ext |-> old.start >= Pri]
           l == Alloc(hdr, f)
           m == Find(l, name)
           plan == [truth EXCEPT ![name].bytes = @ \o [i \in 1 .. size - old.size |-> Fill]]
           replaced == IF m.start = old.start THEN {} ELSE {name}
<1>1. /\ Called /\ Has(hdr, name) /\ old.size < size
      /\ l # <<>> /\ Room(m.start) = Room(old.start)
      /\ Start(l, Grown(m, old), TRUE, plan, replaced)
  BY DEF Grow
<1>2. GoodList(hdr)
  BY DEF IInv
<1>3. /\ old \in FileItem /\ old.start \in Nat /\ old.size \in Nat /\ First <= old.start
      /\ End(old) <= Total
  BY <1>1, <1>2, FoundIs
<1> HIDE DEF old
<1>4. f.name \in Names /\ f.size \in Nat \ {0} /\ f.ext \in BOOLEAN /\ f.name = name /\ f.size = size
  BY FbAssumption
<1> HIDE DEF f
<1>5. GoodList(l)
  BY <1>1, <1>2, <1>4, AllocKeeps
<1>6. m \in FileItem /\ First <= m.start /\ End(m) <= Total /\ m.size = size
  BY <1>1, <1>2, <1>4, Allocated
<1> HIDE DEF l, m, plan, replaced
<1>7. Into(Grown(m, old), Sectors)
  <2>1. old.size <= m.size /\ m.size > 0
    BY <1>1, <1>3, <1>4, <1>6
  <2>2. old.start + Count(old.start, old.size) <= Total
    BY <1>3, EndIs
  <2>3. QED
    BY <1>1, <1>3, <1>6, <2>1, <2>2, GrownGood, FileSectors, IntoMore DEF Growing
<1>8. QED
  BY <1>1, <1>5, <1>7, StartKeeps

LEMMA CreateKeeps ==
  ASSUME IInv, NEW name \in Names, NEW size \in Sizes, NEW ext \in BOOLEAN,
         Create(name, size, ext)
  PROVE  IInv'
<1> DEFINE f == [name |-> name, size |-> size, ext |-> ext]
           l == Alloc(hdr, f)
           m == Find(l, name)
           old == [start |-> m.start, size |-> 0]
           plan == [truth EXCEPT ![name] = Holds([i \in 1 .. size |-> Fill], "ok")]
<1>1. Called /\ l # <<>> /\ Start(l, Grown(m, old), TRUE, plan, {})
  BY DEF Create
<1>2. GoodList(hdr)
  BY DEF IInv
<1>3. f.name \in Names /\ f.size \in Nat \ {0} /\ f.ext \in BOOLEAN /\ f.name = name
  BY FbAssumption
<1> HIDE DEF f
<1>4. GoodList(l)
  BY <1>1, <1>2, <1>3, AllocKeeps
<1>5. /\ m \in FileItem /\ First <= m.start /\ End(m) <= Total /\ m.size \in Nat \ {0}
      /\ m.start \in Nat
  BY <1>1, <1>2, <1>3, Allocated
<1> HIDE DEF l, m, plan
<1>6. old.start = m.start /\ old.size = 0
  OBVIOUS
<1> HIDE DEF old
<1>7. old.start + Count(old.start, old.size) <= Total
  <2>1. Count(m.start, 0) = 0
    BY RoomIs, CeilingOfNone DEF Count
  <2>2. Count(m.start, m.size) \in Nat /\ End(m) = m.start + Count(m.start, m.size)
    BY <1>5, EndIs
  <2>3. QED
    BY <1>5, <1>6, <2>1, <2>2, FbAssumption
<1>8. Into(Grown(m, old), Sectors)
  <2>1. m.size > 0 /\ old.size \in Nat /\ old.size <= m.size /\ Room(m.start) = Room(old.start)
    BY <1>5, <1>6
  <2>2. QED
    BY <1>5, <1>6, <1>7, <2>1, GrownGood, FileSectors, IntoMore DEF Growing
<1>9. QED
  BY <1>1, <1>4, <1>8, StartKeeps

LEMMA CopyKeeps ==
  ASSUME IInv, NEW from \in Names, NEW name \in Names, Copy(from, name)
  PROVE  IInv'
<1> DEFINE old == Find(hdr, from)
           f == [name |-> name, size |-> old.size, ext |-> old.start >= Pri]
           l == Alloc(hdr, f)
           m == Find(l, name)
           plan == [truth EXCEPT ![name] = truth[from]]
<1>1. /\ Called /\ Has(hdr, from)
      /\ l # <<>> /\ Room(m.start) = Room(old.start)
      /\ Start(l, Grown(m, old), TRUE, plan, {name})
  BY DEF Copy
<1>2. GoodList(hdr)
  BY DEF IInv
<1>3. /\ old \in FileItem /\ old.start \in Nat /\ old.size \in Nat \ {0} /\ First <= old.start
      /\ End(old) <= Total
  BY <1>1, <1>2, FoundIs
<1> HIDE DEF old
<1>4. /\ f.name \in Names /\ f.size \in Nat \ {0} /\ f.ext \in BOOLEAN /\ f.name = name
      /\ f.size = old.size
  BY <1>3
<1> HIDE DEF f
<1>5. GoodList(l)
  BY <1>1, <1>2, <1>4, AllocKeeps
<1>6. m \in FileItem /\ First <= m.start /\ End(m) <= Total /\ m.size = old.size
  BY <1>1, <1>2, <1>4, Allocated
<1> HIDE DEF l, m, plan
<1>7. Into(Grown(m, old), Sectors)
  <2>1. old.size <= m.size /\ m.size > 0 /\ old.size \in Nat
    BY <1>3, <1>6
  <2>2. old.start + Count(old.start, old.size) <= Total
    BY <1>3, EndIs
  <2>3. QED
    BY <1>1, <1>3, <1>6, <2>1, <2>2, GrownGood, FileSectors, IntoMore DEF Growing
<1>8. QED
  BY <1>1, <1>5, <1>7, StartKeeps

Renamed(rest, from, name) ==
  [i \in 1 .. Len(rest) |->
     IF rest[i].name = from THEN [rest[i] EXCEPT !.name = name] ELSE rest[i]]

\* A list in which a file has got another name.
LEMMA RenameIs ==
  ASSUME NEW name \in Names, NEW rest, GoodList(rest), ~Has(rest, name), NEW from
  PROVE  LET l == Renamed(rest, from, name) IN
            /\ GoodList(l) /\ Len(l) = Len(rest)
            /\ \A i \in 1 .. Len(rest) :
                 /\ l[i].start = rest[i].start /\ l[i].size = rest[i].size
                 /\ l[i].name = IF rest[i].name = from THEN name ELSE rest[i].name
<1> DEFINE new(i) == IF rest[i].name = from THEN [rest[i] EXCEPT !.name = name] ELSE rest[i]
           n == Len(rest)
           l == [i \in 1 .. n |-> new(i)]
<1>2. GoodList(rest) /\ ~Has(rest, name)
  OBVIOUS
<1>3. n \in Nat /\ n <= Capacity
  BY <1>2, LenProperties DEF GoodList, Laid
<1>4. \A i \in 1 .. n : /\ new(i) \in FileItem /\ new(i).start = rest[i].start
                        /\ new(i).size = rest[i].size
                        /\ new(i).name = IF rest[i].name = from THEN name ELSE rest[i].name
  <2>1. ASSUME NEW i \in 1 .. n
        PROVE  /\ new(i) \in FileItem /\ new(i).start = rest[i].start
               /\ new(i).size = rest[i].size
               /\ new(i).name = IF rest[i].name = from THEN name ELSE rest[i].name
    <3>1. rest[i] \in FileItem
      BY <1>2, ItemIs
    <3>2. QED
      BY <3>1 DEF FileItem
  <2>2. QED
    BY <2>1
<1> HIDE DEF new
<1>5. l \in [1 .. n -> FileItem] /\ \A i \in 1 .. n : l[i] = new(i)
  BY <1>4
<1>6. l \in Seq(FileItem) /\ Len(l) = n
  <2> HIDE DEF l, n
  <2>1. l \in Seq(FileItem)
    BY <1>3, <1>5, IsSequence
  <2>2. Len(l) \in Nat /\ DOMAIN l = 1 .. Len(l)
    BY <2>1, LenProperties
  <2>3. QED
    BY <1>3, <1>5, <2>2
<1> HIDE DEF l
<1>7. \A i \in 1 .. n : /\ l[i].start = rest[i].start /\ l[i].size = rest[i].size
                        /\ l[i].name = IF rest[i].name = from THEN name ELSE rest[i].name
                        /\ End(l[i]) = End(rest[i])
  BY <1>4, <1>5 DEF End
<1>8. Laid(l)
  <2>1. ASSUME NEW j \in 1 .. Len(l)
        PROVE  /\ l[j].start >= First /\ l[j].size > 0 /\ End(l[j]) <= Total
               /\ l[j].start < Pri => End(l[j]) <= Pri
               /\ j < Len(l) => End(l[j]) <= l[j + 1].start
    <3>1. j \in 1 .. n /\ (j < n => j + 1 \in 1 .. n)
      BY <1>3, <1>6
    <3>2. /\ rest[j].start \in Nat /\ rest[j].size \in Nat \ {0} /\ First <= rest[j].start
          /\ End(rest[j]) <= Total /\ (rest[j].start < Pri => End(rest[j]) <= Pri)
          /\ (j < n => End(rest[j]) <= rest[j + 1].start)
      BY <1>2, <3>1, ItemIs
    <3> HIDE DEF n
    <3>3. QED
      BY <1>6, <1>7, <3>1, <3>2, FbAssumption
  <2>2. ASSUME NEW i \in 1 .. Len(l), NEW j \in 1 .. Len(l), l[i].name = l[j].name
        PROVE  i = j
    <3>1. \A k \in 1 .. n : rest[k].name # name
      BY <1>2 DEF Has
    <3>2. i \in 1 .. n /\ j \in 1 .. n
      BY <1>6
    <3>3. rest[i].name = rest[j].name
      <4> HIDE DEF n
      <4>1. QED
        BY <1>7, <2>2, <3>1, <3>2
    <3>4. QED
      BY <1>2, <3>2, <3>3 DEF GoodList, Laid
  <2>3. QED
    BY <1>3, <1>6, <2>1, <2>2 DEF Laid
<1>9. GoodList(l)
  BY <1>6, <1>8 DEF GoodList
<1>10. QED
  <2>1. l = Renamed(rest, from, name)
    BY DEF l, new, Renamed
  <2> HIDE DEF l
  <2>2. QED
    BY <1>6, <1>7, <1>9, <2>1

LEMMA RenameKeeps ==
  ASSUME IInv, NEW from \in Names, NEW name \in Names, Rename(from, name)
  PROVE  IInv'
<1> DEFINE rest == Without(hdr, name)
           l == Renamed(rest, from, name)
           plan == [truth EXCEPT ![name] = truth[from]]
<1>1. Called /\ Start(l, <<>>, TRUE, plan, {})
  BY DEF Rename, Renamed
<1>2. GoodList(rest) /\ ~Has(rest, name)
  BY WithoutKeeps DEF IInv
<1> HIDE DEF rest
<1>3. GoodList(l)
  BY <1>2, RenameIs
<1> HIDE DEF l, plan
<1>4. QED
  BY <1>1, <1>3, NoWork, StartKeeps

LEMMA EmptyList == GoodList(<<>>)
BY EmptySeq, FbAssumption DEF GoodList, Laid

LEMMA RemoveFileKeeps ==
  ASSUME IInv, NEW name \in Names, RemoveFile(name)
  PROVE  IInv'
<1>1. Called /\ Start(Without(hdr, name), <<>>, TRUE, truth, {})
  BY DEF RemoveFile
<1>2. GoodList(Without(hdr, name))
  BY WithoutKeeps DEF IInv
<1>3. QED
  BY <1>1, <1>2, NoWork, StartKeeps

LEMMA ClearKeeps ==
  ASSUME IInv, Clear
  PROVE  IInv'
BY EmptyList, NoWork, StartKeeps DEF Clear

LEMMA PackStep ==
  ASSUME IInv, Pack
  PROVE  IInv'
<1> DEFINE p == FoldLeft(PackOne, Nowhere, hdr)
           moved == {hdr[i].name : i \in {j \in 1 .. Len(hdr) : p.list[j] # hdr[j]}}
<1>1. Called /\ Start(p.list, p.moves, TRUE, truth, moved)
  BY DEF Pack, Nowhere
<1>2. GoodList(p.list) /\ Into(p.moves, Sectors)
  BY PackKeeps DEF IInv
<1> HIDE DEF p, moved
<1>3. QED
  BY <1>1, <1>2, StartKeeps

LEMMA LoadStep ==
  ASSUME IInv, NEW archive \in Archives, Load(archive)
  PROVE  IInv'
<1> DEFINE p == FoldLeft(LoadOne, Unloaded, archive)
<1>1. Called /\ Start(p.list, p.moves, p.ok, p.plan, NamesOf(archive))
  BY DEF Load, Unloaded
<1>2. LoadedSoFar(p)
  BY LoadKeeps DEF IInv
<1> HIDE DEF p
<1>3. GoodList(p.list) /\ Into(p.moves, Sectors) /\ p.ok \in BOOLEAN
  BY <1>2 DEF LoadedSoFar
<1>4. QED
  BY <1>1, <1>3, StartKeeps

LEMMA CommandKeeps ==
  ASSUME IInv, Command
  PROVE  IInv'
<1>1. CASE \E name \in Names, size \in Sizes, b \in BOOLEAN :
             Add(name, size, b) \/ AddMenu(name, size, b) \/ Create(name, size, b)
  BY <1>1, AddKeeps, AddMenuKeeps, CreateKeeps
<1>2. CASE \E name \in Names, size \in Sizes : Cut(name, size) \/ Grow(name, size)
  BY <1>2, CutKeeps, GrowKeeps
<1>3. CASE \E from, name \in Names : Copy(from, name) \/ Rename(from, name)
  BY <1>3, CopyKeeps, RenameKeeps
<1>4. CASE \E name \in Names : RemoveFile(name)
  BY <1>4, RemoveFileKeeps
<1>5. CASE \E archive \in Archives : Load(archive)
  BY <1>5, LoadStep
<1>6. CASE Clear
  BY <1>6, ClearKeeps
<1>7. CASE Pack
  BY <1>7, PackStep
<1>8. QED
  BY <1>1, <1>2, <1>3, <1>4, <1>5, <1>6, <1>7 DEF Command

-----------------------------------------------------------------------------
(* The transfers, and the end of the program.                              *)

\* The first batch, and the batches after it.
LEMMA WorkSplits ==
  ASSUME NEW A, NEW w, Into(w, A), w # <<>>
  PROVE  Into(Tail(w), A) /\ GoodBatch(Head(w), A) /\ Len(Head(w)) \in Nat
<1> DEFINE B == {w[i] : i \in DOMAIN w}
<1>1. w \in Seq(B) /\ \A b \in B : GoodBatch(b, A)
  BY WorkIs
<1> HIDE DEF B
<1>2. Head(w) \in B /\ Tail(w) \in Seq(B)
  BY <1>1, HeadTailProperties
<1>3. GoodBatch(Head(w), A)
  BY <1>1, <1>2
<1>4. Len(Head(w)) \in Nat
  BY <1>3, LenProperties DEF GoodBatch
<1>5. QED
  BY <1>1, <1>2, <1>3, <1>4, WorkFrom

LEMMA FetchKeeps ==
  ASSUME IInv, Fetch
  PROVE  IInv'
<1> DEFINE n == Len(Head(work))
           e(i) == [to |-> Head(work)[i].to, bytes |-> Made(disk, Head(work)[i])]
           q == [i \in 1 .. n |-> e(i)]
<1>1. /\ work # <<>> /\ buf' = q /\ work' = Tail(work)
      /\ disk' = disk /\ hdr' = hdr /\ list' = list /\ running' = running
      /\ commits' = commits /\ runs' = runs /\ touched' = touched
  BY DEF Fetch, history
<1>2. Into(Tail(work), Sectors) /\ GoodBatch(Head(work), Sectors) /\ n \in Nat
  BY <1>1, WorkSplits DEF IInv
<1>3. ASSUME NEW i \in 1 .. n PROVE Numbered(e(i)) /\ e(i).to = Head(work)[i].to
  <2> DEFINE t == Head(work)[i]
             b == Made(disk, t)
  <2>1. t.to \in Sectors
    BY <1>2 DEF GoodBatch
  <2> HIDE DEF t
  <2>2. DOMAIN b = 1 .. ExtBytes
    BY DEF Made
  <2>3. t.to < Pri => \A k \in PriBytes + 1 .. ExtBytes : b[k] = Number(t.to)
    <3>1. \A k \in PriBytes + 1 .. ExtBytes : k \in 1 .. ExtBytes /\ k > PriBytes
      BY FbAssumption
    <3>2. QED
      BY <3>1 DEF Made
  <2> HIDE DEF b
  <2> DEFINE r == [to |-> t.to, bytes |-> b]
  <2>4. r.to = t.to /\ r.bytes = b
    OBVIOUS
  <2>5. e(i) = r
    BY DEF t, b
  <2> HIDE DEF r, e
  <2>6. QED
    BY <2>1, <2>2, <2>3, <2>4, <2>5 DEF Numbered, t
<1> HIDE DEF e
<1>4. Len(q) = n /\ q \in Seq({q[i] : i \in DOMAIN q}) /\ \A i \in 1 .. n : q[i] = e(i)
  <2> DEFINE T == {e(i) : i \in 1 .. n}
  <2>1. q \in [1 .. n -> T] /\ DOMAIN q = 1 .. n
    OBVIOUS
  <2>2. \A i \in 1 .. n : q[i] = e(i)
    OBVIOUS
  <2> HIDE DEF T, q, n
  <2>3. q \in Seq(T)
    BY <1>2, <2>1, IsSequence
  <2>4. Len(q) \in Nat /\ DOMAIN q = 1 .. Len(q)
    BY <2>3, LenProperties
  <2>5. Len(q) = n
    BY <1>2, <2>1, <2>4
  <2>6. QED
    BY <2>2, <2>3, <2>5, OfItself
<1> HIDE DEF q
<1>5. GoodBuf(q)
  <2>1. \A i, j \in 1 .. n : Head(work)[i].to = Head(work)[j].to => i = j
    BY <1>2 DEF GoodBatch
  <2> HIDE DEF n
  <2>2. \A i, j \in 1 .. n : q[i].to = q[j].to => i = j
    BY <1>3, <1>4, <2>1
  <2>3. QED
    BY <1>3, <1>4, <2>2 DEF GoodBuf
<1>6. GoodBuf(buf)' /\ Into(work, Sectors)'
  BY <1>1, <1>2, <1>5
<1>7. GoodList(hdr)' /\ GoodList(list)'
  BY <1>1 DEF IInv
<1>8. PrimaryNumbered'
  BY <1>1 DEF IInv, PrimaryNumbered, Carries
<1>9. QED
  BY <1>1, <1>6, <1>7, <1>8 DEF IInv

\* The sectors that are left after the first.
LEMMA BufSplits ==
  ASSUME NEW q, GoodBuf(q), q # <<>>
  PROVE  /\ GoodBuf(Tail(q)) /\ Numbered(Head(q)) /\ Head(q) = q[1]
         /\ Len(q) \in Nat \ {0} /\ Len(Tail(q)) = Len(q) - 1
         /\ \A i \in 1 .. Len(q) - 1 : Tail(q)[i] = q[i + 1]
<1> DEFINE S == {q[i] : i \in DOMAIN q}
           r == Tail(q)
<1>1. /\ q \in Seq(S) /\ \A i \in 1 .. Len(q) : Numbered(q[i])
      /\ \A i, j \in 1 .. Len(q) : q[i].to = q[j].to => i = j
  BY DEF GoodBuf
<1> HIDE DEF S
<1>2. Len(q) \in Nat \ {0}
  BY <1>1, EmptySeq
<1>3. r \in Seq(S) /\ Len(r) = Len(q) - 1 /\ \A i \in 1 .. Len(r) : r[i] = q[i + 1]
  BY <1>1, HeadTailProperties
<1>4. Head(q) = q[1]
  BY <1>1, <1>2
<1> HIDE DEF r
<1>5. \A i \in 1 .. Len(q) - 1 : r[i] = q[i + 1] /\ Numbered(r[i])
  BY <1>1, <1>2, <1>3
<1>6. \A i, j \in 1 .. Len(q) - 1 : r[i].to = r[j].to => i = j
  <2>1. ASSUME NEW i \in 1 .. Len(q) - 1, NEW j \in 1 .. Len(q) - 1, r[i].to = r[j].to
        PROVE  i = j
    <3>1. r[i] = q[i + 1] /\ r[j] = q[j + 1] /\ i + 1 \in 1 .. Len(q) /\ j + 1 \in 1 .. Len(q)
      BY <1>2, <1>5
    <3>2. i + 1 = j + 1
      BY <1>1, <2>1, <3>1
    <3>3. QED
      BY <1>2, <3>2
  <2>2. QED
    BY <2>1
<1>7. GoodBuf(r)
  BY <1>3, <1>5, <1>6, OfItself DEF GoodBuf
<1>8. Numbered(Head(q))
  BY <1>1, <1>2, <1>4
<1>9. QED
  BY <1>2, <1>3, <1>4, <1>5, <1>7, <1>8 DEF r

LEMMA StoreKeeps ==
  ASSUME IInv, Store
  PROVE  IInv'
<1> DEFINE b == Head(buf)
<1>1. /\ buf # <<>> /\ disk' = [disk EXCEPT ![b.to] = b.bytes] /\ buf' = Tail(buf)
      /\ hdr' = hdr /\ list' = list /\ work' = work /\ running' = running
      /\ commits' = commits /\ runs' = runs /\ touched' = touched
  BY DEF Store, history
<1>2. GoodBuf(Tail(buf)) /\ Numbered(b)
  BY <1>1, BufSplits DEF IInv
<1> HIDE DEF b
<1>3. DOMAIN disk = Sectors /\ b.to \in Sectors
  BY <1>2 DEF IInv, Numbered
<1>4. DOMAIN disk' = Sectors /\ \A s \in Sectors : disk'[s] = IF s = b.to THEN b.bytes ELSE disk[s]
  BY <1>1, <1>3
<1>5. \A s \in Sectors : DOMAIN disk'[s] = 1 .. ExtBytes
  BY <1>2, <1>4 DEF IInv, Numbered
<1>6. PrimaryNumbered'
  <2>1. ASSUME NEW s \in Sectors, s < Pri, NEW k \in PriBytes + 1 .. ExtBytes
        PROVE  disk'[s][k] = Number(s)
    <3>1. CASE s = b.to
      BY <1>2, <1>4, <2>1, <3>1 DEF Numbered
    <3>2. CASE s # b.to
      BY <1>4, <2>1, <3>2 DEF IInv, PrimaryNumbered, Carries
    <3>3. QED
      BY <3>1, <3>2
  <2>2. QED
    BY <2>1 DEF PrimaryNumbered, Carries
<1>7. GoodList(hdr)' /\ GoodList(list)' /\ Into(work, Sectors)'
  BY <1>1 DEF IInv
<1>8. GoodBuf(buf)'
  BY <1>1, <1>2
<1>9. QED
  BY <1>1, <1>4, <1>5, <1>6, <1>7, <1>8 DEF IInv

\* The program ends with one of the two lists on the disk.
LEMMA OverKeeps ==
  ASSUME IInv, NEW l, GoodList(l), NEW holds, Over(l, holds)
  PROVE  IInv'
<1>1. /\ running' = FALSE /\ commits' = FALSE /\ list' = <<>> /\ work' = <<>> /\ buf' = <<>>
      /\ touched' = {} /\ hdr' = l /\ disk' = disk /\ runs' = runs
  BY DEF Over
<1>2. GoodList(hdr)' /\ GoodList(list)'
  BY <1>1, EmptyList
<1>3. Into(work, Sectors)'
  BY <1>1, NoWork
<1>4. GoodBuf(buf)'
  <2>1. GoodBuf(<<>>)
    BY EmptySeq DEF GoodBuf
  <2>2. QED
    BY <1>1, <2>1
<1>5. PrimaryNumbered'
  BY <1>1 DEF IInv, PrimaryNumbered, Carries
<1>6. QED
  BY <1>1, <1>2, <1>3, <1>4, <1>5 DEF IInv

-----------------------------------------------------------------------------
(* The theorems.                                                           *)

LEMMA InitIInv == Init => IInv
<1> SUFFICES ASSUME Init PROVE IInv
  OBVIOUS
<1>1. GoodList(hdr)
  BY LayoutsAssumption DEF Init, GoodList, FileItem
<1>2. GoodList(list) /\ Into(work, Sectors)
  BY EmptyList, NoWork DEF Init
<1>3. GoodBuf(buf)
  <2>1. GoodBuf(<<>>)
    BY EmptySeq DEF GoodBuf
  <2>2. QED
    BY <2>1 DEF Init
<1> DEFINE owner(s) == {i \in 1 .. Len(hdr) : s \in hdr[i].start .. End(hdr[i]) - 1}
           m(s) == hdr[CHOOSE i \in owner(s) : TRUE]
           n(s, k) == (s - m(s).start) * Room(s) + k
           byte(s, k) == IF s < Pri /\ k > PriBytes THEN Number(s)
                         ELSE IF owner(s) # {} /\ n(s, k) <= m(s).size
                                THEN Byte(m(s).name, 0, n(s, k)) ELSE Left
<1>4. disk = [s \in Sectors |-> [k \in 1 .. ExtBytes |-> byte(s, k)]]
  BY DEF Init
<1>5. \A s \in Sectors, k \in PriBytes + 1 .. ExtBytes : s < Pri => byte(s, k) = Number(s)
  <2> HIDE DEF n, m, owner
  <2>1. QED
    BY FbAssumption
<1> HIDE DEF byte
<1>6. DOMAIN disk = Sectors /\ \A s \in Sectors : DOMAIN disk[s] = 1 .. ExtBytes
  BY <1>4
<1>7. PrimaryNumbered
  <2>1. \A k \in PriBytes + 1 .. ExtBytes : k \in 1 .. ExtBytes
    BY FbAssumption
  <2>2. QED
    BY <1>4, <1>5, <2>1 DEF PrimaryNumbered, Carries
<1>8. touched \subseteq Names /\ running \in BOOLEAN /\ commits \in BOOLEAN /\ runs \in 0 .. MaxRuns
  <2>1. touched = {} /\ running = FALSE /\ commits = FALSE /\ runs = 0
    BY DEF Init
  <2>2. runs \in 0 .. MaxRuns
    BY <2>1, FbAssumption
  <2>3. running \in BOOLEAN /\ commits \in BOOLEAN /\ touched \subseteq Names
    BY <2>1
  <2>4. QED
    BY <2>2, <2>3
<1>9. QED
  BY <1>1, <1>2, <1>3, <1>6, <1>7, <1>8 DEF IInv

LEMMA NextIInv == IInv /\ [Next]_vars => IInv'
<1> SUFFICES ASSUME IInv, [Next]_vars PROVE IInv'
  OBVIOUS
<1>1. CASE Command
  BY <1>1, CommandKeeps
<1>2. CASE Fetch
  BY <1>2, FetchKeeps
<1>3. CASE Store
  BY <1>3, StoreKeeps
<1>4. CASE WriteHeader
  BY <1>4, OverKeeps DEF WriteHeader, IInv
<1>5. CASE Quit
  BY <1>5, OverKeeps DEF Quit, IInv
<1>6. CASE Crash
  BY <1>6, OverKeeps DEF Crash, IInv
<1>7. CASE UNCHANGED vars
  <2>1. /\ disk' = disk /\ hdr' = hdr /\ list' = list /\ work' = work /\ buf' = buf
        /\ running' = running /\ commits' = commits /\ runs' = runs /\ touched' = touched
    BY <1>7 DEF vars, memory, history
  <2>2. PrimaryNumbered'
    BY <2>1 DEF IInv, PrimaryNumbered, Carries
  <2>3. GoodList(hdr)' /\ GoodList(list)' /\ Into(work, Sectors)' /\ GoodBuf(buf)'
    BY <2>1 DEF IInv
  <2>4. QED
    BY <2>1, <2>2, <2>3 DEF IInv
<1>8. QED
  BY <1>1, <1>2, <1>3, <1>4, <1>5, <1>6, <1>7 DEF Next

(* IInv holds in every state, whatever commands are run on whatever layout *)
(* and wherever the program quits or is cut short.                         *)
THEOREM Invariance == Spec => []IInv
<1>1. Init => IInv
  BY InitIInv
<1>2. IInv /\ [Next]_vars => IInv'
  BY NextIInv
<1>3. QED
  BY <1>1, <1>2, PTL DEF Spec

(* find_space, add, resize, copy, move, pack and load leave the list of    *)
(* files sorted, its files apart from each other and inside one area, as   *)
(* find_space takes it to be, and every transfer stays in the file area.   *)
THEOREM ListIsLaid == Spec => []ListLaid
<1>1. IInv => ListLaid
  <2> SUFFICES ASSUME IInv PROVE ListLaid
    OBVIOUS
  <2>1. GoodList(hdr) /\ GoodList(list) /\ Laid(hdr) /\ Laid(list)
    BY DEF IInv, GoodList
  <2>2. NamesOf(hdr) \cup NamesOf(list) \cup touched \subseteq Names
    BY <2>1, NamesAre DEF IInv
  <2>3. \A i \in 1 .. Len(buf) : buf[i].to \in Sectors
    BY DEF IInv, GoodBuf, Numbered
  <2>4. ASSUME NEW i \in 1 .. Len(work), NEW j \in 1 .. Len(work[i])
        PROVE  work[i][j].to \in Sectors /\ work[i][j].from \in Sectors
    <3>1. GoodBatch(work[i], Sectors)
      BY DEF IInv, Into
    <3>2. QED
      BY <3>1 DEF GoodBatch
  <2>5. TypeOK
    BY <2>2, <2>3, <2>4 DEF IInv, TypeOK
  <2>6. QED
    BY <2>1, <2>5 DEF ListLaid
<1>2. QED
  BY <1>1, Invariance, PTL

LEMMA NumberFits ==
  ASSUME NEW s \in Sectors
  PROVE  Number(s) = Byte("at", s, 0) <=> s < Word
<1>1. s \in Nat /\ Word \in Nat \ {0}
  BY FbAssumption DEF Sectors
<1>2. (s % Word) = s <=> s < Word
  BY <1>1
<1>3. Number(s) = Byte("at", s, 0) <=> (s % Word) = s
  BY DEF Number, Byte
<1>4. QED
  BY <1>2, <1>3

(* In every state, even after a crash between two writes, every sector of   *)
(* the primary area carries 16 bits of its own number, by which the boot    *)
(* code tells how the BIOS counts sectors.  fbinst check passes on the disk *)
(* exactly when its primary area has at most Word sectors.                  *)
THEOREM PrimaryIsNumbered == Spec => []CheckPasses
<1>1. IInv => CheckPasses
  <2> SUFFICES ASSUME IInv PROVE CheckPasses
    OBVIOUS
  <2>1. PrimaryNumbered
    BY DEF IInv
  <2>2. ASSUME Pri <= Word PROVE CheckDisk
    <3>1. ASSUME NEW s \in Sectors, s < Pri PROVE Carries(s, Byte("at", s, 0))
      <4>1. Number(s) = Byte("at", s, 0)
        BY <2>2, <3>1, NumberFits, FbAssumption DEF Sectors
      <4>2. QED
        BY <2>1, <3>1, <4>1 DEF PrimaryNumbered
    <3>2. QED
      BY <3>1 DEF CheckDisk
  <2>3. ASSUME CheckDisk, Pri > Word PROVE FALSE
    <3> DEFINE s == Pri - 1
    <3>1. s \in Sectors /\ s < Pri /\ ~(s < Word)
      BY <2>3, FbAssumption DEF Sectors
    <3> HIDE DEF s
    <3>2. Carries(s, Byte("at", s, 0)) /\ Carries(s, Number(s))
      BY <2>1, <2>3, <3>1 DEF CheckDisk, PrimaryNumbered
    <3>3. ExtBytes \in PriBytes + 1 .. ExtBytes
      BY FbAssumption
    <3>4. Number(s) = Byte("at", s, 0)
      BY <3>2, <3>3 DEF Carries
    <3>5. QED
      BY <3>1, <3>4, NumberFits
  <2>4. Pri <= Word \/ Pri > Word
    BY FbAssumption
  <2>5. QED
    BY <2>1, <2>2, <2>3, <2>4 DEF CheckPasses
<1>2. QED
  BY <1>1, Invariance, PTL

-----------------------------------------------------------------------------
(* What batches of transfers make of the disk, one after the other.        *)

Runs(d, w, len) ==
  \E acc : /\ acc[0] = d
           /\ \A k \in 1 .. len : acc[k] = Moved(acc[k - 1], w[k])
           /\ Final(d, w) = acc[len]

LEMMA FinalGoesOn ==
  ASSUME NEW d, NEW w, NEW len \in Nat, DOMAIN w = 1 .. len
  PROVE  Runs(d, w, len)
<1>1. Steps(<<"move", d>>, w, len)
  BY FoldGoesOn
<1>2. PICK acc : /\ acc[0] = d
                 /\ \A k \in 1 .. len : acc[k] = Moved(acc[k - 1], w[k])
                 /\ Result(<<"move", d>>, w) = acc[len]
  BY <1>1 DEF Steps, Step, Base
<1>3. QED
  BY <1>2, FinalIs DEF Runs

LEMMA FinalNone ==
  ASSUME NEW d
  PROVE  Final(d, <<>>) = d
<1>1. Runs(d, <<>>, 0)
  BY FinalGoesOn
<1>2. QED
  BY <1>1 DEF Runs

LEMMA FinalOne ==
  ASSUME NEW d, NEW b
  PROVE  Final(d, <<b>>) = Moved(d, b)
<1> DEFINE w == <<b>>
<1>1. DOMAIN w = 1 .. 1 /\ w[1] = b
  OBVIOUS
<1> HIDE DEF w
<1>2. Runs(d, w, 1)
  BY <1>1, FinalGoesOn
<1>3. PICK acc : /\ acc[0] = d
                 /\ \A k \in 1 .. 1 : acc[k] = Moved(acc[k - 1], w[k])
                 /\ Final(d, w) = acc[1]
  BY <1>2 DEF Runs
<1>4. 1 \in 1 .. 1 /\ 1 - 1 = 0
  OBVIOUS
<1>5. Final(d, w) = Moved(d, b)
  BY <1>1, <1>3, <1>4
<1>6. QED
  BY <1>5 DEF w

\* Batches after others find the disk that those have left.
LEMMA FinalConcat ==
  ASSUME NEW A, NEW v, NEW w, Into(v, A), Into(w, A), NEW d
  PROVE  Final(d, v \o w) = Final(Final(d, v), w)
<1> DEFINE B == {v[i] : i \in DOMAIN v} \cup {w[i] : i \in DOMAIN w}
           m == Len(v)
           n == Len(w)
           u == v \o w
<1>1. v \in Seq(B) /\ w \in Seq(B)
  <2>1. v \in Seq({v[i] : i \in DOMAIN v}) /\ w \in Seq({w[i] : i \in DOMAIN w})
    BY DEF Into
  <2>2. QED
    BY <2>1, SeqMonotonic
<1> HIDE DEF B
<1>2. /\ m \in Nat /\ n \in Nat /\ DOMAIN v = 1 .. m /\ DOMAIN w = 1 .. n
      /\ u \in Seq(B) /\ Len(u) = m + n
      /\ \A i \in 1 .. m + n : u[i] = IF i <= m THEN v[i] ELSE w[i - m]
  BY <1>1, LenProperties, ConcatProperties
<1>3. DOMAIN u = 1 .. m + n
  <2> HIDE DEF u
  <2>1. QED
    BY <1>2, LenProperties
<1> HIDE DEF u, m, n
<1>4. Runs(d, v, m) /\ Runs(Final(d, v), w, n) /\ Runs(d, u, m + n)
  BY <1>2, <1>3, FinalGoesOn
<1>5. PICK a : /\ a[0] = d
               /\ \A k \in 1 .. m : a[k] = Moved(a[k - 1], v[k])
               /\ Final(d, v) = a[m]
  BY <1>4 DEF Runs
<1>6. PICK b : /\ b[0] = Final(d, v)
               /\ \A k \in 1 .. n : b[k] = Moved(b[k - 1], w[k])
               /\ Final(Final(d, v), w) = b[n]
  BY <1>4 DEF Runs
<1>7. PICK c : /\ c[0] = d
               /\ \A k \in 1 .. m + n : c[k] = Moved(c[k - 1], u[k])
               /\ Final(d, u) = c[m + n]
  BY <1>4 DEF Runs
<1>8. c[m] = a[m]
  <2> DEFINE G == {k \in Nat : c[k] = a[k]}
  <2>1. 0 \in G
    BY <1>5, <1>7
  <2>2. ASSUME NEW k \in 1 .. m, k - 1 \in G PROVE k \in G
    <3>1. k \in 1 .. m + n /\ k <= m /\ k \in Nat
      BY <1>2
    <3>2. u[k] = v[k]
      BY <1>2, <3>1
    <3>3. QED
      BY <1>5, <1>7, <2>2, <3>1, <3>2
  <2>3. \A k \in 0 .. m : k \in G
    <3> HIDE DEF G
    <3>1. QED
      BY <1>2, <2>1, <2>2, UpTo
  <2>4. m \in 0 .. m
    BY <1>2
  <2>5. QED
    BY <2>3, <2>4
<1>9. c[m + n] = b[n]
  <2> DEFINE G == {k \in Nat : c[m + k] = b[k]}
  <2>1. 0 \in G
    BY <1>2, <1>5, <1>6, <1>8
  <2>2. ASSUME NEW k \in 1 .. n, k - 1 \in G PROVE k \in G
    <3>1. m + k \in 1 .. m + n /\ ~(m + k <= m) /\ (m + k) - m = k /\ m + k - 1 = m + (k - 1) /\ k \in Nat
      BY <1>2
    <3>2. u[m + k] = w[k]
      BY <1>2, <3>1
    <3>3. c[m + k] = Moved(c[m + (k - 1)], w[k])
      <4> DEFINE h == m + k
                 g == m + (k - 1)
      <4>1. h \in 1 .. m + n /\ h - 1 = g
        BY <1>2, <3>1
      <4>2. u[h] = w[k]
        BY <3>2
      <4> HIDE DEF h, g
      <4>3. c[h] = Moved(c[g], w[k])
        BY <1>7, <4>1, <4>2
      <4>4. QED
        BY <4>3 DEF h, g
    <3>4. QED
      BY <1>6, <2>2, <3>1, <3>3
  <2>3. \A k \in 0 .. n : k \in G
    <3> HIDE DEF G
    <3>1. QED
      BY <1>2, <2>1, <2>2, UpTo
  <2>4. n \in 0 .. n
    BY <1>2
  <2>5. QED
    BY <2>3, <2>4
<1>10. QED
  BY <1>6, <1>7, <1>9 DEF u

LEMMA FinalTail ==
  ASSUME NEW A, NEW w, Into(w, A), w # <<>>, NEW d
  PROVE  Final(d, w) = Final(Moved(d, Head(w)), Tail(w))
<1> DEFINE B == {w[i] : i \in DOMAIN w}
           b == Head(w)
<1>1. w \in Seq(B)
  BY DEF Into
<1> HIDE DEF B
<1>2. b \in B /\ Into(Tail(w), A) /\ GoodBatch(b, A)
  BY <1>1, WorkSplits, HeadTailProperties
<1>3. w = <<b>> \o Tail(w)
  <2>1. Len(w) \in Nat \ {0} /\ Tail(w) \in Seq(B) /\ <<b>> \in Seq(B) /\ Len(<<b>>) = 1 /\ <<b>>[1] = b
    BY <1>1, <1>2, LenProperties, EmptySeq, HeadTailProperties
  <2>2. Len(Tail(w)) = Len(w) - 1 /\ \A i \in 1 .. Len(Tail(w)) : Tail(w)[i] = w[i + 1]
    BY <1>1, HeadTailProperties
  <2>3. b = w[1]
    BY <1>1, <2>1
  <2> DEFINE c == <<b>>
             t == Tail(w)
             u == c \o t
  <2> HIDE DEF b, c, t
  <2>4. /\ u \in Seq(B) /\ Len(u) = Len(c) + Len(t)
        /\ \A i \in 1 .. Len(c) + Len(t) : u[i] = IF i <= Len(c) THEN c[i] ELSE t[i - Len(c)]
    BY <2>1, ConcatProperties DEF c, t
  <2>5. Len(u) = Len(w) /\ \A i \in 1 .. Len(w) : u[i] = w[i]
    <3>1. Len(c) = 1 /\ c[1] = w[1] /\ Len(t) = Len(w) - 1 /\ \A i \in 1 .. Len(w) - 1 : t[i] = w[i + 1]
      BY <2>1, <2>2, <2>3 DEF c, t
    <3> HIDE DEF u
    <3>2. ASSUME NEW i \in 1 .. Len(w) PROVE u[i] = w[i]
      <4>1. CASE i = 1
        BY <2>1, <2>4, <3>1, <4>1
      <4>2. CASE i # 1
        <5>1. ~(i <= 1) /\ i - 1 \in 1 .. Len(w) - 1 /\ (i - 1) + 1 = i
          BY <2>1, <4>2
        <5>2. QED
          BY <2>1, <2>4, <3>1, <5>1
      <4>3. QED
        BY <4>1, <4>2
    <3>3. QED
      BY <2>1, <2>4, <3>1, <3>2
  <2>6. u = w
    <3> HIDE DEF u
    <3>1. QED
      BY <1>1, <2>4, <2>5, SeqEqual
  <2>7. QED
    BY <2>6 DEF u, c, t
<1>4. Into(<<b>>, A)
  <2>1. <<b>> \in Seq({b})
    OBVIOUS
  <2>2. QED
    BY <1>2, <2>1, WorkFrom
<1>5. Final(d, <<b>> \o Tail(w)) = Final(Final(d, <<b>>), Tail(w))
  BY <1>2, <1>4, FinalConcat
<1>6. QED
  BY <1>3, <1>5, FinalOne

\* One batch leaves the other sectors as they are.
LEMMA MovedOff ==
  ASSUME NEW A, NEW b, GoodBatch(b, A), NEW d, NEW x \in Sectors \ A
  PROVE  Moved(d, b)[x] = d[x]
<1>1. ~ \E i \in 1 .. Len(b) : b[i].to = x
  BY DEF GoodBatch
<1>2. QED
  BY <1>1 DEF Moved

\* And makes of its own what its transfer says.
LEMMA MovedOn ==
  ASSUME NEW A, NEW b, GoodBatch(b, A), NEW d, NEW i \in 1 .. Len(b), b[i].to \in Sectors
  PROVE  Moved(d, b)[b[i].to] = Made(d, b[i])
<1> DEFINE x == b[i].to
           j == CHOOSE j \in 1 .. Len(b) : b[j].to = x
<1>1. j \in 1 .. Len(b) /\ b[j].to = x
  OBVIOUS
<1>2. j = i
  BY <1>1 DEF GoodBatch
<1>3. Moved(d, b)[x] = Made(d, b[j])
  BY DEF Moved
<1>4. QED
  BY <1>2, <1>3

\* Batches leave the other sectors as they are.
LEMMA FinalOff ==
  ASSUME NEW A, NEW w, Into(w, A), NEW d, NEW x \in Sectors \ A
  PROVE  Final(d, w)[x] = d[x]
<1> DEFINE len == Len(w)
<1>1. len \in Nat /\ DOMAIN w = 1 .. len /\ \A k \in 1 .. len : GoodBatch(w[k], A)
  BY LenProperties DEF Into
<1>2. Runs(d, w, len)
  BY <1>1, FinalGoesOn
<1>3. PICK acc : /\ acc[0] = d
                 /\ \A k \in 1 .. len : acc[k] = Moved(acc[k - 1], w[k])
                 /\ Final(d, w) = acc[len]
  BY <1>2 DEF Runs
<1> DEFINE G == {k \in Nat : acc[k][x] = d[x]}
<1>4. 0 \in G
  BY <1>3
<1>5. ASSUME NEW k \in 1 .. len, k - 1 \in G PROVE k \in G
  <2>1. acc[k][x] = acc[k - 1][x]
    BY <1>1, <1>3, MovedOff
  <2>2. QED
    BY <1>5, <2>1
<1>6. \A k \in 0 .. len : k \in G
  <2> HIDE DEF G, len
  <2>1. QED
    BY <1>1, <1>4, <1>5, UpTo
<1>7. len \in 0 .. len
  BY <1>1
<1>8. QED
  BY <1>3, <1>6, <1>7

(* No transfer needs a sector that one before it has overwritten. *)
Safe(s, n) ==
  \A i, j \in 1 .. n : i < j => s[j].keep = 0 \/ s[j].from # s[i].to

\* Made reads only what it keeps.
LEMMA MadeSame ==
  ASSUME NEW d, NEW e, NEW t, t.keep = 0 \/ d[t.from] = e[t.from]
  PROVE  Made(d, t) = Made(e, t)
<1>1. CASE d[t.from] = e[t.from]
  BY <1>1 DEF Made
<1>2. CASE t.keep = 0
  <2>1. \A k \in 1 .. ExtBytes : ~(k <= t.keep)
    BY <1>2
  <2>2. QED
    BY <2>1 DEF Made
<1>3. QED
  BY <1>1, <1>2

\* Transfers to sectors one after the other, none of which needs what another
\* overwrites, are made of the disk as it was.
LEMMA FlatRun ==
  ASSUME NEW s, NEW base \in Nat, NEW n \in Nat, Flat(s, base, n), Safe(s, n), NEW d,
         SectorsIn(base, n) \subseteq Sectors, NEW i \in 1 .. n
  PROVE  Final(d, Batches(s))[base + i - 1] = Made(d, s[i])
<1> DEFINE S == {s[j] : j \in 1 .. n}
           c == CeilDiv(n, Chunk)
           w == Batches(s)
           Done(x, k) == \E j \in 1 .. n : x = base + j - 1 /\ j <= k * Chunk
           Val(x, k) == IF Done(x, k) THEN Made(d, s[x - base + 1]) ELSE d[x]
<1>1. s \in Seq(S) /\ Len(s) = n
  BY FlatIs
<1>2. Chunk \in Nat \ {0} /\ c \in Nat /\ n <= c * Chunk
  BY Ceiling, FbAssumption
<1>3. \A j \in 1 .. n : s[j].to = base + j - 1 /\ s[j].from \in Sectors
  BY DEF Flat
<1>4. DOMAIN w = 1 .. c
  BY <1>1 DEF Batches
<1> HIDE DEF w
<1>5. Runs(d, w, c)
  <2> HIDE DEF c
  <2>1. QED
    BY <1>2, <1>4, FinalGoesOn
<1>6. PICK acc : /\ acc[0] = d
                 /\ \A k \in 1 .. c : acc[k] = Moved(acc[k - 1], w[k])
                 /\ Final(d, w) = acc[c]
  BY <1>5 DEF Runs
<1> DEFINE G == {k \in Nat : \A x \in Sectors : acc[k][x] = Val(x, k)}
<1>7. 0 \in G
  <2>1. ASSUME NEW x PROVE ~Done(x, 0)
    BY <1>2
  <2> HIDE DEF Done
  <2>2. QED
    BY <1>6, <2>1
<1>8. ASSUME NEW k \in 1 .. c, k - 1 \in G PROVE k \in G
  <2> DEFINE a == (k - 1) * Chunk
             z == Min({k * Chunk, Len(s)})
             b == w[k]
  <2>1. /\ a \in Nat /\ z \in Nat /\ a < z /\ z <= n /\ z <= k * Chunk
        /\ z = k * Chunk \/ z = n
        /\ Len(b) = z - a /\ \A j \in 1 .. z - a : b[j] = s[a + j]
    <3>1. k \in 1 .. CeilDiv(Len(s), Chunk)
      BY <1>1
    <3> HIDE DEF c
    <3>2. QED
      BY <1>1, <3>1, BatchIs DEF w
  <2>2. k \in Nat /\ k * Chunk \in Nat /\ k - 1 \in Nat
    <3> HIDE DEF c
    <3>1. k \in Nat /\ k - 1 \in Nat
      BY <1>2
    <3>2. QED
      BY <1>2, <3>1
  <2>3. acc[k] = Moved(acc[k - 1], b)
    BY <1>6
  <2>4. \A x \in Sectors : acc[k - 1][x] = Val(x, k - 1)
    BY <1>8
  <2> HIDE DEF z, b
  <2>5. ASSUME NEW x \in Sectors PROVE acc[k][x] = Val(x, k)
    <3>1. CASE \E j \in a + 1 .. z : x = base + j - 1
      <4>1. PICK j \in a + 1 .. z : x = base + j - 1
        BY <3>1
      <4> DEFINE h == j - a
      <4>2. h \in 1 .. z - a /\ a + h = j /\ j \in 1 .. n /\ j <= k * Chunk
        <5> HIDE DEF a
        <5>1. QED
          BY <2>1, <2>2
      <4> HIDE DEF h
      <4>3. h \in 1 .. Len(b) /\ b[h] = s[j] /\ s[j].to = x
        <5> HIDE DEF a
        <5>1. QED
          BY <1>3, <2>1, <4>1, <4>2
      <4>4. GoodBatch(b, SectorsIn(base, n))
        <5>1. Into(w, SectorsIn(base, n))
          BY BatchesGood DEF w, SectorsIn
        <5>2. w \in Seq({w[y] : y \in DOMAIN w})
          BY <5>1 DEF Into
        <5>3. Len(w) \in Nat /\ DOMAIN w = 1 .. Len(w)
          BY <5>2, LenProperties
        <5>4. k \in 1 .. Len(w)
          BY <1>4, <5>3
        <5>5. QED
          BY <5>1, <5>4 DEF Into, b
      <4>5. acc[k][x] = Made(acc[k - 1], s[j])
        BY <2>3, <4>3, <4>4, MovedOn
      <4>6. s[j].keep = 0 \/ acc[k - 1][s[j].from] = d[s[j].from]
        <5> DEFINE y == s[j].from
        <5>1. y \in Sectors
          BY <1>3, <4>2
        <5>2. CASE ~Done(y, k - 1)
          BY <2>4, <5>1, <5>2
        <5>3. CASE Done(y, k - 1)
          <6>1. PICK q \in 1 .. n : y = base + q - 1 /\ q <= a
            BY <5>3
          <6>2. q < j
            <7> HIDE DEF a
            <7>1. QED
              BY <2>1, <6>1
          <6>3. s[q].to = y
            BY <1>3, <6>1
          <6>4. QED
            BY <4>2, <6>2, <6>3 DEF Safe
        <5>4. QED
          BY <5>2, <5>3
      <4>7. Made(acc[k - 1], s[j]) = Made(d, s[j])
        BY <4>6, MadeSame
      <4>8. Done(x, k) /\ x - base + 1 = j
        BY <4>1, <4>2
      <4> HIDE DEF Done
      <4>9. QED
        BY <4>5, <4>7, <4>8
    <3>2. CASE ~ \E j \in a + 1 .. z : x = base + j - 1
      <4>1. ASSUME NEW h \in 1 .. Len(b) PROVE b[h].to # x
        <5>1. a + h \in a + 1 .. z /\ a + h \in 1 .. n /\ b[h] = s[a + h]
          <6> HIDE DEF a
          <6>1. QED
            BY <2>1
        <5>2. b[h].to = base + (a + h) - 1
          BY <1>3, <5>1
        <5>3. QED
          BY <3>2, <5>1, <5>2
      <4>2. acc[k][x] = acc[k - 1][x]
        BY <2>3, <4>1 DEF Moved
      <4>3. Done(x, k) <=> Done(x, k - 1)
        <5>1. k * Chunk = a + Chunk
          BY <1>2, <2>2
        <5>2. ASSUME NEW j \in 1 .. n, x = base + j - 1 PROVE j <= k * Chunk <=> j <= a
          <6>1. ~(j \in a + 1 .. z)
            BY <3>2, <5>2
          <6> HIDE DEF a
          <6>2. QED
            BY <1>2, <2>1, <2>2, <5>1, <6>1
        <5>3. QED
          BY <5>2
      <4> HIDE DEF Done
      <4>4. QED
        BY <2>4, <4>2, <4>3
    <3>3. QED
      BY <3>1, <3>2
  <2>6. QED
    BY <2>2, <2>5
<1>9. c \in G
  <2> HIDE DEF G, c
  <2>1. \A k \in 0 .. c : k \in G
    BY <1>2, <1>7, <1>8, UpTo
  <2>2. c \in 0 .. c
    BY <1>2
  <2>3. QED
    BY <2>1, <2>2
<1> DEFINE x == base + i - 1
<1>10. x \in Sectors /\ x - base + 1 = i
  BY DEF SectorsIn
<1>11. Done(x, c)
  <2> HIDE DEF c
  <2>1. c * Chunk \in Nat
    BY <1>2
  <2>2. QED
    BY <1>2, <2>1
<1> HIDE DEF x, Done
<1>12. Final(d, w)[x] = Made(d, s[i])
  BY <1>6, <1>9, <1>10, <1>11
<1>13. QED
  BY <1>12 DEF w, x

-----------------------------------------------------------------------------
(* The bytes of a file.                                                    *)

(* Byte i of a file is in sector q of it, and there in place k. *)
Sector(start, i) == (i - 1) \div Room(start)
Within(start, i) == ((i - 1) % Room(start)) + 1

LEMMA ReadIs ==
  ASSUME NEW d, NEW m
  PROVE  Read(d, m) = [i \in 1 .. m.size |-> d[m.start + Sector(m.start, i)][Within(m.start, i)]]
BY DEF Read, Sector, Within

LEMMA ByteAt ==
  ASSUME NEW start, NEW size \in Nat, NEW i \in 1 .. size
  PROVE  /\ Sector(start, i) \in Nat /\ Sector(start, i) < Count(start, size)
         /\ Within(start, i) \in 1 .. Room(start)
         /\ i = Sector(start, i) * Room(start) + Within(start, i)
         /\ Count(start, size) \in Nat
<1> DEFINE n == Room(start)
           q == (i - 1) \div n
           r == (i - 1) % n
           c == CeilDiv(size, n)
<1>1. n \in Nat \ {0} /\ i - 1 \in Nat
  BY RoomIs
<1>2. r \in 0 .. n - 1 /\ q \in Nat /\ i - 1 = q * n + r
  <2> HIDE DEF n
  <2>1. QED
    BY <1>1, Division
<1>3. c \in Nat /\ size <= c * n
  <2> HIDE DEF n
  <2>1. QED
    BY <1>1, Ceiling
<1>4. Sector(start, i) = q /\ Within(start, i) = r + 1 /\ Count(start, size) = c
  BY DEF Sector, Within, Count
<1> HIDE DEF q, r, c, n
<1>5. q * n \in Nat /\ c * n \in Nat
  BY <1>1, <1>2, <1>3
<1>6. q < c
  <2>1. SUFFICES ASSUME c <= q PROVE FALSE
    BY <1>2, <1>3
  <2>2. c * n <= q * n
    BY <1>1, <1>2, <1>3, <2>1, Times
  <2>3. QED
    BY <1>1, <1>2, <1>3, <1>5, <2>2
<1>7. r + 1 \in 1 .. n /\ i = q * n + (r + 1)
  BY <1>1, <1>2, <1>5
<1>8. QED
  BY <1>2, <1>3, <1>4, <1>6, <1>7 DEF n

LEMMA RoomFits ==
  ASSUME NEW start \in Nat, NEW k \in 1 .. Room(start), NEW x \in Nat, start <= x
  PROVE  k \in 1 .. ExtBytes /\ (x < Pri => ~(k > PriBytes))
BY FbAssumption DEF Room

LEMMA MadeAt ==
  ASSUME NEW d, NEW t, NEW k \in 1 .. ExtBytes, t.to < Pri => ~(k > PriBytes)
  PROVE  Made(d, t)[k] = IF k <= t.keep THEN d[t.from][k] ELSE t.over[k]
BY DEF Made

LEMMA UsedIs ==
  ASSUME NEW m \in FileItem, NEW s, NEW k \in Used(m, s)
  PROVE  /\ s \in SectorsOf(m) /\ k \in 1 .. Room(m.start)
         /\ \E i \in 1 .. m.size : s = m.start + Sector(m.start, i) /\ k = Within(m.start, i)
<1>1. PICK i \in 1 .. m.size : s = m.start + Sector(m.start, i) /\ k = Within(m.start, i)
  BY DEF Used, Sector, Within
<1>2. m.start \in Nat /\ m.size \in Nat /\ End(m) = m.start + Count(m.start, m.size)
  BY EndIs DEF FileItem
<1>3. /\ Sector(m.start, i) \in Nat /\ Sector(m.start, i) < Count(m.start, m.size)
      /\ Within(m.start, i) \in 1 .. Room(m.start) /\ Count(m.start, m.size) \in Nat
  BY <1>2, ByteAt
<1>4. s \in SectorsOf(m)
  BY <1>1, <1>2, <1>3 DEF SectorsOf
<1>5. QED
  BY <1>1, <1>3, <1>4

LEMMA InUse ==
  ASSUME NEW m, NEW i \in 1 .. m.size
  PROVE  Within(m.start, i) \in Used(m, m.start + Sector(m.start, i))
BY DEF Used, Sector, Within

\* What a file reads depends on what it uses of its sectors.
LEMMA ReadSame ==
  ASSUME NEW m \in FileItem, NEW d, NEW e,
         \A s \in SectorsOf(m) : \A k \in Used(m, s) : d[s][k] = e[s][k]
  PROVE  Read(d, m) = Read(e, m)
<1>1. ASSUME NEW i \in 1 .. m.size
      PROVE  d[m.start + Sector(m.start, i)][Within(m.start, i)]
               = e[m.start + Sector(m.start, i)][Within(m.start, i)]
  BY InUse, UsedIs
<1>2. QED
  BY <1>1, ReadIs

LEMMA HarmlessIs ==
  ASSUME NEW m \in FileItem, NEW t, t.to \in Nat, Harmless(t, m), NEW k \in Used(m, t.to), NEW d
  PROVE  Made(d, t)[k] = d[t.to][k]
<1>1. t.to \in SectorsOf(m) /\ k \in 1 .. Room(m.start) /\ m.start \in Nat
  BY UsedIs DEF FileItem
<1>2. m.start <= t.to
  BY <1>1, EndIs DEF SectorsOf
<1>3. k \in 1 .. ExtBytes /\ (t.to < Pri => ~(k > PriBytes))
  BY <1>1, <1>2, RoomFits
<1>4. t.from = t.to /\ k <= t.keep
  BY DEF Harmless
<1>5. QED
  BY <1>3, <1>4, MadeAt

LEMMA ApartHarmless ==
  ASSUME NEW m \in FileItem, NEW A, NEW w, Into(w, A), A \cap SectorsOf(m) = {}
  PROVE  AllHarmless(w, m)
<1>1. ASSUME NEW j \in 1 .. Len(w), NEW n \in 1 .. Len(w[j]), NEW k \in Used(m, w[j][n].to)
      PROVE  FALSE
  <2>1. w[j][n].to \in A
    BY DEF Into, GoodBatch
  <2>2. w[j][n].to \in SectorsOf(m)
    BY <1>1, UsedIs
  <2>3. QED
    BY <2>1, <2>2
<1>2. QED
  BY <1>1 DEF AllHarmless, Harmless

\* Files apart from what is written read as before.
LEMMA ApartReads ==
  ASSUME NEW m \in FileItem, SectorsOf(m) \subseteq Sectors, NEW A, NEW w, Into(w, A),
         A \cap SectorsOf(m) = {}, NEW d
  PROVE  Read(Final(d, w), m) = Read(d, m)
<1>1. \A s \in SectorsOf(m) : Final(d, w)[s] = d[s]
  BY FinalOff
<1>2. QED
  BY <1>1, ReadSame

-----------------------------------------------------------------------------
(* What the transfers of a command make of a file.                         *)

\* save_file_data: the file reads as the bytes given.
LEMMA SavedRun ==
  ASSUME NEW m \in FileItem, First <= m.start, End(m) <= Total, NEW bytes,
         IsBytes(bytes, m.size), NEW d
  PROVE  Read(Final(d, Saved(m, bytes)), m) = bytes
<1> DEFINE n == Room(m.start)
           c == Count(m.start, m.size)
           s == SaveOf(m, bytes)
           e == Final(d, Saved(m, bytes))
           over(q) == [k \in 1 .. ExtBytes |->
                         IF k <= n /\ (q - 1) * n + k <= m.size THEN bytes[(q - 1) * n + k]
                         ELSE Left]
           t(q) == [to |-> m.start + q - 1, from |-> m.start + q - 1, keep |-> 0, over |-> over(q)]
<1>1. /\ SectorsOf(m) = SectorsIn(m.start, c) /\ SectorsOf(m) \subseteq Sectors
      /\ m.start \in Nat /\ c \in Nat
  BY FileSectors
<1>2. Flat(s, m.start, c) /\ Saved(m, bytes) = Batches(s)
  BY SaveFlat
<1>3. s = [q \in 1 .. c |-> t(q)]
  BY DEF SaveOf
<1>4. \A q \in 1 .. c : t(q).to = m.start + q - 1 /\ t(q).keep = 0 /\ t(q).over = over(q)
  OBVIOUS
<1>5. m.size \in Nat /\ n \in Nat \ {0}
  BY RoomIs DEF FileItem
<1> HIDE DEF t, s, c
<1>6. \A q \in 1 .. c : s[q] = t(q)
  BY <1>3
<1>7. Safe(s, c)
  BY <1>4, <1>6 DEF Safe
<1>8. ASSUME NEW i \in 1 .. m.size
      PROVE  e[m.start + Sector(m.start, i)][Within(m.start, i)] = bytes[i]
  <2> DEFINE q == Sector(m.start, i)
             k == Within(m.start, i)
             x == m.start + q
  <2>1. q \in Nat /\ q < c /\ k \in 1 .. n /\ i = q * n + k
    BY <1>5, ByteAt DEF c
  <2> HIDE DEF q, k, n, e
  <2>2. q + 1 \in 1 .. c /\ (q + 1) - 1 = q /\ m.start + (q + 1) - 1 = x /\ x \in Nat /\ m.start <= x
    BY <1>1, <2>1
  <2>3. e[m.start + (q + 1) - 1] = Made(d, s[q + 1])
    BY <1>1, <1>2, <1>7, <2>2, FlatRun DEF e
  <2>4. k \in 1 .. ExtBytes /\ (x < Pri => ~(k > PriBytes))
    BY <1>1, <2>1, <2>2, RoomFits DEF n
  <2>5. s[q + 1].to = x /\ s[q + 1].keep = 0 /\ s[q + 1].over = over(q + 1)
    BY <1>4, <1>6, <2>2
  <2>6. Made(d, s[q + 1])[k] = over(q + 1)[k]
    <3>1. ~(k <= 0)
      BY <2>1, <1>5
    <3> HIDE DEF over
    <3>2. QED
      BY <2>4, <2>5, <3>1, MadeAt
  <2>7. over(q + 1)[k] = bytes[i]
    <3>1. k <= n /\ i <= m.size
      BY <1>5, <2>1
    <3>2. ((q + 1) - 1) * n + k = i
      BY <2>1, <2>2
    <3>3. QED
      BY <2>4, <3>1, <3>2
  <2>8. QED
    BY <2>2, <2>3, <2>6, <2>7 DEF q, k
<1>9. Read(e, m) = [i \in 1 .. m.size |-> bytes[i]]
  <2> HIDE DEF e
  <2>1. QED
    BY <1>8, ReadIs
<1>10. QED
  BY <1>9 DEF IsBytes

\* save_buff: so does a menu in the extended area or of a single sector.
LEMMA SavedBuffRun ==
  ASSUME NEW m \in FileItem, First <= m.start, End(m) <= Total, m.size > 0, NEW bytes,
         IsBytes(bytes, m.size), Len(bytes) = m.size, m.start < Pri => m.size <= PriBytes, NEW d
  PROVE  Read(Final(d, SavedBuff(m, bytes)), m) = bytes
<1>0. m.start \in Nat /\ m.size \in Nat
  BY DEF FileItem
<1>1. CASE m.start >= Pri
  <2>1. SavedBuff(m, bytes) = Saved(m, bytes)
    BY <1>1 DEF SavedBuff
  <2>2. QED
    BY <2>1, SavedRun
<1>2. CASE ~(m.start >= Pri)
  <2> DEFINE over == [k \in 1 .. ExtBytes |-> IF k <= Len(bytes) THEN bytes[k] ELSE Left]
             t(i) == [to |-> m.start + i - 1, from |-> m.start, keep |-> 0, over |-> over]
             u == t(1)
             b == <<u>>
             c == Count(m.start, m.size)
             e == Final(d, SavedBuff(m, bytes))
  <2>1. m.start < Pri /\ m.size <= PriBytes /\ Room(m.start) = PriBytes
    BY <1>0, <1>2, FbAssumption DEF Room
  <2>2. c = 1
    <3>1. m.size <= 1 * PriBytes /\ PriBytes \in Nat \ {0} /\ m.size \in Nat \ {0}
      BY <1>0, <2>1, FbAssumption
    <3>2. CeilDiv(m.size, PriBytes) \in Nat \ {0} /\ CeilDiv(m.size, PriBytes) <= 1
      BY <3>1, CeilingOfSome, CeilingLeast
    <3>3. c = CeilDiv(m.size, PriBytes)
      BY <2>1 DEF Count
    <3>4. QED
      BY <3>2, <3>3
  <2>3. SavedBuff(m, bytes) = [i \in 1 .. c |-> <<t(i)>>]
    BY <1>2 DEF SavedBuff
  <2>4. [i \in 1 .. 1 |-> <<t(i)>>] = <<b>>
    <3> HIDE DEF t, u
    <3>1. QED
      BY DEF u
  <2>5. e = Moved(d, b)
    <3> HIDE DEF b, c, t
    <3>1. SavedBuff(m, bytes) = <<b>>
      BY <2>2, <2>3, <2>4
    <3>2. QED
      BY <3>1, FinalOne
  <2>6. u.to = m.start /\ u.from = m.start /\ u.keep = 0 /\ u.over = over
    <3>1. m.start + 1 - 1 = m.start
      BY <1>0
    <3>2. QED
      BY <3>1
  <2>7. m.start \in Sectors
    <3>1. c > 0 /\ End(m) = m.start + c
      BY EndIs
    <3>2. SectorsOf(m) \subseteq Sectors
      BY FileSectors
    <3> HIDE DEF c
    <3>3. m.start \in SectorsOf(m)
      BY <1>0, <2>2, <3>1 DEF SectorsOf
    <3>4. QED
      BY <3>2, <3>3
  <2> HIDE DEF e, u, over, c, t
  <2>8. e[m.start] = Made(d, u)
    <3>1. GoodBatch(b, Sectors)
      BY <2>6, <2>7, OneTransfer
    <3>2. Len(b) = 1 /\ b[1] = u /\ 1 \in 1 .. 1
      OBVIOUS
    <3> HIDE DEF b
    <3>3. QED
      BY <2>5, <2>6, <2>7, <3>1, <3>2, MovedOn
  <2>9. ASSUME NEW i \in 1 .. m.size
        PROVE  e[m.start + Sector(m.start, i)][Within(m.start, i)] = bytes[i]
    <3> DEFINE q == Sector(m.start, i)
               k == Within(m.start, i)
    <3>1. q \in Nat /\ q < c /\ k \in 1 .. Room(m.start) /\ i = q * Room(m.start) + k
      BY <1>0, ByteAt DEF c
    <3> HIDE DEF q, k
    <3>2. q = 0
      BY <2>2, <3>1
    <3>3. 0 * Room(m.start) = 0 /\ k \in Nat
      BY <2>1, <3>1, FbAssumption
    <3>4. i = k /\ m.start + q = m.start
      BY <1>0, <3>1, <3>2, <3>3
    <3>5. k \in 1 .. ExtBytes /\ (m.start < Pri => ~(k > PriBytes))
      BY <1>0, <3>1, RoomFits
    <3>6. Made(d, u)[k] = over[k]
      <4>1. ~(k <= 0)
        BY <3>5
      <4>2. QED
        BY <2>6, <3>5, <4>1, MadeAt
    <3>7. over[k] = bytes[k]
      BY <1>0, <3>4, <3>5 DEF over
    <3>8. QED
      BY <2>8, <3>4, <3>6, <3>7 DEF q, k
  <2>10. Read(e, m) = [i \in 1 .. m.size |-> bytes[i]]
    BY <2>9, ReadIs
  <2>11. QED
    BY <2>10 DEF IsBytes, e
<1>3. QED
  BY <1>1, <1>2

\* copy_disk: the first bytes of every sector arrive at the new place, when
\* that begins no later than the old one, or both are apart.
LEMMA CopiedRun ==
  ASSUME NEW to \in Nat, NEW from \in Nat, NEW n \in Nat,
         First <= to, to + n <= Total, First <= from, from + n <= Total,
         to <= from \/ from + n <= to, NEW d, NEW q \in 0 .. n - 1, NEW k \in 1 .. Room(to)
  PROVE  Final(d, Copied(to, from, n))[to + q][k] = d[from + q][k]
<1> DEFINE s == CopyOf(to, from, n)
           t(i) == [to |-> to + i - 1, from |-> from + i - 1, keep |-> Room(to), over |-> Blank(Fill)]
<1>1. Flat(s, to, n) /\ Copied(to, from, n) = Batches(s)
  BY CopyFlat
<1>2. SectorsIn(to, n) \subseteq Sectors
  BY InTheArea
<1>3. s = [i \in 1 .. n |-> t(i)]
  BY DEF CopyOf
<1>4. \A i \in 1 .. n : t(i).to = to + i - 1 /\ t(i).from = from + i - 1 /\ t(i).keep = Room(to)
  OBVIOUS
<1> HIDE DEF s, t
<1>5. \A i \in 1 .. n : s[i] = t(i)
  BY <1>3
<1>6. Safe(s, n)
  <2>1. ASSUME NEW i \in 1 .. n, NEW j \in 1 .. n, i < j PROVE s[j].from # s[i].to
    <3>1. s[j].from = from + j - 1 /\ s[i].to = to + i - 1
      BY <1>4, <1>5
    <3>2. from + j - 1 # to + i - 1
      BY <2>1
    <3>3. QED
      BY <3>1, <3>2
  <2>2. QED
    BY <2>1 DEF Safe
<1>7. q + 1 \in 1 .. n /\ to + (q + 1) - 1 = to + q /\ from + (q + 1) - 1 = from + q
      /\ to + q \in Nat /\ to <= to + q
  OBVIOUS
<1>8. Final(d, Batches(s))[to + (q + 1) - 1] = Made(d, s[q + 1])
  BY <1>1, <1>2, <1>6, <1>7, FlatRun
<1>9. /\ s[q + 1].to = to + q /\ s[q + 1].from = from + q /\ s[q + 1].keep = Room(to)
  BY <1>4, <1>5, <1>7
<1>10. Made(d, s[q + 1])[k] = d[from + q][k]
  <2>1. k \in 1 .. ExtBytes /\ (to + q < Pri => ~(k > PriBytes))
    BY <1>7, RoomFits
  <2>2. k <= Room(to)
    BY RoomIs
  <2>3. QED
    BY <1>9, <2>1, <2>2, MadeAt
<1>11. QED
  BY <1>1, <1>7, <1>8, <1>10

\* Where a byte falls when size bytes fill whole sectors and a piece.
LEMMA PieceSplits ==
  ASSUME NEW n \in Nat \ {0}, NEW q \in Nat, NEW k \in 1 .. n, NEW whole \in Nat,
         NEW kept \in 0 .. n - 1
  PROVE  /\ q * n + k <= whole * n + kept => q < whole \/ (q = whole /\ k <= kept)
         /\ ~(q * n + k <= whole * n + kept) => whole < q \/ (q = whole /\ kept < k)
<1>1. q * n \in Nat /\ whole * n \in Nat
  OBVIOUS
<1>2. CASE q < whole
  <2>1. (q + 1) * n <= whole * n
    BY <1>2, Times
  <2>2. (q + 1) * n = q * n + n
    OBVIOUS
  <2>3. QED
    BY <1>1, <1>2, <2>1, <2>2
<1>3. CASE q = whole
  BY <1>1, <1>3
<1>4. CASE whole < q
  <2>1. (whole + 1) * n <= q * n
    BY <1>4, Times
  <2>2. (whole + 1) * n = whole * n + n
    OBVIOUS
  <2>3. QED
    BY <1>1, <1>4, <2>1, <2>2
<1>5. QED
  BY <1>2, <1>3, <1>4

LEMMA BlankIs == \A k \in 1 .. ExtBytes : Blank(Fill)[k] = Fill
BY DEF Blank

(* The older file lies where copying it cannot overwrite what is still to be *)
(* copied.                                                                   *)
Movable(m, old) == m.start <= old.start \/ old.start + Count(old.start, old.size) <= m.start

\* cpy_file: the file reads as the older one, and is filled up.
LEMMA GrownRun ==
  ASSUME NEW m, NEW old, Growing(m, old), Movable(m, old), NEW d
  PROVE  Read(Final(d, Grown(m, old)), m)
           = [i \in 1 .. m.size |-> IF i <= old.size THEN Read(d, old)[i] ELSE Fill]
<1> DEFINE n == Room(m.start)
           whole == Whole(m, old)
           kept == Kept(m, old)
           at == At(m, old)
           beyond == Beyond(m, old)
           end == End(m)
           c == Count(m.start, m.size)
           o == Count(old.start, old.size)
           first == PartCopied(m, old)
           second == PartKept(m, old)
           third == Batches(FillOf(m, old))
           d1 == Final(d, first)
           d2 == Final(d1, second)
           d3 == Final(d2, third)
           A == SectorsIn(m.start, whole)
           B == {at} \cap SectorsOf(m)
           C == SectorsIn(beyond, end - beyond)
<1>1. /\ m \in FileItem /\ First <= m.start /\ end <= Total /\ m.size > 0
      /\ old.start \in Nat /\ First <= old.start /\ old.size \in Nat
      /\ n = Room(old.start) /\ old.start + o <= Total
  BY DEF Growing
<1>2. /\ m.start \in Nat /\ m.size \in Nat /\ n \in Nat \ {0}
      /\ end \in Nat /\ end = m.start + c
      /\ whole \in Nat /\ kept \in 0 .. n - 1 /\ old.size = whole * n + kept
      /\ at = m.start + whole /\ at <= end /\ (kept # 0 => at < end)
      /\ beyond \in Nat /\ beyond <= end
      /\ old.start + whole <= old.start + o /\ (kept # 0 => old.start + whole < old.start + o)
      /\ o \in Nat
  BY GrowingIs
<1>3. beyond = IF kept = 0 THEN at ELSE at + 1
  BY DEF Beyond
<1>4. /\ Into(first, A) /\ Into(second, B) /\ Into(third, C)
      /\ A \subseteq SectorsOf(m) /\ C \subseteq SectorsOf(m)
  BY PartsGood
<1>5. SectorsOf(m) \subseteq Sectors /\ SectorsOf(m) = SectorsIn(m.start, c) /\ c \in Nat
  BY <1>1, FileSectors
<1>6. Movable(m, old) <=> m.start <= old.start \/ old.start + o <= m.start
  BY DEF Movable
<1>7. Flat(FillOf(m, old), beyond, end - beyond) /\ Safe(FillOf(m, old), end - beyond)
  <2>1. \A i \in 1 .. end - beyond : FillOf(m, old)[i].keep = 0
    BY DEF FillOf
  <2> HIDE DEF end, beyond
  <2>2. Safe(FillOf(m, old), end - beyond)
    BY <2>1 DEF Safe
  <2>3. QED
    BY <2>2, FillFlat DEF end, beyond
<1>8. Final(d, Grown(m, old)) = d3
  <2>1. Into(first, SectorsOf(m)) /\ Into(second, SectorsOf(m)) /\ Into(third, SectorsOf(m))
    <3>1. B \subseteq SectorsOf(m)
      OBVIOUS
    <3> HIDE DEF first, second, third, A, B, C
    <3>2. QED
      BY <1>4, <3>1, IntoMore
  <2>2. Grown(m, old) = (first \o second) \o third
    BY GrownIs
  <2> HIDE DEF first, second, third
  <2>3. Into(first \o second, SectorsOf(m))
    BY <2>1, WorkAfter
  <2>4. Final(d, first \o second) = d2
    BY <2>1, FinalConcat
  <2>5. Final(d, (first \o second) \o third) = Final(Final(d, first \o second), third)
    BY <2>1, <2>3, FinalConcat
  <2>6. QED
    BY <2>2, <2>4, <2>5
<1> HIDE DEF second, third, d2, d3, first, d1
<1> DEFINE y(q) == old.start + q
<1>9. ASSUME NEW q \in 0 .. whole - 1, NEW k \in 1 .. n
      PROVE  d1[m.start + q][k] = d[y(q)][k]
  <2>1. CASE m.start = old.start
    <3>1. first = <<>>
      BY <2>1 DEF first, PartCopied
    <3>2. d1 = d
      BY <3>1, FinalNone DEF d1
    <3>3. QED
      BY <2>1, <3>2
  <2>2. CASE m.start # old.start
    <3>1. first = Copied(m.start, old.start, whole)
      BY <2>2 DEF first, PartCopied
    <3>2. m.start + whole <= Total /\ old.start + whole <= Total
          /\ (m.start <= old.start \/ old.start + whole <= m.start)
      <4> HIDE DEF whole, kept, at, end, o, c, n
      <4>1. QED
        BY <1>1, <1>2, <1>6, FbAssumption
    <3>3. /\ m.start \in Nat /\ old.start \in Nat /\ whole \in Nat
          /\ First <= m.start /\ First <= old.start
      BY <1>1, <1>2
    <3> HIDE DEF whole
    <3>4. Final(d, Copied(m.start, old.start, whole))[m.start + q][k] = d[old.start + q][k]
      BY <3>2, <3>3, CopiedRun
    <3>5. QED
      BY <3>1, <3>4 DEF d1
  <2>3. QED
    BY <2>1, <2>2
<1>10. kept # 0 => d1[y(whole)] = d[y(whole)]
  <2>1. SUFFICES ASSUME kept # 0 PROVE d1[y(whole)] = d[y(whole)]
    OBVIOUS
  <2>2. y(whole) \in Sectors
    <3> HIDE DEF whole, kept, at, end, o, c, n
    <3>1. QED
      BY <1>1, <1>2, <2>1, FbAssumption DEF Sectors
  <2>3. CASE m.start = old.start
    <3>1. first = <<>>
      BY <2>3 DEF first, PartCopied
    <3>2. QED
      BY <3>1, FinalNone DEF d1
  <2>4. CASE m.start # old.start
    <3>1. y(whole) \notin A
      <4> HIDE DEF whole, kept, at, end, o, c, n
      <4>1. QED
        BY <1>1, <1>2, <1>6, <2>1, FbAssumption DEF SectorsIn
    <3> HIDE DEF A, y
    <3>2. QED
      BY <1>4, <2>2, <3>1, FinalOff DEF d1
  <2>5. QED
    BY <2>3, <2>4
<1>11. kept # 0 => d2[at] = Made(d1, Piece(m, old))
  <2>1. SUFFICES ASSUME kept # 0 PROVE d2[at] = Made(d1, Piece(m, old))
    OBVIOUS
  <2> DEFINE u == Piece(m, old)
             b == <<u>>
  <2>2. u.to = at /\ u.to \in SectorsOf(m) /\ u.from \in Sectors
    BY <2>1, PieceIs DEF Piece
  <2>3. second = <<b>>
    BY <2>1 DEF second, PartKept
  <2>4. GoodBatch(b, Sectors)
    BY <1>5, <2>2, OneTransfer
  <2>5. Len(b) = 1 /\ b[1] = u /\ 1 \in 1 .. 1
    OBVIOUS
  <2> HIDE DEF u, b, at
  <2>6. d2 = Moved(d1, b)
    BY <2>3, FinalOne DEF d2
  <2>7. Moved(d1, b)[b[1].to] = Made(d1, b[1])
    BY <1>5, <2>2, <2>4, <2>5, MovedOn
  <2>8. QED
    BY <2>2, <2>5, <2>6, <2>7 DEF u
<1>12. \A i \in 1 .. end - beyond : d3[beyond + i - 1] = Made(d2, FillOf(m, old)[i])
  <2> DEFINE h == end - beyond
  <2>1. h \in Nat
    BY <1>2
  <2>2. SectorsIn(beyond, h) \subseteq Sectors
    BY <1>4, <1>5
  <2>3. Flat(FillOf(m, old), beyond, h) /\ Safe(FillOf(m, old), h)
    BY <1>7
  <2> HIDE DEF h
  <2>4. QED
    BY <1>2, <2>1, <2>2, <2>3, FlatRun DEF d3, third, h
<1> HIDE DEF at, beyond, end, whole, kept, c, o, n, y
<1>13. ASSUME NEW x \in SectorsOf(m), x < beyond, x # at
       PROVE  d3[x] = d1[x]
  <2>1. x \in Sectors /\ x \notin B /\ x \notin C
    BY <1>2, <1>5, <1>13 DEF SectorsIn
  <2> HIDE DEF B, C
  <2>2. d3[x] = d2[x] /\ d2[x] = d1[x]
    BY <1>4, <2>1, FinalOff DEF d3, d2
  <2>3. QED
    BY <2>2
<1>14. kept # 0 => d3[at] = Made(d1, Piece(m, old))
  <2>1. SUFFICES ASSUME kept # 0 PROVE d3[at] = d2[at]
    BY <1>11
  <2>2. at \in Sectors /\ at \notin C
    <3> HIDE DEF A, B
    <3>1. at \in SectorsOf(m)
      BY <1>2, <1>5, <2>1 DEF SectorsIn
    <3>2. at < beyond /\ at \in Nat /\ beyond \in Nat
      BY <1>2, <1>3, <2>1
    <3>3. QED
      BY <1>5, <3>1, <3>2 DEF SectorsIn
  <2> HIDE DEF C
  <2>3. QED
    BY <1>4, <2>2, FinalOff DEF d3
<1>15. ASSUME NEW i \in 1 .. m.size
       PROVE  d3[m.start + Sector(m.start, i)][Within(m.start, i)]
                = IF i <= old.size THEN Read(d, old)[i] ELSE Fill
  <2> DEFINE q == Sector(m.start, i)
             k == Within(m.start, i)
             x == m.start + q
  <2>1. q \in Nat /\ q < c /\ k \in 1 .. n /\ i = q * n + k
    BY <1>2, ByteAt DEF n, c
  <2>2. i <= old.size => Read(d, old)[i] = d[old.start + q][k]
    <3>1. Sector(old.start, i) = q /\ Within(old.start, i) = k
      BY <1>1 DEF Sector, Within, n
    <3>2. i <= old.size => i \in 1 .. old.size
      BY <1>1
    <3> HIDE DEF q, k
    <3>3. QED
      BY <3>1, <3>2, ReadIs
  <2> HIDE DEF q, k
  <2>3. x \in SectorsOf(m) /\ x \in Nat /\ m.start <= x /\ x < end
    <3>1. q \in Nat /\ q < c /\ m.start \in Nat /\ end = m.start + c /\ c \in Nat
      BY <1>2, <1>5, <2>1
    <3>2. x \in m.start .. m.start + c - 1 /\ x \in Nat /\ m.start <= x /\ x < end
      BY <3>1
    <3>3. QED
      BY <1>5, <3>2 DEF SectorsIn
  <2>4. k \in 1 .. ExtBytes /\ (x < Pri => ~(k > PriBytes))
    BY <1>2, <2>1, <2>3, RoomFits DEF n
  <2>5. /\ i <= old.size => q < whole \/ (q = whole /\ k <= kept)
        /\ ~(i <= old.size) => whole < q \/ (q = whole /\ kept < k)
    BY <1>2, <2>1, PieceSplits
  <2>6. CASE q < whole
    <3>1. x < beyond /\ x # at
      BY <1>2, <1>3, <2>1, <2>6
    <3>2. d3[x] = d1[x]
      BY <1>13, <2>3, <3>1
    <3>3. d1[x][k] = d[old.start + q][k]
      <4>1. q \in 0 .. whole - 1
        BY <1>2, <2>1, <2>6
      <4>2. QED
        BY <1>9, <2>1, <4>1 DEF y
    <3>4. i <= old.size
      BY <1>2, <2>1, <2>5, <2>6
    <3>5. QED
      BY <2>2, <3>2, <3>3, <3>4 DEF q, k
  <2>7. CASE q = whole /\ kept # 0
    <3> DEFINE u == Piece(m, old)
    <3>1. x = at /\ d3[x] = Made(d1, u)
      BY <1>2, <1>14, <2>7
    <3>2. u.to = at /\ u.from = old.start + whole /\ u.keep = kept /\ u.over = Blank(Fill)
      BY DEF Piece, at, whole, kept
    <3> HIDE DEF u
    <3>3. Made(d1, u)[k] = IF k <= kept THEN d1[old.start + whole][k] ELSE Blank(Fill)[k]
      BY <2>4, <3>1, <3>2, MadeAt
    <3>4. d1[old.start + whole] = d[old.start + whole]
      BY <1>10, <2>7 DEF y
    <3>5. i <= old.size <=> k <= kept
      BY <1>1, <1>2, <2>1, <2>5, <2>7
    <3>6. CASE k <= kept
      <4>1. d3[x][k] = d[old.start + q][k]
        BY <2>7, <3>1, <3>3, <3>4, <3>6
      <4>2. QED
        BY <2>2, <3>5, <3>6, <4>1 DEF q, k
    <3>7. CASE ~(k <= kept)
      <4>1. d3[x][k] = Fill
        BY <2>4, <3>1, <3>3, <3>7, BlankIs
      <4>2. QED
        BY <3>5, <3>7, <4>1 DEF q, k
    <3>8. QED
      BY <3>6, <3>7
  <2>8. CASE ~(q < whole) /\ ~(q = whole /\ kept # 0)
    <3> DEFINE j == x - beyond + 1
    <3>1. j \in 1 .. end - beyond /\ beyond + j - 1 = x
      <4>1. /\ q \in Nat /\ m.start \in Nat /\ whole \in Nat /\ at = m.start + whole
            /\ beyond \in Nat /\ end \in Nat
        BY <1>2, <2>1
      <4>2. beyond <= x /\ x \in Nat /\ x < end
        BY <1>3, <2>3, <2>8, <4>1
      <4> HIDE DEF x
      <4>3. QED
        BY <4>1, <4>2
    <3> HIDE DEF j
    <3>2. d3[x] = Made(d2, FillOf(m, old)[j])
      BY <1>12, <3>1
    <3>3. /\ FillOf(m, old)[j].to = x /\ FillOf(m, old)[j].keep = 0
          /\ FillOf(m, old)[j].over = Blank(Fill)
      <4>1. j \in 1 .. End(m) - Beyond(m, old)
        BY <3>1 DEF end, beyond
      <4>2. FillOf(m, old)[j] = [to |-> Beyond(m, old) + j - 1, from |-> m.start, keep |-> 0,
                                 over |-> Blank(Fill)]
        BY <4>1 DEF FillOf
      <4>3. QED
        BY <3>1, <4>2 DEF beyond
    <3>4. ~(k <= 0)
      BY <2>1, <1>2
    <3>5. d3[x][k] = Fill
      BY <2>4, <3>2, <3>3, <3>4, MadeAt, BlankIs
    <3>6. ~(i <= old.size)
      BY <1>1, <1>2, <2>1, <2>5, <2>8
    <3>7. QED
      BY <3>5, <3>6 DEF q, k
  <2>9. QED
    BY <2>6, <2>7, <2>8
<1>16. Read(d3, m) = [i \in 1 .. m.size |-> IF i <= old.size THEN Read(d, old)[i] ELSE Fill]
  BY <1>15, ReadIs
<1>17. QED
  BY <1>8, <1>16

-----------------------------------------------------------------------------
(* The files of a list.                                                    *)

LEMMA FileIs ==
  ASSUME NEW l, GoodList(l), NEW m \in FilesOf(l)
  PROVE  /\ m \in FileItem /\ m.name \in Names /\ m.start \in Nat /\ m.size \in Nat \ {0}
         /\ First <= m.start /\ End(m) <= Total /\ End(m) \in Nat /\ m.start < End(m)
         /\ m.start < Pri => End(m) <= Pri
         /\ SectorsOf(m) \subseteq Sectors
         /\ End(m) = m.start + Count(m.start, m.size) /\ Count(m.start, m.size) \in Nat
<1>1. PICK i \in 1 .. Len(l) : m = l[i]
  BY DEF FilesOf
<1>2. /\ m \in FileItem /\ m.name \in Names /\ m.start \in Nat /\ m.size \in Nat \ {0}
      /\ First <= m.start /\ End(m) <= Total /\ End(m) \in Nat /\ m.start < End(m)
      /\ m.start < Pri => End(m) <= Pri
  BY <1>1, ItemIs
<1>3. QED
  BY <1>2, FileSectors

\* Two files of a list are apart.
LEMMA Apart ==
  ASSUME NEW l, GoodList(l), NEW m \in FilesOf(l), NEW n \in FilesOf(l), m.name # n.name
  PROVE  /\ SectorsOf(m) \cap SectorsOf(n) = {}
         /\ End(m) <= n.start \/ End(n) <= m.start
<1>1. PICK i \in 1 .. Len(l) : m = l[i]
  BY DEF FilesOf
<1>2. PICK j \in 1 .. Len(l) : n = l[j]
  BY DEF FilesOf
<1>3. Len(l) \in Nat /\ i # j
  BY <1>1, <1>2, LenProperties DEF GoodList
<1>4. End(m) <= n.start \/ End(n) <= m.start
  <2>1. CASE i < j
    BY <1>1, <1>2, <2>1, InOrder
  <2>2. CASE j < i
    BY <1>1, <1>2, <2>2, InOrder
  <2>3. QED
    BY <1>3, <2>1, <2>2
<1>5. m.start \in Nat /\ n.start \in Nat /\ End(m) \in Nat /\ End(n) \in Nat
  BY FileIs
<1>6. QED
  BY <1>4, <1>5 DEF SectorsOf

\* A name stands for one file.
LEMMA OneOfName ==
  ASSUME NEW l, GoodList(l), NEW m \in FilesOf(l), NEW n \in FilesOf(l), m.name = n.name
  PROVE  m = n
BY DEF FilesOf, GoodList, Laid

LEMMA FoundFile ==
  ASSUME NEW l, GoodList(l), NEW name, Has(l, name)
  PROVE  Find(l, name) \in FilesOf(l) /\ Find(l, name).name = name
BY FoundIs DEF FilesOf

LEMMA NamedIs ==
  ASSUME NEW l, NEW name
  PROVE  Has(l, name) <=> \E m \in FilesOf(l) : m.name = name
BY DEF Has, FilesOf

LEMMA RemoveFiles ==
  ASSUME NEW l, GoodList(l), NEW p \in 1 .. Len(l)
  PROVE  FilesOf(RemoveAt(l, p)) = {m \in FilesOf(l) : m.name # l[p].name}
<1> DEFINE r == RemoveAt(l, p)
           f(i) == IF i < p THEN i ELSE i + 1
<1>1. /\ Len(r) = Len(l) - 1 /\ Len(l) \in Nat
      /\ \A i \in 1 .. Len(l) - 1 : r[i] = l[f(i)]
  BY RemoveKeeps, LenProperties DEF GoodList
<1>2. \A i, j \in 1 .. Len(l) : l[i].name = l[j].name => i = j
  BY DEF GoodList, Laid
<1> HIDE DEF r
<1>3. ASSUME NEW i \in 1 .. Len(r) PROVE r[i] \in FilesOf(l) /\ r[i].name # l[p].name
  <2>1. f(i) \in 1 .. Len(l) /\ f(i) # p /\ r[i] = l[f(i)]
    BY <1>1
  <2>2. QED
    BY <1>2, <2>1 DEF FilesOf
<1>4. ASSUME NEW j \in 1 .. Len(l), l[j].name # l[p].name PROVE l[j] \in FilesOf(r)
  <2>1. CASE j < p
    <3>1. j \in 1 .. Len(l) - 1 /\ f(j) = j
      BY <1>1, <2>1
    <3>2. r[j] = l[j] /\ j \in 1 .. Len(r)
      BY <1>1, <3>1
    <3>3. QED
      BY <3>2 DEF FilesOf
  <2>2. CASE p < j
    <3>1. j - 1 \in 1 .. Len(l) - 1 /\ f(j - 1) = j
      BY <1>1, <2>2
    <3>2. r[j - 1] = l[j] /\ j - 1 \in 1 .. Len(r)
      BY <1>1, <3>1
    <3>3. QED
      BY <3>2 DEF FilesOf
  <2>3. j # p
    BY <1>4
  <2>4. QED
    BY <1>1, <2>1, <2>2, <2>3
<1>5. QED
  BY <1>3, <1>4 DEF FilesOf, r

LEMMA WithoutFiles ==
  ASSUME NEW l, GoodList(l), NEW name
  PROVE  FilesOf(Without(l, name)) = {m \in FilesOf(l) : m.name # name}
<1>1. CASE Has(l, name)
  <2>1. Place(l, name) \in 1 .. Len(l) /\ l[Place(l, name)].name = name
    BY <1>1, FoundIs
  <2>2. Without(l, name) = RemoveAt(l, Place(l, name))
    BY <1>1 DEF Without
  <2>3. QED
    BY <2>1, <2>2, RemoveFiles
<1>2. CASE ~Has(l, name)
  <2>1. Without(l, name) = l
    BY <1>2 DEF Without
  <2>2. QED
    BY <1>2, <2>1, NamedIs
<1>3. QED
  BY <1>1, <1>2

LEMMA InsertFiles ==
  ASSUME NEW l, GoodList(l), Len(l) < Capacity, NEW i \in 1 .. Len(l) + 1,
         NEW m \in FileItem, m.size > 0, ~Has(l, m.name),
         GapBegin(l, i) <= m.start, End(m) <= GapEnd(l, i),
         m.start < Pri => End(m) <= Pri
  PROVE  FilesOf(InsertAt(l, i, m)) = FilesOf(l) \cup {m}
<1> DEFINE r == InsertAt(l, i, m)
           f(k) == IF k < i THEN k ELSE k - 1
<1>1. /\ Len(r) = Len(l) + 1 /\ Len(l) \in Nat /\ r[i] = m
      /\ \A k \in 1 .. Len(l) + 1 : k # i => r[k] = l[f(k)]
  BY InsertKeeps, LenProperties DEF GoodList
<1> HIDE DEF r
<1>2. ASSUME NEW k \in 1 .. Len(r) PROVE r[k] \in FilesOf(l) \cup {m}
  <2>1. CASE k = i
    BY <1>1, <2>1
  <2>2. CASE k # i
    <3>1. f(k) \in 1 .. Len(l) /\ r[k] = l[f(k)]
      BY <1>1, <2>2
    <3>2. QED
      BY <3>1 DEF FilesOf
  <2>3. QED
    BY <2>1, <2>2
<1>3. ASSUME NEW j \in 1 .. Len(l) PROVE l[j] \in FilesOf(r)
  <2>1. CASE j < i
    <3>1. j \in 1 .. Len(l) + 1 /\ j # i /\ f(j) = j
      BY <1>1, <2>1
    <3>2. r[j] = l[j] /\ j \in 1 .. Len(r)
      BY <1>1, <3>1
    <3>3. QED
      BY <3>2 DEF FilesOf
  <2>2. CASE ~(j < i)
    <3>1. j + 1 \in 1 .. Len(l) + 1 /\ j + 1 # i /\ f(j + 1) = j
      BY <1>1, <2>2
    <3>2. r[j + 1] = l[j] /\ j + 1 \in 1 .. Len(r)
      BY <1>1, <3>1
    <3>3. QED
      BY <3>2 DEF FilesOf
  <2>3. QED
    BY <2>1, <2>2
<1>4. m \in FilesOf(r)
  <2>1. i \in 1 .. Len(r)
    BY <1>1
  <2>2. QED
    BY <1>1, <2>1 DEF FilesOf
<1>5. QED
  BY <1>2, <1>3, <1>4 DEF FilesOf, r

(* A file to be put in the list. *)
Wanted(f) == f.name \in Names /\ f.size \in Nat \ {0} /\ f.ext \in BOOLEAN

\* alloc_file leaves the files of other names as they are.
LEMMA AllocFiles ==
  ASSUME NEW l, GoodList(l), NEW f, Wanted(f), Alloc(l, f) # <<>>
  PROVE  LET m == Find(Alloc(l, f), f.name) IN
         /\ FilesOf(Alloc(l, f)) = {n \in FilesOf(l) : n.name # f.name} \cup {m}
         /\ GoodList(Alloc(l, f)) /\ m \in FilesOf(Alloc(l, f)) /\ m.name = f.name /\ m.size = f.size
         /\ InGap(l, f.name, m, Alloc(l, f))
<1> DEFINE r == Alloc(l, f)
           m == Find(r, f.name)
           rest == Without(l, f.name)
<1>1. /\ GoodList(r) /\ m.name = f.name /\ m.size = f.size /\ m \in FilesOf(r)
      /\ InGap(l, f.name, m, r)
  BY AllocKeeps DEF Wanted, FilesOf
<1>2. m \in FileItem /\ m.size > 0
  <2> HIDE DEF m, r
  <2>1. m \in FileItem /\ m.size \in Nat \ {0}
    BY <1>1, FileIs
  <2>2. QED
    BY <2>1
<1>3. GoodList(rest) /\ ~Has(rest, f.name) /\ FilesOf(rest) = {n \in FilesOf(l) : n.name # f.name}
  BY WithoutKeeps, WithoutFiles
<1> HIDE DEF m, r
<1>4. PICK i \in 1 .. Len(rest) + 1 :
        /\ r = InsertAt(rest, i, m)
        /\ GapBegin(rest, i) <= m.start /\ End(m) <= GapEnd(rest, i)
        /\ m.start < Pri => End(m) <= Pri
  BY <1>1 DEF InGap
<1>5. Len(rest) < Capacity
  BY <1>1 DEF InGap
<1> HIDE DEF rest
<1>6. FilesOf(r) = FilesOf(rest) \cup {m}
  BY <1>1, <1>2, <1>3, <1>4, <1>5, InsertFiles
<1>7. QED
  BY <1>1, <1>3, <1>6 DEF m, r

\* Where a file was, there is a gap of the other files: a gap begins at the
\* latest with it, or after it.
LEMMA GapOf ==
  ASSUME NEW l, GoodList(l), NEW p \in 1 .. Len(l), NEW i \in 1 .. Len(RemoveAt(l, p)) + 1
  PROVE  LET r == RemoveAt(l, p) IN
         \/ GapBegin(r, i) <= l[p].start
         \/ End(l[p]) <= GapBegin(r, i)
<1> DEFINE r == RemoveAt(l, p)
           f(k) == IF k < p THEN k ELSE k + 1
<1>1. /\ GoodList(r) /\ Len(r) = Len(l) - 1 /\ Len(l) \in Nat
      /\ \A k \in 1 .. Len(l) - 1 : r[k] = l[f(k)]
  BY RemoveKeeps, LenProperties DEF GoodList
<1>2. i \in 1 .. Len(l)
  BY <1>1
<1> HIDE DEF r
<1>3. CASE i = 1
  <2>1. GapBegin(r, i) = First /\ First <= l[p].start
    BY <1>3, ItemIs DEF GapBegin
  <2>2. QED
    BY <2>1 DEF r
<1>4. CASE i # 1 /\ i - 1 < p
  <2>1. i - 1 \in 1 .. Len(l) - 1 /\ i - 1 \in 1 .. Len(l) /\ f(i - 1) = i - 1
    BY <1>1, <1>4, <1>2
  <2>2. r[i - 1] = l[i - 1]
    BY <1>1, <2>1
  <2>3. End(l[i - 1]) <= l[p].start
    BY <1>4, <2>1, InOrder
  <2>4. GapBegin(r, i) <= l[p].start
    BY <1>4, <2>2, <2>3 DEF GapBegin
  <2>5. QED
    BY <2>4 DEF r
<1>5. CASE i # 1 /\ ~(i - 1 < p)
  <2>1. i - 1 \in 1 .. Len(l) - 1 /\ i \in 1 .. Len(l) /\ f(i - 1) = i /\ p < i
    BY <1>1, <1>5, <1>2
  <2>2. r[i - 1] = l[i]
    BY <1>1, <2>1
  <2>3. End(l[p]) <= l[i].start
    BY <2>1, InOrder
  <2>4. End(l[p]) \in Nat /\ l[i].start \in Nat /\ End(l[i]) \in Nat /\ l[i].start < End(l[i])
    BY <2>1, ItemIs
  <2>5. End(l[p]) <= End(l[i])
    BY <2>3, <2>4
  <2>6. End(l[p]) <= GapBegin(r, i)
    BY <1>5, <2>2, <2>5 DEF GapBegin
  <2>7. QED
    BY <2>6 DEF r
<1>6. QED
  BY <1>3, <1>4, <1>5, <1>2

\* A file that is put in the list again, in the area it was in, goes where it
\* can be copied to.
LEMMA AllocMovable ==
  ASSUME NEW l, GoodList(l), NEW f, Wanted(f), Alloc(l, f) # <<>>, Has(l, f.name),
         Room(Find(Alloc(l, f), f.name).start) = Room(Find(l, f.name).start)
  PROVE  Movable(Find(Alloc(l, f), f.name), Find(l, f.name))
<1> DEFINE r == Alloc(l, f)
           m == Find(r, f.name)
           p == Place(l, f.name)
           old == Find(l, f.name)
           rest == RemoveAt(l, p)
<1>1. p \in 1 .. Len(l) /\ old = l[p] /\ Without(l, f.name) = rest
  BY FoundIs DEF Without
<1>2. InGap(l, f.name, m, r) /\ GoodList(r) /\ m \in FilesOf(r)
  BY AllocFiles
<1>3. /\ old.start \in Nat /\ End(old) = old.start + Count(old.start, old.size)
      /\ End(old) \in Nat
  BY FoundFile, FileIs
<1>4. m.start \in Nat /\ End(m) \in Nat /\ m.start < End(m)
  <2> HIDE DEF m, r
  <2>1. QED
    BY <1>2, FileIs
<1>5. Room(m.start) = Room(old.start)
  OBVIOUS
<1> HIDE DEF m, r, old, p
<1>6. PICK i \in 1 .. Len(rest) + 1 :
        /\ GapBegin(rest, i) <= m.start /\ End(m) <= GapEnd(rest, i)
        /\ m.start = GapBegin(rest, i) \/ m.start = Pri
  BY <1>1, <1>2 DEF InGap
<1>7. /\ GapBegin(rest, i) \in Nat /\ GapEnd(rest, i) \in Nat
  <2>1. GoodList(rest)
    BY <1>1, RemoveKeeps
  <2>2. QED
    BY <2>1, Gaps
<1>8. \/ GapBegin(rest, i) <= old.start
      \/ End(old) <= GapBegin(rest, i)
  BY <1>1, GapOf
<1>9. m.start = Pri => old.start >= Pri
  BY <1>3, <1>5, FbAssumption DEF Room
<1>10. m.start <= old.start \/ End(old) <= m.start
  BY <1>3, <1>4, <1>6, <1>7, <1>8, <1>9, FbAssumption
<1>11. QED
  BY <1>3, <1>10 DEF Movable, m, r, old

-----------------------------------------------------------------------------
(* What files hold while transfers are carried out.                        *)

LEMMA FlushedNone ==
  ASSUME NEW d, NEW s \in Sectors
  PROVE  Flushed(d, <<>>)[s] = d[s]
<1>1. ~ \E i \in 1 .. Len(<<>>) : <<>>[i].to = s
  OBVIOUS
<1>2. QED
  BY <1>1 DEF Flushed

LEMMA FlushedReads ==
  ASSUME NEW m \in FileItem, SectorsOf(m) \subseteq Sectors, NEW d
  PROVE  Read(Flushed(d, <<>>), m) = Read(d, m)
BY FlushedNone, ReadSame

\* What a buffer makes of the disk, and leaves of it.
LEMMA FlushedOn ==
  ASSUME NEW q, GoodBuf(q), NEW d, NEW i \in 1 .. Len(q)
  PROVE  Flushed(d, q)[q[i].to] = q[i].bytes
<1> DEFINE x == q[i].to
           j == CHOOSE j \in 1 .. Len(q) : q[j].to = x
<1>1. x \in Sectors
  BY DEF GoodBuf, Numbered
<1>2. j \in 1 .. Len(q) /\ q[j].to = x
  OBVIOUS
<1>3. j = i
  BY <1>2 DEF GoodBuf
<1>4. Flushed(d, q)[x] = q[j].bytes
  BY <1>1 DEF Flushed
<1>5. QED
  BY <1>3, <1>4

LEMMA FlushedOff ==
  ASSUME NEW q, NEW d, NEW x \in Sectors, \A i \in 1 .. Len(q) : q[i].to # x
  PROVE  Flushed(d, q)[x] = d[x]
BY DEF Flushed

\* Two disks that have been written alike are alike.
LEMMA FlushedSame ==
  ASSUME NEW q, NEW d, NEW e, DOMAIN e = Sectors, e = [s \in Sectors |-> e[s]],
         \A s \in Sectors : Flushed(d, q)[s] = e[s]
  PROVE  Flushed(d, q) = e
<1> DEFINE f == Flushed(d, q)
<1>1. f = [s \in Sectors |-> f[s]]
  BY DEF Flushed
<1> HIDE DEF f
<1>2. [s \in Sectors |-> f[s]] = [s \in Sectors |-> e[s]]
  BY DEF f
<1>3. QED
  BY <1>1, <1>2 DEF f

LEMMA TailHarmless ==
  ASSUME NEW A, NEW w, Into(w, A), w # <<>>, NEW m, AllHarmless(w, m)
  PROVE  /\ AllHarmless(Tail(w), m)
         /\ \A n \in 1 .. Len(Head(w)) : Harmless(Head(w)[n], m)
<1> DEFINE B == {w[i] : i \in DOMAIN w}
           r == Tail(w)
<1>1. w \in Seq(B)
  BY DEF Into
<1> HIDE DEF B
<1>2. Len(w) \in Nat \ {0} /\ Head(w) = w[1] /\ 1 \in 1 .. Len(w)
  BY <1>1, LenProperties, EmptySeq
<1>3. Len(r) = Len(w) - 1 /\ \A j \in 1 .. Len(r) : r[j] = w[j + 1]
  BY <1>1, HeadTailProperties
<1> HIDE DEF r
<1>4. \A j \in 1 .. Len(r) : r[j] = w[j + 1] /\ j + 1 \in 1 .. Len(w)
  BY <1>2, <1>3
<1>5. AllHarmless(r, m)
  BY <1>4 DEF AllHarmless
<1>6. \A n \in 1 .. Len(Head(w)) : Harmless(Head(w)[n], m)
  BY <1>2 DEF AllHarmless
<1>7. QED
  BY <1>5, <1>6 DEF r

\* What is read into the buffer.
LEMMA FetchIs ==
  ASSUME IInv, Fetch
  PROVE  /\ GoodBatch(Head(work), Sectors) /\ Len(buf') = Len(Head(work))
         /\ \A i \in 1 .. Len(Head(work)) :
              buf'[i].to = Head(work)[i].to /\ buf'[i].bytes = Made(disk, Head(work)[i])
<1> DEFINE n == Len(Head(work))
           e(i) == [to |-> Head(work)[i].to, bytes |-> Made(disk, Head(work)[i])]
           T == {e(i) : i \in 1 .. n}
           q == [i \in 1 .. n |-> e(i)]
<1>1. work # <<>> /\ buf' = q
  BY DEF Fetch
<1>2. GoodBatch(Head(work), Sectors) /\ n \in Nat
  BY <1>1, WorkSplits DEF IInv
<1>3. \A i \in 1 .. n : e(i).to = Head(work)[i].to /\ e(i).bytes = Made(disk, Head(work)[i])
  OBVIOUS
<1>4. q \in [1 .. n -> T] /\ DOMAIN q = 1 .. n /\ \A i \in 1 .. n : q[i] = e(i)
  OBVIOUS
<1> HIDE DEF q, T, n, e
<1>5. q \in Seq(T)
  BY <1>2, <1>4, IsSequence
<1>6. Len(q) \in Nat /\ DOMAIN q = 1 .. Len(q)
  BY <1>5, LenProperties
<1>7. Len(q) = n
  BY <1>2, <1>4, <1>6
<1>8. QED
  BY <1>1, <1>2, <1>3, <1>4, <1>7 DEF n

LEMMA FetchKept ==
  ASSUME IInv, KeptInv, Fetch
  PROVE  KeptInv'
<1> DEFINE b == Head(work)
           x == Flushed(disk, <<>>)
<1>1. /\ running /\ buf = <<>> /\ work # <<>> /\ work' = Tail(work)
      /\ disk' = disk /\ hdr' = hdr /\ list' = list /\ running' = running
      /\ commits' = commits /\ truth' = truth /\ wish' = wish /\ touched' = touched
  BY DEF Fetch, history
<1>2. /\ GoodBatch(b, Sectors) /\ Len(buf') = Len(b)
      /\ \A i \in 1 .. Len(b) : buf'[i].to = b[i].to /\ buf'[i].bytes = Made(disk, b[i])
  BY FetchIs
<1>3. Into(work, Sectors) /\ GoodBuf(buf)' /\ GoodList(hdr)
  BY FetchKeeps DEF IInv
<1> HIDE DEF b
<1>4. Flushed(disk, buf') = Moved(x, b)
  <2> DEFINE e == Moved(x, b)
  <2>1. DOMAIN e = Sectors /\ e = [s \in Sectors |-> e[s]]
    BY DEF Moved
  <2>2. ASSUME NEW s \in Sectors PROVE Flushed(disk, buf')[s] = e[s]
    <3>1. CASE \E i \in 1 .. Len(b) : b[i].to = s
      <4>1. PICK i \in 1 .. Len(b) : b[i].to = s
        BY <3>1
      <4>2. Flushed(disk, buf')[s] = Made(disk, b[i])
        BY <1>2, <1>3, <4>1, FlushedOn
      <4>3. e[s] = Made(x, b[i])
        BY <1>2, <4>1, MovedOn
      <4>4. x[b[i].from] = disk[b[i].from]
        BY <1>2, FlushedNone DEF GoodBatch
      <4>5. QED
        BY <4>2, <4>3, <4>4, MadeSame
    <3>2. CASE ~ \E i \in 1 .. Len(b) : b[i].to = s
      <4>1. Flushed(disk, buf')[s] = disk[s]
        BY <1>2, <3>2, FlushedOff
      <4>2. e[s] = x[s]
        BY <3>2 DEF Moved
      <4>3. QED
        BY <4>1, <4>2, FlushedNone
    <3>3. QED
      BY <3>1, <3>2
  <2> HIDE DEF e
  <2>3. QED
    BY <2>1, <2>2, FlushedSame DEF e
<1>5. Final(Flushed(disk, buf'), work') = Final(x, work)
  BY <1>1, <1>3, <1>4, FinalTail DEF b
<1>6. OldReads'
  BY <1>1 DEF KeptInv, OldReads
<1>7. Resting'
  BY <1>1 DEF Resting
<1>8. NewReads'
  BY <1>1, <1>5 DEF KeptInv, NewReads
<1>9. Undisturbed'
  <2>1. ASSUME NEW m \in FilesOf(hdr), m.name \notin touched
        PROVE  AllHarmless(Tail(work), m) /\ SameBytes(buf', disk, m)
    <3>1. AllHarmless(work, m)
      BY <2>1 DEF KeptInv, Undisturbed
    <3>2. AllHarmless(Tail(work), m) /\ \A i \in 1 .. Len(b) : Harmless(b[i], m)
      BY <1>1, <1>3, <3>1, TailHarmless DEF b
    <3>3. m \in FileItem
      BY <1>3, FileIs
    <3>4. ASSUME NEW i \in 1 .. Len(b), NEW k \in Used(m, b[i].to)
          PROVE  Made(disk, b[i])[k] = disk[b[i].to][k]
      <4>1. b[i].to \in Nat
        BY <1>2, FbAssumption DEF GoodBatch, Sectors
      <4>2. QED
        BY <3>2, <3>3, <4>1, HarmlessIs
    <3>5. SameBytes(buf', disk, m)
      <4>1. ASSUME NEW j \in 1 .. Len(buf'), NEW k \in Used(m, buf'[j].to)
            PROVE  buf'[j].bytes[k] = disk[buf'[j].to][k]
        <5>1. j \in 1 .. Len(b)
          BY <1>2
        <5>2. buf'[j].to = b[j].to /\ buf'[j].bytes = Made(disk, b[j])
          BY <1>2, <5>1
        <5>3. Made(disk, b[j])[k] = disk[b[j].to][k]
          BY <3>4, <4>1, <5>1, <5>2
        <5>4. QED
          BY <5>2, <5>3
      <4>2. QED
        BY <4>1 DEF SameBytes
    <3>6. QED
      BY <3>2, <3>5
  <2>2. QED
    BY <1>1, <2>1 DEF Undisturbed
<1>10. QED
  BY <1>6, <1>7, <1>8, <1>9 DEF KeptInv

LEMMA StoreKept ==
  ASSUME IInv, KeptInv, Store
  PROVE  KeptInv'
<1> DEFINE b == Head(buf)
           r == Tail(buf)
<1>1. /\ running /\ buf # <<>> /\ disk' = [disk EXCEPT ![b.to] = b.bytes] /\ buf' = r
      /\ hdr' = hdr /\ list' = list /\ work' = work /\ running' = running
      /\ commits' = commits /\ truth' = truth /\ wish' = wish /\ touched' = touched
  BY DEF Store, history
<1>2. /\ GoodBuf(buf) /\ GoodBuf(r) /\ b = buf[1] /\ b.to \in Sectors
      /\ Len(buf) \in Nat \ {0} /\ Len(r) = Len(buf) - 1
      /\ \A i \in 1 .. Len(buf) - 1 : r[i] = buf[i + 1]
  BY <1>1, BufSplits DEF IInv, Numbered
<1>3. \A i, j \in 1 .. Len(buf) : buf[i].to = buf[j].to => i = j
  BY <1>2 DEF GoodBuf
<1>4. GoodList(hdr) /\ DOMAIN disk = Sectors
  BY DEF IInv
<1> HIDE DEF b, r
<1>5. \A s \in Sectors : disk'[s] = IF s = b.to THEN b.bytes ELSE disk[s]
  BY <1>1, <1>4
<1>6. \A i \in 1 .. Len(r) : r[i] = buf[i + 1] /\ i + 1 \in 1 .. Len(buf) /\ r[i].to # b.to
  <2>1. ASSUME NEW i \in 1 .. Len(r)
        PROVE  r[i] = buf[i + 1] /\ i + 1 \in 1 .. Len(buf) /\ r[i].to # b.to
    <3>1. r[i] = buf[i + 1] /\ i + 1 \in 1 .. Len(buf) /\ 1 \in 1 .. Len(buf) /\ i + 1 # 1
      BY <1>2
    <3>2. buf[i + 1].to # buf[1].to
      BY <1>3, <3>1
    <3>3. QED
      BY <1>2, <3>1, <3>2
  <2>2. QED
    BY <2>1
<1>7. Flushed(disk', r) = Flushed(disk, buf)
  <2> DEFINE e == Flushed(disk, buf)
  <2>1. DOMAIN e = Sectors /\ e = [s \in Sectors |-> e[s]]
    BY DEF Flushed
  <2>2. ASSUME NEW s \in Sectors PROVE Flushed(disk', r)[s] = e[s]
    <3>1. CASE s = b.to
      <4>1. Flushed(disk', r)[s] = disk'[s]
        BY <1>6, <3>1, FlushedOff
      <4>2. e[s] = b.bytes
        <5>1. 1 \in 1 .. Len(buf)
          BY <1>2
        <5>2. QED
          BY <1>2, <3>1, <5>1, FlushedOn
      <4>3. QED
        BY <1>5, <3>1, <4>1, <4>2
    <3>2. CASE \E i \in 1 .. Len(r) : r[i].to = s
      <4>1. PICK i \in 1 .. Len(r) : r[i].to = s
        BY <3>2
      <4>2. Flushed(disk', r)[s] = r[i].bytes
        BY <1>2, <4>1, FlushedOn
      <4>3. e[s] = buf[i + 1].bytes
        BY <1>2, <1>6, <4>1, FlushedOn
      <4>4. QED
        BY <1>6, <4>2, <4>3
    <3>3. CASE s # b.to /\ ~ \E i \in 1 .. Len(r) : r[i].to = s
      <4>1. Flushed(disk', r)[s] = disk'[s] /\ disk'[s] = disk[s]
        BY <1>5, <3>3, FlushedOff
      <4>2. ASSUME NEW i \in 1 .. Len(buf) PROVE buf[i].to # s
        <5>1. CASE i = 1
          BY <1>2, <3>3, <5>1
        <5>2. CASE i # 1
          <6>1. i - 1 \in 1 .. Len(r) /\ (i - 1) + 1 = i
            BY <1>2, <5>2
          <6>2. r[i - 1] = buf[i]
            BY <1>6, <6>1
          <6>3. QED
            BY <3>3, <6>1, <6>2
        <5>3. QED
          BY <5>1, <5>2
      <4>3. e[s] = disk[s]
        BY <4>2, FlushedOff
      <4>4. QED
        BY <4>1, <4>3
    <3>4. QED
      BY <3>1, <3>2, <3>3
  <2> HIDE DEF e
  <2>3. QED
    BY <2>1, <2>2, FlushedSame DEF e
<1>8. ASSUME NEW m \in FilesOf(hdr), m.name \notin touched
      PROVE  Read(disk', m) = Read(disk, m) /\ SameBytes(r, disk', m)
  <2>1. SameBytes(buf, disk, m)
    BY <1>8 DEF KeptInv, Undisturbed
  <2>2. m \in FileItem /\ SectorsOf(m) \subseteq Sectors
    BY <1>4, FileIs
  <2>3. ASSUME NEW s \in SectorsOf(m), NEW k \in Used(m, s) PROVE disk'[s][k] = disk[s][k]
    <3>1. CASE s = b.to
      <4>1. 1 \in 1 .. Len(buf) /\ b.to = buf[1].to
        BY <1>2
      <4>2. b.bytes[k] = disk[s][k]
        BY <1>2, <2>1, <3>1, <4>1 DEF SameBytes
      <4>3. QED
        BY <1>5, <2>2, <3>1, <4>2
    <3>2. CASE s # b.to
      BY <1>5, <2>2, <3>2
    <3>3. QED
      BY <3>1, <3>2
  <2>4. Read(disk', m) = Read(disk, m)
    BY <2>2, <2>3, ReadSame
  <2>5. ASSUME NEW j \in 1 .. Len(r), NEW k \in Used(m, r[j].to)
        PROVE  r[j].bytes[k] = disk'[r[j].to][k]
    <3>1. r[j] = buf[j + 1] /\ j + 1 \in 1 .. Len(buf) /\ r[j].to # b.to
      BY <1>6
    <3>2. r[j].bytes[k] = disk[r[j].to][k]
      BY <2>1, <3>1 DEF SameBytes
    <3>3. r[j].to \in Sectors
      BY <1>2 DEF GoodBuf, Numbered
    <3>4. QED
      BY <1>5, <3>1, <3>2, <3>3
  <2>6. QED
    BY <2>4, <2>5 DEF SameBytes
<1>9. OldReads'
  <2>1. Record(truth) /\ Sized(hdr, truth) /\ Reads(disk, hdr, truth, Names \ touched)
    BY DEF KeptInv, OldReads
  <2>2. Reads(disk', hdr, truth, Names \ touched)
    BY <1>8, <2>1 DEF Reads
  <2>3. QED
    BY <1>1, <2>1, <2>2 DEF OldReads
<1>10. Resting'
  BY <1>1 DEF Resting
<1>11. NewReads'
  BY <1>1, <1>7 DEF KeptInv, NewReads
<1>12. Undisturbed'
  <2>1. \A m \in FilesOf(hdr) : m.name \notin touched => AllHarmless(work, m)
    BY DEF KeptInv, Undisturbed
  <2>2. QED
    BY <1>1, <1>8, <2>1 DEF Undisturbed
<1>13. QED
  BY <1>9, <1>10, <1>11, <1>12 DEF KeptInv

\* The program ends with a list whose files read as they should.
LEMMA OverKept ==
  ASSUME NEW l, NEW holds, Over(l, holds), Record(holds), Sized(l, holds),
         Reads(disk, l, holds, Names)
  PROVE  KeptInv'
<1>1. /\ running' = FALSE /\ commits' = FALSE /\ work' = <<>> /\ buf' = <<>>
      /\ touched' = {} /\ hdr' = l /\ truth' = holds /\ disk' = disk
  BY DEF Over
<1>2. OldReads'
  BY <1>1 DEF OldReads, Reads
<1>3. Resting' /\ NewReads'
  BY <1>1 DEF Resting, NewReads
<1>4. Undisturbed'
  <2>1. \A m : AllHarmless(<<>>, m) /\ SameBytes(<<>>, disk, m)
    BY DEF AllHarmless, SameBytes
  <2>2. QED
    BY <1>1, <2>1 DEF Undisturbed
<1>5. QED
  BY <1>2, <1>3, <1>4 DEF KeptInv

LEMMA WriteHeaderKept ==
  ASSUME IInv, KeptInv, WriteHeader
  PROVE  KeptInv'
<1>1. running /\ work = <<>> /\ buf = <<>> /\ commits /\ Over(list, wish)
  BY DEF WriteHeader
<1>2. /\ Record(wish) /\ Sized(list, wish)
      /\ Reads(Final(Flushed(disk, <<>>), <<>>), list, wish, Names)
  BY <1>1 DEF KeptInv, NewReads
<1>3. \A m \in FilesOf(list) : Read(Final(Flushed(disk, <<>>), <<>>), m) = Read(disk, m)
  BY FinalNone, FlushedReads, FileIs DEF IInv
<1>4. Reads(disk, list, wish, Names)
  BY <1>2, <1>3 DEF Reads
<1>5. QED
  BY <1>1, <1>2, <1>4, OverKept

\* A quit or a crash: the files that were being replaced are lost.
LEMMA CutShortKept ==
  ASSUME IInv, KeptInv, Over(hdr, Damaged)
  PROVE  KeptInv'
<1>1. Record(truth) /\ Sized(hdr, truth) /\ Reads(disk, hdr, truth, Names \ touched)
  BY DEF KeptInv, OldReads
<1>2. \A name \in Names : truth[name] = Holds(truth[name].bytes, truth[name].kind)
  BY <1>1 DEF Record
<1>3. DOMAIN Damaged = Names
  BY DEF Damaged
<1>4. ASSUME NEW name \in Names
      PROVE  /\ Damaged[name] = Holds(Damaged[name].bytes, Damaged[name].kind)
             /\ Damaged[name].bytes = truth[name].bytes
             /\ Damaged[name].kind = "ok" => name \notin touched /\ truth[name].kind = "ok"
  <2> DEFINE h == truth[name]
  <2>1. h = [bytes |-> h.bytes, kind |-> h.kind]
    BY <1>2 DEF Holds
  <2>2. Damaged[name] = IF name \in touched THEN [h EXCEPT !.kind = "lost"] ELSE h
    BY DEF Damaged
  <2> HIDE DEF h
  <2>3. [h EXCEPT !.kind = "lost"] = [bytes |-> h.bytes, kind |-> "lost"]
    BY <2>1
  <2>4. CASE name \in touched
    <3>1. Damaged[name] = [bytes |-> h.bytes, kind |-> "lost"]
      BY <2>2, <2>3, <2>4
    <3>2. Damaged[name].bytes = h.bytes /\ Damaged[name].kind = "lost"
      BY <3>1
    <3>3. QED
      BY <3>1, <3>2 DEF Holds, h
  <2>5. CASE name \notin touched
    <3>1. Damaged[name] = h
      BY <2>2, <2>5
    <3>2. QED
      BY <2>1, <2>5, <3>1 DEF Holds, h
  <2>6. QED
    BY <2>4, <2>5
<1>5. Record(Damaged)
  BY <1>3, <1>4 DEF Record
<1>6. \A m \in FilesOf(hdr) : m.name \in Names
  BY FileIs DEF IInv
<1>7. Sized(hdr, Damaged)
  BY <1>1, <1>4, <1>6 DEF Sized
<1>8. Reads(disk, hdr, Damaged, Names)
  BY <1>1, <1>4, <1>6 DEF Reads
<1>9. QED
  BY <1>5, <1>7, <1>8, OverKept

-----------------------------------------------------------------------------
(* What files hold when a command starts.                                  *)

\* Before a command, every file on the disk reads as it should.
LEMMA Idle ==
  ASSUME IInv, KeptInv, Called
  PROVE  /\ buf = <<>> /\ GoodList(hdr)
         /\ Record(truth) /\ Sized(hdr, truth) /\ Reads(disk, hdr, truth, Names)
         /\ Reads(Flushed(disk, <<>>), hdr, truth, Names)
<1>1. touched = {} /\ buf = <<>>
  BY DEF KeptInv, Resting, Called
<1>2. GoodList(hdr)
  BY DEF IInv
<1>3. Record(truth) /\ Sized(hdr, truth) /\ Reads(disk, hdr, truth, Names)
  BY <1>1 DEF KeptInv, OldReads, Reads
<1>4. \A m \in FilesOf(hdr) : Read(Flushed(disk, <<>>), m) = Read(disk, m)
  BY <1>2, FlushedReads, FileIs
<1>5. Reads(Flushed(disk, <<>>), hdr, truth, Names)
  BY <1>3, <1>4 DEF Reads
<1>6. QED
  BY <1>1, <1>2, <1>3, <1>5

LEMMA StartKept ==
  ASSUME IInv, KeptInv, Called, NEW l, NEW t, NEW ends \in BOOLEAN, NEW plan, NEW replaced,
         Start(l, t, ends, plan, replaced),
         Record(plan) /\ Sized(l, plan) /\ Reads(Final(Flushed(disk, <<>>), t), l, plan, Names),
         \A m \in FilesOf(hdr) : m.name \notin replaced => AllHarmless(t, m)
  PROVE  KeptInv'
<1>1. /\ running' = TRUE /\ commits' = ends /\ list' = l /\ work' = t /\ wish' = plan
      /\ touched' = replaced \cap NamesOf(hdr)
      /\ disk' = disk /\ hdr' = hdr /\ buf' = buf /\ truth' = truth
  BY DEF Start
<1>2. /\ buf = <<>> /\ Record(truth) /\ Sized(hdr, truth) /\ Reads(disk, hdr, truth, Names)
  BY Idle
<1>3. OldReads'
  BY <1>1, <1>2 DEF OldReads, Reads
<1>4. Resting'
  BY <1>1 DEF Resting
<1>5. NewReads'
  BY <1>1, <1>2 DEF NewReads
<1>6. Undisturbed'
  <2>1. ASSUME NEW m \in FilesOf(hdr), m.name \notin touched' PROVE AllHarmless(t, m)
    <3>1. m.name \in NamesOf(hdr)
      BY DEF FilesOf, NamesOf
    <3>2. QED
      BY <1>1, <2>1, <3>1
  <2>2. \A m : SameBytes(<<>>, disk, m)
    BY DEF SameBytes
  <2>3. QED
    BY <1>1, <1>2, <2>1, <2>2 DEF Undisturbed
<1>7. QED
  BY <1>3, <1>4, <1>5, <1>6 DEF KeptInv

\* A command that moves nothing.
LEMMA StillKept ==
  ASSUME IInv, KeptInv, Called, NEW l, GoodList(l), NEW plan, Start(l, <<>>, TRUE, plan, {}),
         Record(plan), Sized(l, plan), Reads(disk, l, plan, Names)
  PROVE  KeptInv'
<1> DEFINE x == Flushed(disk, <<>>)
<1>1. Final(x, <<>>) = x
  BY FinalNone
<1>2. \A m \in FilesOf(l) : Read(x, m) = Read(disk, m)
  BY FlushedReads, FileIs
<1> HIDE DEF x
<1>3. Reads(Final(x, <<>>), l, plan, Names)
  BY <1>1, <1>2 DEF Reads
<1>4. \A m : AllHarmless(<<>>, m)
  BY DEF AllHarmless
<1>5. QED
  BY <1>3, <1>4, StartKept DEF x

\* A file that is put in the list, and its sectors written, leaves the others
\* as they read.
LEMMA Placed ==
  ASSUME NEW l, GoodList(l), NEW f, Wanted(f), Alloc(l, f) # <<>>,
         NEW t, Into(t, SectorsOf(Find(Alloc(l, f), f.name))),
         NEW d, NEW h, Sized(l, h), Reads(d, l, h, Names),
         NEW plan, \A name \in Names : name # f.name => plan[name] = h[name],
         IsBytes(plan[f.name].bytes, f.size),
         plan[f.name].kind = "ok" =>
           Read(Final(d, t), Find(Alloc(l, f), f.name)) = plan[f.name].bytes
  PROVE  Sized(Alloc(l, f), plan) /\ Reads(Final(d, t), Alloc(l, f), plan, Names)
<1> DEFINE r == Alloc(l, f)
           m == Find(r, f.name)
           e == Final(d, t)
<1>1. /\ FilesOf(r) = {n \in FilesOf(l) : n.name # f.name} \cup {m}
      /\ GoodList(r) /\ m \in FilesOf(r) /\ m.name = f.name /\ m.size = f.size
  BY AllocFiles
<1>2. Into(t, SectorsOf(m)) /\ (plan[f.name].kind = "ok" => Read(e, m) = plan[f.name].bytes)
  OBVIOUS
<1> HIDE DEF m, r
<1>3. ASSUME NEW n \in FilesOf(r)
      PROVE  /\ IsBytes(plan[n.name].bytes, n.size)
             /\ plan[n.name].kind = "ok" => Read(e, n) = plan[n.name].bytes
  <2>1. CASE n.name = f.name
    <3>1. n = m
      BY <1>1, <2>1, OneOfName
    <3> HIDE DEF e
    <3>2. QED
      BY <1>1, <1>2, <3>1
  <2>2. CASE n.name # f.name
    <3>1. n \in FilesOf(l) /\ n.name \in Names /\ plan[n.name] = h[n.name]
      BY <1>1, <2>2, FileIs
    <3>2. n \in FileItem /\ SectorsOf(n) \subseteq Sectors
      BY <1>1, FileIs
    <3>3. SectorsOf(m) \cap SectorsOf(n) = {}
      BY <1>1, <2>2, Apart
    <3>4. Read(e, n) = Read(d, n)
      BY <1>2, <3>2, <3>3, ApartReads
    <3> HIDE DEF e
    <3>5. QED
      BY <3>1, <3>4 DEF Sized, Reads
  <2>3. QED
    BY <2>1, <2>2
<1>4. Sized(r, plan)
  BY <1>3 DEF Sized
<1>5. Reads(e, r, plan, Names)
  BY <1>3 DEF Reads
<1>6. QED
  BY <1>4, <1>5 DEF r

\* Nor can the transfers harm a file of another name.
LEMMA PlacedHarmless ==
  ASSUME NEW l, GoodList(l), NEW f, Wanted(f), Alloc(l, f) # <<>>,
         NEW t, Into(t, SectorsOf(Find(Alloc(l, f), f.name))),
         NEW n \in FilesOf(l), n.name # f.name
  PROVE  /\ AllHarmless(t, n)
         /\ SectorsOf(Find(Alloc(l, f), f.name)) \cap SectorsOf(n) = {}
         /\ n \in FilesOf(Alloc(l, f))
<1> DEFINE r == Alloc(l, f)
           m == Find(r, f.name)
<1>1. /\ n \in FilesOf(r) /\ GoodList(r) /\ m \in FilesOf(r) /\ m.name = f.name
  BY AllocFiles
<1>2. Into(t, SectorsOf(m))
  OBVIOUS
<1> HIDE DEF m, r
<1>3. SectorsOf(m) \cap SectorsOf(n) = {} /\ n \in FileItem
  BY <1>1, Apart, FileIs
<1>4. AllHarmless(t, n)
  BY <1>2, <1>3, ApartHarmless
<1>5. QED
  BY <1>1, <1>3, <1>4 DEF m, r

\* A command that puts one file in the list.
LEMMA PlacedKept ==
  ASSUME IInv, KeptInv, Called, NEW f, Wanted(f), Alloc(hdr, f) # <<>>,
         NEW t, Into(t, SectorsOf(Find(Alloc(hdr, f), f.name))),
         NEW plan, Record(plan), \A name \in Names : name # f.name => plan[name] = truth[name],
         IsBytes(plan[f.name].bytes, f.size),
         plan[f.name].kind = "ok" =>
           Read(Final(Flushed(disk, <<>>), t), Find(Alloc(hdr, f), f.name)) = plan[f.name].bytes,
         NEW replaced,
         f.name \in replaced \/ \A n \in FilesOf(hdr) : n.name = f.name => AllHarmless(t, n),
         Start(Alloc(hdr, f), t, TRUE, plan, replaced)
  PROVE  KeptInv'
<1>1. /\ GoodList(hdr) /\ Sized(hdr, truth) /\ Reads(Flushed(disk, <<>>), hdr, truth, Names)
  BY Idle
<1>2. /\ Sized(Alloc(hdr, f), plan)
      /\ Reads(Final(Flushed(disk, <<>>), t), Alloc(hdr, f), plan, Names)
  BY <1>1, Placed
<1>3. ASSUME NEW n \in FilesOf(hdr), n.name \notin replaced PROVE AllHarmless(t, n)
  <2>1. CASE n.name # f.name
    BY <1>1, <2>1, PlacedHarmless
  <2>2. CASE n.name = f.name
    BY <1>3, <2>2
  <2>3. QED
    BY <2>1, <2>2
<1>4. QED
  BY <1>2, <1>3, StartKept

\* A record with one name changed.
LEMMA RecordExcept ==
  ASSUME NEW h, Record(h), NEW name \in Names, NEW bytes, NEW kind
  PROVE  LET p == [h EXCEPT ![name] = Holds(bytes, kind)] IN
         /\ Record(p) /\ p[name].bytes = bytes /\ p[name].kind = kind
         /\ \A n \in Names : n # name => p[n] = h[n]
<1> DEFINE p == [h EXCEPT ![name] = Holds(bytes, kind)]
<1>1. DOMAIN h = Names /\ \A n \in Names : h[n] = Holds(h[n].bytes, h[n].kind)
  BY DEF Record
<1>2. DOMAIN p = Names /\ p[name] = Holds(bytes, kind) /\ \A n \in Names : n # name => p[n] = h[n]
  BY <1>1
<1> HIDE DEF p
<1>3. p[name].bytes = bytes /\ p[name].kind = kind
  BY <1>2 DEF Holds
<1>4. Record(p)
  BY <1>1, <1>2, <1>3 DEF Record
<1>5. QED
  BY <1>2, <1>3, <1>4 DEF p

\* A record with the bytes of one name changed.
LEMMA RecordBytes ==
  ASSUME NEW h, Record(h), NEW name \in Names, NEW bytes
  PROVE  [h EXCEPT ![name].bytes = bytes] = [h EXCEPT ![name] = Holds(bytes, h[name].kind)]
<1>1. h[name] = [bytes |-> h[name].bytes, kind |-> h[name].kind]
  BY DEF Record, Holds
<1>2. [h[name] EXCEPT !.bytes = bytes] = Holds(bytes, h[name].kind)
  BY <1>1 DEF Holds
<1>3. QED
  BY <1>2

LEMMA ContentIs ==
  ASSUME NEW name, NEW n, NEW size \in Nat
  PROVE  IsBytes(Content(name, n, size), size) /\ Len(Content(name, n, size)) = size
         /\ DOMAIN Content(name, n, size) = 1 .. size
<1> DEFINE T == {Byte(name, n, i) : i \in 1 .. size}
           c == Content(name, n, size)
<1>1. c \in [1 .. size -> T] /\ DOMAIN c = 1 .. size
  BY DEF Content
<1>2. IsBytes(c, size)
  BY DEF Content, IsBytes
<1> HIDE DEF c, T
<1>3. c \in Seq(T)
  BY <1>1, IsSequence
<1>4. Len(c) = size
  BY <1>1, <1>3, LenProperties
<1>5. QED
  BY <1>1, <1>2, <1>4 DEF c

LEMMA AddKept ==
  ASSUME IInv, KeptInv, NEW name \in Names, NEW size \in Sizes, NEW ext \in BOOLEAN,
         Add(name, size, ext)
  PROVE  KeptInv'
<1> DEFINE f == [name |-> name, size |-> size, ext |-> ext]
           l == Alloc(hdr, f)
           bytes == Content(name, runs + 1, size)
           plan == [truth EXCEPT ![name] = Holds(bytes, "ok")]
           m == Find(l, name)
<1>1. Called /\ l # <<>> /\ Start(l, Saved(m, bytes), TRUE, plan, {name})
  BY DEF Add
<1>2. GoodList(hdr) /\ Record(truth)
  BY <1>1, Idle
<1>3. Wanted(f) /\ f.name = name /\ f.size = size /\ size \in Nat
  BY FbAssumption DEF Wanted
<1> HIDE DEF f
<1>4. m \in FileItem /\ First <= m.start /\ End(m) <= Total /\ m.size = size
  <2>1. m \in FilesOf(l) /\ GoodList(l) /\ m.size = size
    BY <1>1, <1>2, <1>3, AllocFiles
  <2> HIDE DEF m, l
  <2>2. QED
    BY <2>1, FileIs
<1>5. /\ Record(plan) /\ plan[name].bytes = bytes /\ plan[name].kind = "ok"
      /\ \A n \in Names : n # name => plan[n] = truth[n]
  BY <1>2, RecordExcept
<1>6. IsBytes(bytes, size)
  BY <1>3, ContentIs
<1> HIDE DEF bytes, plan
<1>7. Into(Saved(m, bytes), SectorsOf(m))
  BY <1>4, SavedGood
<1>8. Read(Final(Flushed(disk, <<>>), Saved(m, bytes)), m) = bytes
  BY <1>4, <1>6, SavedRun
<1> DEFINE t == Saved(m, bytes)
<1> HIDE DEF t
<1>9. /\ Start(Alloc(hdr, f), t, TRUE, plan, {f.name}) /\ Alloc(hdr, f) # <<>>
      /\ Into(t, SectorsOf(Find(Alloc(hdr, f), f.name)))
      /\ Read(Final(Flushed(disk, <<>>), t), Find(Alloc(hdr, f), f.name)) = plan[f.name].bytes
  BY <1>1, <1>3, <1>5, <1>7, <1>8 DEF t
<1>10. f.name \in {f.name} /\ IsBytes(plan[f.name].bytes, f.size)
       /\ \A n \in Names : n # f.name => plan[n] = truth[n]
  BY <1>3, <1>5, <1>6
<1>11. QED
  BY <1>1, <1>3, <1>5, <1>9, <1>10, PlacedKept

-----------------------------------------------------------------------------
(* Sequences of bytes.                                                     *)

LEMMA BytesSeq ==
  ASSUME NEW b, NEW n \in Nat, IsBytes(b, n)
  PROVE  /\ b \in Seq({b[i] : i \in 1 .. n}) /\ Len(b) = n
         /\ n = 0 => b = <<>>
<1> DEFINE T == {b[i] : i \in 1 .. n}
<1>1. b \in [1 .. n -> T]
  BY DEF IsBytes
<1> HIDE DEF T
<1>2. b \in Seq(T)
  BY <1>1, IsSequence
<1>3. Len(b) = n
  BY <1>1, <1>2, LenProperties
<1>4. n = 0 => b = <<>>
  BY <1>2, <1>3, EmptySeq
<1>5. QED
  BY <1>2, <1>3, <1>4 DEF T

LEMMA SeqBytes ==
  ASSUME NEW T, NEW b \in Seq(T)
  PROVE  IsBytes(b, Len(b)) /\ Len(b) \in Nat
<1>1. b \in [1 .. Len(b) -> T] /\ Len(b) \in Nat
  BY LenProperties
<1>2. QED
  BY <1>1 DEF IsBytes

LEMMA SameIsBytes ==
  ASSUME NEW b, NEW n, IsBytes(b, n), NEW c, IsBytes(c, n), \A i \in 1 .. n : b[i] = c[i]
  PROVE  b = c
BY DEF IsBytes

LEMMA ReadBytes ==
  ASSUME NEW d, NEW m
  PROVE  IsBytes(Read(d, m), m.size)
BY DEF IsBytes, Read

\* A file that is cut after some of its bytes.
LEMMA CutBytes ==
  ASSUME NEW b, NEW n \in Nat, IsBytes(b, n), NEW k \in 0 .. n
  PROVE  /\ IsBytes(SubSeq(b, 1, k), k) /\ Len(SubSeq(b, 1, k)) = k
         /\ \A i \in 1 .. k : SubSeq(b, 1, k)[i] = b[i]
<1> DEFINE T == {b[i] : i \in 1 .. n}
           c == SubSeq(b, 1, k)
<1>1. b \in Seq(T) /\ \A i \in 1 .. k : b[i] \in T
  BY BytesSeq
<1> HIDE DEF T
<1>2. /\ c \in Seq(T) /\ Len(c) = IF 1 <= k THEN k - 1 + 1 ELSE 0
      /\ \A i \in 1 .. k - 1 + 1 : c[i] = b[1 + i - 1]
  BY <1>1, SubSeqProperties
<1> HIDE DEF c
<1>3. Len(c) = k /\ \A i \in 1 .. k : c[i] = b[i]
  BY <1>2
<1>4. IsBytes(c, k)
  BY <1>2, <1>3, SeqBytes
<1>5. QED
  BY <1>3, <1>4 DEF c

LEMMA FrontBytes ==
  ASSUME NEW b, NEW n \in Nat \ {0}, IsBytes(b, n)
  PROVE  IsBytes(Front(b), n - 1)
<1>1. Front(b) = SubSeq(b, 1, n - 1)
  BY BytesSeq DEF Front
<1>2. n - 1 \in 0 .. n
  OBVIOUS
<1>3. QED
  BY <1>1, <1>2, CutBytes

OneThenOther(e, b, n, c, k) ==
  \A i \in 1 .. n + k : e[i] = IF i <= n THEN b[i] ELSE c[i - n]

LEMMA JoinedBytes ==
  ASSUME NEW b, NEW n \in Nat, IsBytes(b, n), NEW c, NEW k \in Nat, IsBytes(c, k)
  PROVE  /\ IsBytes(b \o c, n + k) /\ Len(b \o c) = n + k
         /\ OneThenOther(b \o c, b, n, c, k)
<1> DEFINE T == {b[i] : i \in 1 .. n} \cup {c[i] : i \in 1 .. k}
           e == b \o c
<1>1. b \in Seq(T) /\ c \in Seq(T)
  <2>1. (\A i \in 1 .. n : b[i] \in T) /\ (\A i \in 1 .. k : c[i] \in T)
    OBVIOUS
  <2> HIDE DEF T
  <2>2. b \in [1 .. n -> T] /\ c \in [1 .. k -> T]
    BY <2>1 DEF IsBytes
  <2>3. QED
    BY <2>2, IsSequence
<1>2. Len(b) = n /\ Len(c) = k
  BY BytesSeq
<1> HIDE DEF T
<1>3. /\ e \in Seq(T) /\ Len(e) = n + k
      /\ \A i \in 1 .. n + k : e[i] = IF i <= n THEN b[i] ELSE c[i - n]
  BY <1>1, <1>2, ConcatProperties
<1> HIDE DEF e
<1>4. IsBytes(e, n + k)
  BY <1>3, SeqBytes
<1>5. OneThenOther(e, b, n, c, k)
  BY <1>3 DEF OneThenOther
<1>6. QED
  BY <1>3, <1>4, <1>5 DEF e

\* Transfers after others.
LEMMA HarmlessBoth ==
  ASSUME NEW A, NEW v, NEW w, Into(v, A), Into(w, A), NEW m, AllHarmless(v, m), AllHarmless(w, m)
  PROVE  AllHarmless(v \o w, m)
<1> DEFINE T == {v[i] : i \in DOMAIN v} \cup {w[i] : i \in DOMAIN w}
           e == v \o w
<1>1. /\ v \in Seq({v[i] : i \in DOMAIN v}) /\ w \in Seq({w[i] : i \in DOMAIN w})
      /\ Len(v) \in Nat /\ Len(w) \in Nat /\ DOMAIN v = 1 .. Len(v) /\ DOMAIN w = 1 .. Len(w)
  BY LenProperties DEF Into
<1>2. v \in Seq(T) /\ w \in Seq(T)
  <2>1. (\A i \in 1 .. Len(v) : v[i] \in T) /\ (\A i \in 1 .. Len(w) : w[i] \in T)
    BY <1>1
  <2>2. IsBytes(v, Len(v)) /\ IsBytes(w, Len(w))
    BY <1>1, SeqBytes
  <2> HIDE DEF T
  <2>3. v \in [1 .. Len(v) -> T] /\ w \in [1 .. Len(w) -> T]
    BY <2>1, <2>2 DEF IsBytes
  <2>4. QED
    BY <1>1, <2>3, IsSequence
<1> HIDE DEF T
<1>3. /\ Len(e) = Len(v) + Len(w)
      /\ \A i \in 1 .. Len(v) + Len(w) : e[i] = IF i <= Len(v) THEN v[i] ELSE w[i - Len(v)]
  BY <1>2, ConcatProperties
<1> HIDE DEF e
<1>4. ASSUME NEW j \in 1 .. Len(e), NEW n \in 1 .. Len(e[j]) PROVE Harmless(e[j][n], m)
  <2>1. CASE j <= Len(v)
    <3>1. j \in 1 .. Len(v) /\ e[j] = v[j]
      BY <1>1, <1>3, <2>1
    <3>2. QED
      BY <1>4, <3>1 DEF AllHarmless
  <2>2. CASE ~(j <= Len(v))
    <3>1. j - Len(v) \in 1 .. Len(w) /\ e[j] = w[j - Len(v)]
      BY <1>1, <1>3, <2>2
    <3>2. QED
      BY <1>4, <3>1 DEF AllHarmless
  <2>3. QED
    BY <2>1, <2>2
<1>5. QED
  BY <1>4 DEF AllHarmless, e

Changed(p, h, name, bytes, kind) == p = [h EXCEPT ![name] = Holds(bytes, kind)]

LEMMA RecordWith ==
  ASSUME NEW h, Record(h), NEW name \in Names, NEW bytes, NEW kind,
         NEW p, Changed(p, h, name, bytes, kind)
  PROVE  /\ Record(p) /\ p[name].bytes = bytes /\ p[name].kind = kind
         /\ \A n \in Names : n # name => p[n] = h[n]
<1>1. DOMAIN h = Names /\ \A n \in Names : h[n] = Holds(h[n].bytes, h[n].kind)
  BY DEF Record
<1>2. DOMAIN p = Names /\ p[name] = Holds(bytes, kind) /\ \A n \in Names : n # name => p[n] = h[n]
  BY <1>1 DEF Changed
<1>3. p[name].bytes = bytes /\ p[name].kind = kind
  BY <1>2 DEF Holds
<1>4. Record(p)
  BY <1>1, <1>2, <1>3 DEF Record
<1>5. QED
  BY <1>2, <1>3, <1>4

-----------------------------------------------------------------------------
(* What files hold after the other commands.                               *)

LEMMA AddMenuKept ==
  ASSUME IInv, KeptInv, NEW name \in Names, NEW size \in Sizes, NEW append \in BOOLEAN,
         AddMenu(name, size, append)
  PROVE  KeptInv'
<1> DEFINE new == Content(name, runs + 1, size)
           old == IF append /\ Has(hdr, name) THEN Front(Read(disk, Find(hdr, name))) ELSE <<>>
           meant == IF append /\ Has(hdr, name) THEN Front(truth[name].bytes) ELSE <<>>
           f == [name |-> name, size |-> Len(old) + size, ext |-> FALSE]
           l == Alloc(hdr, f)
           m == Find(l, name)
           kind == IF old # <<>> /\ truth[name].kind # "ok" THEN truth[name].kind
                   ELSE IF m.start < Pri /\ m.size > PriBytes THEN "menu" ELSE "ok"
           bytes == meant \o new
           plan == [truth EXCEPT ![name] = Holds(bytes, kind)]
           t == SavedBuff(m, old \o new)
           x == Flushed(disk, <<>>)
<1>1. Called /\ l # <<>> /\ Start(l, t, TRUE, plan, {name})
  BY DEF AddMenu
<1>2. /\ GoodList(hdr) /\ Record(truth) /\ Sized(hdr, truth) /\ Reads(disk, hdr, truth, Names)
  BY <1>1, Idle
<1>3. \E n \in Nat : /\ IsBytes(old, n) /\ IsBytes(meant, n)
                     /\ old = <<>> \/ truth[name].kind = "ok" => old = meant
  <2>1. CASE append /\ Has(hdr, name)
    <3> DEFINE w == Find(hdr, name)
    <3>1. w \in FilesOf(hdr) /\ w.name = name /\ w.size \in Nat \ {0}
      BY <1>2, <2>1, FoundFile, FoundIs
    <3>2. old = Front(Read(disk, w)) /\ meant = Front(truth[name].bytes)
      BY <2>1
    <3> HIDE DEF w, old, meant
    <3>3. IsBytes(truth[name].bytes, w.size)
      BY <1>2, <3>1 DEF Sized
    <3>4. IsBytes(old, w.size - 1) /\ IsBytes(meant, w.size - 1) /\ w.size - 1 \in Nat
      BY <3>1, <3>2, <3>3, ReadBytes, FrontBytes
    <3>5. truth[name].kind = "ok" => old = meant
      BY <1>2, <3>1, <3>2 DEF Reads
    <3>6. old = <<>> => old = meant
      <4>1. ASSUME old = <<>> PROVE meant = <<>>
        <5>1. Len(old) = 0
          BY <4>1
        <5>2. w.size - 1 = 0
          BY <3>4, <5>1, BytesSeq
        <5>3. QED
          BY <3>4, <5>2, BytesSeq
      <4>2. QED
        BY <4>1
    <3>7. QED
      BY <3>4, <3>5, <3>6
  <2>2. CASE ~(append /\ Has(hdr, name))
    <3>1. old = <<>> /\ meant = <<>>
      BY <2>2
    <3>2. <<>> \in Seq(Nat) /\ Len(<<>>) = 0
      OBVIOUS
    <3>3. IsBytes(<<>>, 0)
      BY <3>2, SeqBytes
    <3> HIDE DEF old, meant
    <3>4. IsBytes(old, 0) /\ IsBytes(meant, 0) /\ 0 \in Nat /\ old = meant
      BY <3>1, <3>3
    <3>5. QED
      BY <3>4
  <2>3. QED
    BY <2>1, <2>2
<1> HIDE DEF old, meant
<1>4. PICK n \in Nat : /\ IsBytes(old, n) /\ IsBytes(meant, n)
                       /\ old = <<>> \/ truth[name].kind = "ok" => old = meant
  BY <1>3
<1>5. Len(old) = n
  BY <1>4, BytesSeq
<1>6. size \in Nat \ {0} /\ IsBytes(new, size)
  <2>1. size \in Nat \ {0}
    BY FbAssumption
  <2>2. QED
    BY <2>1, ContentIs
<1> HIDE DEF new
<1>7. /\ IsBytes(old \o new, n + size) /\ Len(old \o new) = n + size
      /\ IsBytes(bytes, n + size)
  BY <1>4, <1>6, JoinedBytes
<1>8. Wanted(f) /\ f.name = name /\ f.size = n + size
  <2>1. Len(old) + size \in Nat \ {0}
    BY <1>5, <1>6
  <2>2. QED
    BY <1>5, <2>1 DEF Wanted
<1> HIDE DEF f
<1>9. m \in FileItem /\ First <= m.start /\ End(m) <= Total /\ m.size = n + size /\ m.size > 0
  <2>1. m \in FilesOf(l) /\ GoodList(l) /\ m.size = n + size
    BY <1>1, <1>2, <1>8, AllocFiles
  <2>2. n + size > 0
    BY <1>6
  <2> HIDE DEF m, l
  <2>3. QED
    BY <2>1, <2>2, FileIs
<1>10. kind = "ok" =>
         /\ old = <<>> \/ truth[name].kind = "ok"
         /\ ~(m.start < Pri /\ m.size > PriBytes)
  <2> HIDE DEF m
  <2>1. QED
    OBVIOUS
<1> HIDE DEF kind
<1>11. /\ Record(plan) /\ plan[name].bytes = bytes /\ plan[name].kind = kind
       /\ \A k \in Names : k # name => plan[k] = truth[k]
  <2> HIDE DEF bytes
  <2>1. QED
    BY <1>2, RecordExcept
<1>12. Into(t, SectorsOf(m))
  BY <1>9, SavedBuffGood
<1>13. kind = "ok" => Read(Final(x, t), m) = bytes
  <2>1. SUFFICES ASSUME kind = "ok" PROVE Read(Final(x, t), m) = bytes
    OBVIOUS
  <2>2. old = meant /\ ~(m.start < Pri /\ m.size > PriBytes)
    BY <1>4, <1>10, <2>1
  <2>3. m.start < Pri => m.size <= PriBytes
    <3>1. m.size \in Nat /\ PriBytes \in Nat
      BY <1>9, FbAssumption DEF FileItem
    <3> HIDE DEF m
    <3>2. QED
      BY <2>2, <3>1
  <2>4. IsBytes(old \o new, m.size) /\ Len(old \o new) = m.size
    BY <1>7, <1>9
  <2> HIDE DEF m, x
  <2>5. Read(Final(x, SavedBuff(m, old \o new)), m) = old \o new
    BY <1>9, <2>3, <2>4, SavedBuffRun
  <2>6. QED
    BY <2>2, <2>5
<1> HIDE DEF plan, bytes, t, x
<1>14. /\ Start(Alloc(hdr, f), t, TRUE, plan, {f.name}) /\ Alloc(hdr, f) # <<>>
       /\ Into(t, SectorsOf(Find(Alloc(hdr, f), f.name)))
       /\ plan[f.name].kind = "ok" =>
            Read(Final(Flushed(disk, <<>>), t), Find(Alloc(hdr, f), f.name)) = plan[f.name].bytes
  BY <1>1, <1>8, <1>11, <1>12, <1>13 DEF x
<1>15. f.name \in {f.name} /\ IsBytes(plan[f.name].bytes, f.size)
       /\ \A k \in Names : k # f.name => plan[k] = truth[k]
  BY <1>7, <1>8, <1>11
<1>16. QED
  BY <1>1, <1>8, <1>11, <1>14, <1>15, PlacedKept

LEMMA CutKept ==
  ASSUME IInv, KeptInv, NEW name \in Names, NEW size \in Sizes, Cut(name, size)
  PROVE  KeptInv'
<1> DEFINE p == Place(hdr, name)
           l == [hdr EXCEPT ![p].size = size]
           old == Find(hdr, name)
           cut == [old EXCEPT !.size = size]
           bytes == SubSeq(truth[name].bytes, 1, size)
           plan == [truth EXCEPT ![name].bytes = bytes]
<1>1. Called /\ Has(hdr, name) /\ old.size >= size /\ Start(l, <<>>, TRUE, plan, {})
  BY DEF Cut
<1>2. /\ GoodList(hdr) /\ Record(truth) /\ Sized(hdr, truth) /\ Reads(disk, hdr, truth, Names)
  BY <1>1, Idle
<1>3. size \in Nat \ {0}
  BY FbAssumption
<1>4. /\ GoodList(l) /\ Len(l) = Len(hdr) /\ p \in 1 .. Len(hdr)
      /\ \A j \in 1 .. Len(hdr) : l[j] = IF j = p THEN cut ELSE hdr[j]
      /\ cut.name = name /\ cut.start = old.start /\ cut.size = size
  BY <1>1, <1>2, <1>3, CutIs
<1>5. old \in FilesOf(hdr) /\ old.name = name /\ old.size \in Nat /\ old = hdr[p]
  BY <1>1, <1>2, FoundFile, FoundIs
<1> HIDE DEF p, old, cut, l
<1>6. IsBytes(truth[name].bytes, old.size)
  BY <1>2, <1>5 DEF Sized
<1>7. size \in 0 .. old.size
  BY <1>1, <1>3, <1>5
<1>8. IsBytes(bytes, size) /\ \A i \in 1 .. size : bytes[i] = truth[name].bytes[i]
  BY <1>5, <1>6, <1>7, CutBytes
<1> HIDE DEF bytes
<1>9. /\ Record(plan) /\ plan[name].bytes = bytes /\ plan[name].kind = truth[name].kind
      /\ \A n \in Names : n # name => plan[n] = truth[n]
  <2> DEFINE kind == truth[name].kind
  <2>1. Changed(plan, truth, name, bytes, kind)
    BY <1>2, RecordBytes DEF Changed
  <2> HIDE DEF plan, kind
  <2>2. /\ Record(plan) /\ plan[name].bytes = bytes /\ plan[name].kind = kind
        /\ \A n \in Names : n # name => plan[n] = truth[n]
    BY <1>2, <2>1, RecordWith
  <2>3. QED
    BY <2>2 DEF kind
<1> HIDE DEF plan
<1>10. truth[name].kind = "ok" => Read(disk, cut) = bytes
  <2>1. SUFFICES ASSUME truth[name].kind = "ok" PROVE Read(disk, cut) = bytes
    OBVIOUS
  <2>2. Read(disk, old) = truth[name].bytes
    BY <1>2, <1>5, <2>1 DEF Reads
  <2>3. IsBytes(Read(disk, cut), size)
    BY <1>4, ReadBytes
  <2>4. ASSUME NEW i \in 1 .. size PROVE Read(disk, cut)[i] = bytes[i]
    <3>1. i \in 1 .. old.size /\ i \in 1 .. cut.size
      BY <1>4, <1>5, <1>7
    <3>2. Read(disk, cut)[i] = disk[cut.start + Sector(cut.start, i)][Within(cut.start, i)]
      BY <3>1, ReadIs
    <3>3. Read(disk, old)[i] = disk[old.start + Sector(old.start, i)][Within(old.start, i)]
      BY <3>1, ReadIs
    <3>4. QED
      BY <1>4, <1>8, <2>2, <3>2, <3>3
  <2>5. QED
    BY <1>8, <2>3, <2>4, SameIsBytes
<1>11. ASSUME NEW m \in FilesOf(l)
       PROVE  /\ IsBytes(plan[m.name].bytes, m.size)
              /\ plan[m.name].kind = "ok" => Read(disk, m) = plan[m.name].bytes
  <2>1. PICK j \in 1 .. Len(hdr) : m = l[j]
    BY <1>4 DEF FilesOf
  <2>2. CASE j = p
    BY <1>4, <1>8, <1>9, <1>10, <2>1, <2>2
  <2>3. CASE j # p
    <3>1. m = hdr[j] /\ m \in FilesOf(hdr)
      BY <1>4, <2>1, <2>3 DEF FilesOf
    <3>2. m.name # name /\ m.name \in Names
      <4>1. m.name = name => j = p
        BY <1>2, <1>4, <1>5, <3>1 DEF GoodList, Laid
      <4>2. QED
        BY <1>2, <2>3, <3>1, <4>1, FileIs
    <3>3. plan[m.name] = truth[m.name]
      BY <1>9, <3>2
    <3>4. QED
      BY <1>2, <3>1, <3>2, <3>3 DEF Sized, Reads
  <2>4. QED
    BY <2>2, <2>3
<1>12. Sized(l, plan) /\ Reads(disk, l, plan, Names)
  BY <1>11 DEF Sized, Reads
<1>13. QED
  BY <1>1, <1>4, <1>9, <1>12, StillKept

LEMMA RenameKept ==
  ASSUME IInv, KeptInv, NEW from \in Names, NEW name \in Names, Rename(from, name)
  PROVE  KeptInv'
<1> DEFINE rest == Without(hdr, name)
           l == Renamed(rest, from, name)
           plan == [truth EXCEPT ![name] = truth[from]]
<1>1. Called /\ Start(l, <<>>, TRUE, plan, {})
  BY DEF Rename, Renamed
<1>2. /\ GoodList(hdr) /\ Record(truth) /\ Sized(hdr, truth) /\ Reads(disk, hdr, truth, Names)
  BY <1>1, Idle
<1>3. /\ GoodList(rest) /\ ~Has(rest, name)
      /\ FilesOf(rest) = {m \in FilesOf(hdr) : m.name # name}
  BY <1>2, WithoutKeeps, WithoutFiles
<1> HIDE DEF rest
<1>4. /\ GoodList(l) /\ Len(l) = Len(rest)
      /\ \A i \in 1 .. Len(rest) :
           /\ l[i].start = rest[i].start /\ l[i].size = rest[i].size
           /\ l[i].name = IF rest[i].name = from THEN name ELSE rest[i].name
  BY <1>3, RenameIs
<1>5. /\ Record(plan) /\ plan[name].bytes = truth[from].bytes
      /\ plan[name].kind = truth[from].kind
      /\ \A n \in Names : n # name => plan[n] = truth[n]
  <2> DEFINE bytes == truth[from].bytes
             kind == truth[from].kind
  <2>1. Changed(plan, truth, name, bytes, kind)
    BY <1>2 DEF Record, Changed
  <2> HIDE DEF plan, bytes, kind
  <2>2. /\ Record(plan) /\ plan[name].bytes = bytes /\ plan[name].kind = kind
        /\ \A n \in Names : n # name => plan[n] = truth[n]
    BY <1>2, <2>1, RecordWith
  <2>3. QED
    BY <2>2 DEF bytes, kind
<1> HIDE DEF plan, l
<1>6. ASSUME NEW m \in FilesOf(l)
      PROVE  /\ IsBytes(plan[m.name].bytes, m.size)
             /\ plan[m.name].kind = "ok" => Read(disk, m) = plan[m.name].bytes
  <2>1. PICK i \in 1 .. Len(rest) : m = l[i]
    BY <1>4 DEF FilesOf
  <2> DEFINE n == rest[i]
  <2>2. n \in FilesOf(rest) /\ n \in FilesOf(hdr) /\ n.name # name /\ n.name \in Names
    <3>1. n \in FilesOf(rest)
      BY DEF FilesOf
    <3> HIDE DEF n
    <3>2. n \in FilesOf(hdr) /\ n.name # name
      BY <1>3, <3>1
    <3>3. QED
      BY <1>2, <3>1, <3>2, FileIs
  <2>3. m.start = n.start /\ m.size = n.size /\ m.name = IF n.name = from THEN name ELSE n.name
    BY <1>4, <2>1
  <2> HIDE DEF n
  <2>4. Read(disk, m) = Read(disk, n)
    BY <2>3 DEF Read
  <2>5. plan[m.name].bytes = truth[n.name].bytes /\ plan[m.name].kind = truth[n.name].kind
    <3>1. CASE n.name = from
      BY <1>5, <2>3, <3>1
    <3>2. CASE n.name # from
      BY <1>5, <2>2, <2>3, <3>2
    <3>3. QED
      BY <3>1, <3>2
  <2>6. QED
    BY <1>2, <2>2, <2>3, <2>4, <2>5 DEF Sized, Reads
<1>7. Sized(l, plan) /\ Reads(disk, l, plan, Names)
  BY <1>6 DEF Sized, Reads
<1>8. QED
  BY <1>1, <1>4, <1>5, <1>7, StillKept

LEMMA RemoveFileKept ==
  ASSUME IInv, KeptInv, NEW name \in Names, RemoveFile(name)
  PROVE  KeptInv'
<1> DEFINE l == Without(hdr, name)
<1>1. Called /\ Start(l, <<>>, TRUE, truth, {})
  BY DEF RemoveFile
<1>2. /\ GoodList(hdr) /\ Record(truth) /\ Sized(hdr, truth) /\ Reads(disk, hdr, truth, Names)
  BY <1>1, Idle
<1>3. GoodList(l) /\ FilesOf(l) \subseteq FilesOf(hdr)
  BY <1>2, WithoutKeeps, WithoutFiles
<1> HIDE DEF l
<1>4. Sized(l, truth) /\ Reads(disk, l, truth, Names)
  BY <1>2, <1>3 DEF Sized, Reads
<1>5. QED
  BY <1>1, <1>2, <1>3, <1>4, StillKept

LEMMA ClearKept ==
  ASSUME IInv, KeptInv, Clear
  PROVE  KeptInv'
<1>1. Called /\ Start(<<>>, <<>>, TRUE, truth, {})
  BY DEF Clear
<1>2. Record(truth)
  BY <1>1, Idle
<1>3. FilesOf(<<>>) = {}
  BY DEF FilesOf
<1>4. Sized(<<>>, truth) /\ Reads(disk, <<>>, truth, Names)
  BY <1>3 DEF Sized, Reads
<1>5. QED
  BY <1>1, <1>2, <1>4, EmptyList, StillKept

\* A file that grows in its place is not disturbed.
LEMMA GrownHarmless ==
  ASSUME NEW m, NEW old \in FileItem, Growing(m, old), m.start = old.start
  PROVE  AllHarmless(Grown(m, old), old)
<1> DEFINE n == Room(m.start)
           whole == Whole(m, old)
           kept == Kept(m, old)
           at == At(m, old)
           beyond == Beyond(m, old)
           end == End(m)
           second == PartKept(m, old)
           third == Batches(FillOf(m, old))
           C == SectorsIn(beyond, end - beyond)
<1>1. /\ m.start \in Nat /\ n \in Nat \ {0} /\ end \in Nat
      /\ whole \in Nat /\ kept \in 0 .. n - 1 /\ old.size = whole * n + kept
      /\ at = m.start + whole /\ beyond \in Nat /\ beyond <= end
  BY GrowingIs
<1>2. beyond = IF kept = 0 THEN at ELSE at + 1
  BY DEF Beyond
<1>3. Grown(m, old) = (<<>> \o second) \o third
  BY GrownIs DEF PartCopied
<1>4. Into(second, Sectors) /\ Into(third, Sectors) /\ Into(third, C) /\ Into(<<>>, Sectors)
  <2>1. /\ Into(second, {at} \cap SectorsOf(m)) /\ Into(third, C) /\ C \subseteq SectorsOf(m)
    BY PartsGood
  <2>2. SectorsOf(m) \subseteq Sectors
    BY FileSectors DEF Growing
  <2>3. {at} \cap SectorsOf(m) \subseteq Sectors /\ C \subseteq Sectors
    BY <2>1, <2>2
  <2> HIDE DEF second, third, at, C
  <2>4. QED
    BY <2>1, <2>3, IntoMore, NoWork
<1>5. AllHarmless(second, old)
  <2>1. CASE kept = 0
    <3>1. second = <<>>
      BY <2>1 DEF PartKept
    <3>2. QED
      BY <3>1 DEF AllHarmless
  <2>2. CASE kept # 0
    <3> DEFINE u == Piece(m, old)
    <3>1. second = << <<u>> >>
      BY <2>2 DEF PartKept
    <3>2. u.to = at /\ u.from = at /\ u.keep = kept
      BY DEF Piece, At
    <3> HIDE DEF u, at, whole, kept, second, n
    <3>3. ASSUME NEW k \in Used(old, at) PROVE k <= kept
      <4>1. PICK i \in 1 .. old.size : at = old.start + Sector(old.start, i)
                                       /\ k = Within(old.start, i)
        BY UsedIs
      <4> DEFINE q == Sector(old.start, i)
      <4>2. old.size \in Nat /\ old.start = m.start
        BY DEF FileItem
      <4>3. q \in Nat /\ k \in 1 .. n /\ i = q * n + k
        BY <4>1, <4>2, ByteAt DEF n
      <4> HIDE DEF q
      <4>4. at = m.start + q
        BY <4>1, <4>2 DEF q
      <4>5. q = whole
        BY <1>1, <4>3, <4>4
      <4>6. q * n + k <= whole * n + kept
        BY <1>1, <4>3
      <4>7. q < whole \/ (q = whole /\ k <= kept)
        BY <1>1, <4>3, <4>6, PieceSplits
      <4>8. QED
        BY <1>1, <4>5, <4>7
    <3>4. Harmless(u, old)
      BY <3>2, <3>3 DEF Harmless
    <3>5. /\ Len(second) = 1 /\ second[1] = <<u>> /\ Len(<<u>>) = 1 /\ <<u>>[1] = u
      BY <3>1
    <3>6. QED
      BY <3>4, <3>5 DEF AllHarmless
  <2>3. QED
    BY <2>1, <2>2
<1>6. C \cap SectorsOf(old) = {}
  <2> DEFINE c == CeilDiv(old.size, n)
  <2>1. old.start = m.start /\ End(old) = m.start + c /\ old.size \in Nat
    BY DEF End, Count, FileItem
  <2> HIDE DEF whole, kept, at, beyond, end
  <2>2. m.start + c <= beyond /\ c \in Nat
    <3>1. c \in Nat
      <4> HIDE DEF n
      <4>1. QED
        BY <1>1, <2>1, Ceiling
    <3>2. CASE kept = 0
      <4>1. old.size <= whole * n
        <5> HIDE DEF n
        <5>1. whole * n \in Nat
          BY <1>1
        <5>2. QED
          BY <1>1, <3>2, <5>1
      <4> HIDE DEF n
      <4>2. c <= whole
        BY <1>1, <2>1, <4>1, CeilingLeast
      <4> HIDE DEF c
      <4>3. QED
        BY <1>1, <1>2, <3>1, <3>2, <4>2
    <3>3. CASE kept # 0
      <4> HIDE DEF n
      <4>1. (whole + 1) * n = whole * n + n /\ whole * n \in Nat /\ whole + 1 \in Nat
        BY <1>1
      <4>2. old.size <= (whole + 1) * n
        BY <1>1, <4>1
      <4>3. c <= whole + 1
        BY <1>1, <2>1, <4>1, <4>2, CeilingLeast
      <4> HIDE DEF c
      <4>4. QED
        BY <1>1, <1>2, <3>1, <3>3, <4>3
    <3>4. QED
      BY <3>2, <3>3
  <2> HIDE DEF c
  <2>3. ASSUME NEW x \in C, x \in SectorsOf(old) PROVE FALSE
    <3>1. x \in beyond .. beyond + (end - beyond) - 1
      BY DEF SectorsIn
    <3>2. x \in old.start .. End(old) - 1
      BY <2>3 DEF SectorsOf
    <3>3. x \in m.start .. m.start + c - 1
      BY <1>1, <2>1, <2>2, <3>2
    <3>4. QED
      BY <1>1, <2>2, <3>1, <3>3
  <2>4. QED
    BY <2>3
<1>7. AllHarmless(third, old)
  <2> HIDE DEF third, C
  <2>1. QED
    BY <1>4, <1>6, ApartHarmless
<1>8. AllHarmless(<<>>, old)
  BY DEF AllHarmless
<1> HIDE DEF second, third
<1>9. Into(<<>> \o second, Sectors) /\ AllHarmless(<<>> \o second, old)
  BY <1>4, <1>5, <1>8, HarmlessBoth, WorkAfter
<1>10. QED
  BY <1>3, <1>4, <1>7, <1>9, HarmlessBoth

LEMMA FillBytes ==
  ASSUME NEW n
  PROVE  IsBytes([i \in 1 .. n |-> Fill], n) /\ \A i \in 1 .. n : [j \in 1 .. n |-> Fill][i] = Fill
BY DEF IsBytes

LEMMA GrowKept ==
  ASSUME IInv, KeptInv, NEW name \in Names, NEW size \in Sizes, Grow(name, size)
  PROVE  KeptInv'
<1> DEFINE old == Find(hdr, name)
           f == [name |-> name, size |-> size, ext |-> old.start >= Pri]
           l == Alloc(hdr, f)
           m == Find(l, name)
           more == [i \in 1 .. size - old.size |-> Fill]
           bytes == truth[name].bytes \o more
           plan == [truth EXCEPT ![name].bytes = bytes]
           replaced == IF m.start = old.start THEN {} ELSE {name}
           t == Grown(m, old)
           x == Flushed(disk, <<>>)
<1>1. /\ Called /\ Has(hdr, name) /\ old.size < size
      /\ l # <<>> /\ Room(m.start) = Room(old.start)
      /\ Start(l, t, TRUE, plan, replaced)
  BY DEF Grow
<1>2. /\ GoodList(hdr) /\ Record(truth) /\ Sized(hdr, truth) /\ Reads(x, hdr, truth, Names)
  BY <1>1, Idle
<1>3. /\ old \in FileItem /\ old.start \in Nat /\ old.size \in Nat /\ First <= old.start
      /\ End(old) <= Total /\ old \in FilesOf(hdr) /\ old.name = name
  BY <1>1, <1>2, FoundIs, FoundFile
<1>4. /\ Wanted(f) /\ f.name = name /\ f.size = size /\ size \in Nat \ {0}
  <2> HIDE DEF old
  <2>1. QED
    BY FbAssumption DEF Wanted
<1>5. Movable(m, old)
  <2> HIDE DEF f
  <2>1. QED
    BY <1>1, <1>2, <1>4, AllocMovable
<1> HIDE DEF f
<1>6. m \in FileItem /\ First <= m.start /\ End(m) <= Total /\ m.size = size
  <2>1. m \in FilesOf(l) /\ GoodList(l) /\ m.size = size
    BY <1>1, <1>2, <1>4, AllocFiles
  <2> HIDE DEF m, l
  <2>2. QED
    BY <2>1, FileIs
<1> HIDE DEF old
<1>7. Growing(m, old)
  <2> HIDE DEF m
  <2>1. old.size <= m.size /\ m.size > 0
    BY <1>1, <1>3, <1>4, <1>6
  <2>2. old.start + Count(old.start, old.size) <= Total
    BY <1>3, EndIs
  <2>3. QED
    BY <1>1, <1>3, <1>6, <2>1, <2>2 DEF Growing
<1>8. IsBytes(truth[name].bytes, old.size)
  BY <1>2, <1>3 DEF Sized
<1>9. /\ IsBytes(bytes, size)
      /\ \A i \in 1 .. size : bytes[i] = IF i <= old.size THEN truth[name].bytes[i] ELSE Fill
  <2> DEFINE o == old.size
             k == size - o
             h == truth[name].bytes
  <2>1. o \in Nat /\ k \in Nat /\ o + k = size
    <3>1. o \in Nat /\ o < size /\ size \in Nat
      BY <1>1, <1>3, <1>4
    <3> HIDE DEF o
    <3>2. QED
      BY <3>1
  <2>2. IsBytes(more, k) /\ \A i \in 1 .. k : more[i] = Fill
    BY FillBytes
  <2>0. IsBytes(h, o)
    BY <1>8
  <2> HIDE DEF k, h, more, o
  <2>3. IsBytes(h \o more, o + k) /\ OneThenOther(h \o more, h, o, more, k)
    BY <2>0, <2>1, <2>2, JoinedBytes
  <2>4. ASSUME NEW i \in 1 .. size
        PROVE  (h \o more)[i] = IF i <= o THEN h[i] ELSE Fill
    <3>1. CASE i <= o
      BY <2>1, <2>3, <3>1 DEF OneThenOther
    <3>2. CASE ~(i <= o)
      <4>1. i - o \in 1 .. k
        BY <2>1, <3>2
      <4>2. QED
        BY <2>1, <2>2, <2>3, <3>2, <4>1 DEF OneThenOther
    <3>3. QED
      BY <3>1, <3>2
  <2>5. bytes = h \o more
    BY DEF h
  <2> HIDE DEF bytes
  <2>6. QED
    BY <2>1, <2>3, <2>4, <2>5 DEF h, o
<1> HIDE DEF bytes, more
<1>10. /\ Record(plan) /\ plan[name].bytes = bytes /\ plan[name].kind = truth[name].kind
       /\ \A n \in Names : n # name => plan[n] = truth[n]
  <2> DEFINE kind == truth[name].kind
  <2>1. Changed(plan, truth, name, bytes, kind)
    BY <1>2, RecordBytes DEF Changed
  <2> HIDE DEF plan, kind
  <2>2. /\ Record(plan) /\ plan[name].bytes = bytes /\ plan[name].kind = kind
        /\ \A n \in Names : n # name => plan[n] = truth[n]
    BY <1>2, <2>1, RecordWith
  <2>3. QED
    BY <2>2 DEF kind
<1> HIDE DEF plan
<1>11. Into(t, SectorsOf(m))
  BY <1>7, GrownGood
<1>12. plan[name].kind = "ok" => Read(Final(x, t), m) = bytes
  <2>1. SUFFICES ASSUME truth[name].kind = "ok" PROVE Read(Final(x, t), m) = bytes
    BY <1>10
  <2>2. Read(x, old) = truth[name].bytes
    BY <1>2, <1>3, <2>1 DEF Reads
  <2> HIDE DEF x, m
  <2>3. Read(Final(x, t), m) = [i \in 1 .. m.size |-> IF i <= old.size THEN Read(x, old)[i] ELSE Fill]
    BY <1>5, <1>7, GrownRun
  <2>4. IsBytes(Read(Final(x, t), m), size)
    BY <1>6, ReadBytes
  <2>5. \A i \in 1 .. size : Read(Final(x, t), m)[i] = bytes[i]
    BY <1>6, <1>9, <2>2, <2>3
  <2> HIDE DEF t
  <2>6. QED
    BY <1>9, <2>4, <2>5, SameIsBytes
<1>13. \/ name \in replaced
       \/ \A n \in FilesOf(hdr) : n.name = name => AllHarmless(t, n)
  <2>1. CASE m.start = old.start
    <3>1. AllHarmless(t, old)
      BY <1>3, <1>7, <2>1, GrownHarmless
    <3>2. \A n \in FilesOf(hdr) : n.name = name => n = old
      BY <1>2, <1>3, OneOfName
    <3>3. QED
      BY <3>1, <3>2
  <2>2. CASE m.start # old.start
    BY <2>2
  <2>3. QED
    BY <2>1, <2>2
<1> HIDE DEF t, x, replaced
<1>14. /\ Start(Alloc(hdr, f), t, TRUE, plan, replaced) /\ Alloc(hdr, f) # <<>>
       /\ Into(t, SectorsOf(Find(Alloc(hdr, f), f.name)))
       /\ plan[f.name].kind = "ok" =>
            Read(Final(Flushed(disk, <<>>), t), Find(Alloc(hdr, f), f.name)) = plan[f.name].bytes
  BY <1>1, <1>4, <1>10, <1>11, <1>12 DEF x
<1>15. /\ IsBytes(plan[f.name].bytes, f.size)
       /\ \A k \in Names : k # f.name => plan[k] = truth[k]
       /\ f.name \in replaced \/ \A n \in FilesOf(hdr) : n.name = f.name => AllHarmless(t, n)
  BY <1>4, <1>9, <1>10, <1>13
<1>16. QED
  BY <1>1, <1>4, <1>10, <1>14, <1>15, PlacedKept

LEMMA CreateKept ==
  ASSUME IInv, KeptInv, NEW name \in Names, NEW size \in Sizes, NEW ext \in BOOLEAN,
         Create(name, size, ext)
  PROVE  KeptInv'
<1> DEFINE f == [name |-> name, size |-> size, ext |-> ext]
           l == Alloc(hdr, f)
           m == Find(l, name)
           old == [start |-> m.start, size |-> 0]
           bytes == [i \in 1 .. size |-> Fill]
           plan == [truth EXCEPT ![name] = Holds(bytes, "ok")]
           t == Grown(m, old)
           x == Flushed(disk, <<>>)
<1>1. Called /\ ~Has(hdr, name) /\ l # <<>> /\ Start(l, t, TRUE, plan, {})
  BY DEF Create
<1>2. GoodList(hdr) /\ Record(truth)
  BY <1>1, Idle
<1>3. Wanted(f) /\ f.name = name /\ f.size = size
  BY FbAssumption DEF Wanted
<1> HIDE DEF f
<1>4. /\ m \in FileItem /\ First <= m.start /\ End(m) <= Total /\ m.size = size
      /\ m.size \in Nat \ {0} /\ m.start \in Nat
  <2>1. m \in FilesOf(l) /\ GoodList(l) /\ m.size = size
    BY <1>1, <1>2, <1>3, AllocFiles
  <2> HIDE DEF m, l
  <2>2. QED
    BY <2>1, FileIs
<1> HIDE DEF m
<1>5. old.start = m.start /\ old.size = 0
  OBVIOUS
<1> HIDE DEF old
<1>6. Growing(m, old)
  <2>1. old.start + Count(old.start, old.size) <= Total
    <3>1. Count(m.start, 0) = 0
      BY RoomIs, CeilingOfNone DEF Count
    <3>2. Count(m.start, m.size) \in Nat /\ End(m) = m.start + Count(m.start, m.size)
      BY <1>4, EndIs
    <3>3. QED
      BY <1>4, <1>5, <3>1, <3>2, FbAssumption
  <2>2. m.size > 0 /\ old.size \in Nat /\ old.size <= m.size /\ Room(m.start) = Room(old.start)
    BY <1>4, <1>5
  <2>3. QED
    BY <1>4, <1>5, <2>1, <2>2 DEF Growing
<1>7. Movable(m, old)
  BY <1>4, <1>5 DEF Movable
<1>8. IsBytes(bytes, size) /\ \A i \in 1 .. size : bytes[i] = Fill
  BY FillBytes
<1> HIDE DEF bytes
<1>9. /\ Record(plan) /\ plan[name].bytes = bytes /\ plan[name].kind = "ok"
      /\ \A n \in Names : n # name => plan[n] = truth[n]
  BY <1>2, RecordExcept
<1> HIDE DEF plan
<1>10. Into(t, SectorsOf(m))
  BY <1>6, GrownGood
<1>11. Read(Final(x, t), m) = bytes
  <2> HIDE DEF x
  <2>1. Read(Final(x, t), m) = [i \in 1 .. m.size |-> IF i <= old.size THEN Read(x, old)[i] ELSE Fill]
    BY <1>6, <1>7, GrownRun
  <2>2. IsBytes(Read(Final(x, t), m), size)
    BY <1>4, ReadBytes
  <2>3. \A i \in 1 .. size : Read(Final(x, t), m)[i] = bytes[i]
    BY <1>4, <1>5, <1>8, <2>1
  <2> HIDE DEF t
  <2>4. QED
    BY <1>8, <2>2, <2>3, SameIsBytes
<1>12. \A n \in FilesOf(hdr) : n.name # name
  BY <1>1, NamedIs
<1> HIDE DEF t, x
<1>13. /\ Start(Alloc(hdr, f), t, TRUE, plan, {}) /\ Alloc(hdr, f) # <<>>
       /\ Into(t, SectorsOf(Find(Alloc(hdr, f), f.name)))
       /\ Read(Final(Flushed(disk, <<>>), t), Find(Alloc(hdr, f), f.name)) = plan[f.name].bytes
  BY <1>1, <1>3, <1>9, <1>10, <1>11 DEF x, m
<1>14. /\ IsBytes(plan[f.name].bytes, f.size)
       /\ \A k \in Names : k # f.name => plan[k] = truth[k]
       /\ \A n \in FilesOf(hdr) : n.name = f.name => AllHarmless(t, n)
  BY <1>3, <1>8, <1>9, <1>12
<1>15. QED
  BY <1>1, <1>3, <1>9, <1>13, <1>14, PlacedKept

LEMMA CopyKept ==
  ASSUME IInv, KeptInv, NEW from \in Names, NEW name \in Names, Copy(from, name)
  PROVE  KeptInv'
<1> DEFINE old == Find(hdr, from)
           f == [name |-> name, size |-> old.size, ext |-> old.start >= Pri]
           l == Alloc(hdr, f)
           m == Find(l, name)
           plan == [truth EXCEPT ![name] = truth[from]]
           t == Grown(m, old)
           x == Flushed(disk, <<>>)
<1>1. /\ Called /\ Has(hdr, from) /\ from # name
      /\ l # <<>> /\ Room(m.start) = Room(old.start)
      /\ Start(l, t, TRUE, plan, {name})
  BY DEF Copy
<1>2. /\ GoodList(hdr) /\ Record(truth) /\ Sized(hdr, truth) /\ Reads(x, hdr, truth, Names)
  BY <1>1, Idle
<1>3. /\ old \in FileItem /\ old.start \in Nat /\ old.size \in Nat \ {0} /\ First <= old.start
      /\ End(old) <= Total /\ old \in FilesOf(hdr) /\ old.name = from
  BY <1>1, <1>2, FoundIs, FoundFile
<1> HIDE DEF old
<1>4. Wanted(f) /\ f.name = name /\ f.size = old.size
  BY <1>3 DEF Wanted
<1> HIDE DEF f
<1>5. m \in FilesOf(l) /\ old \in FilesOf(l) /\ GoodList(l) /\ m.size = old.size /\ m.name = name
  BY <1>1, <1>2, <1>3, <1>4, AllocFiles
<1>6. m \in FileItem /\ First <= m.start /\ End(m) <= Total /\ m.start \in Nat
      /\ m.start < End(m) /\ End(m) \in Nat /\ End(old) \in Nat
      /\ End(old) = old.start + Count(old.start, old.size) /\ Count(old.start, old.size) \in Nat
  <2> HIDE DEF m, l
  <2>1. QED
    BY <1>5, FileIs
<1>7. Movable(m, old)
  <2> HIDE DEF m, l
  <2>1. End(m) <= old.start \/ End(old) <= m.start
    BY <1>1, <1>3, <1>5, Apart
  <2>2. QED
    BY <1>3, <1>6, <2>1 DEF Movable
<1>8. Growing(m, old)
  <2> HIDE DEF m
  <2>1. old.size <= m.size /\ m.size > 0 /\ old.size \in Nat
    BY <1>3, <1>5
  <2>2. old.start + Count(old.start, old.size) <= Total
    BY <1>3, <1>6
  <2>3. QED
    BY <1>1, <1>3, <1>6, <2>1, <2>2 DEF Growing
<1>9. IsBytes(truth[from].bytes, old.size)
  BY <1>2, <1>3 DEF Sized
<1>10. /\ Record(plan) /\ plan[name].bytes = truth[from].bytes
       /\ plan[name].kind = truth[from].kind
       /\ \A n \in Names : n # name => plan[n] = truth[n]
  <2> DEFINE bytes == truth[from].bytes
             kind == truth[from].kind
  <2>1. Changed(plan, truth, name, bytes, kind)
    BY <1>2 DEF Record, Changed
  <2> HIDE DEF plan, bytes, kind
  <2>2. /\ Record(plan) /\ plan[name].bytes = bytes /\ plan[name].kind = kind
        /\ \A n \in Names : n # name => plan[n] = truth[n]
    BY <1>2, <2>1, RecordWith
  <2>3. QED
    BY <2>2 DEF bytes, kind
<1> HIDE DEF plan
<1>11. Into(t, SectorsOf(m))
  BY <1>8, GrownGood
<1>12. plan[name].kind = "ok" => Read(Final(x, t), m) = truth[from].bytes
  <2>1. SUFFICES ASSUME truth[from].kind = "ok" PROVE Read(Final(x, t), m) = truth[from].bytes
    BY <1>10
  <2>2. Read(x, old) = truth[from].bytes
    BY <1>2, <1>3, <2>1 DEF Reads
  <2> HIDE DEF x, m
  <2>3. Read(Final(x, t), m) = [i \in 1 .. m.size |-> IF i <= old.size THEN Read(x, old)[i] ELSE Fill]
    BY <1>7, <1>8, GrownRun
  <2>4. IsBytes(Read(Final(x, t), m), old.size)
    BY <1>5, ReadBytes
  <2>5. \A i \in 1 .. old.size : Read(Final(x, t), m)[i] = truth[from].bytes[i]
    BY <1>3, <1>5, <2>2, <2>3
  <2> HIDE DEF t
  <2>6. QED
    BY <1>9, <2>4, <2>5, SameIsBytes
<1> HIDE DEF t, x
<1>13. /\ Start(Alloc(hdr, f), t, TRUE, plan, {f.name}) /\ Alloc(hdr, f) # <<>>
       /\ Into(t, SectorsOf(Find(Alloc(hdr, f), f.name)))
       /\ plan[f.name].kind = "ok" =>
            Read(Final(Flushed(disk, <<>>), t), Find(Alloc(hdr, f), f.name)) = plan[f.name].bytes
  BY <1>1, <1>4, <1>10, <1>11, <1>12 DEF x
<1>14. /\ IsBytes(plan[f.name].bytes, f.size) /\ f.name \in {f.name}
       /\ \A k \in Names : k # f.name => plan[k] = truth[k]
  BY <1>4, <1>9, <1>10
<1>15. QED
  BY <1>1, <1>4, <1>10, <1>13, <1>14, PlacedKept

-----------------------------------------------------------------------------
(* What files hold when pack and load begin.                               *)

\* A file that is copied as a whole reads as before.
LEMMA CopiedReads ==
  ASSUME NEW m \in FileItem, NEW new \in FileItem, new.size = m.size,
         Room(new.start) = Room(m.start), First <= new.start, new.start <= m.start,
         End(m) <= Total, NEW d
  PROVE  Read(Final(d, Copied(new.start, m.start, Count(m.start, m.size))), new) = Read(d, m)
<1> DEFINE to == new.start
           from == m.start
           n == Count(from, m.size)
           e == Final(d, Copied(to, from, n))
<1>1. to \in Nat /\ from \in Nat /\ m.size \in Nat
  BY DEF FileItem
<1>2. n \in Nat /\ End(m) = from + n
  BY EndIs
<1> HIDE DEF n
<1>3. to <= from /\ First <= to /\ First <= from /\ to + n <= Total /\ from + n <= Total
  BY <1>1, <1>2, FbAssumption
<1>4. ASSUME NEW i \in 1 .. m.size PROVE Read(e, new)[i] = Read(d, m)[i]
  <2> DEFINE q == Sector(from, i)
             k == Within(from, i)
  <2>1. q \in Nat /\ q < n /\ k \in 1 .. Room(from)
    BY <1>1, ByteAt DEF n
  <2>2. Sector(to, i) = q /\ Within(to, i) = k
    BY DEF Sector, Within
  <2>3. Read(d, m)[i] = d[from + q][k] /\ Read(e, new)[i] = e[to + Sector(to, i)][Within(to, i)]
    <3> HIDE DEF e
    <3>1. QED
      BY ReadIs
  <2> HIDE DEF q, k
  <2>4. q \in 0 .. n - 1 /\ k \in 1 .. Room(to)
    BY <1>2, <2>1
  <2> HIDE DEF to, from
  <2>5. e[to + q][k] = d[from + q][k]
    BY <1>1, <1>2, <1>3, <2>4, CopiedRun
  <2>6. QED
    BY <2>2, <2>3, <2>5
<1>5. IsBytes(Read(e, new), m.size) /\ IsBytes(Read(d, m), m.size)
  BY ReadBytes
<1> HIDE DEF e
<1>6. Read(e, new) = Read(d, m)
  BY <1>4, <1>5, SameIsBytes
<1>7. QED
  BY <1>6 DEF e, n

(* What the files read that pack has put in their places, and what it has  *)
(* not touched.                                                            *)
Moves(acc, i, d) ==
  /\ acc.list[i].size = hdr[i].size
  /\ Read(Final(d, acc.moves), acc.list[i]) = Read(d, hdr[i])
  /\ acc.list[i] = hdr[i] => AllHarmless(acc.moves, hdr[i])
PackedReads(acc, k, d) ==
  /\ Into(acc.moves, First .. acc.at - 1)
  /\ \A i \in 1 .. k : Moves(acc, i, d)

LEMMA PackedReadsOne ==
  ASSUME GoodList(hdr), NEW k \in 1 .. Len(hdr), NEW a, Packed(a, k - 1), NEW d,
         PackedReads(a, k - 1, d)
  PROVE  PackedReads(PackOne(a, hdr[k]), k, d)
<1> DEFINE m == hdr[k]
           to == PackTo(a.at, m)
           n == Count(m.start, m.size)
           new == PutAt(m, to)
           copied == Copied(to, m.start, n)
           r == PackOne(a, m)
           v == IF to = m.start THEN <<>> ELSE copied
           e == Final(d, a.moves)
           A == First .. a.at - 1
           B == SectorsIn(to, n)
           C == First .. to + n - 1
<1>1. /\ m \in FileItem /\ m.start \in Nat /\ m.size \in Nat /\ End(m) <= Total
      /\ First <= m.start /\ SectorsOf(m) = SectorsIn(m.start, n) /\ SectorsOf(m) \subseteq Sectors
  <2>1. m \in FileItem /\ m.start \in Nat /\ m.size \in Nat /\ End(m) <= Total /\ First <= m.start
    BY ItemIs
  <2> HIDE DEF m
  <2>2. QED
    BY <2>1, FileSectors
<1>2. /\ a.at \in Nat /\ First <= a.at /\ a.at <= to /\ to \in Nat /\ to <= m.start
      /\ new \in FileItem /\ new.start = to /\ new.size = m.size
      /\ n \in Nat /\ End(m) = m.start + n /\ End(new) = to + n /\ End(new) <= Total
      /\ Room(to) = Room(m.start)
  BY PackPlace
<1>3. Packed(r, k)
  BY PackedOne
<1>4. Len(hdr) \in Nat /\ k \in Nat /\ First \in Nat
  BY LenProperties, FbAssumption DEF GoodList
<1>5. GoodList(a.list) /\ Len(a.list) = k - 1 /\ a.at = GapBegin(a.list, k)
  <2>1. k - 1 + 1 = k
    BY <1>4
  <2>2. QED
    BY <2>1 DEF Packed
<1>6. Into(a.moves, A) /\ \A i \in 1 .. k - 1 : Moves(a, i, d)
  BY DEF PackedReads
<1>7. r = [at |-> to + n, list |-> Append(a.list, new),
           moves |-> IF to = m.start THEN a.moves ELSE a.moves \o copied]
  BY DEF PackOne, PackTo, PutAt
<1>8. Into(v, B)
  <2>1. First <= to /\ First <= m.start /\ to + n <= Total /\ m.start + n <= Total
    BY <1>1, <1>2, <1>4
  <2> HIDE DEF to, m, n
  <2>2. Into(copied, B)
    BY <1>1, <1>2, <2>1, CopiedGood
  <2>3. QED
    BY <2>2, NoWork
<1>9. /\ r.at = to + n
      /\ r.moves = IF to = m.start THEN a.moves ELSE a.moves \o copied
      /\ r.list = Append(a.list, new)
  <2> HIDE DEF to, n, new, copied, m, r
  <2>1. QED
    BY <1>7
<1>10. r.list[k] = new /\ \A i \in 1 .. k - 1 : r.list[i] = a.list[i]
  <2>1. a.list \in Seq(FileItem)
    BY <1>5 DEF GoodList
  <2> HIDE DEF r, new, to
  <2>2. k - 1 + 1 = k
    BY <1>4
  <2>3. QED
    BY <1>2, <1>5, <1>9, <2>1, <2>2, AppendProperties
<1> HIDE DEF m, n, new, copied, r, to
<1>11. A \subseteq C /\ B \subseteq C /\ C \subseteq Sectors
  <2>1. /\ a.at \in Nat /\ to \in Nat /\ n \in Nat /\ First <= a.at /\ a.at <= to
        /\ to + n <= Total /\ First \in Nat /\ Total \in Nat
    BY <1>2, FbAssumption
  <2>2. C \subseteq Sectors
    BY <2>1 DEF Sectors
  <2>3. QED
    BY <2>1, <2>2 DEF SectorsIn
<1> HIDE DEF A, B, C
<1>12. Into(a.moves, C) /\ Into(v, C)
  BY <1>6, <1>8, <1>11, IntoMore
\* Whether the file moves or not, the transfers of r are a's and then v.
<1>13. /\ Into(r.moves, C) /\ Final(d, r.moves) = Final(e, v)
       /\ \A w : AllHarmless(a.moves, w) /\ AllHarmless(v, w) => AllHarmless(r.moves, w)
  <2>1. CASE to = m.start
    <3>1. r.moves = a.moves /\ v = <<>>
      BY <1>9, <2>1
    <3>2. Final(e, <<>>) = e
      BY FinalNone
    <3> HIDE DEF v
    <3>3. QED
      BY <1>12, <3>1, <3>2
  <2>2. CASE to # m.start
    <3>1. r.moves = a.moves \o v
      BY <1>9, <2>2
    <3> HIDE DEF v
    <3>2. Into(a.moves \o v, C)
      BY <1>12, WorkAfter
    <3>3. Final(d, a.moves \o v) = Final(e, v)
      BY <1>12, FinalConcat
    <3>4. \A w : AllHarmless(a.moves, w) /\ AllHarmless(v, w) => AllHarmless(a.moves \o v, w)
      BY <1>12, HarmlessBoth
    <3> HIDE DEF e
    <3>5. QED
      BY <3>1, <3>2, <3>3, <3>4
  <2>3. QED
    BY <2>1, <2>2
<1>14. ASSUME NEW i \in 1 .. k - 1 PROVE Moves(r, i, d)
  <2> DEFINE w == a.list[i]
  <2>1. r.list[i] = w /\ Moves(a, i, d)
    BY <1>6, <1>10
  <2>2. i \in 1 .. Len(a.list) /\ k # 1 /\ k - 1 \in 1 .. Len(a.list)
    BY <1>4, <1>5
  <2>3. w \in FileItem /\ w.start \in Nat /\ First <= w.start /\ End(w) <= Total /\ End(w) \in Nat
        /\ SectorsOf(w) \subseteq Sectors
    <3>1. w \in FileItem /\ w.start \in Nat /\ First <= w.start /\ End(w) <= Total /\ End(w) \in Nat
      BY <1>5, <2>2, ItemIs
    <3> HIDE DEF w
    <3>2. QED
      BY <3>1, FileSectors
  <2>4. End(w) <= a.at
    <3>1. a.at = End(a.list[k - 1])
      BY <1>5, <2>2 DEF GapBegin
    <3>2. CASE i = k - 1
      BY <1>2, <3>1, <3>2
    <3>3. CASE i # k - 1
      <4>1. i < k - 1
        BY <1>4, <3>3
      <4>2. /\ a.list[k - 1].start \in Nat /\ End(a.list[k - 1]) \in Nat
            /\ a.list[k - 1].start < End(a.list[k - 1])
        BY <1>5, <2>2, ItemIs
      <4>3. End(w) <= a.list[k - 1].start
        BY <1>5, <2>2, <4>1, InOrder
      <4> HIDE DEF w
      <4>4. QED
        BY <1>2, <2>3, <3>1, <4>2, <4>3
    <3>4. QED
      BY <3>2, <3>3
  <2> HIDE DEF w
  <2>5. B \cap SectorsOf(w) = {}
    <3>1. ASSUME NEW s \in B, s \in SectorsOf(w) PROVE FALSE
      <4>1. s \in to .. to + n - 1 /\ s \in w.start .. End(w) - 1
        BY <3>1 DEF B, SectorsIn, SectorsOf
      <4>2. QED
        BY <1>2, <2>3, <2>4, <4>1
    <3>2. QED
      BY <3>1
  <2> HIDE DEF v, e
  <2>6. Read(Final(e, v), w) = Read(e, w) /\ AllHarmless(v, w)
    BY <1>8, <2>3, <2>5, ApartReads, ApartHarmless
  <2>7. /\ w.size = hdr[i].size /\ Read(e, w) = Read(d, hdr[i])
        /\ w = hdr[i] => AllHarmless(a.moves, hdr[i])
    BY <2>1 DEF Moves, w, e
  <2>8. w = hdr[i] => AllHarmless(r.moves, hdr[i])
    BY <1>13, <2>6, <2>7
  <2>9. Read(Final(d, r.moves), w) = Read(d, hdr[i])
    BY <1>13, <2>6, <2>7
  <2>10. QED
    BY <2>1, <2>7, <2>8, <2>9 DEF Moves
<1>15. Moves(r, k, d)
  <2>1. A \cap SectorsOf(m) = {}
    <3>1. ASSUME NEW s \in A, s \in SectorsOf(m) PROVE FALSE
      <4>1. s \in First .. a.at - 1 /\ s \in m.start .. m.start + n - 1
        BY <1>1, <3>1 DEF A, SectorsIn
      <4>2. QED
        BY <1>1, <1>2, <1>4, <4>1
    <3>2. QED
      BY <3>1
  <2>2. Read(e, m) = Read(d, m) /\ AllHarmless(a.moves, m)
    <3> HIDE DEF e
    <3>1. AllHarmless(a.moves, m)
      BY <1>1, <1>6, <2>1, ApartHarmless
    <3>2. Read(Final(d, a.moves), m) = Read(d, m)
      BY <1>1, <1>6, <2>1, ApartReads
    <3>3. QED
      BY <3>1, <3>2 DEF e
  <2>3. Read(Final(e, v), new) = Read(e, m)
    <3>1. CASE to = m.start
      <4>1. v = <<>> /\ Final(e, <<>>) = e
        BY <3>1, FinalNone
      <4> HIDE DEF v, e
      <4>2. Read(e, new) = Read(e, m)
        BY <1>2, <3>1 DEF Read
      <4>3. QED
        BY <4>1, <4>2
    <3>2. CASE to # m.start
      <4>1. v = Copied(to, m.start, n)
        BY <3>2 DEF copied
      <4>2. First <= to
        BY <1>2, <1>4
      <4> HIDE DEF v, e
      <4>3. Read(Final(e, Copied(new.start, m.start, Count(m.start, m.size))), new) = Read(e, m)
        BY <1>1, <1>2, <4>2, CopiedReads
      <4>4. QED
        BY <1>2, <4>1, <4>3 DEF n
    <3>3. QED
      BY <3>1, <3>2
  <2>4. new = m => AllHarmless(r.moves, m)
    <3>1. SUFFICES ASSUME new = m PROVE AllHarmless(v, m)
      BY <1>13, <2>2
    <3>2. v = <<>>
      BY <1>2, <3>1
    <3>3. QED
      BY <3>2 DEF AllHarmless
  <2> HIDE DEF v, e
  <2>5. QED
    BY <1>2, <1>10, <1>13, <2>2, <2>3, <2>4 DEF Moves, m
<1>16. \A i \in 1 .. k : Moves(r, i, d)
  <2>1. ASSUME NEW i \in 1 .. k PROVE Moves(r, i, d)
    <3>1. CASE i = k
      BY <1>15, <3>1
    <3>2. CASE i # k
      <4>1. i \in 1 .. k - 1
        BY <1>4, <3>2
      <4>2. QED
        BY <1>14, <4>1
    <3>3. QED
      BY <3>1, <3>2
  <2>2. QED
    BY <2>1
<1>17. PackedReads(r, k, d)
  <2>1. Into(r.moves, First .. r.at - 1)
    <3>1. r.at = to + n
      BY <1>9
    <3>2. C = First .. to + n - 1
      BY DEF C
    <3> DEFINE D == First .. r.at - 1
    <3> HIDE DEF r, to, n, C, v, e
    <3>3. D = C
      <4>1. to \in Nat /\ n \in Nat /\ First \in Nat
        BY <1>2, <1>4
      <4>2. r.at \in Nat /\ r.at - 1 = to + n - 1
        BY <3>1, <4>1
      <4>3. QED
        BY <3>2, <4>2
    <3> HIDE DEF D
    <3>4. Into(r.moves, C)
      BY <1>13
    <3>5. Into(r.moves, D)
      BY <3>3, <3>4
    <3>6. QED
      BY <3>5 DEF D
  <2>2. QED
    BY <1>16, <2>1 DEF PackedReads
<1>18. QED
  BY <1>17 DEF r, m

LEMMA PackReads ==
  ASSUME GoodList(hdr), NEW d
  PROVE  LET p == FoldLeft(PackOne, Nowhere, hdr) IN
         Packed(p, Len(hdr)) /\ PackedReads(p, Len(hdr), d)
<1> DEFINE len == Len(hdr)
<1>1. len \in Nat
  BY LenProperties DEF GoodList
<1>2. PICK acc : /\ acc[0] = Nowhere
                 /\ \A k \in 1 .. len : acc[k] = PackOne(acc[k - 1], hdr[k])
                 /\ FoldLeft(PackOne, Nowhere, hdr) = acc[len]
                 /\ \A k \in 0 .. len : Packed(acc[k], k)
  BY PackRuns DEF PackRun
<1> DEFINE G == {k \in Nat : PackedReads(acc[k], k, d)}
<1>3. PackedReads(acc[0], 0, d)
  <2>1. acc[0].moves = <<>>
    BY <1>2 DEF Nowhere
  <2>2. QED
    BY <2>1, NoWork DEF PackedReads
<1>4. 0 \in G
  BY <1>3
<1>5. ASSUME NEW k \in 1 .. len, k - 1 \in G PROVE k \in G
  <2>1. k - 1 \in 0 .. len
    BY <1>1
  <2>2. Packed(acc[k - 1], k - 1) /\ PackedReads(acc[k - 1], k - 1, d)
    BY <1>2, <1>5, <2>1
  <2>3. PackedReads(PackOne(acc[k - 1], hdr[k]), k, d)
    BY <2>2, PackedReadsOne
  <2>4. QED
    BY <1>2, <2>3
<1>6. len \in G
  <2> HIDE DEF G, len
  <2>1. \A k \in 0 .. len : k \in G
    BY <1>1, <1>4, <1>5, UpTo
  <2>2. QED
    BY <1>1, <2>1
<1>7. PackedReads(acc[len], len, d) /\ Packed(acc[len], len)
  BY <1>1, <1>2, <1>6
<1>8. QED
  BY <1>2, <1>7

LEMMA PackKept ==
  ASSUME IInv, KeptInv, Pack
  PROVE  KeptInv'
<1> DEFINE p == FoldLeft(PackOne, Nowhere, hdr)
           moved == {hdr[i].name : i \in {j \in 1 .. Len(hdr) : p.list[j] # hdr[j]}}
           x == Flushed(disk, <<>>)
<1>1. Called /\ Start(p.list, p.moves, TRUE, truth, moved)
  BY DEF Pack, Nowhere
<1>2. /\ GoodList(hdr) /\ Record(truth) /\ Sized(hdr, truth) /\ Reads(x, hdr, truth, Names)
  BY <1>1, Idle
<1>3. Packed(p, Len(hdr)) /\ PackedReads(p, Len(hdr), x)
  <2> HIDE DEF x
  <2>1. QED
    BY <1>2, PackReads
<1> HIDE DEF p, x
<1>4. /\ GoodList(p.list) /\ Len(p.list) = Len(hdr)
      /\ \A i \in 1 .. Len(hdr) : p.list[i].name = hdr[i].name
      /\ \A i \in 1 .. Len(hdr) : Moves(p, i, x)
  BY <1>3 DEF Packed, PackedReads
<1>5. ASSUME NEW m \in FilesOf(p.list)
      PROVE  /\ IsBytes(truth[m.name].bytes, m.size)
             /\ m.name \in Names /\ truth[m.name].kind = "ok" =>
                  Read(Final(x, p.moves), m) = truth[m.name].bytes
  <2>1. PICK i \in 1 .. Len(hdr) : m = p.list[i]
    BY <1>4 DEF FilesOf
  <2>2. hdr[i] \in FilesOf(hdr) /\ m.name = hdr[i].name /\ m.size = hdr[i].size
        /\ Read(Final(x, p.moves), m) = Read(x, hdr[i])
    BY <1>4, <2>1 DEF FilesOf, Moves
  <2>3. QED
    BY <1>2, <2>2 DEF Sized, Reads
<1>6. Sized(p.list, truth) /\ Reads(Final(x, p.moves), p.list, truth, Names)
  BY <1>5 DEF Sized, Reads
<1>7. ASSUME NEW m \in FilesOf(hdr), m.name \notin moved PROVE AllHarmless(p.moves, m)
  <2>1. PICK i \in 1 .. Len(hdr) : m = hdr[i]
    BY DEF FilesOf
  <2>2. p.list[i] = hdr[i]
    BY <1>7, <2>1
  <2>3. QED
    BY <1>4, <2>1, <2>2 DEF Moves
<1> HIDE DEF moved
<1>8. QED
  BY <1>1, <1>2, <1>6, <1>7, StartKept DEF x

(* What load has made of the files so far, and left of those that are not  *)
(* in the archive.                                                         *)
LoadedReads(acc, archive, d) ==
  /\ Record(acc.plan) /\ Sized(acc.list, acc.plan)
  /\ Reads(Final(d, acc.moves), acc.list, acc.plan, Names)
  /\ \A n \in FilesOf(hdr) :
       n.name \notin NamesOf(archive) => n \in FilesOf(acc.list) /\ AllHarmless(acc.moves, n)

LEMMA LoadedReadsOne ==
  ASSUME NEW a, LoadedSoFar(a), NEW archive, NEW d, LoadedReads(a, archive, d),
         NEW f, Wanted(f), f.name \in NamesOf(archive)
  PROVE  LoadedReads(LoadOne(a, f), archive, d)
<1> DEFINE l == Alloc(a.list, f)
           bytes == Content(f.name, runs + 1, f.size)
           m == Find(l, f.name)
           r == LoadOne(a, f)
<1>1. /\ GoodList(a.list) /\ Into(a.moves, Sectors)
      /\ a = [ok |-> a.ok, list |-> a.list, moves |-> a.moves, plan |-> a.plan]
  BY DEF LoadedSoFar
<1>2. /\ Record(a.plan) /\ Sized(a.list, a.plan)
      /\ Reads(Final(d, a.moves), a.list, a.plan, Names)
      /\ \A n \in FilesOf(hdr) :
           n.name \notin NamesOf(archive) => n \in FilesOf(a.list) /\ AllHarmless(a.moves, n)
  BY DEF LoadedReads
<1>3. CASE ~a.ok \/ l = <<>>
  <2>1. r = [a EXCEPT !.ok = FALSE]
    BY <1>3 DEF LoadOne
  <2>2. r = [ok |-> FALSE, list |-> a.list, moves |-> a.moves, plan |-> a.plan]
    BY <1>1, <2>1
  <2> HIDE DEF r
  <2>3. r.list = a.list /\ r.moves = a.moves /\ r.plan = a.plan
    BY <2>2
  <2>4. LoadedReads(r, archive, d)
    BY <1>2, <2>3 DEF LoadedReads
  <2>5. QED
    BY <2>4 DEF r
<1>4. CASE ~(~a.ok \/ l = <<>>)
  <2> DEFINE t == Saved(m, bytes)
             moves == a.moves \o t
             plan == [a.plan EXCEPT ![f.name] = Holds(bytes, "ok")]
             e == Final(d, a.moves)
  <2>1. r = [ok |-> TRUE, list |-> l, moves |-> moves, plan |-> plan]
    BY <1>4 DEF LoadOne
  <2>2. l # <<>> /\ f.name \in Names /\ f.size \in Nat
    BY <1>4 DEF Wanted
  <2>3. m \in FilesOf(l) /\ GoodList(l) /\ m.size = f.size
    BY <1>1, <2>2, AllocFiles
  <2>4. m \in FileItem /\ First <= m.start /\ End(m) <= Total /\ SectorsOf(m) \subseteq Sectors
    <3> HIDE DEF m, l
    <3>1. QED
      BY <2>3, FileIs
  <2>5. IsBytes(bytes, m.size)
    BY <2>2, <2>3, ContentIs
  <2> HIDE DEF bytes
  <2>6. /\ Record(plan) /\ plan[f.name].bytes = bytes /\ plan[f.name].kind = "ok"
        /\ \A n \in Names : n # f.name => plan[n] = a.plan[n]
    <3>1. Changed(plan, a.plan, f.name, bytes, "ok")
      BY DEF Changed
    <3> HIDE DEF plan
    <3>2. QED
      BY <1>2, <2>2, <3>1, RecordWith
  <2> HIDE DEF plan
  <2>7. Into(t, SectorsOf(m)) /\ Into(t, Sectors)
    <3> HIDE DEF m
    <3>1. QED
      BY <2>4, SavedGood, IntoMore
  <2>8. Read(Final(e, t), m) = bytes
    <3> HIDE DEF m, e
    <3>1. QED
      BY <2>4, <2>5, SavedRun
  <2> HIDE DEF t, e
  <2>9. Sized(l, plan) /\ Reads(Final(e, t), l, plan, Names)
    <3>1. Reads(e, a.list, a.plan, Names)
      BY <1>2 DEF e
    <3>2. IsBytes(plan[f.name].bytes, f.size) /\ Read(Final(e, t), m) = plan[f.name].bytes
      BY <2>3, <2>5, <2>6, <2>8
    <3>3. QED
      BY <1>1, <1>2, <2>2, <2>6, <2>7, <3>1, <3>2, Placed
  <2>10. Final(d, moves) = Final(e, t)
    BY <1>1, <2>7, FinalConcat DEF e
  <2>11. ASSUME NEW n \in FilesOf(hdr), n.name \notin NamesOf(archive)
         PROVE  n \in FilesOf(l) /\ AllHarmless(moves, n)
    <3>1. n \in FilesOf(a.list) /\ AllHarmless(a.moves, n) /\ n.name # f.name
      BY <1>2, <2>11
    <3>2. n \in FilesOf(l) /\ AllHarmless(t, n)
      BY <1>1, <2>2, <2>7, <3>1, PlacedHarmless
    <3> HIDE DEF l, m
    <3>3. AllHarmless(moves, n)
      BY <1>1, <2>7, <3>1, <3>2, HarmlessBoth
    <3>4. QED
      BY <3>2, <3>3
  <2> HIDE DEF r, l, moves
  <2>12. r.list = l /\ r.moves = moves /\ r.plan = plan
    BY <2>1
  <2>13. LoadedReads(r, archive, d)
    BY <2>6, <2>9, <2>10, <2>11, <2>12 DEF LoadedReads
  <2>14. QED
    BY <2>13 DEF r
<1>5. QED
  BY <1>3, <1>4

LEMMA LoadReads ==
  ASSUME GoodList(hdr), NEW d, Record(truth), Sized(hdr, truth), Reads(d, hdr, truth, Names),
         NEW archive \in Archives
  PROVE  LET p == FoldLeft(LoadOne, Unloaded, archive) IN
         LoadedSoFar(p) /\ LoadedReads(p, archive, d)
<1> DEFINE len == Len(archive)
           File == [name : Names, size : Nat \ {0}, ext : BOOLEAN]
<1>1. archive \in Seq(File) /\ len \in Nat
  BY LayoutsAssumption, LenProperties
<1>2. PICK acc : /\ acc[0] = Unloaded
                 /\ \A k \in 1 .. len : acc[k] = LoadOne(acc[k - 1], archive[k])
                 /\ FoldLeft(LoadOne, Unloaded, archive) = acc[len]
                 /\ \A k \in 0 .. len : LoadedSoFar(acc[k])
  BY LoadRuns DEF LoadRun
<1> DEFINE G == {k \in Nat : LoadedReads(acc[k], archive, d)}
<1>3. LoadedReads(acc[0], archive, d)
  <2>1. acc[0].list = hdr /\ acc[0].moves = <<>> /\ acc[0].plan = truth
    BY <1>2 DEF Unloaded
  <2>2. Final(d, <<>>) = d /\ \A n : AllHarmless(<<>>, n)
    BY FinalNone DEF AllHarmless
  <2>3. QED
    BY <2>1, <2>2 DEF LoadedReads
<1>4. 0 \in G
  BY <1>3
<1>5. ASSUME NEW k \in 1 .. len, k - 1 \in G PROVE k \in G
  <2>1. k - 1 \in 0 .. len
    BY <1>1
  <2>2. LoadedSoFar(acc[k - 1]) /\ LoadedReads(acc[k - 1], archive, d)
    BY <1>2, <1>5, <2>1
  <2>3. archive[k] \in File /\ archive[k].name \in NamesOf(archive)
    BY <1>1, ElementOfSeq DEF NamesOf
  <2>4. Wanted(archive[k])
    BY <2>3 DEF Wanted
  <2>5. LoadedReads(LoadOne(acc[k - 1], archive[k]), archive, d)
    BY <2>2, <2>3, <2>4, LoadedReadsOne
  <2>6. QED
    BY <1>2, <2>5
<1>6. len \in G
  <2> HIDE DEF G, len
  <2>1. \A k \in 0 .. len : k \in G
    BY <1>1, <1>4, <1>5, UpTo
  <2>2. QED
    BY <1>1, <2>1
<1>7. LoadedReads(acc[len], archive, d) /\ LoadedSoFar(acc[len])
  BY <1>1, <1>2, <1>6
<1>8. QED
  BY <1>2, <1>7

LEMMA LoadKept ==
  ASSUME IInv, KeptInv, NEW archive \in Archives, Load(archive)
  PROVE  KeptInv'
<1> DEFINE p == FoldLeft(LoadOne, Unloaded, archive)
           x == Flushed(disk, <<>>)
<1>1. Called /\ Start(p.list, p.moves, p.ok, p.plan, NamesOf(archive))
  BY DEF Load, Unloaded
<1>2. /\ GoodList(hdr) /\ Record(truth) /\ Sized(hdr, truth) /\ Reads(x, hdr, truth, Names)
  BY <1>1, Idle
<1>3. LoadedSoFar(p) /\ LoadedReads(p, archive, x)
  <2> HIDE DEF x
  <2>1. QED
    BY <1>2, LoadReads
<1> HIDE DEF p, x
<1>4. p.ok \in BOOLEAN
  BY <1>3 DEF LoadedSoFar
<1>5. /\ Record(p.plan) /\ Sized(p.list, p.plan)
      /\ Reads(Final(x, p.moves), p.list, p.plan, Names)
      /\ \A n \in FilesOf(hdr) : n.name \notin NamesOf(archive) => AllHarmless(p.moves, n)
  BY <1>3 DEF LoadedReads
<1>6. QED
  BY <1>1, <1>4, <1>5, StartKept DEF x

-----------------------------------------------------------------------------
(* The files read as they should.                                          *)

OwnersOf(s) == {i \in 1 .. Len(hdr) : s \in hdr[i].start .. End(hdr[i]) - 1}
OwnerOf(s) == hdr[CHOOSE i \in OwnersOf(s) : TRUE]
ByteOf(s, k) ==
  LET n == (s - OwnerOf(s).start) * Room(s) + k IN
  IF s < Pri /\ k > PriBytes THEN Number(s)
  ELSE IF OwnersOf(s) # {} /\ n <= OwnerOf(s).size THEN Byte(OwnerOf(s).name, 0, n) ELSE Left

\* The only file of a sector.
LEMMA OwnerIs ==
  ASSUME GoodList(hdr), NEW m \in FilesOf(hdr), NEW s \in SectorsOf(m)
  PROVE  OwnersOf(s) # {} /\ OwnerOf(s) = m
<1>1. PICK j \in 1 .. Len(hdr) : m = hdr[j]
  BY DEF FilesOf
<1>2. j \in OwnersOf(s)
  BY <1>1 DEF OwnersOf, SectorsOf
<1> DEFINE i == CHOOSE i \in OwnersOf(s) : TRUE
<1>3. i \in OwnersOf(s)
  BY <1>2
<1> HIDE DEF i
<1>4. hdr[i] \in FilesOf(hdr) /\ s \in SectorsOf(hdr[i])
  BY <1>3 DEF OwnersOf, FilesOf, SectorsOf
<1>5. hdr[i].name = m.name
  BY <1>4, Apart
<1>6. hdr[i] = m
  BY <1>4, <1>5, OneOfName
<1>7. QED
  BY <1>2, <1>6 DEF OwnerOf, i

LEMMA InitReads ==
  ASSUME GoodList(hdr), NEW d, d = [s \in Sectors |-> [k \in 1 .. ExtBytes |-> ByteOf(s, k)]],
         NEW m \in FilesOf(hdr)
  PROVE  Read(d, m) = Content(m.name, 0, m.size)
<1>1. /\ m.start \in Nat /\ m.size \in Nat /\ End(m) \in Nat /\ SectorsOf(m) \subseteq Sectors
      /\ m.start < Pri => End(m) <= Pri
      /\ End(m) = m.start + Count(m.start, m.size)
  BY FileIs
<1>2. ASSUME NEW i \in 1 .. m.size PROVE Read(d, m)[i] = Byte(m.name, 0, i)
  <2> DEFINE q == Sector(m.start, i)
             k == Within(m.start, i)
             s == m.start + q
  <2>1. /\ q \in Nat /\ q < Count(m.start, m.size) /\ k \in 1 .. Room(m.start)
        /\ i = q * Room(m.start) + k /\ Count(m.start, m.size) \in Nat
    BY <1>1, ByteAt
  <2>2. Read(d, m)[i] = d[s][k]
    BY ReadIs
  <2> HIDE DEF q, k
  <2>3. s \in SectorsOf(m) /\ s \in Nat /\ m.start <= s /\ s < End(m)
    BY <1>1, <2>1 DEF SectorsOf
  <2>4. k \in 1 .. ExtBytes /\ ~(s < Pri /\ k > PriBytes)
    BY <1>1, <2>1, <2>3, RoomFits
  <2>5. Room(s) = Room(m.start)
    BY <1>1, <2>3, FbAssumption DEF Room
  <2>6. OwnersOf(s) # {} /\ OwnerOf(s) = m
    BY <2>3, OwnerIs
  <2>7. (s - m.start) * Room(s) + k = i
    <3>1. s - m.start = q
      BY <1>1, <2>1
    <3>2. QED
      BY <2>1, <2>5, <3>1
  <2>8. d[s][k] = ByteOf(s, k)
    BY <1>1, <2>3, <2>4
  <2> HIDE DEF s
  <2>9. ByteOf(s, k) = Byte(m.name, 0, i)
    <3>1. i <= m.size
      BY <1>1
    <3>2. QED
      BY <2>4, <2>6, <2>7, <3>1 DEF ByteOf
  <2>10. QED
    BY <2>2, <2>8, <2>9 DEF s
<1>3. IsBytes(Read(d, m), m.size) /\ IsBytes(Content(m.name, 0, m.size), m.size)
  BY <1>1, ReadBytes, ContentIs
<1>4. \A i \in 1 .. m.size : Content(m.name, 0, m.size)[i] = Byte(m.name, 0, i)
  BY DEF Content
<1>5. QED
  BY <1>2, <1>3, <1>4, SameIsBytes

LEMMA InitKept == Init => KeptInv
<1> SUFFICES ASSUME Init PROVE KeptInv
  OBVIOUS
<1>1. GoodList(hdr)
  BY InitIInv DEF IInv
<1>2. disk = [s \in Sectors |-> [k \in 1 .. ExtBytes |-> ByteOf(s, k)]]
  BY DEF Init, ByteOf, OwnerOf, OwnersOf
<1> DEFINE bytes(name) == IF Has(hdr, name) THEN Content(name, 0, Find(hdr, name).size) ELSE <<>>
<1>3. truth = [name \in Names |-> Holds(bytes(name), "ok")]
  BY DEF Init
<1>4. \A m \in FilesOf(hdr) : bytes(m.name) = Content(m.name, 0, m.size)
  <2>1. ASSUME NEW m \in FilesOf(hdr) PROVE Has(hdr, m.name) /\ Find(hdr, m.name) = m
    <3>1. Has(hdr, m.name)
      BY NamedIs
    <3>2. Find(hdr, m.name) \in FilesOf(hdr) /\ Find(hdr, m.name).name = m.name
      BY <1>1, <3>1, FoundFile
    <3>3. QED
      BY <1>1, <3>1, <3>2, OneOfName
  <2>2. QED
    BY <2>1
<1> HIDE DEF bytes
<1>5. \A name \in Names : truth[name].bytes = bytes(name) /\ truth[name].kind = "ok"
  BY <1>3 DEF Holds
<1>6. Record(truth)
  BY <1>3, <1>5 DEF Record
<1>7. \A m \in FilesOf(hdr) : m.name \in Names /\ truth[m.name].bytes = Content(m.name, 0, m.size)
                              /\ m.size \in Nat
  BY <1>1, <1>4, <1>5, FileIs
<1>8. Sized(hdr, truth)
  BY <1>7, ContentIs DEF Sized
<1>9. \A m \in FilesOf(hdr) : Read(disk, m) = Content(m.name, 0, m.size)
  BY <1>1, <1>2, InitReads
<1>10. Reads(disk, hdr, truth, Names \ touched)
  BY <1>7, <1>9 DEF Reads
<1>11. work = <<>> /\ buf = <<>> /\ touched = {} /\ running = FALSE
  BY DEF Init
<1>12. \A m : AllHarmless(<<>>, m) /\ SameBytes(<<>>, disk, m)
  BY DEF AllHarmless, SameBytes
<1>13. OldReads /\ Resting /\ NewReads /\ Undisturbed
  BY <1>6, <1>8, <1>10, <1>11, <1>12 DEF OldReads, Resting, NewReads, Undisturbed
<1>14. QED
  BY <1>13 DEF KeptInv

LEMMA CommandKept ==
  ASSUME IInv, KeptInv, Command
  PROVE  KeptInv'
<1>1. CASE \E name \in Names, size \in Sizes, b \in BOOLEAN :
             Add(name, size, b) \/ AddMenu(name, size, b) \/ Create(name, size, b)
  BY <1>1, AddKept, AddMenuKept, CreateKept
<1>2. CASE \E name \in Names, size \in Sizes : Cut(name, size) \/ Grow(name, size)
  BY <1>2, CutKept, GrowKept
<1>3. CASE \E from, name \in Names : Copy(from, name) \/ Rename(from, name)
  BY <1>3, CopyKept, RenameKept
<1>4. CASE \E name \in Names : RemoveFile(name)
  BY <1>4, RemoveFileKept
<1>5. CASE \E archive \in Archives : Load(archive)
  BY <1>5, LoadKept
<1>6. CASE Clear
  BY <1>6, ClearKept
<1>7. CASE Pack
  BY <1>7, PackKept
<1>8. QED
  BY <1>1, <1>2, <1>3, <1>4, <1>5, <1>6, <1>7 DEF Command

LEMMA NextKept == IInv /\ KeptInv /\ [Next]_vars => KeptInv'
<1> SUFFICES ASSUME IInv, KeptInv, [Next]_vars PROVE KeptInv'
  OBVIOUS
<1>1. CASE Command
  BY <1>1, CommandKept
<1>2. CASE Fetch
  BY <1>2, FetchKept
<1>3. CASE Store
  BY <1>3, StoreKept
<1>4. CASE WriteHeader
  BY <1>4, WriteHeaderKept
<1>5. CASE Quit
  BY <1>5, CutShortKept DEF Quit
<1>6. CASE Crash
  BY <1>6, CutShortKept DEF Crash
<1>7. CASE UNCHANGED vars
  <2>1. /\ disk' = disk /\ hdr' = hdr /\ list' = list /\ work' = work /\ buf' = buf
        /\ running' = running /\ commits' = commits /\ truth' = truth /\ wish' = wish
        /\ touched' = touched
    BY <1>7 DEF vars, memory, history
  <2>2. QED
    BY <2>1 DEF KeptInv, OldReads, Resting, NewReads, Undisturbed, Reads, Sized
<1>8. QED
  BY <1>1, <1>2, <1>3, <1>4, <1>5, <1>6, <1>7 DEF Next

(* Through any commands, and any quits and crashes between two writes of   *)
(* them, every file of the list on the disk reads as it was last given,    *)
(* copied, grown, cut or moved: save_file_data, copy_disk and cpy_file     *)
(* write only sectors of files that the command replaces or moves, in an   *)
(* order in which nothing is overwritten before it is read; only the files *)
(* that a command was replacing or moving when it was cut short are lost.  *)
THEOREM FilesAreKept == Spec => []FilesKept
<1>1. Init => IInv /\ KeptInv
  BY InitIInv, InitKept
<1>2. IInv /\ KeptInv /\ [Next]_vars => IInv' /\ KeptInv'
  BY NextIInv, NextKept
<1>3. IInv /\ KeptInv => FilesKept
  <2> SUFFICES ASSUME IInv, KeptInv, NEW i \in 1 .. Len(hdr),
                      hdr[i].name \notin touched, truth[hdr[i].name].kind = "ok"
               PROVE  Read(disk, hdr[i]) = truth[hdr[i].name].bytes
    BY DEF FilesKept
  <2>1. hdr[i] \in FilesOf(hdr) /\ hdr[i].name \in Names
    BY ItemIs DEF IInv, FilesOf
  <2>2. Reads(disk, hdr, truth, Names \ touched)
    BY DEF KeptInv, OldReads
  <2>3. QED
    BY <2>1, <2>2 DEF Reads
<1>4. QED
  BY <1>1, <1>2, <1>3, PTL DEF Spec
=============================================================================
