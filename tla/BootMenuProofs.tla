-------------------------- MODULE BootMenuProofs --------------------------
(***************************************************************************)
(* Theorems about booting, for every configuration, edit and size of the   *)
(* fallback table.                                                         *)
(***************************************************************************)
EXTENDS BootMenuInv, FiniteSetTheorems, WellFoundedInduction, SequenceTheorems, TLAPS

-----------------------------------------------------------------------------
(* Numbers.                                                                *)

\* A set of naturals that is not empty has a least element.
LEMMA Least ==
  ASSUME NEW S \in SUBSET Nat, S # {}
  PROVE  \E m \in S : \A n \in S : m <= n
<1>1. PICK m \in S : \A n \in S : ~(<<n, m>> \in OpToRel(<, Nat))
  BY NatLessThanWellFounded, WFMin
<1>2. \A n \in S : ~(n < m)
  BY <1>1 DEF OpToRel
<1>3. QED
  BY <1>2

LEMMA MinIsLeast ==
  ASSUME NEW S \in SUBSET Nat, S # {}
  PROVE  Min(S) \in S /\ \A n \in S : Min(S) <= n
<1>1. PICK m \in S : \A n \in S : m <= n
  BY Least
<1>2. QED
  BY <1>1 DEF Min

\* The largest of a set that has one.
LEMMA MaxIs ==
  ASSUME NEW S \in SUBSET Int, NEW m \in S, \A n \in S : n <= m
  PROVE  Max(S) = m
<1>1. \A x \in S : (\A n \in S : x >= n) => x = m
  OBVIOUS
<1>2. QED
  BY <1>1 DEF Max

-----------------------------------------------------------------------------
(* The fold of Keep.  FoldLeft is a function on sets of positions, which is *)
(* first shown to exist; then it goes from left to right.                  *)

Next1(f, s, t) == IF t = {} THEN <<>> ELSE Keep(f[t \ {Max(t)}], s[Max(t)])
Iter(f, D, s) == f = [t \in D |-> Next1(f, s, t)]

\* The fold over the positions up to n is defined.
LEMMA IterExists ==
  ASSUME NEW s, NEW len \in Nat
  PROVE  \E f : Iter(f, SUBSET (1 .. len), s)
<1> DEFINE Small(n) == {t \in SUBSET (1 .. len) : \A i \in t : i <= n}
           Good(n) == \E f : Iter(f, Small(n), s)
           Bad == {n \in 0 .. len : ~Good(n)}
<1>1. Good(0)
  <2> DEFINE f == [t \in Small(0) |-> <<>>]
  <2>1. Small(0) = {{}}
    OBVIOUS
  <2>2. Iter(f, Small(0), s)
    BY <2>1 DEF Iter, Next1
  <2>3. QED
    BY <2>2
<1>2. ASSUME NEW n \in Nat, Good(n) PROVE Good(n + 1)
  <2>1. PICK f : Iter(f, Small(n), s)
    BY <1>2
  <2> DEFINE h == [t \in Small(n + 1) |-> Next1(f, s, t)]
  <2>2. ASSUME NEW t \in Small(n + 1), t # {}
        PROVE  t \ {Max(t)} \in Small(n)
    <3>1. PICK m \in t : \A i \in t : i <= m
      <4> DEFINE Rest == {len - i : i \in t}
      <4>1. \A i \in t : i \in 1 .. len
        OBVIOUS
      <4>2. Rest \in SUBSET Nat
        BY <4>1
      <4>3. Rest # {}
        BY <2>2
      <4>4. PICK k \in Rest : \A j \in Rest : k <= j
        <5> HIDE DEF Rest
        <5>1. QED
          BY <4>2, <4>3, Least
      <4>5. PICK m \in t : k = len - m
        BY <4>4
      <4>6. \A i \in t : len - m <= len - i
        BY <4>4, <4>5
      <4>7. QED
        BY <4>1, <4>6
    <3>2. Max(t) = m
      BY <3>1, MaxIs
    <3>3. \A i \in t \ {m} : i <= n
      BY <3>1
    <3>4. QED
      BY <3>2, <3>3
  <2>3. \A t \in Small(n) : f[t] = Next1(f, s, t)
    BY <2>1 DEF Iter
  <2>4. \A t \in Small(n) : t \in Small(n + 1) /\ h[t] = f[t]
    <3>1. \A t \in Small(n) : t \in Small(n + 1)
      OBVIOUS
    <3>2. QED
      BY <2>3, <3>1
  <2>5. ASSUME NEW t \in Small(n + 1) PROVE Next1(f, s, t) = Next1(h, s, t)
    <3> HIDE DEF h, Small
    <3>1. CASE t = {}
      BY <3>1 DEF Next1
    <3>2. CASE t # {}
      <4>1. h[t \ {Max(t)}] = f[t \ {Max(t)}]
        BY <2>2, <2>4, <3>2
      <4>2. QED
        BY <4>1 DEF Next1
    <3>3. QED
      BY <3>1, <3>2
  <2>6. h = [t \in Small(n + 1) |-> Next1(h, s, t)]
    <3> HIDE DEF Small
    <3>1. QED
      BY <2>5
  <2>7. QED
    BY <2>6 DEF Iter
<1>3. Good(len)
  <2> HIDE DEF Good
  <2>1. SUFFICES ASSUME Bad # {} PROVE FALSE
    OBVIOUS
  <2>2. PICK n \in Bad : \A k \in Bad : n <= k
    <3>1. Bad \in SUBSET Nat
      OBVIOUS
    <3> HIDE DEF Bad
    <3>2. QED
      BY <2>1, <3>1, Least
  <2>3. n # 0 /\ n \in 0 .. len /\ ~Good(n)
    BY <1>1, <2>2
  <2>4. n - 1 \in Nat /\ n - 1 \notin Bad
    BY <2>2, <2>3
  <2>5. Good(n - 1)
    BY <2>3, <2>4
  <2>6. Good((n - 1) + 1)
    BY <1>2, <2>4, <2>5
  <2>7. QED
    BY <2>3, <2>6
<1>4. Small(len) = SUBSET (1 .. len)
  OBVIOUS
<1>5. QED
  BY <1>3, <1>4

\* The result, element by element.
Result(s) == (CHOOSE f : Iter(f, SUBSET DOMAIN s, s))[DOMAIN s]

(* A fold over len elements, with what it has made of the first k of them. *)
Folds(s, len) ==
  \E acc : /\ acc[0] = <<>>
           /\ \A k \in 1 .. len : acc[k] = Keep(acc[k - 1], s[k])
           /\ Result(s) = acc[len]

\* A fold goes over its sequence from the first element to the last.
LEMMA FoldGoesOn ==
  ASSUME NEW s, NEW len \in Nat, DOMAIN s = 1 .. len
  PROVE  Folds(s, len)
<1> DEFINE f == CHOOSE f : Iter(f, SUBSET (1 .. len), s)
           acc == [k \in 0 .. len |-> f[1 .. k]]
<1>1. Iter(f, SUBSET (1 .. len), s)
  BY IterExists
<1>2. \A t \in SUBSET (1 .. len) : f[t] = Next1(f, s, t)
  <2> HIDE DEF f
  <2>1. QED
    BY <1>1 DEF Iter
<1>3. acc[0] = <<>>
  <2> HIDE DEF f
  <2>1. 1 .. 0 = {} /\ {} \in SUBSET (1 .. len)
    OBVIOUS
  <2>2. f[{}] = <<>>
    BY <1>2, <2>1 DEF Next1
  <2>3. QED
    BY <2>1, <2>2
<1>4. ASSUME NEW k \in 1 .. len PROVE acc[k] = Keep(acc[k - 1], s[k])
  <2> HIDE DEF f
  <2>1. 1 .. k \in SUBSET (1 .. len) /\ k \in 1 .. k
    <3>1. \A i \in 1 .. k : i \in 1 .. len
      OBVIOUS
    <3>2. QED
      BY <3>1
  <2>2. Max(1 .. k) = k
    <3>1. 1 .. k \in SUBSET Int /\ \A i \in 1 .. k : i <= k
      OBVIOUS
    <3> HIDE DEF acc
    <3>2. QED
      BY <2>1, <3>1, MaxIs
  <2>3. (1 .. k) \ {k} = 1 .. k - 1
    OBVIOUS
  <2>4. f[1 .. k] = Keep(f[1 .. k - 1], s[k])
    BY <1>2, <2>1, <2>2, <2>3 DEF Next1
  <2>5. QED
    BY <2>4
<1>5. Result(s) = acc[len]
  BY DEF Result
<1>6. QED
  BY <1>3, <1>4, <1>5 DEF Folds

LEMMA KeptIs == \A table : FoldLeft(Keep, <<>>, table) = Result(table)
  BY DEF FoldLeft, MapThenFoldSet, Result, Iter, Next1

\* What holds of 0 and passes from each number to the next holds up to len.
LEMMA UpTo ==
  ASSUME NEW G, NEW len \in Nat, 0 \in G,
         \A k \in 1 .. len : k - 1 \in G => k \in G
  PROVE  \A k \in 0 .. len : k \in G
<1> DEFINE Bad == {k \in 0 .. len : k \notin G}
<1>1. SUFFICES ASSUME Bad # {} PROVE FALSE
  OBVIOUS
<1>2. Bad \in SUBSET Nat
  OBVIOUS
<1>3. PICK n \in Bad : \A k \in Bad : n <= k
  <2> HIDE DEF Bad
  <2>1. QED
    BY <1>1, <1>2, Least
<1>4. n \in 1 .. len /\ n \notin G
  BY <1>3
<1>5. n - 1 \in 0 .. len /\ n - 1 \notin Bad
  BY <1>3, <1>4
<1>6. QED
  BY <1>4, <1>5

-----------------------------------------------------------------------------
(* Fallback lists.                                                         *)

NoTwice(s) == \A i, j \in 1 .. Len(s) : s[i] = s[j] => i = j

\* What fallback_func reads: the numbers up to one that comes again, no more
\* than the table holds; all of them unless one comes again inside.
LEMMA FallbacksIs ==
  ASSUME NEW nums \in Seq(Nat)
  PROVE  /\ Fallbacks(nums) \in Seq(Nat)
         /\ Len(Fallbacks(nums)) <= MaxFallback /\ Len(Fallbacks(nums)) <= Len(nums)
         /\ NoTwice(Fallbacks(nums))
         /\ \A i \in 1 .. Len(Fallbacks(nums)) : Fallbacks(nums)[i] = nums[i]
         /\ ~RepeatInside(nums) /\ Len(nums) <= MaxFallback =>
              \A j \in 1 .. Len(nums) :
                \E i \in 1 .. Len(Fallbacks(nums)) : Fallbacks(nums)[i] = nums[j]
<1> DEFINE S == Repeats(nums) \cup {Len(nums) + 1, MaxFallback + 1}
           n == Min(S) - 1
           fbs == Fallbacks(nums)
<1>1. Len(nums) \in Nat /\ MaxFallback \in Nat \ {0}
  BY BootAssumption
<1>2. Repeats(nums) \in SUBSET (1 .. Len(nums))
  BY DEF Repeats
<1>3. Min(S) \in S /\ \A i \in S : Min(S) <= i
  <2>1. S \in SUBSET Nat /\ S # {}
    BY <1>1, <1>2
  <2> HIDE DEF S
  <2>2. QED
    BY <2>1, MinIsLeast
<1>4. n \in Nat /\ n <= Len(nums) /\ n <= MaxFallback
  <2>1. \A i \in S : i \in Nat /\ i >= 1
    BY <1>1, <1>2
  <2>2. Len(nums) + 1 \in S /\ MaxFallback + 1 \in S
    OBVIOUS
  <2> HIDE DEF S
  <2>3. QED
    BY <1>1, <1>3, <2>1, <2>2
<1>5. fbs = SubSeq(nums, 1, n)
  BY DEF Fallbacks
<1>6. n + 1 \in S /\ \A i \in Repeats(nums) : n < i
  <2>1. Repeats(nums) \subseteq S /\ Min(S) = n + 1
    BY <1>1, <1>2, <1>3, <1>4
  <2>2. \A i \in Repeats(nums) : i \in Nat
    BY <1>2
  <2> HIDE DEF S
  <2>3. QED
    BY <1>3, <1>4, <2>1, <2>2
<1> HIDE DEF n, fbs
<1>7. fbs \in Seq(Nat) /\ Len(fbs) = n /\ \A i \in 1 .. n : fbs[i] = nums[i]
  BY <1>1, <1>4, <1>5
<1>8. ASSUME NEW i \in 1 .. n, NEW j \in 1 .. n, nums[i] = nums[j] PROVE i = j
  <2>1. \A a, b \in 1 .. n : a < b => nums[a] # nums[b]
    <3> SUFFICES ASSUME NEW a \in 1 .. n, NEW b \in 1 .. n, a < b, nums[a] = nums[b]
                 PROVE  FALSE
      OBVIOUS
    <3>1. a \in 1 .. b - 1 /\ b \in 1 .. Len(nums)
      BY <1>1, <1>4
    <3>2. b \in Repeats(nums)
      BY <3>1 DEF Repeats
    <3>3. QED
      BY <1>4, <1>6, <3>2
  <2>2. i < j \/ j < i \/ i = j
    BY <1>4
  <2>3. QED
    BY <1>8, <2>1, <2>2
<1>9. ASSUME ~RepeatInside(nums), Len(nums) <= MaxFallback, NEW j \in 1 .. Len(nums)
      PROVE  \E i \in 1 .. n : fbs[i] = nums[j]
  <2>1. CASE j <= n
    BY <1>4, <1>7, <2>1
  <2>2. CASE n < j
    <3>1. n + 1 \in Repeats(nums)
      BY <1>1, <1>4, <1>6, <1>9, <2>2
    <3>2. n + 1 = Len(nums) /\ j = n + 1
      BY <1>1, <1>4, <1>9, <2>2, <3>1 DEF RepeatInside
    <3>3. PICK i \in 1 .. (n + 1) - 1 : nums[i] = nums[n + 1]
      BY <3>1 DEF Repeats
    <3>4. QED
      BY <1>4, <1>7, <3>2, <3>3
  <2>3. QED
    BY <1>1, <1>4, <2>1, <2>2
<1>10. QED
  BY <1>4, <1>7, <1>8, <1>9 DEF fbs, NoTwice

-----------------------------------------------------------------------------
(* The table of fallback entries.                                          *)

Cells == [1 .. MaxFallback -> Nat \cup {-1}]

LEMMA SeqFills ==
  ASSUME NEW s \in Seq(Nat \cup {-1}), Len(s) = MaxFallback
  PROVE  s \in Cells
  BY BootAssumption DEF Cells

\* The front of a sequence that is long enough.
LEMMA FrontFills ==
  ASSUME NEW s \in Seq(Nat \cup {-1}), Len(s) >= MaxFallback
  PROVE  /\ SubSeq(s, 1, MaxFallback) \in Cells
         /\ \A i \in 1 .. MaxFallback : SubSeq(s, 1, MaxFallback)[i] = s[i]
<1> DEFINE u == SubSeq(s, 1, MaxFallback)
<1>1. u \in Seq(Nat \cup {-1}) /\ Len(u) = MaxFallback
      /\ \A i \in 1 .. MaxFallback : u[i] = s[i]
  BY BootAssumption
<1> HIDE DEF u
<1>2. u \in Cells
  BY <1>1, SeqFills
<1>3. QED
  BY <1>1, <1>2 DEF u

\* The list is what stands before the first end mark.
LEMMA ListedIs ==
  ASSUME NEW t \in Cells
  PROVE  /\ Listed(t) \in Seq(Nat) /\ Len(Listed(t)) \in 0 .. MaxFallback
         /\ \A i \in 1 .. Len(Listed(t)) : Listed(t)[i] = t[i]
         /\ Len(Listed(t)) < MaxFallback => t[Len(Listed(t)) + 1] < 0
<1> DEFINE marks == {i \in 1 .. MaxFallback : t[i] < 0}
           n == IF marks = {} THEN MaxFallback ELSE Min(marks) - 1
<1>1. MaxFallback \in Nat \ {0} /\ \A i \in 1 .. MaxFallback : t[i] \in Nat \cup {-1}
  BY BootAssumption DEF Cells
<1>2. marks # {} => Min(marks) \in marks /\ \A i \in marks : Min(marks) <= i
  <2>1. marks \in SUBSET Nat
    OBVIOUS
  <2> HIDE DEF marks
  <2>2. QED
    BY <2>1, MinIsLeast
<1>3. /\ n \in 0 .. MaxFallback
      /\ \A i \in 1 .. n : i \notin marks
      /\ n < MaxFallback => n + 1 \in marks
  <2>1. CASE marks = {}
    BY <1>1, <2>1
  <2>2. CASE marks # {}
    <3>1. marks \in SUBSET (1 .. MaxFallback)
      OBVIOUS
    <3> DEFINE k == Min(marks)
    <3>2. k \in marks /\ (\A i \in marks : k <= i) /\ n = k - 1
      BY <1>2, <2>2
    <3> HIDE DEF marks, n, k
    <3>3. QED
      BY <1>1, <3>1, <3>2
  <2>3. QED
    BY <2>1, <2>2
<1>4. \A i \in 1 .. n : t[i] \in Nat
  <2>1. \A i \in 1 .. n : i \in 1 .. MaxFallback
    BY <1>1, <1>3
  <2>2. \A i \in 1 .. n : ~(t[i] < 0)
    <3> HIDE DEF n
    <3>1. QED
      BY <1>3, <2>1
  <2> HIDE DEF n
  <2>3. QED
    BY <1>1, <2>1, <2>2
<1>5. Listed(t) = SubSeq(t, 1, n)
  BY DEF Listed
<1>6. n < MaxFallback => t[n + 1] < 0
  BY <1>3
<1> HIDE DEF n, marks
<1> DEFINE l == SubSeq(t, 1, n)
<1>7. t \in Seq(Nat \cup {-1}) /\ Len(t) = MaxFallback
  BY <1>1 DEF Cells
<1>8. l \in Seq(Nat) /\ Len(l) = n /\ \A i \in 1 .. n : l[i] = t[i]
  <2>1. l \in Seq(Nat \cup {-1}) /\ Len(l) = n /\ \A i \in 1 .. n : l[i] = t[i]
    BY <1>1, <1>3, <1>7
  <2> HIDE DEF l
  <2>2. QED
    BY <1>4, <2>1
<1>9. QED
  BY <1>3, <1>5, <1>6, <1>8

\* A list of numbers that ends at a mark or fills the table is the one.
LEMMA ListedOf ==
  ASSUME NEW t \in Cells, NEW s \in Seq(Nat), Len(s) <= MaxFallback,
         \A i \in 1 .. Len(s) : t[i] = s[i],
         Len(s) < MaxFallback => t[Len(s) + 1] < 0
  PROVE  Listed(t) = s
<1> DEFINE l == Listed(t)
<1>1. /\ l \in Seq(Nat) /\ Len(l) \in 0 .. MaxFallback
      /\ \A i \in 1 .. Len(l) : l[i] = t[i]
      /\ Len(l) < MaxFallback => t[Len(l) + 1] < 0
  BY ListedIs
<1>2. Len(s) \in Nat /\ MaxFallback \in Nat \ {0}
  BY BootAssumption
<1> HIDE DEF l
<1>3. ~(Len(l) < Len(s))
  <2> SUFFICES ASSUME Len(l) < Len(s) PROVE FALSE
    OBVIOUS
  <2>1. Len(l) + 1 \in 1 .. Len(s)
    BY <1>1, <1>2
  <2>2. s[Len(l) + 1] \in Nat
    BY <2>1
  <2>3. QED
    BY <1>1, <1>2, <2>1, <2>2
<1>4. ~(Len(s) < Len(l))
  <2> SUFFICES ASSUME Len(s) < Len(l) PROVE FALSE
    OBVIOUS
  <2>1. Len(s) + 1 \in 1 .. Len(l)
    BY <1>1, <1>2
  <2>2. l[Len(s) + 1] \in Nat
    BY <1>1, <2>1
  <2>3. QED
    BY <1>1, <1>2, <2>1, <2>2
<1>5. Len(l) = Len(s)
  BY <1>1, <1>2, <1>3, <1>4
<1>6. l = s
  BY <1>1, <1>5
<1>7. QED
  BY <1>6 DEF l

\* What is written into the table stands at its front.
LEMMA OverIs ==
  ASSUME NEW t \in Cells, NEW front \in Seq(Nat \cup {-1})
  PROVE  /\ Over(t, front) \in Cells
         /\ \A i \in 1 .. MaxFallback :
              Over(t, front)[i] = IF i <= Len(front) THEN front[i] ELSE t[i]
<1> DEFINE rest == SubSeq(t, Len(front) + 1, MaxFallback)
           all == front \o rest
<1>1. MaxFallback \in Nat \ {0} /\ Len(front) \in Nat
  BY BootAssumption
<1>2. \A i \in 1 .. MaxFallback : t[i] \in Nat \cup {-1}
  BY DEF Cells
<1>3. t \in Seq(Nat \cup {-1}) /\ Len(t) = MaxFallback
  BY <1>1, <1>2 DEF Cells
<1>4. CASE Len(front) <= MaxFallback
  <2>1. /\ rest \in Seq(Nat \cup {-1}) /\ Len(rest) = MaxFallback - Len(front)
        /\ \A i \in 1 .. MaxFallback - Len(front) : rest[i] = t[Len(front) + i]
    BY <1>1, <1>3, <1>4
  <2> HIDE DEF rest
  <2>2. all \in Seq(Nat \cup {-1}) /\ Len(all) = MaxFallback
    BY <1>1, <1>4, <2>1
  <2>3. \A i \in 1 .. MaxFallback : all[i] = IF i <= Len(front) THEN front[i] ELSE t[i]
    <3> SUFFICES ASSUME NEW i \in 1 .. MaxFallback
                 PROVE  all[i] = IF i <= Len(front) THEN front[i] ELSE t[i]
      OBVIOUS
    <3>1. CASE i <= Len(front)
      BY <1>1, <2>1, <3>1
    <3>2. CASE ~(i <= Len(front))
      <4>1. i - Len(front) \in 1 .. MaxFallback - Len(front)
            /\ Len(front) + (i - Len(front)) = i
        BY <1>1, <3>2
      <4>2. all[i] = rest[i - Len(front)]
        BY <1>1, <2>1, <3>2, <4>1
      <4>3. QED
        BY <2>1, <3>2, <4>1, <4>2
    <3>3. QED
      BY <3>1, <3>2
  <2> HIDE DEF all
  <2>4. /\ SubSeq(all, 1, MaxFallback) \in Cells
        /\ \A i \in 1 .. MaxFallback : SubSeq(all, 1, MaxFallback)[i] = all[i]
    <3>1. Len(all) >= MaxFallback
      BY <1>1, <2>2
    <3>2. QED
      BY <2>2, <3>1, FrontFills
  <2>5. Over(t, front) = SubSeq(all, 1, MaxFallback)
    BY DEF Over, all, rest
  <2>6. QED
    BY <2>3, <2>4, <2>5
<1>5. CASE ~(Len(front) <= MaxFallback)
  <2>1. rest = <<>>
    BY <1>1, <1>3, <1>5
  <2>2. Over(t, front) = SubSeq(front, 1, MaxFallback)
    <3>1. front \o <<>> = front
      OBVIOUS
    <3> HIDE DEF rest
    <3>2. all = front
      BY <2>1, <3>1
    <3>3. QED
      BY <3>2 DEF Over, rest
  <2>3. /\ SubSeq(front, 1, MaxFallback) \in Cells
        /\ \A i \in 1 .. MaxFallback : SubSeq(front, 1, MaxFallback)[i] = front[i]
    <3>1. Len(front) >= MaxFallback
      BY <1>1, <1>5
    <3>2. QED
      BY <3>1, FrontFills
  <2>4. QED
    BY <1>1, <1>5, <2>2, <2>3
<1>6. QED
  BY <1>4, <1>5

\* A list with its end mark is what the table then lists.
LEMMA ListGiven ==
  ASSUME NEW t \in Cells, NEW s \in Seq(Nat), Len(s) <= MaxFallback
  PROVE  /\ Over(t, Append(s, -1)) \in Cells
         /\ Listed(Over(t, Append(s, -1))) = s
<1> DEFINE front == Append(s, -1)  u == Over(t, front)
<1>1. /\ front \in Seq(Nat \cup {-1}) /\ Len(front) = Len(s) + 1
      /\ front[Len(s) + 1] = -1 /\ \A i \in 1 .. Len(s) : front[i] = s[i]
  OBVIOUS
<1>2. Len(s) \in Nat /\ MaxFallback \in Nat \ {0}
  BY BootAssumption
<1> HIDE DEF front
<1>3. u \in Cells /\ \A i \in 1 .. MaxFallback : u[i] = IF i <= Len(front) THEN front[i] ELSE t[i]
  BY <1>1, OverIs
<1> HIDE DEF u
<1>4. \A i \in 1 .. Len(s) : u[i] = s[i]
  BY <1>1, <1>2, <1>3
<1>5. Len(s) < MaxFallback => u[Len(s) + 1] < 0
  BY <1>1, <1>2, <1>3
<1>6. Listed(u) = s
  BY <1>3, <1>4, <1>5, ListedOf
<1>7. QED
  BY <1>3, <1>6 DEF u, front

LEMMA NoTableIs == NoTable \in Cells /\ Listed(NoTable) = <<>>
<1> DEFINE more == [i \in 1 .. MaxFallback - 1 |-> 0]
<1>1. MaxFallback \in Nat \ {0}
  BY BootAssumption
<1>2. more \in Seq(Nat \cup {-1}) /\ Len(more) = MaxFallback - 1
  BY <1>1
<1>3. <<-1>> \in Seq(Nat \cup {-1}) /\ Len(<<-1>>) = 1 /\ <<-1>>[1] = -1
  OBVIOUS
<1> HIDE DEF more
<1>4. <<-1>> \o more \in Seq(Nat \cup {-1}) /\ Len(<<-1>> \o more) = MaxFallback
      /\ (<<-1>> \o more)[1] = -1
  BY <1>1, <1>2, <1>3
<1>5. NoTable = <<-1>> \o more
  BY DEF NoTable, more
<1>6. NoTable \in Cells /\ NoTable[1] = -1
  BY <1>4, <1>5, SeqFills
<1> DEFINE none == <<>>
<1>7. none \in Seq(Nat) /\ Len(none) = 0 /\ Len(none) + 1 = 1 /\ 1 .. Len(none) = {}
  OBVIOUS
<1> HIDE DEF none
<1>8. Listed(NoTable) = none
  <2>1. Len(none) <= MaxFallback /\ NoTable[Len(none) + 1] < 0
    BY <1>1, <1>6, <1>7
  <2>2. \A i \in 1 .. Len(none) : NoTable[i] = none[i]
    BY <1>7
  <2>3. QED
    BY <1>6, <1>7, <2>1, <2>2, ListedOf
<1>9. QED
  BY <1>6, <1>8 DEF none

(* The table after its first k entries were looked at. *)
Kept(table, t, k) ==
  /\ t \in Seq(Nat)
  /\ Len(t) <= k
  /\ NoTwice(table) => NoTwice(t)
  /\ \A i \in 1 .. Len(t) : t[i] < NumEntries /\ \E j \in 1 .. k : t[i] = table[j]
  /\ \A j \in 1 .. k : table[j] < NumEntries => \E i \in 1 .. Len(t) : t[i] = table[j]

\* What stays of a table are its entries that exist.
LEMMA TableKept ==
  ASSUME NEW table \in Seq(Nat), NumEntries \in Nat
  PROVE  Kept(table, FoldLeft(Keep, <<>>, table), Len(table))
<1> DEFINE len == Len(table)
<1>1. len \in Nat /\ DOMAIN table = 1 .. len
  OBVIOUS
<1>2. PICK acc : /\ acc[0] = <<>>
                 /\ \A k \in 1 .. len : acc[k] = Keep(acc[k - 1], table[k])
                 /\ Result(table) = acc[len]
  <2>1. Folds(table, len)
    BY <1>1, FoldGoesOn
  <2>2. QED
    BY <2>1 DEF Folds
<1> DEFINE G == {k \in 0 .. len : Kept(table, acc[k], k)}
<1>3. 0 \in G
  <2>1. Kept(table, <<>>, 0)
    BY DEF Kept, NoTwice
  <2>2. QED
    BY <1>1, <1>2, <2>1
<1>4. ASSUME NEW k \in 1 .. len, k - 1 \in G PROVE k \in G
  <2> DEFINE t == acc[k - 1]  n == table[k]
  <2>1. Kept(table, t, k - 1)
    BY <1>4
  <2>2. acc[k] = Keep(t, n)
    BY <1>2
  <2>3. n \in Nat
    OBVIOUS
  <2>4. \A j \in 1 .. k : j = k \/ j \in 1 .. k - 1
    OBVIOUS
  <2>5. CASE ~(n < NumEntries)
    <3>1. acc[k] = t
      BY <2>2, <2>5 DEF Keep
    <3>2. Kept(table, t, k)
      <4> HIDE DEF t
      <4>1. QED
        BY <2>1, <2>4, <2>5 DEF Kept
    <3>3. QED
      BY <3>1, <3>2
  <2>6. CASE n < NumEntries
    <3>1. acc[k] = Append(t, n)
      BY <2>2, <2>6 DEF Keep
    <3>2. Kept(table, Append(t, n), k)
      <4> HIDE DEF t
      <4>1. t \in Seq(Nat) /\ Len(t) \in Nat
        BY <2>1 DEF Kept
      <4>2. Append(t, n) \in Seq(Nat) /\ Len(Append(t, n)) = Len(t) + 1
        BY <2>3, <4>1
      <4>3. \A i \in 1 .. Len(t) : Append(t, n)[i] = t[i]
        BY <4>1
      <4>4. Append(t, n)[Len(t) + 1] = n
        BY <4>1
      <4>5. ASSUME NoTwice(table) PROVE NoTwice(Append(t, n))
        <5>1. ASSUME NEW i \in 1 .. Len(t) PROVE t[i] # n
          <6>1. PICK j \in 1 .. k - 1 : t[i] = table[j]
            BY <2>1 DEF Kept
          <6>2. table[j] # table[k]
            BY <1>1, <4>5 DEF NoTwice
          <6>3. QED
            BY <6>1, <6>2
        <5>2. \A i, j \in 1 .. Len(t) : t[i] = t[j] => i = j
          BY <2>1, <4>5 DEF Kept, NoTwice
        <5>3. \A i \in 1 .. Len(t) + 1 : i \in 1 .. Len(t) \/ i = Len(t) + 1
          BY <4>1
        <5>4. \A i, j \in 1 .. Len(t) + 1 :
                Append(t, n)[i] = Append(t, n)[j] => i = j
          BY <4>3, <4>4, <5>1, <5>2, <5>3
        <5>5. QED
          BY <4>2, <5>4 DEF NoTwice
      <4>6. \A i \in 1 .. Len(t) + 1 :
              Append(t, n)[i] < NumEntries /\ \E j \in 1 .. k : Append(t, n)[i] = table[j]
        BY <2>1, <2>6, <4>1, <4>3, <4>4 DEF Kept
      <4>7. \A j \in 1 .. k : table[j] < NumEntries =>
              \E i \in 1 .. Len(t) + 1 : Append(t, n)[i] = table[j]
        <5> SUFFICES ASSUME NEW j \in 1 .. k, table[j] < NumEntries
                     PROVE  \E i \in 1 .. Len(t) + 1 : Append(t, n)[i] = table[j]
          OBVIOUS
        <5>1. CASE j = k
          BY <4>1, <4>4, <5>1
        <5>2. CASE j \in 1 .. k - 1
          <6>1. \E i \in 1 .. Len(t) : t[i] = table[j]
            BY <2>1, <5>2 DEF Kept
          <6>2. QED
            BY <4>1, <4>3, <6>1
        <5>3. QED
          BY <2>4, <5>1, <5>2
      <4>8. Len(t) + 1 <= k
        BY <2>1, <4>1 DEF Kept
      <4>9. QED
        BY <4>2, <4>5, <4>6, <4>7, <4>8 DEF Kept
    <3>3. QED
      <4> HIDE DEF t, n
      <4>1. Kept(table, acc[k], k)
        BY <3>1, <3>2, Zenon
      <4>2. QED
        BY <4>1
  <2>7. QED
    BY <2>5, <2>6
<1>5. \A k \in 0 .. len : k \in G
  <2> HIDE DEF len, G
  <2>1. QED
    BY <1>1, <1>3, <1>4, UpTo
<1>6. Kept(table, acc[len], len)
  BY <1>1, <1>5
<1>7. QED
  BY <1>2, <1>6, KeptIs

-----------------------------------------------------------------------------
(* The configuration and its table.                                        *)

LEMMA CfgIs ==
  ASSUME ConfigInv
  PROVE  /\ NumEntries \in Nat \ {0}
         /\ cfg.timeout \in Int /\ cfg.hidden \in BOOLEAN
         /\ cfg.default.saved \in BOOLEAN /\ cfg.default.num \in Nat
         /\ cfg.fallback \in Seq(Nat)
         /\ cfg.entries \in Seq(Scripts) /\ DOMAIN cfg.entries = 1 .. NumEntries
<1>1. cfg \in [timeout : Int, hidden : BOOLEAN, default : [saved : BOOLEAN, num : Nat],
               fallback : Seq(Nat), entries : Seq(Scripts) \ {<<>>}]
  BY ConfigAssumption DEF ConfigInv
<1>2. cfg.default \in [saved : BOOLEAN, num : Nat] /\ cfg.entries \in Seq(Scripts)
      /\ cfg.entries # <<>>
  BY <1>1
<1>3. QED
  BY <1>1, <1>2 DEF NumEntries

\* An entry is a script, and what it gives is among what the scripts give.
LEMMA EntryIs ==
  ASSUME ConfigInv, NEW e \in 0 .. NumEntries - 1
  PROVE  /\ cfg.entries[e + 1] \in Scripts
         /\ GivenIn(cfg.entries[e + 1]) \subseteq AllGiven
<1>1. e + 1 \in 1 .. NumEntries
  BY CfgIs
<1>2. cfg.entries[e + 1] \in Scripts /\ cfg.entries[e + 1] \in ToSet(cfg.entries)
  BY <1>1, CfgIs DEF ToSet
<1>3. QED
  BY <1>2 DEF AllGiven

\* What stays of a list, which is as long as it was if it filled the table.
LEMMA ExistingIs ==
  ASSUME NEW fbs \in Seq(Nat), Len(fbs) <= MaxFallback, NoTwice(fbs), NumEntries \in Nat,
         Len(fbs) = MaxFallback => Last(fbs) < NumEntries
  PROVE  /\ Existing(fbs) \in Seq(Nat) /\ Len(Existing(fbs)) <= MaxFallback
         /\ \A i \in 1 .. Len(Existing(fbs)) : Existing(fbs)[i] < NumEntries
         /\ Len(fbs) < MaxFallback => NoTwice(Existing(fbs))
         /\ \A j \in 1 .. Len(fbs) : fbs[j] < NumEntries =>
              \E i \in 1 .. Len(Existing(fbs)) : Existing(fbs)[i] = fbs[j]
<1> DEFINE ok == FoldLeft(Keep, <<>>, fbs)
<1>1. Len(fbs) \in Nat /\ MaxFallback \in Nat \ {0}
  BY BootAssumption
<1>2. Kept(fbs, ok, Len(fbs))
  BY TableKept
<1>3. /\ ok \in Seq(Nat) /\ Len(ok) \in Nat /\ Len(ok) <= Len(fbs) /\ NoTwice(ok)
      /\ \A i \in 1 .. Len(ok) : ok[i] < NumEntries
      /\ \A j \in 1 .. Len(fbs) : fbs[j] < NumEntries => \E i \in 1 .. Len(ok) : ok[i] = fbs[j]
  BY <1>2 DEF Kept
<1>4. CASE Len(fbs) < MaxFallback
  <2>1. Existing(fbs) = ok
    BY <1>4 DEF Existing
  <2> HIDE DEF ok
  <2>2. QED
    BY <1>1, <1>3, <2>1
<1>5. CASE ~(Len(fbs) < MaxFallback)
  <2> DEFINE more == [i \in 1 .. Len(fbs) - Len(ok) |-> Last(fbs)]
             all == ok \o more
  <2>1. Existing(fbs) = all
    BY <1>5 DEF Existing
  <2>2. Len(fbs) = MaxFallback
    BY <1>1, <1>5
  <2>3. Last(fbs) \in Nat /\ Last(fbs) < NumEntries
    BY <1>1, <2>2 DEF Last
  <2> HIDE DEF ok
  <2>4. more \in Seq(Nat) /\ Len(more) = Len(fbs) - Len(ok)
    BY <1>1, <1>3, <2>3
  <2>5. \A i \in 1 .. Len(more) : more[i] < NumEntries
    BY <2>3, <2>4
  <2> HIDE DEF more
  <2>6. all \in Seq(Nat) /\ Len(all) = Len(fbs)
    BY <1>1, <1>3, <2>4
  <2>7. \A i \in 1 .. Len(ok) : all[i] = ok[i]
    BY <1>3, <2>4
  <2>8. \A i \in 1 .. Len(fbs) : i > Len(ok) =>
          all[i] = more[i - Len(ok)] /\ i - Len(ok) \in 1 .. Len(more)
    BY <1>1, <1>3, <2>4
  <2> HIDE DEF all
  <2>9. \A i \in 1 .. Len(fbs) : all[i] < NumEntries
    <3> SUFFICES ASSUME NEW i \in 1 .. Len(fbs) PROVE all[i] < NumEntries
      OBVIOUS
    <3>1. CASE i > Len(ok)
      BY <2>5, <2>8, <3>1
    <3>2. CASE ~(i > Len(ok))
      <4>1. i \in 1 .. Len(ok)
        BY <1>1, <1>3, <3>2
      <4>2. QED
        BY <1>3, <2>7, <4>1
    <3>3. QED
      BY <3>1, <3>2
  <2>10. \A i \in 1 .. Len(ok) : i \in 1 .. Len(all)
    BY <1>1, <1>3, <2>6
  <2>11. \A j \in 1 .. Len(fbs) : fbs[j] < NumEntries => \E i \in 1 .. Len(all) : all[i] = fbs[j]
    BY <1>3, <2>7, <2>10
  <2>12. QED
    BY <1>5, <2>1, <2>2, <2>6, <2>9, <2>11
<1>6. QED
  BY <1>4, <1>5

\* cmain's check leaves in the table what exists of its list.
LEMMA CheckedIs ==
  ASSUME NEW t \in Cells, NumEntries \in Nat
  PROVE  /\ Checked(t) \in Cells
         /\ Listed(Checked(t)) = Existing(Listed(t))
<1> DEFINE fbs == Listed(t)
           ok == FoldLeft(Keep, <<>>, fbs)
           up == Len(fbs) - Len(ok)
           rest == SubSeq(t, Len(fbs) + 1, MaxFallback)
           more == [i \in 1 .. up |-> t[MaxFallback]]
           all == (ok \o rest) \o more
<1>1. MaxFallback \in Nat \ {0} /\ t \in Seq(Nat \cup {-1}) /\ Len(t) = MaxFallback
  BY BootAssumption DEF Cells
<1>2. /\ fbs \in Seq(Nat) /\ Len(fbs) \in 0 .. MaxFallback
      /\ \A i \in 1 .. Len(fbs) : fbs[i] = t[i]
      /\ Len(fbs) < MaxFallback => t[Len(fbs) + 1] < 0
  BY ListedIs
<1>3. Checked(t) = all
  BY DEF Checked
<1>4. Existing(fbs) = IF Len(fbs) < MaxFallback THEN ok
                      ELSE ok \o [i \in 1 .. up |-> Last(fbs)]
  BY DEF Existing
<1> HIDE DEF fbs
<1>5. ok \in Seq(Nat) /\ Len(ok) \in Nat /\ Len(ok) <= Len(fbs)
  BY <1>2, TableKept DEF Kept
<1> HIDE DEF ok
<1>6. /\ rest \in Seq(Nat \cup {-1}) /\ Len(rest) = MaxFallback - Len(fbs)
      /\ \A i \in 1 .. MaxFallback - Len(fbs) : rest[i] = t[Len(fbs) + i]
  BY <1>1, <1>2
<1>7. t[MaxFallback] \in Nat \cup {-1}
  BY <1>1
<1>8. more \in Seq(Nat \cup {-1}) /\ Len(more) = up /\ up \in Nat
  BY <1>2, <1>5, <1>7
<1>9. ok \in Seq(Nat \cup {-1})
  BY <1>5
<1>10. CASE Len(fbs) < MaxFallback
  <2>1. rest[1] < 0 /\ Len(rest) > 0
    BY <1>1, <1>2, <1>6, <1>10
  <2> HIDE DEF rest, more
  <2>2. all \in Seq(Nat \cup {-1}) /\ Len(all) = MaxFallback
    BY <1>1, <1>2, <1>5, <1>6, <1>8, <1>9
  <2>3. (\A i \in 1 .. Len(ok) : all[i] = ok[i]) /\ all[Len(ok) + 1] = rest[1]
    BY <1>1, <1>2, <1>5, <1>6, <1>8, <1>9, <2>1
  <2> HIDE DEF all
  <2>4. all \in Cells
    BY <1>1, <2>2 DEF Cells
  <2>5. Len(ok) <= MaxFallback
    BY <1>1, <1>2, <1>5
  <2>6. Listed(all) = ok
    BY <1>5, <2>1, <2>3, <2>4, <2>5, ListedOf
  <2>7. QED
    BY <1>3, <1>4, <1>10, <2>4, <2>6 DEF fbs
<1>11. CASE Len(fbs) = MaxFallback
  <2>1. Last(fbs) = t[MaxFallback] /\ Last(fbs) \in Nat
    BY <1>1, <1>2, <1>11 DEF Last
  <2>2. more = [i \in 1 .. up |-> Last(fbs)] /\ more \in Seq(Nat)
    BY <1>8, <2>1
  <2>3. rest = <<>>
    <3>1. Len(rest) = 0
      BY <1>1, <1>6, <1>11
    <3> HIDE DEF rest
    <3>2. QED
      BY <1>6, <3>1
  <2> HIDE DEF more
  <2>4. all = ok \o more
    <3>1. ok \o <<>> = ok
      BY <1>5
    <3> HIDE DEF rest
    <3>2. QED
      BY <2>3, <3>1
  <2>5. ok \o more \in Seq(Nat) /\ Len(ok \o more) = MaxFallback
    BY <1>1, <1>2, <1>5, <1>8, <1>11, <2>2
  <2> HIDE DEF all
  <2>6. all \in Seq(Nat) /\ Len(all) = MaxFallback
    BY <2>4, <2>5
  <2>7. all \in Cells
    BY <1>1, <2>6 DEF Cells
  <2>8. Listed(all) = all
    BY <1>1, <2>6, <2>7, ListedOf
  <2>9. Existing(fbs) = all
    <3>1. ~(Len(fbs) < MaxFallback)
      BY <1>1, <1>11
    <3>2. Existing(fbs) = ok \o [i \in 1 .. up |-> Last(fbs)]
      BY <1>4, <3>1
    <3>3. QED
      BY <2>2, <2>4, <3>2, Zenon
  <2>10. QED
    BY <1>3, <2>7, <2>8, <2>9 DEF fbs
<1>12. QED
  BY <1>1, <1>2, <1>10, <1>11

\* What cmain leaves in the table.
LEMMA TableIs ==
  ASSUME ConfigInv, ~DropsForever
  PROVE  /\ Table \in Seq(Nat) /\ Len(Table) <= MaxFallback
         /\ \A i \in 1 .. Len(Table) : Table[i] < NumEntries
         /\ HasEndMark => NoTwice(Table)
         /\ ~RepeatInside(cfg.fallback) /\ Len(cfg.fallback) <= MaxFallback
              => Promised \subseteq ToSet(Table)
<1> DEFINE nums == cfg.fallback  fbs == Fallbacks(nums)
<1>1. nums \in Seq(Nat) /\ NumEntries \in Nat /\ MaxFallback \in Nat \ {0}
  BY CfgIs, BootAssumption
<1>2. CASE RepeatInside(nums)
  <2>1. Table = <<>>
    BY <1>2 DEF Table
  <2>2. QED
    BY <1>1, <1>2, <2>1 DEF NoTwice
<1>3. CASE ~RepeatInside(nums)
  <2>1. Table = Existing(fbs)
    BY <1>3 DEF Table
  <2>2. Len(fbs) = MaxFallback => ~(Last(fbs) >= NumEntries)
    BY <1>3 DEF DropsForever
  <2>3. HasEndMark => Len(fbs) < MaxFallback
    BY DEF HasEndMark
  <2>4. /\ fbs \in Seq(Nat) /\ Len(fbs) <= MaxFallback /\ NoTwice(fbs)
        /\ Len(nums) <= MaxFallback =>
             \A j \in 1 .. Len(nums) : \E i \in 1 .. Len(fbs) : fbs[i] = nums[j]
    BY <1>1, <1>3, FallbacksIs
  <2> HIDE DEF fbs
  <2>5. Len(fbs) = MaxFallback => Last(fbs) < NumEntries
    BY <1>1, <2>2, <2>4 DEF Last
  <2> DEFINE e == Existing(fbs)
  <2>6. /\ e \in Seq(Nat) /\ Len(e) <= MaxFallback
        /\ \A i \in 1 .. Len(e) : e[i] < NumEntries
        /\ Len(fbs) < MaxFallback => NoTwice(e)
        /\ \A j \in 1 .. Len(fbs) : fbs[j] < NumEntries => \E i \in 1 .. Len(e) : e[i] = fbs[j]
    BY <1>1, <2>4, <2>5, ExistingIs
  <2> HIDE DEF e
  <2>7. ASSUME Len(nums) <= MaxFallback, NEW n \in Promised PROVE n \in ToSet(e)
    <3>1. n < NumEntries /\ \E j \in 1 .. Len(nums) : nums[j] = n
      BY <1>1 DEF Promised, ToSet
    <3> HIDE DEF nums
    <3>2. PICK i \in 1 .. Len(fbs) : fbs[i] = n
      BY <2>4, <2>7, <3>1
    <3>3. PICK k \in 1 .. Len(e) : e[k] = n
      BY <2>6, <3>1, <3>2
    <3>4. k \in DOMAIN e
      BY <2>6
    <3>5. QED
      BY <3>3, <3>4 DEF ToSet
  <2>8. Table = e
    BY <2>1 DEF e
  <2>9. QED
    BY <2>3, <2>6, <2>7, <2>8
<1>4. QED
  BY <1>2, <1>3

\* There are no more different numbers than entries.
LEMMA NoMoreThanEntries ==
  ASSUME NEW s \in Seq(Nat), NEW n \in Nat, NoTwice(s),
         \A i \in 1 .. Len(s) : s[i] < n
  PROVE  Len(s) <= n
<1>1. SUFFICES ASSUME n < Len(s) PROVE FALSE
  BY DEF NoTwice
<1>2. Len(s) \in Nat /\ s \in [1 .. Len(s) -> 0 .. n - 1]
  OBVIOUS
<1>3. IsFiniteSet(1 .. Len(s)) /\ Cardinality(1 .. Len(s)) = Len(s)
  BY <1>1, <1>2, FS_Interval
<1>4. IsFiniteSet(0 .. n - 1) /\ Cardinality(0 .. n - 1) = n
  <2>1. 0 \in Int /\ n - 1 \in Int
    OBVIOUS
  <2>2. QED
    BY <2>1, FS_Interval
<1>5. \E i, j \in 1 .. Len(s) : i # j /\ s[i] = s[j]
  <2>1. Cardinality(0 .. n - 1) < Cardinality(1 .. Len(s))
    BY <1>1, <1>3, <1>4
  <2>2. QED
    BY <1>2, <1>3, <1>4, <2>1, FS_PigeonHole
<1>6. QED
  BY <1>5 DEF NoTwice

-----------------------------------------------------------------------------
(* The commands.                                                           *)

LEMMA SaveDefaultKeeps ==
  ASSUME NEW s, GlobalsInv(s), NEW n \in Nat
  PROVE  /\ GlobalsInv(SaveDefault(s, n))
         /\ SaveDefault(s, n).table = s.table
         /\ SaveDefault(s, n).fbno = s.fbno
  BY DEF SaveDefault, GlobalsInv, Globals

\* A simple command leaves only entries that exist in the table, and the
\* table alone unless it gives one.
LEMMA SimpleKeeps ==
  ASSUME ConfigInv, Sound, NEW s, GlobalsInv(s), Current \in Nat,
         NEW c \in Simples, Given(c) \subseteq AllGiven
  PROVE  /\ GlobalsInv(Simple(c, s))
         /\ Given(c) = {} => /\ Simple(c, s).table = s.table
                             /\ Simple(c, s).fbno = s.fbno
<1> DEFINE Goal == /\ GlobalsInv(Simple(c, s))
                   /\ Given(c) = {} => /\ Simple(c, s).table = s.table
                                       /\ Simple(c, s).fbno = s.fbno
           fbl == Listed(s.table)
<1>1. s \in Globals /\ s.table \in Cells
  BY DEF GlobalsInv, Globals, Cells
<1>0. fbl \in Seq(Nat) /\ Len(fbl) \in Nat
  BY <1>1, ListedIs
<1> HIDE DEF fbl
<1>2. CASE c.op = "kernel"
  BY <1>2, <1>1 DEF Simple, GlobalsInv, Globals
<1>3. CASE c.op = "save"
  <2>1. Simple(c, s) = SaveDefault(s, Current)
    BY <1>3 DEF Simple
  <2>2. QED
    BY <2>1, SaveDefaultKeeps
<1>4. CASE c.op = "savefallback"
  <2>1. Simple(c, s) = SaveFallback(s)
    BY <1>4 DEF Simple
  <2> DEFINE at == {i \in 1 .. Len(fbl) : fbl[i] = Current}
             next == IF at = {} THEN 1 ELSE Min(at) + 1
  <2>2. next \in 1 .. Len(fbl) + 1
    <3>1. at \in SUBSET Nat /\ at \in SUBSET (1 .. Len(fbl))
      OBVIOUS
    <3> HIDE DEF at
    <3>2. at # {} => Min(at) \in at
      BY <3>1, MinIsLeast
    <3>3. at # {} => Min(at) \in 1 .. Len(fbl)
      BY <3>1, <3>2
    <3> DEFINE m == Min(at)
    <3>4. at # {} => m \in 1 .. Len(fbl)
      BY <3>3
    <3>5. next = IF at = {} THEN 1 ELSE m + 1
      BY DEF at
    <3> HIDE DEF m, next
    <3>6. QED
      BY <1>0, <3>4, <3>5
  <2>3. SaveFallback(s) = IF next > Len(fbl) THEN [s EXCEPT !.err = TRUE]
                          ELSE SaveDefault(s, fbl[next])
    BY DEF SaveFallback, fbl
  <2> HIDE DEF next
  <2>4. CASE next > Len(fbl)
    BY <1>1, <2>1, <2>3, <2>4 DEF GlobalsInv, Globals
  <2>5. CASE ~(next > Len(fbl))
    <3>1. fbl[next] \in Nat
      BY <1>0, <2>2, <2>5
    <3>2. QED
      BY <2>1, <2>3, <2>5, <3>1, SaveDefaultKeeps
  <2>6. QED
    BY <2>4, <2>5
<1>5. CASE c.op = "fallback"
  <2> DEFINE fbs == Fallbacks(c.nums)
  <2>1. c.nums \in Seq(Nat)
    BY <1>5 DEF Simples
  <2>2. Given(c) = {c.nums}
    BY <1>5 DEF Given
  <2>3. ~RepeatInside(c.nums) /\ \A i \in 1 .. Len(c.nums) : c.nums[i] < NumEntries
    BY <2>2 DEF Sound
  <2>4. /\ fbs \in Seq(Nat) /\ Len(fbs) <= MaxFallback /\ Len(fbs) <= Len(c.nums)
        /\ \A i \in 1 .. Len(fbs) : fbs[i] = c.nums[i]
    BY <2>1, FallbacksIs
  <2> DEFINE f == IF fbs = <<>> THEN -1 ELSE 0
             u == Over(s.table, Append(fbs, -1))
             t == Simple(c, s)
  <2>5. t = [s EXCEPT !.table = u, !.fbno = f]
    BY <1>5, <2>3 DEF Simple, Fallback
  <2> HIDE DEF fbs, t
  <2>6. u \in Cells /\ Listed(u) = fbs
    BY <1>1, <2>4, ListGiven
  <2> HIDE DEF u
  <2>7. \A i \in 1 .. Len(fbs) : fbs[i] < NumEntries
    BY <2>1, <2>3, <2>4
  <2>8. \A i \in 1 .. Len(fbs) : u[i] = fbs[i]
    BY <2>6, ListedIs
  <2>9. f \in -1 .. Len(fbs) - 1 /\ f \in Int
    BY <2>4
  <2> HIDE DEF f
  <2>10. t \in Globals /\ t.table = u /\ t.fbno = f
    BY <1>1, <2>5, <2>6, <2>9 DEF Globals, Cells
  <2>11. GlobalsInv(t)
    BY <2>6, <2>7, <2>8, <2>9, <2>10 DEF GlobalsInv
  <2>12. QED
    BY <2>2, <2>11 DEF t
<1>6. CASE c.op = "errorcheck"
  <2>1. c.on \in BOOLEAN
    BY <1>6 DEF Simples
  <2>2. QED
    BY <1>1, <1>6, <2>1 DEF Simple, GlobalsInv, Globals
<1>7. CASE c.op = "unknown"
  BY <1>1, <1>7 DEF Simple, GlobalsInv, Globals
<1>8. c.op \in {"kernel", "save", "savefallback", "unknown", "fallback", "errorcheck"}
  BY DEF Simples
<1>9. QED
  BY <1>2, <1>3, <1>4, <1>5, <1>6, <1>7, <1>8

\* The same of a command line.
LEMMA CommandKeeps ==
  ASSUME ConfigInv, Sound, NEW s, GlobalsInv(s), Current \in Nat,
         NEW c \in Commands, Given(c) \subseteq AllGiven
  PROVE  /\ GlobalsInv(Command(c, s))
         /\ Given(c) = {} => /\ Command(c, s).table = s.table
                             /\ Command(c, s).fbno = s.fbno
<1> DEFINE Same(a, b) == a.table = b.table /\ a.fbno = b.fbno
           s1 == [s EXCEPT !.err = FALSE]
<1>1. ASSUME NEW t, GlobalsInv(t)
      PROVE  /\ GlobalsInv([t EXCEPT !.err = FALSE]) /\ Same([t EXCEPT !.err = FALSE], t)
             /\ GlobalsInv([t EXCEPT !.err = TRUE]) /\ Same([t EXCEPT !.err = TRUE], t)
  BY <1>1 DEF GlobalsInv, Globals
<1>2. GlobalsInv(s1) /\ Same(s1, s)
  BY <1>1
<1>3. CASE c.op \notin {"and", "or"}
  <2>1. c \in Simples
    BY <1>3 DEF Commands
  <2>2. Command(c, s) = Simple(c, s1)
    BY <1>3 DEF Command
  <2> HIDE DEF s1
  <2>3. QED
    BY <1>2, <2>1, <2>2, SimpleKeeps
<1>4. CASE c.op \in {"and", "or"}
  <2> DEFINE one == Simple(c.first, s1)
             quiet == [one EXCEPT !.err = FALSE]
             failed == [s1 EXCEPT !.err = TRUE]
  <2>1. c.first \in Simples /\ c.second \in Simples
    BY <1>4 DEF Commands, Simples
  <2>2. \A t \in {c.first, c.second} : t.op \notin {"and", "or"}
    BY <2>1 DEF Simples
  <2>3. \A t \in {c.first, c.second} : Given(t) \subseteq Given(c)
    BY <1>4, <2>2 DEF Given
  <2>4. Command(c, s) \in {failed, quiet, Simple(c.second, quiet)}
    BY <1>4 DEF Command
  <2> HIDE DEF s1
  <2>5. Given(c.first) \subseteq AllGiven /\ Given(c.second) \subseteq AllGiven
    BY <2>3
  <2>6. GlobalsInv(one) /\ (Given(c.first) = {} => Same(one, s1))
    BY <1>2, <2>1, <2>5, SimpleKeeps
  <2> HIDE DEF one
  <2>7. GlobalsInv(quiet) /\ Same(quiet, one)
    BY <1>1, <2>6
  <2> HIDE DEF quiet
  <2> DEFINE two == Simple(c.second, quiet)
  <2>8. GlobalsInv(two) /\ (Given(c.second) = {} => Same(two, quiet))
    BY <2>1, <2>5, <2>7, SimpleKeeps
  <2>9. Given(c) = {} => Given(c.first) = {} /\ Given(c.second) = {}
    BY <2>3
  <2>10. Command(c, s) \in {failed, quiet, two}
    BY <2>4
  <2>11. GlobalsInv(failed) /\ Same(failed, s1)
    BY <1>1, <1>2
  <2> HIDE DEF two, failed
  <2>12. QED
    BY <1>2, <2>6, <2>7, <2>8, <2>9, <2>10, <2>11
<1>5. QED
  BY <1>3, <1>4

-----------------------------------------------------------------------------
(* What the configuration alone decides does not change.                   *)

LEMMA CfgStays ==
  ASSUME UNCHANGED cfg
  PROVE  /\ NumEntries' = NumEntries /\ AllGiven' = AllGiven
         /\ Sound' = Sound /\ Rearms' = Rearms
<1>1. NumEntries' = NumEntries /\ AllGiven' = AllGiven
  BY DEF NumEntries, AllGiven
<1>2. QED
  BY <1>1 DEF Sound, Rearms

LEMMA TableStays ==
  ASSUME UNCHANGED cfg
  PROVE  /\ Table' = Table
         /\ HasEndMark' = HasEndMark /\ DropsForever' = DropsForever
<1>1. NumEntries' = NumEntries
  BY CfgStays
<1>2. Table' = Table
  BY <1>1 DEF Table, Existing, FoldLeft, MapThenFoldSet, Keep
<1>3. HasEndMark' = HasEndMark
  BY DEF HasEndMark
<1>4. DropsForever' = DropsForever
  BY <1>1 DEF DropsForever, Last
<1>5. QED
  BY <1>2, <1>3, <1>4

LEMMA NextConfigInv ==
  ASSUME ConfigInv, [Next]_vars
  PROVE  ConfigInv' /\ UNCHANGED cfg
<1>1. UNCHANGED fixed
  BY DEF Next, System, Key, LoadConfig, LoadNeverEnds, Tick, RunCommand, RunEnds,
         RunFails, KeyHidden, KeyMove, KeyLine, Press, KeyBoot, KeyEdit, KeyContinue, Reset, vars
<1>2. attended' \in {attended, TRUE, FALSE}
  BY DEF Next, System, Key, LoadConfig, LoadNeverEnds, Tick, RunCommand, RunEnds,
         RunFails, KeyHidden, KeyMove, KeyLine, Press, KeyBoot, KeyEdit, KeyContinue, Reset, vars
<1>3. UNCHANGED <<cfg, health, writable>>
  BY <1>1 DEF fixed
<1>4. NumEntries' = NumEntries
  BY <1>3, CfgStays
<1>5. attended' \in BOOLEAN
  BY <1>2 DEF ConfigInv
<1>6. QED
  BY <1>3, <1>4, <1>5 DEF ConfigInv

-----------------------------------------------------------------------------
(* The clock and the keys.                                                 *)

\* A key is counted up to the number at which an arrow is stuck.
LEMMA CountIs ==
  ASSUME held \in -1 .. StuckHard, NEW k, NEW same \in BOOLEAN
  PROVE  Count(k, same) \in -1 .. StuckHard
  BY BootAssumption DEF Count

\* What every key that the menu goes on with does first.
LEMMA PressIs ==
  ASSUME KeyInv, NEW k \in {"arrow", "other"}, Press(k)
  PROVE  /\ held' \in -1 .. StuckHard /\ heldKey' \in {"arrow", "other"}
         /\ timeout' \in Int /\ (timeout' >= 0 => held' >= StuckSoft)
         /\ pc = "menu" /\ pc' = "menu" /\ g' = Unattended(g) /\ attended' = TRUE
         /\ UNCHANGED runVars
<1> USE DEF KeyInv, UserStopsClock
<1>1. PICK same \in BOOLEAN :
        /\ held' = Count(k, same)
        /\ heldKey' = IF held = 0 THEN k ELSE heldKey
        /\ timeout' = IF Stuck(k, Count(k, same)) THEN StuckTimeout ELSE -1
  BY DEF Press
<1>2. held' \in -1 .. StuckHard
  BY <1>1, CountIs
<1>3. Stuck(k, held') => held' >= StuckSoft
  BY <1>2, BootAssumption DEF Stuck
<1>4. timeout' = IF Stuck(k, held') THEN StuckTimeout ELSE -1
  BY <1>1
<1>5. heldKey' \in {"arrow", "other"}
  BY <1>1
<1>6. timeout' \in Int /\ (timeout' >= 0 => held' >= StuckSoft)
  BY <1>3, <1>4, BootAssumption
<1>7. /\ pc = "menu" /\ pc' = "menu" /\ g' = Unattended(g) /\ attended' = TRUE
      /\ UNCHANGED runVars
  BY DEF Press
<1>8. QED
  BY <1>2, <1>5, <1>6, <1>7

LEMMA NextKeyInv ==
  ASSUME KeyInv, ConfigInv, [Next]_vars
  PROVE  KeyInv'
<1> USE DEF KeyInv, UserStopsClock
<1>1. CASE LoadConfig
  <2>1. cfg.timeout \in Int
    BY CfgIs
  <2>2. QED
    BY <1>1, <2>1, BootAssumption DEF LoadConfig
<1>2. CASE LoadNeverEnds
  BY <1>2 DEF LoadNeverEnds, keyVars
<1>3. CASE Tick
  <2>1. pc' \in {pc, "run"} /\ timeout' = timeout - 1
    BY <1>3 DEF Tick, Begin
  <2>2. UNCHANGED <<held, heldKey>>
    BY <1>3 DEF Tick, keyVars
  <2>3. QED
    BY <2>1, <2>2
<1>4. CASE RunCommand
  BY <1>4 DEF RunCommand, keyVars
<1>5. CASE RunEnds
  <2>1. CASE ShowMenu /\ UNCHANGED timeout
    BY <2>1, BootAssumption DEF ShowMenu
  <2>2. CASE pc' = "started" /\ UNCHANGED <<timeout, keyVars>>
    BY <2>2 DEF keyVars
  <2>3. CASE Restart
    BY <2>3, BootAssumption DEF Restart
  <2>4. QED
    BY <1>5, <2>1, <2>2, <2>3 DEF RunEnds
<1>6. CASE RunFails
  <2>1. pc = "run" /\ pc' \in {"run", "prompt", "endless", "void"}
    BY <1>6 DEF RunFails, FallBack
  <2>2. UNCHANGED <<timeout, held, heldKey>>
    BY <1>6 DEF RunFails, keyVars
  <2>3. QED
    BY <2>1, <2>2
<1>7. CASE KeyHidden
  BY <1>7, BootAssumption DEF KeyHidden, ShowMenu
<1>8. CASE KeyMove \/ KeyLine
  <2>1. PICK k \in {"arrow", "other"} : Press(k)
    BY <1>8 DEF KeyMove, KeyLine
  <2>2. QED
    BY <2>1, PressIs
<1>9. CASE KeyBoot
  BY <1>9 DEF KeyBoot, Begin, keyVars
<1>10. CASE KeyEdit
  BY <1>10, BootAssumption DEF KeyEdit, ShowMenu
<1>11. CASE KeyContinue
  BY <1>11, BootAssumption DEF KeyContinue, ShowMenu
<1>12. CASE Reset
  BY <1>12, BootAssumption DEF Reset, Restart
<1>13. CASE UNCHANGED vars
  BY <1>13 DEF vars, keyVars
<1>14. QED
  BY <1>1, <1>2, <1>3, <1>4, <1>5, <1>6, <1>7, <1>8, <1>9, <1>10, <1>11, <1>12, <1>13
     DEF Next, System, Key

-----------------------------------------------------------------------------
(* Entries and fallback entries exist.                                     *)

LEMMA NoneGiven ==
  /\ <<>> \in Scripts
  /\ GivenIn(<<>>) = {}
  BY DEF GivenIn, Scripts

LEMMA TailGiven ==
  ASSUME NEW s \in Scripts, s # <<>>
  PROVE  /\ Head(s) \in Commands /\ Given(Head(s)) \subseteq GivenIn(s)
         /\ Tail(s) \in Scripts /\ GivenIn(Tail(s)) \subseteq GivenIn(s)
<1>1. s \in Seq(Commands) /\ Len(s) \in Nat /\ 1 \in 1 .. Len(s)
  BY DEF Scripts
<1>2. Head(s) = s[1] /\ s[1] \in Commands
  BY <1>1
<1>3. Given(s[1]) \subseteq GivenIn(s)
  BY <1>1 DEF GivenIn
<1>4. Tail(s) \in Seq(Commands) /\ Len(Tail(s)) = Len(s) - 1
      /\ \A i \in 1 .. Len(s) - 1 : Tail(s)[i] = s[i + 1]
  BY <1>1
<1>5. GivenIn(Tail(s)) \subseteq GivenIn(s)
  <2> DEFINE r == Tail(s)
  <2>1. \A i \in 1 .. Len(r) : i + 1 \in 1 .. Len(s) /\ r[i] = s[i + 1]
    BY <1>1, <1>4
  <2> HIDE DEF r
  <2>2. GivenIn(r) \subseteq GivenIn(s)
    BY <2>1 DEF GivenIn
  <2>3. QED
    BY <2>2 DEF r
<1>6. QED
  BY <1>2, <1>3, <1>4, <1>5 DEF Scripts

\* What the keys and a restart make of the globals.
LEMMA GlobalsStay ==
  ASSUME NEW s, GlobalsInv(s)
  PROVE  /\ GlobalsInv(NoKernel(s)) /\ GlobalsInv(Unattended(s))
         /\ NoKernel(s).table = s.table /\ Unattended(s).table = s.table
         /\ NoKernel(s).fbno = s.fbno /\ Unattended(s).fbno \in {s.fbno, -1}
<1> DEFINE l == Listed(s.table)
<1>1. /\ s \in Globals /\ s.table \in Cells
      /\ s.fbno \in -1 .. Len(l) - 1
      /\ s.fbno >= 0 => \A i \in 1 .. Len(l) : s.table[i] < NumEntries
  BY DEF GlobalsInv, Globals, Cells
<1>2. Len(l) \in Nat
  BY <1>1, ListedIs
<1>3. ASSUME NEW t \in Globals, t.table = s.table, t.fbno \in {s.fbno, -1}
      PROVE  GlobalsInv(t)
  <2>1. Listed(t.table) = l
    BY <1>3
  <2> HIDE DEF l
  <2>2. QED
    BY <1>1, <1>2, <1>3, <2>1 DEF GlobalsInv
<1> HIDE DEF l
<1>4. NoKernel(s) \in Globals /\ NoKernel(s).table = s.table
      /\ NoKernel(s).fbno = s.fbno
  BY <1>1 DEF NoKernel, Globals
<1>5. Unattended(s) \in Globals /\ Unattended(s).table = s.table
      /\ Unattended(s).fbno \in {s.fbno, -1}
  BY <1>1 DEF Unattended, Globals
<1>6. QED
  BY <1>3, <1>4, <1>5

\* The globals at power-on name no fallback entry.
LEMMA PowerOn ==
  ASSUME NEW n \in Nat
  PROVE  GlobalsInv([saved |-> n, kernel |-> FALSE, err |-> FALSE, errorcheck |-> TRUE,
                     table |-> NoTable, fbno |-> -1])
<1> DEFINE s == [saved |-> n, kernel |-> FALSE, err |-> FALSE, errorcheck |-> TRUE,
                 table |-> NoTable, fbno |-> -1]
<1>1. s \in Globals /\ s.table = NoTable /\ s.fbno = -1
  BY NoTableIs DEF Globals, Cells
<1> HIDE DEF s
<1>2. Len(Listed(NoTable)) = 0
  BY NoTableIs
<1>3. GlobalsInv(s)
  BY <1>1, <1>2 DEF GlobalsInv
<1>4. QED
  BY <1>3 DEF s

LEMMA ForgottenIs ==
  ASSUME GlobalsInv(g)
  PROVE  GlobalsInv(Forgotten)
<1>1. g.saved \in Nat
  BY DEF GlobalsInv, Globals
<1>2. QED
  BY <1>1, PowerOn DEF Forgotten

LEMMA GlobalsPrimed ==
  ASSUME UNCHANGED cfg, GlobalsInv(g')
  PROVE  GlobalsInv(g)'
  BY CfgStays DEF GlobalsInv

\* The place after another in a fallback list.
LEMMA AfterIs ==
  ASSUME NEW s \in Seq(Nat), NEW i \in -1 .. Len(s) - 1
  PROVE  /\ After(s, i) \in -1 .. Len(s) - 1
         /\ After(s, i) >= 0 => After(s, i) = i + 1
         /\ After(s, i) < 0 => i + 1 = Len(s)
  BY DEF After

\* What the fallback command of the configuration leaves.
LEMMA ConfiguredIs ==
  ASSUME ConfigInv, g.saved \in Nat
  PROVE  LET fbs == Fallbacks(cfg.fallback)  again == RepeatInside(cfg.fallback) IN
         /\ Configured \in Globals
         /\ ~again => Listed(Configured.table) = fbs
         /\ Configured.fbno = IF again \/ fbs = <<>> THEN -1 ELSE 0
<1> DEFINE fbs == Fallbacks(cfg.fallback)
           s == Fallback(cfg.fallback, Forgotten)
<1>1. Configured = [s EXCEPT !.err = FALSE]
  BY DEF Configured
<1>2. Forgotten \in Globals /\ Forgotten.table = NoTable /\ Forgotten.fbno = -1
  BY NoTableIs DEF Forgotten, Globals, Cells
<1>3. fbs \in Seq(Nat) /\ Len(fbs) <= MaxFallback
  BY CfgIs, FallbacksIs
<1>4. CASE RepeatInside(cfg.fallback)
  <2> DEFINE t == Over(NoTable, fbs)
  <2>1. s = [Forgotten EXCEPT !.table = t, !.err = TRUE]
    BY <1>2, <1>4 DEF Fallback
  <2>2. t \in Cells
    <3>1. fbs \in Seq(Nat \cup {-1})
      BY <1>3
    <3>2. QED
      BY <3>1, NoTableIs, OverIs
  <2> HIDE DEF fbs, t, s
  <2>3. s \in Globals /\ s.fbno = -1
    BY <1>2, <2>1, <2>2 DEF Globals, Cells
  <2>4. Configured \in Globals /\ Configured.fbno = -1
    BY <1>1, <2>3 DEF Globals
  <2>5. QED
    BY <1>4, <2>4
<1>5. CASE ~RepeatInside(cfg.fallback)
  <2> DEFINE t == Over(NoTable, Append(fbs, -1))
             n == IF fbs = <<>> THEN -1 ELSE 0
  <2>1. s = [Forgotten EXCEPT !.table = t, !.fbno = n]
    BY <1>2, <1>5 DEF Fallback
  <2>2. t \in Cells /\ Listed(t) = fbs
    BY <1>3, NoTableIs, ListGiven
  <2>3. n \in Int
    OBVIOUS
  <2> HIDE DEF fbs, t, s, n
  <2>4. s \in Globals /\ s.fbno = n /\ s.table = t
    BY <1>2, <2>1, <2>2, <2>3 DEF Globals, Cells
  <2>5. Configured \in Globals /\ Configured.fbno = n /\ Configured.table = t
    BY <1>1, <2>4 DEF Globals
  <2>6. QED
    BY <1>5, <2>2, <2>5 DEF fbs, n
<1>6. QED
  BY <1>4, <1>5

\* cmain: the entry that is highlighted and the globals at power-on.
LEMMA LoadConfigIs ==
  ASSUME ConfigInv, LoadConfig, g.saved \in Nat
  PROVE  /\ GlobalsInv(g') /\ ~DropsForever
         /\ RepeatInside(cfg.fallback) => g'.fbno = -1
         /\ ~RepeatInside(cfg.fallback) => Listed(g'.table) = Table
         /\ entry' \in 0 .. NumEntries - 1
         /\ \E k \in {0, 1} : /\ k <= Len(Table)
                              /\ k = 1 => entry' = Table[1]
                              /\ g'.fbno = IF k < Len(Table) THEN k ELSE -1
<1> DEFINE default == IF cfg.default.saved THEN g.saved ELSE cfg.default.num
           present == default < NumEntries
           again == RepeatInside(cfg.fallback)
           list0 == Fallbacks(cfg.fallback)
           s == Configured
           table == IF s.fbno >= 0 THEN Checked(s.table) ELSE s.table
           fbs == IF s.fbno >= 0 THEN Listed(table) ELSE <<>>
           no == IF Table = <<>> THEN -1 ELSE IF present THEN 0 ELSE After(Table, 0)
<1>1. ~DropsForever
  BY DEF LoadConfig
<1>2. /\ entry' = IF present THEN default ELSE IF fbs # <<>> THEN fbs[1] ELSE 0
      /\ g' = [s EXCEPT !.table = table,
                        !.fbno = IF fbs = <<>> THEN -1 ELSE IF present THEN 0 ELSE After(fbs, 0)]
  BY DEF LoadConfig
<1>3. /\ Table \in Seq(Nat) /\ Len(Table) <= MaxFallback
      /\ \A i \in 1 .. Len(Table) : Table[i] < NumEntries
  BY <1>1, TableIs
<1>4. NumEntries \in Nat \ {0} /\ default \in Nat /\ cfg.fallback \in Seq(Nat)
      /\ MaxFallback \in Nat \ {0}
  BY CfgIs, BootAssumption
<1>5. list0 \in Seq(Nat) /\ Len(list0) <= MaxFallback
  BY <1>4, FallbacksIs
<1>6. /\ s \in Globals /\ s.table \in Cells
      /\ ~again => Listed(s.table) = list0
      /\ s.fbno = IF again \/ list0 = <<>> THEN -1 ELSE 0
  BY ConfiguredIs DEF Globals, Cells
<1>7. Table = IF again THEN <<>> ELSE Existing(list0)
  BY DEF Table
<1> HIDE DEF default, again, list0, s
<1>8. table \in Cells /\ fbs = Table /\ (~again => Listed(table) = Table)
  <2>1. CASE again
    <3>1. s.fbno = -1
      BY <1>6, <2>1
    <3>2. QED
      BY <1>7, <1>6, <2>1, <3>1
  <2>2. CASE ~again /\ list0 = <<>>
    <3>1. s.fbno = -1
      BY <1>6, <2>2
    <3>2. Existing(list0) = <<>>
      <4>1. Kept(list0, FoldLeft(Keep, <<>>, list0), Len(list0))
        BY <1>4, <1>5, TableKept
      <4>2. FoldLeft(Keep, <<>>, list0) = <<>>
        BY <2>2, <4>1 DEF Kept
      <4>3. Len(list0) < MaxFallback
        BY <1>4, <2>2
      <4>4. QED
        BY <4>2, <4>3 DEF Existing
    <3>3. QED
      BY <1>7, <1>6, <2>2, <3>1, <3>2
  <2>3. CASE ~again /\ list0 # <<>>
    <3>1. s.fbno >= 0
      BY <1>6, <2>3
    <3>2. Checked(s.table) \in Cells /\ Listed(Checked(s.table)) = Existing(list0)
      BY <1>4, <1>6, <2>3, CheckedIs
    <3>3. QED
      BY <1>7, <2>3, <3>1, <3>2
  <2>4. QED
    BY <2>1, <2>2, <2>3
<1> HIDE DEF table, fbs
<1>9. entry' = IF present THEN default ELSE IF Table # <<>> THEN Table[1] ELSE 0
  BY <1>2, <1>8
<1>10. Len(Table) \in Nat /\ (Table # <<>> => Len(Table) > 0 /\ Table[1] \in Nat)
  BY <1>3
<1>11. Table = <<>> => Len(Table) = 0
  OBVIOUS
<1>12. no = IF Len(Table) = 0 THEN -1 ELSE IF present THEN 0
            ELSE IF 1 < Len(Table) THEN 1 ELSE -1
  BY <1>10, <1>11 DEF After
<1>13. no \in -1 .. Len(Table) - 1 /\ (again => no = -1)
  BY <1>7, <1>10, <1>11, <1>12
<1>14. g' \in Globals /\ g'.table = table /\ g'.fbno = no
  <2>1. g' = [s EXCEPT !.table = table, !.fbno = no]
    BY <1>2, <1>8
  <2>2. no \in Int
    BY <1>10, <1>13
  <2> HIDE DEF no
  <2>3. QED
    BY <1>6, <1>8, <2>1, <2>2 DEF Globals, Cells
<1>15. GlobalsInv(g')
  <2> HIDE DEF no
  <2>1. g' \in Globals
    BY <1>14
  <2>2. /\ Listed(table) \in Seq(Nat) /\ Len(Listed(table)) \in 0 .. MaxFallback
        /\ \A i \in 1 .. Len(Listed(table)) : Listed(table)[i] = table[i]
    BY <1>8, ListedIs
  <2>3. CASE no >= 0
    <3>1. Listed(table) = Table
      BY <1>8, <1>13, <2>3
    <3>2. QED
      BY <1>3, <1>13, <1>14, <2>1, <2>2, <3>1 DEF GlobalsInv
  <2>4. CASE ~(no >= 0)
    BY <1>13, <1>14, <2>1, <2>2, <2>4 DEF GlobalsInv
  <2>5. QED
    BY <2>3, <2>4
<1>16. entry' \in 0 .. NumEntries - 1
  BY <1>3, <1>4, <1>9, <1>10
<1>17. \E k \in {0, 1} : /\ k <= Len(Table)
                         /\ k = 1 => entry' = Table[1]
                         /\ g'.fbno = IF k < Len(Table) THEN k ELSE -1
  <2> DEFINE k == IF ~present /\ Len(Table) > 0 THEN 1 ELSE 0
  <2>1. k = 1 => entry' = Table[1]
    BY <1>9, <1>11
  <2>2. k \in {0, 1} /\ k <= Len(Table) /\ no = IF k < Len(Table) THEN k ELSE -1
    BY <1>10, <1>12
  <2>3. QED
    BY <1>14, <2>1, <2>2
<1>18. again => g'.fbno = -1
  BY <1>13, <1>14
<1>19. ~again => Listed(g'.table) = Table
  BY <1>8, <1>14
<1>20. QED
  BY <1>1, <1>15, <1>16, <1>17, <1>18, <1>19 DEF again

LEMMA BeginKeeps ==
  ASSUME ConfigInv, MenuInv, Begin
  PROVE  /\ pc' = "run" /\ running' = entry /\ fbcount' = 0 /\ tried' = <<entry>>
         /\ running' \in Nat /\ fbcount' \in Nat /\ tried' \in Seq(Nat)
         /\ todo' \in Scripts /\ GivenIn(todo') \subseteq AllGiven
<1>1. entry \in 0 .. NumEntries - 1 /\ entry \in Nat
  BY CfgIs DEF MenuInv
<1>2. todo' \in Scripts /\ GivenIn(todo') \subseteq AllGiven
  BY <1>1, EntryIs DEF Begin, MenuInv
<1>3. QED
  BY <1>1, <1>2 DEF Begin

LEMMA NextMenuInv ==
  ASSUME ConfigInv, Sound, MenuInv, [Next]_vars
  PROVE  MenuInv'
<1>1. UNCHANGED cfg /\ NumEntries' = NumEntries /\ AllGiven' = AllGiven
  BY NextConfigInv, CfgStays
<1>2. NumEntries \in Nat \ {0}
  BY CfgIs
<1>3. GlobalsInv(g) /\ g.saved \in Nat
  BY DEF MenuInv, GlobalsInv, Globals
<1>4. GlobalsInv(NoKernel(g)) /\ GlobalsInv(Unattended(g)) /\ GlobalsInv(NoKernel(Unattended(g)))
      /\ GlobalsInv(Forgotten)
  BY <1>3, GlobalsStay, ForgottenIs
<1>5. Current \in Nat
  BY <1>2 DEF MenuInv, Current
<1> DEFINE
      PcOK == pc' \in {"off", "hidden", "menu", "run", "prompt", "endless", "hung", "started"}
      MenuOK == entry' \in 0 .. NumEntries - 1 /\ line' \in Nat
      ListOK == list' \in Scripts /\ GivenIn(list') \subseteq AllGiven
      RunOK == /\ running' \in Nat /\ fbcount' \in Nat /\ tried' \in Seq(Nat)
               /\ todo' \in Scripts /\ GivenIn(todo') \subseteq AllGiven
<1>6. SUFFICES PcOK /\ MenuOK /\ ListOK /\ RunOK /\ GlobalsInv(g')
  <2>1. GivenIn(list)' = GivenIn(list') /\ GivenIn(todo)' = GivenIn(todo')
    BY DEF GivenIn
  <2>2. GlobalsInv(g') => GlobalsInv(g)'
    BY <1>1, GlobalsPrimed
  <2>3. QED
    BY <1>1, <2>1, <2>2 DEF MenuInv
<1>7. (UNCHANGED <<entry, line>> => MenuOK) /\ (UNCHANGED list => ListOK)
      /\ (UNCHANGED runVars => RunOK)
  BY DEF MenuInv, runVars
<1>8. EndScript => RunOK
  BY NoneGiven DEF EndScript
<1>9. ShowMenu => RunOK /\ PcOK
  BY <1>8 DEF ShowMenu
<1>10. Begin => RunOK /\ PcOK
  BY BeginKeeps
<1>11. Restart => PcOK /\ MenuOK /\ ListOK /\ RunOK /\ GlobalsInv(g')
  BY <1>2, <1>4, <1>8, NoneGiven DEF Restart
<1>12. CASE LoadConfig
  <2>1. GlobalsInv(g') /\ entry' \in 0 .. NumEntries - 1
    BY <1>3, <1>12, LoadConfigIs
  <2>2. PcOK /\ line' \in Nat /\ list' = <<>> /\ UNCHANGED runVars
    BY <1>12 DEF LoadConfig
  <2>3. QED
    BY <1>7, <2>1, <2>2, NoneGiven
<1>13. CASE LoadNeverEnds
  BY <1>3, <1>7, <1>13 DEF LoadNeverEnds, menuVars
<1>14. CASE Tick
  <2>1. MenuOK /\ ListOK
    BY <1>7, <1>14 DEF Tick, menuVars
  <2>2. CASE Begin /\ g' = NoKernel(g)
    BY <1>4, <1>10, <2>1, <2>2
  <2>3. CASE UNCHANGED <<pc, g, runVars>>
    BY <1>3, <1>7, <2>1, <2>3 DEF MenuInv
  <2>4. QED
    BY <1>14, <2>2, <2>3 DEF Tick
<1>15. CASE RunCommand
  <2>1. Head(todo) \in Commands /\ Given(Head(todo)) \subseteq AllGiven
        /\ Tail(todo) \in Scripts /\ GivenIn(Tail(todo)) \subseteq AllGiven
    BY <1>15, TailGiven DEF RunCommand, MenuInv
  <2>2. GlobalsInv(Command(Head(todo), g))
    BY <1>3, <1>5, <2>1, CommandKeeps
  <2>3. RunOK
    BY <1>15, <2>1 DEF RunCommand, MenuInv
  <2>4. MenuOK /\ ListOK /\ PcOK
    BY <1>7, <1>15 DEF RunCommand, menuVars, MenuInv
  <2>5. g' = Command(Head(todo), g)
    BY <1>15 DEF RunCommand
  <2>6. QED
    BY <2>2, <2>3, <2>4, <2>5
<1>16. CASE RunEnds
  <2>1. CASE ShowMenu /\ g' = NoKernel(g) /\ UNCHANGED menuVars
    BY <1>4, <1>7, <1>9, <2>1 DEF menuVars
  <2>2. CASE pc' = "started" /\ EndScript /\ UNCHANGED <<g, menuVars>>
    BY <1>3, <1>7, <1>8, <2>2 DEF menuVars
  <2>3. QED
    BY <1>11, <1>16, <2>1, <2>2 DEF RunEnds
<1>17. CASE RunFails
  <2>1. ListOK
    BY <1>7, <1>17 DEF RunFails
  <2>2. CASE g.fbno >= 0 /\ FallBack
    <3> DEFINE f == g.table[g.fbno + 1]  l == Listed(g.table)
    <3>0. /\ l \in Seq(Nat) /\ \A i \in 1 .. Len(l) : l[i] = g.table[i]
      <4>1. g.table \in Cells
        BY <1>3 DEF GlobalsInv, Globals, Cells
      <4>2. QED
        BY <4>1, ListedIs
    <3>1. g.fbno \in 0 .. Len(l) - 1 /\ \A i \in 1 .. Len(l) : g.table[i] < NumEntries
      BY <1>3, <2>2, <3>0 DEF GlobalsInv
    <3> HIDE DEF l
    <3>2. f \in Nat /\ f < NumEntries
      <4>1. g.fbno + 1 \in 1 .. Len(l)
        BY <3>0, <3>1
      <4>2. QED
        BY <3>0, <3>1, <4>1
    <3>3. GlobalsInv([NoKernel(g) EXCEPT !.fbno = After(l, g.fbno)])
      <4> DEFINE s == NoKernel(g)  n == After(l, g.fbno)
      <4>1. n \in -1 .. Len(l) - 1
        <5>1. g.fbno \in -1 .. Len(l) - 1
          BY <3>0, <3>1
        <5>2. QED
          BY <3>0, <5>1, AfterIs
      <4>2. GlobalsInv(s) /\ s.table = g.table
        BY <1>3, GlobalsStay
      <4> HIDE DEF s, n
      <4>3. GlobalsInv([s EXCEPT !.fbno = n])
        <5> DEFINE t == [s EXCEPT !.fbno = n]
        <5>1. s \in Globals /\ n \in Int
          BY <3>1, <4>1, <4>2 DEF GlobalsInv
        <5>2. t \in Globals /\ t.table = s.table /\ t.fbno = n
          BY <5>1 DEF Globals
        <5> HIDE DEF t
        <5>3. Listed(t.table) = l
          BY <4>2, <5>2 DEF l
        <5>4. GlobalsInv(t)
          BY <3>1, <4>1, <4>2, <5>2, <5>3 DEF GlobalsInv
        <5>5. QED
          BY <5>4 DEF t
      <4>4. QED
        BY <4>3 DEF s, n
    <3>4. GlobalsInv(g')
      BY <2>2, <3>3 DEF FallBack, l
    <3>5. f \in 0 .. NumEntries - 1
      BY <1>2, <3>2
    <3>6. cfg.entries[f + 1] \in Scripts /\ GivenIn(cfg.entries[f + 1]) \subseteq AllGiven
      BY <3>5, EntryIs
    <3>7. IF InList THEN line' = f /\ UNCHANGED entry ELSE entry' = f /\ UNCHANGED line
      BY <2>2 DEF FallBack
    <3>8. /\ fbcount' = fbcount + 1 /\ running' = f
          /\ \/ pc' = "endless" /\ UNCHANGED <<todo, tried>>
             \/ todo' = cfg.entries[f + 1] /\ tried' = Append(tried, f) /\ pc' = pc
      <4>1. ~(f >= NumEntries)
        BY <1>2, <3>2
      <4>2. fbcount' = fbcount + 1 /\ running' = f
        BY <2>2 DEF FallBack
      <4>3. IF fbcount + 1 > Shown THEN pc' = "endless" /\ UNCHANGED <<todo, tried>>
            ELSE IF f >= NumEntries THEN pc' = "void" /\ UNCHANGED <<todo, tried>>
            ELSE todo' = cfg.entries[f + 1] /\ tried' = Append(tried, f) /\ UNCHANGED pc
        BY <2>2 DEF FallBack
      <4> HIDE DEF f
      <4>4. QED
        BY <4>1, <4>2, <4>3
    <3> HIDE DEF f
    <3>9. MenuOK
      BY <3>2, <3>5, <3>7 DEF MenuInv
    <3>10. RunOK /\ PcOK
      <4>1. tried \in Seq(Nat) /\ fbcount \in Nat /\ todo \in Scripts
            /\ GivenIn(todo) \subseteq AllGiven
        BY DEF MenuInv
      <4>2. Append(tried, f) \in Seq(Nat)
        BY <3>2, <4>1
      <4>3. PcOK
        BY <3>8 DEF MenuInv
      <4>4. running' \in Nat /\ fbcount' \in Nat
        BY <3>2, <3>8, <4>1
      <4>5. CASE UNCHANGED <<todo, tried>>
        BY <4>1, <4>3, <4>4, <4>5
      <4>6. CASE todo' = cfg.entries[f + 1] /\ tried' = Append(tried, f)
        <5>1. tried' \in Seq(Nat)
          BY <4>2, <4>6
        <5>2. todo' \in Scripts /\ GivenIn(todo') \subseteq AllGiven
          BY <3>6, <4>6
        <5>3. QED
          BY <4>3, <4>4, <5>1, <5>2
      <4>7. QED
        BY <3>8, <4>5, <4>6
    <3>11. QED
      BY <2>1, <3>4, <3>9, <3>10
  <2>3. CASE pc' = "prompt" /\ g' = NoKernel(g) /\ UNCHANGED <<entry, line, runVars>>
    BY <1>4, <1>7, <2>1, <2>3
  <2>4. QED
    BY <1>17, <2>2, <2>3 DEF RunFails
<1>18. CASE KeyHidden
  BY <1>3, <1>7, <1>9, <1>18 DEF KeyHidden, menuVars
<1>19. CASE KeyMove \/ KeyLine
  <2>1. RunOK /\ PcOK /\ g' = Unattended(g)
    BY <1>7, <1>19 DEF KeyMove, KeyLine, Press, MenuInv
  <2>2. CASE KeyMove
    <3>1. \/ line' \in 0 .. Len(list) - 1 /\ UNCHANGED entry
          \/ entry' \in 0 .. NumEntries - 1 /\ UNCHANGED line
      BY <2>2 DEF KeyMove
    <3>2. MenuOK /\ ListOK
      BY <1>7, <2>2, <3>1 DEF KeyMove, MenuInv, Scripts
    <3>3. QED
      BY <1>4, <2>1, <3>2
  <2>3. CASE KeyLine
    <3>1. list' \in Scripts /\ GivenIn(list') \subseteq AllGiven
      BY <2>3, ConfigAssumption DEF KeyLine, AllGiven
    <3>2. Len(list') \in Nat
      BY <3>1 DEF Scripts
    <3>3. MenuOK
      BY <2>3, <3>2 DEF KeyLine, MenuInv
    <3>4. QED
      BY <1>4, <2>1, <3>1, <3>3
  <2>4. QED
    BY <1>19, <2>2, <2>3
<1>20. CASE KeyBoot
  BY <1>4, <1>7, <1>10, <1>20 DEF KeyBoot, menuVars
<1>21. CASE KeyEdit
  <2>1. RunOK /\ PcOK /\ g' = Unattended(g) /\ UNCHANGED entry
    BY <1>9, <1>21 DEF KeyEdit
  <2>2. CASE list' = cfg.entries[entry + 1] /\ line' = 0
    <3>1. entry \in 0 .. NumEntries - 1
      BY DEF MenuInv
    <3>2. ListOK
      BY <2>2, <3>1, EntryIs
    <3>3. MenuOK
      BY <2>1, <2>2, <3>1
    <3>4. QED
      BY <1>4, <2>1, <3>2, <3>3
  <2>3. CASE list' \in Edits /\ line' \in 0 .. Len(list') - 1
    <3>1. list' \in Scripts /\ GivenIn(list') \subseteq AllGiven
      BY <2>3, ConfigAssumption DEF AllGiven
    <3>2. Len(list') \in Nat
      BY <3>1 DEF Scripts
    <3>3. MenuOK
      BY <2>1, <2>3, <3>2 DEF MenuInv
    <3>4. QED
      BY <1>4, <2>1, <3>1, <3>3
  <2>4. CASE list' = <<>> /\ line' = 0
    BY <1>4, <2>1, <2>4, NoneGiven DEF MenuInv
  <2>5. QED
    BY <1>21, <2>2, <2>3, <2>4 DEF KeyEdit
<1>22. CASE KeyContinue
  BY <1>3, <1>7, <1>9, <1>22 DEF KeyContinue, menuVars
<1>23. CASE Reset
  BY <1>11, <1>23 DEF Reset
<1>24. CASE UNCHANGED vars
  BY <1>3, <1>7, <1>24 DEF vars, menuVars, MenuInv
<1>25. QED
  BY <1>12, <1>13, <1>14, <1>15, <1>16, <1>17, <1>18, <1>19, <1>20, <1>21, <1>22, <1>23, <1>24
     DEF Next, System, Key

-----------------------------------------------------------------------------
(* Unattended booting, when no script gives another table.                 *)

LEMMA NoneSound ==
  ASSUME ~Rearms
  PROVE  Sound /\ AllGiven = {}
  BY DEF Rearms, Sound

LEMMA CommandStays ==
  ASSUME ConfigInv, ~Rearms, MenuInv, RunCommand
  PROVE  g'.table = g.table /\ g'.fbno = g.fbno
<1>1. Sound /\ AllGiven = {} /\ NumEntries \in Nat
  BY NoneSound, CfgIs
<1>2. Head(todo) \in Commands /\ Given(Head(todo)) = {}
  BY <1>1, TailGiven DEF RunCommand, MenuInv
<1>3. GlobalsInv(g) /\ Current \in Nat
  BY <1>1 DEF MenuInv, Current
<1>4. Given(Head(todo)) \subseteq AllGiven
  BY <1>2
<1>5. g' = Command(Head(todo), g)
  BY DEF RunCommand
<1>6. QED
  BY <1>1, <1>2, <1>3, <1>4, <1>5, CommandKeeps

\* The table and the place in it tell which entries are to come.
LEMMA NextTableInv ==
  ASSUME ConfigInv, ~Rearms, MenuInv, TableInv, [Next]_vars
  PROVE  TableInv'
<1> DEFINE again == RepeatInside(cfg.fallback)
<1>1. UNCHANGED cfg /\ Table' = Table /\ DropsForever' = DropsForever
  BY NextConfigInv, TableStays
<1>2. GlobalsInv(g) /\ g.saved \in Nat
  BY DEF MenuInv, GlobalsInv, Globals
<1>3. /\ NoKernel(g).table = g.table /\ NoKernel(g).fbno = g.fbno
      /\ Unattended(g).table = g.table /\ Unattended(g).fbno \in {g.fbno, -1}
      /\ NoKernel(Unattended(g)).table = g.table
      /\ NoKernel(Unattended(g)).fbno \in {g.fbno, -1}
  BY <1>2, GlobalsStay
<1>4. ASSUME pc \notin {"off", "hung"}, g'.table = g.table,
             again => g'.fbno \in {g.fbno, -1}
      PROVE  TableInv'
  BY <1>1, <1>4 DEF TableInv
<1>5. Restart => TableInv'
  BY DEF Restart, TableInv
<1>6. CASE LoadConfig
  <2>1. /\ ~DropsForever
        /\ RepeatInside(cfg.fallback) => g'.fbno = -1
        /\ ~RepeatInside(cfg.fallback) => Listed(g'.table) = Table
    BY <1>2, <1>6, LoadConfigIs
  <2>2. QED
    BY <1>1, <2>1 DEF TableInv
<1>7. CASE LoadNeverEnds
  BY <1>7 DEF LoadNeverEnds, TableInv
<1>8. CASE Tick
  <2>1. g' \in {g, NoKernel(g)}
    BY <1>8 DEF Tick
  <2>2. QED
    BY <1>3, <1>4, <1>8, <2>1 DEF Tick
<1>9. CASE RunCommand
  BY <1>4, <1>9, CommandStays DEF RunCommand
<1>10. CASE RunEnds
  <2>1. Restart \/ g' \in {g, NoKernel(g)}
    BY <1>10 DEF RunEnds
  <2>2. QED
    BY <1>3, <1>4, <1>5, <1>10, <2>1 DEF RunEnds
<1>11. CASE RunFails
  <2>1. pc = "run"
    BY <1>11 DEF RunFails
  <2>2. CASE g' = NoKernel(g)
    BY <1>3, <1>4, <2>1, <2>2
  <2>3. CASE g.fbno >= 0 /\ FallBack
    <3>1. ~again
      BY <2>1, <2>3 DEF TableInv
    <3> DEFINE s == NoKernel(g)  n == After(Listed(g.table), g.fbno)
    <3>2. g' = [s EXCEPT !.fbno = n]
      BY <2>3 DEF FallBack
    <3>3. s \in Globals /\ s.table = g.table
      BY <1>2, GlobalsStay DEF GlobalsInv
    <3> HIDE DEF s, n
    <3>4. g'.table = g.table
      BY <3>2, <3>3 DEF Globals
    <3>5. QED
      BY <1>4, <2>1, <3>1, <3>4
  <2>4. QED
    BY <1>11, <2>2, <2>3 DEF RunFails
<1>12. CASE KeyHidden
  BY <1>4, <1>12 DEF KeyHidden
<1>13. CASE KeyMove \/ KeyLine
  BY <1>3, <1>4, <1>13 DEF KeyMove, KeyLine, Press
<1>14. CASE KeyBoot
  BY <1>3, <1>4, <1>14 DEF KeyBoot
<1>15. CASE KeyEdit
  BY <1>3, <1>4, <1>15 DEF KeyEdit
<1>16. CASE KeyContinue
  BY <1>4, <1>16 DEF KeyContinue
<1>17. CASE Reset
  BY <1>5, <1>17 DEF Reset
<1>18. CASE UNCHANGED vars
  BY <1>1, <1>18 DEF vars, TableInv
<1>19. QED
  BY <1>6, <1>7, <1>8, <1>9, <1>10, <1>11, <1>12, <1>13, <1>14, <1>15, <1>16, <1>17, <1>18
     DEF Next, System, Key

\* The next fallback entry is in the table, if there is one.
LEMMA NextFallback ==
  ASSUME ConfigInv, MenuInv, TableInv, pc \notin {"off", "hung"}
  PROVE  /\ g.fbno \in -1 .. Len(Table) - 1
         /\ g.fbno >= 0 => Listed(g.table) = Table
<1>1. GlobalsInv(g)
  BY DEF MenuInv
<1>2. CASE RepeatInside(cfg.fallback)
  <2>1. g.fbno = -1 /\ Table = <<>>
    BY <1>2 DEF TableInv, Table
  <2>2. Len(Table) = 0
    BY <2>1
  <2>3. QED
    BY <2>1, <2>2
<1>3. CASE ~RepeatInside(cfg.fallback)
  <2>1. Listed(g.table) = Table
    BY <1>3 DEF TableInv
  <2> HIDE DEF Table
  <2>2. QED
    BY <1>1, <2>1 DEF GlobalsInv
<1>4. QED
  BY <1>2, <1>3

\* What a fallback step does when the table is the configuration's: the next
\* entry of the table runs, unless the loop has gone on for too long.
LEMMA FallBackIs ==
  ASSUME ConfigInv, MenuInv, TableInv, pc = "run", g.fbno >= 0, FallBack
  PROVE  LET f == Table[g.fbno + 1] IN
         /\ g.fbno \in 0 .. Len(Table) - 1 /\ f \in Nat
         /\ fbcount' = fbcount + 1
         /\ g'.fbno = After(Table, g.fbno)
         /\ \/ pc' = "endless" /\ tried' = tried /\ fbcount + 1 > Shown
            \/ pc' = "run" /\ tried' = Append(tried, f)
<1>1. Listed(g.table) = Table
  BY NextFallback
<1>2. GlobalsInv(g) /\ NumEntries \in Nat /\ g.table \in Cells
  BY CfgIs DEF MenuInv, GlobalsInv, Globals, Cells
<1>3. /\ Table \in Seq(Nat) /\ g.fbno \in 0 .. Len(Table) - 1
      /\ \A i \in 1 .. Len(Table) : Table[i] = g.table[i] /\ g.table[i] < NumEntries
  <2>1. /\ Listed(g.table) \in Seq(Nat)
        /\ \A i \in 1 .. Len(Listed(g.table)) : Listed(g.table)[i] = g.table[i]
    BY <1>2, ListedIs
  <2> HIDE DEF Table
  <2>2. QED
    BY <1>1, <1>2, <2>1 DEF GlobalsInv
<1> DEFINE f == Table[g.fbno + 1]
<1>4. f \in Nat /\ f < NumEntries /\ g.table[g.fbno + 1] = f
  <2> HIDE DEF Table
  <2>1. g.fbno + 1 \in 1 .. Len(Table)
    BY <1>3
  <2>2. QED
    BY <1>3, <2>1
<1>5. g' = [NoKernel(g) EXCEPT !.fbno = After(Table, g.fbno)] /\ fbcount' = fbcount + 1
  BY <1>1 DEF FallBack
<1>6. IF fbcount + 1 > Shown THEN pc' = "endless" /\ UNCHANGED <<todo, tried>>
      ELSE IF f >= NumEntries THEN pc' = "void" /\ UNCHANGED <<todo, tried>>
      ELSE todo' = cfg.entries[f + 1] /\ tried' = Append(tried, f) /\ UNCHANGED pc
  <2> DEFINE f0 == g.table[g.fbno + 1]
  <2>1. IF fbcount + 1 > Shown THEN pc' = "endless" /\ UNCHANGED <<todo, tried>>
        ELSE IF f0 >= NumEntries THEN pc' = "void" /\ UNCHANGED <<todo, tried>>
        ELSE todo' = cfg.entries[f0 + 1] /\ tried' = Append(tried, f0) /\ UNCHANGED pc
    BY DEF FallBack
  <2>2. f0 = f
    BY <1>4
  <2> HIDE DEF f0, f
  <2>3. QED
    BY <2>1, <2>2
<1>7. g'.fbno = After(Table, g.fbno)
  <2> DEFINE s == NoKernel(g)  n == After(Table, g.fbno)
  <2>1. s \in Globals
    BY <1>2, GlobalsStay DEF GlobalsInv
  <2> HIDE DEF s, n
  <2>2. [s EXCEPT !.fbno = n].fbno = n
    BY <2>1 DEF Globals
  <2>3. QED
    BY <1>5, <2>2 DEF s, n
<1> HIDE DEF f
<1>8. ~(f >= NumEntries)
  BY <1>2, <1>4
<1>9. \/ pc' = "endless" /\ tried' = tried /\ fbcount + 1 > Shown
      \/ pc' = "run" /\ tried' = Append(tried, f)
  BY <1>6, <1>8
<1>10. QED
  BY <1>3, <1>4, <1>5, <1>7, <1>9 DEF f

LEMMA TableHere ==
  ASSUME ConfigInv, TableInv, pc \notin {"off", "hung"}
  PROVE  Table \in Seq(Nat) /\ Len(Table) \in Nat
<1>1. ~DropsForever
  BY DEF TableInv, DropsForever
<1>2. Table \in Seq(Nat)
  BY <1>1, TableIs
<1>3. QED
  BY <1>2

\* An entry that is begun is the first of a run through the table from k on.
LEMMA BeginTries ==
  ASSUME ConfigInv, MenuInv, TableInv, UNCHANGED cfg, pc \notin {"off", "hung"}, Begin,
         NEW k \in 0 .. Len(Table), g'.fbno >= 0 => g'.fbno = k,
         ~attended' => /\ k = 0 \/ (k = 1 /\ entry = Table[1])
                       /\ g'.fbno < 0 => k = Len(Table)
  PROVE  RunInv'
<1>1. Table' = Table
  BY TableStays
<1>2. pc' = "run" /\ fbcount' = 0 /\ tried' = <<entry>>
  BY BeginKeeps
<1>3. Len(tried') = 1 /\ tried'[1] = entry /\ tried' # <<>>
  BY <1>2
<1>4. Len(Table) \in Nat
  BY TableHere
<1>5. k + Len(tried') - 1 = k
  BY <1>3, <1>4
<1>6. 1 .. Len(tried') - 1 = {}
  BY <1>3
<1>7. Tries(k)'
  <2> HIDE DEF Table
  <2>1. k + Len(tried') - 1 <= Len(Table)
    BY <1>4, <1>5
  <2>2. QED
    BY <1>1, <1>2, <1>3, <1>5, <1>6, <2>1 DEF Tries
<1>8. QED
  BY <1>1, <1>2, <1>3, <1>7 DEF RunInv

LEMMA NextRunInv ==
  ASSUME ConfigInv, ~Rearms, MenuInv, TableInv, RunInv, FreshInv, [Next]_vars
  PROVE  RunInv'
<1>1. UNCHANGED cfg /\ Table' = Table /\ ConfigInv'
  BY NextConfigInv, TableStays
<1>2. GlobalsInv(g) /\ tried \in Seq(Nat) /\ attended \in BOOLEAN
  BY DEF MenuInv, ConfigInv
<1>3. ASSUME tried' = <<>>, pc' \notin {"run", "prompt", "endless"} PROVE RunInv'
  BY <1>3 DEF RunInv
<1>4. ShowMenu \/ Restart => RunInv'
  BY <1>3 DEF ShowMenu, Restart, EndScript
<1>5. pc \notin {"run", "prompt", "endless"} => tried = <<>>
  BY DEF RunInv
<1>6. CASE LoadConfig
  BY <1>3, <1>5, <1>6 DEF LoadConfig, runVars
<1>7. CASE LoadNeverEnds
  BY <1>3, <1>5, <1>7 DEF LoadNeverEnds, runVars
<1>8. CASE Tick
  <2>1. pc \in {"hidden", "menu"} /\ timeout >= 0 /\ attended' = attended
    BY <1>8 DEF Tick
  <2>2. CASE Begin /\ g' = NoKernel(g)
    <3>1. g'.fbno = g.fbno /\ g.fbno \in -1 .. Len(Table) - 1 /\ Len(Table) \in Nat
      <4>1. g'.fbno = g.fbno
        BY <1>2, <2>2, GlobalsStay
      <4>2. QED
        BY <2>1, <4>1, TableHere, NextFallback
    <3>2. PICK k \in 0 .. Len(Table) :
            /\ g'.fbno >= 0 => g'.fbno = k
            /\ ~attended => /\ k = 0 \/ (k = 1 /\ entry = Table[1])
                            /\ g'.fbno < 0 => k = Len(Table)
      <4>1. CASE attended
        <5>1. CASE g.fbno >= 0
          BY <3>1, <4>1, <5>1
        <5>2. CASE ~(g.fbno >= 0)
          BY <3>1, <4>1, <5>2
        <5>3. QED
          BY <5>1, <5>2
      <4>2. CASE ~attended
        <5>1. PICK k \in {0, 1} :
                /\ k <= Len(Table)
                /\ k = 1 => entry = Table[1]
                /\ g.fbno = IF k < Len(Table) THEN k ELSE -1
          BY <2>1, <4>2 DEF FreshInv
        <5> HIDE DEF Table
        <5>2. k \in 0 .. Len(Table) /\ (g'.fbno >= 0 => g'.fbno = k)
              /\ (g'.fbno < 0 => k = Len(Table))
          BY <3>1, <5>1
        <5>3. QED
          BY <5>1, <5>2
      <4>3. QED
        BY <4>1, <4>2
    <3>3. QED
      BY <1>1, <2>1, <2>2, <3>2, BeginTries
  <2>3. CASE UNCHANGED <<pc, g, runVars>>
    BY <1>3, <1>5, <2>1, <2>3 DEF runVars
  <2>4. QED
    BY <1>8, <2>2, <2>3 DEF Tick
<1>9. CASE RunCommand
  <2>1. g'.fbno = g.fbno /\ UNCHANGED <<pc, tried, fbcount, attended>>
    BY <1>9, CommandStays DEF RunCommand
  <2>2. \A k : Tries(k) => Tries(k)'
    BY <1>1, <2>1 DEF Tries
  <2>3. QED
    BY <1>1, <2>1, <2>2 DEF RunInv
<1>10. CASE RunEnds
  <2>1. ShowMenu \/ Restart \/ (pc' = "started" /\ EndScript)
    BY <1>10 DEF RunEnds
  <2>2. QED
    BY <1>3, <1>4, <2>1 DEF EndScript
<1>11. CASE RunFails
  <2>1. pc = "run" /\ attended' = attended
    BY <1>11 DEF RunFails
  <2>2. Table \in Seq(Nat) /\ Len(Table) \in Nat
    BY <2>1, TableHere
  <2>3. PICK k \in 0 .. Len(Table) : Tries(k)
    BY <2>1 DEF RunInv
  <2>4. tried # <<>> /\ Len(tried) \in Nat \ {0}
    BY <1>2, <2>1 DEF RunInv
  <2> HIDE DEF Table
  <2>5. CASE g.fbno >= 0 /\ FallBack
    <3> DEFINE f == Table[g.fbno + 1]
    <3>1. /\ g.fbno \in 0 .. Len(Table) - 1 /\ f \in Nat
          /\ fbcount' = fbcount + 1 /\ g'.fbno = After(Table, g.fbno)
          /\ \/ pc' = "endless" /\ tried' = tried
             \/ pc' = "run" /\ tried' = Append(tried, f)
      BY <2>1, <2>5, FallBackIs
    <3>2. g.fbno = k + Len(tried) - 1 /\ fbcount = Len(tried) - 1
      BY <2>1, <2>3, <2>5 DEF Tries
    <3>3. CASE pc' = "endless" /\ tried' = tried
      <4>1. Tries(k)'
        BY <1>1, <2>1, <2>3, <3>3 DEF Tries
      <4>2. QED
        BY <1>1, <2>3, <2>4, <3>3, <4>1 DEF RunInv
    <3>4. CASE pc' = "run" /\ tried' = Append(tried, f)
      <4> DEFINE n == After(Table, g.fbno)  m == Len(tried)
      <4>1. /\ n \in -1 .. Len(Table) - 1
            /\ n >= 0 => n = g.fbno + 1
            /\ n < 0 => g.fbno + 1 = Len(Table)
        <5>1. g.fbno \in -1 .. Len(Table) - 1
          BY <2>2, <3>1
        <5>2. QED
          BY <2>2, <5>1, AfterIs
      <4> HIDE DEF n
      <4>2. /\ Len(tried') = m + 1 /\ tried' # <<>> /\ tried'[m + 1] = f
            /\ \A i \in 1 .. m : tried'[i] = tried[i]
        BY <1>2, <3>1, <3>4
      <4>3. k + Len(tried') - 1 = g.fbno + 1 /\ m \in Nat \ {0}
        BY <2>2, <2>4, <3>1, <3>2, <4>2
      <4>4. k + Len(tried') - 1 <= Len(Table)
        BY <2>2, <3>1, <4>3
      <4>5. ASSUME NEW i \in 1 .. Len(tried') - 1 PROVE tried'[i + 1] = Table[k + i]
        <5>1. CASE i = m
          <6>1. g.fbno + 1 = k + m
            BY <2>2, <3>1, <3>2, <4>3
          <6>2. QED
            BY <4>2, <5>1, <6>1
        <5>2. CASE i \in 1 .. m - 1
          <6>1. i + 1 \in 1 .. m
            BY <4>3, <5>2
          <6>2. QED
            BY <2>3, <4>2, <5>2, <6>1 DEF Tries
        <5>3. i = m \/ i \in 1 .. m - 1
          BY <4>2, <4>3
        <5>4. QED
          BY <5>1, <5>2, <5>3
      <4>6. fbcount' = Len(tried') - 1
        BY <3>1, <3>2, <4>2, <4>3
      <4>7. g'.fbno = n
        BY <3>1 DEF n
      <4>8. g'.fbno >= 0 => g'.fbno = k + Len(tried') - 1
        BY <2>2, <3>1, <4>1, <4>3, <4>7
      <4>9. g'.fbno < 0 => k + Len(tried') - 1 = Len(Table)
        BY <4>1, <4>3, <4>7
      <4>10. ~attended => k = 0 \/ (k = 1 /\ tried'[1] = Table[1])
        <5>1. tried'[1] = tried[1]
          BY <4>2, <4>3
        <5>2. QED
          BY <2>3, <5>1 DEF Tries
      <4>11. Tries(k)'
        BY <1>1, <2>1, <3>4, <4>4, <4>5, <4>6, <4>8, <4>9, <4>10 DEF Tries
      <4>12. QED
        BY <1>1, <2>3, <3>4, <4>2, <4>11 DEF RunInv
    <3>5. QED
      BY <3>1, <3>3, <3>4
  <2>6. CASE /\ ~(g.fbno >= 0) /\ pc' = "prompt" /\ g' = NoKernel(g)
             /\ UNCHANGED <<entry, line, runVars>>
    <3>1. tried' = tried
      BY <2>6 DEF runVars
    <3>2. g.fbno < 0
      BY <1>2, <2>6 DEF GlobalsInv, Globals
    <3>3. Tries(k)'
      BY <1>1, <2>1, <2>3, <2>6, <3>1, <3>2 DEF Tries
    <3>4. QED
      BY <1>1, <2>3, <2>4, <2>6, <3>1, <3>3 DEF RunInv
  <2>7. QED
    BY <1>11, <2>5, <2>6 DEF RunFails
<1>12. CASE KeyHidden
  BY <1>4, <1>12 DEF KeyHidden
<1>13. CASE KeyMove \/ KeyLine
  BY <1>3, <1>5, <1>13 DEF KeyMove, KeyLine, Press, runVars
<1>14. CASE KeyBoot
  <2>1. pc = "menu" /\ Begin /\ attended' = TRUE /\ g' = NoKernel(Unattended(g))
    BY <1>14 DEF KeyBoot
  <2>2. g.fbno \in -1 .. Len(Table) - 1 /\ Len(Table) \in Nat
    BY <2>1, TableHere, NextFallback
  <2>3. g'.fbno \in -1 .. Len(Table) - 1
    <3>1. GlobalsInv(Unattended(g)) /\ Unattended(g).fbno \in {g.fbno, -1}
      BY <1>2, GlobalsStay
    <3>2. g'.fbno \in {g.fbno, -1}
      BY <2>1, <3>1, GlobalsStay
    <3> HIDE DEF Table
    <3>3. QED
      BY <2>2, <3>2
  <2>4. PICK k \in 0 .. Len(Table) : g'.fbno >= 0 => g'.fbno = k
    <3> HIDE DEF Table
    <3>1. CASE g'.fbno >= 0
      BY <2>2, <2>3, <3>1
    <3>2. CASE ~(g'.fbno >= 0)
      BY <2>2, <3>2
    <3>3. QED
      BY <3>1, <3>2
  <2>5. QED
    BY <1>1, <2>1, <2>4, BeginTries
<1>15. CASE KeyEdit
  BY <1>4, <1>15 DEF KeyEdit
<1>16. CASE KeyContinue
  BY <1>4, <1>16 DEF KeyContinue
<1>17. CASE Reset
  BY <1>4, <1>17 DEF Reset
<1>18. CASE UNCHANGED vars
  <2>1. UNCHANGED <<pc, g, tried, fbcount, attended>>
    BY <1>18 DEF vars, runVars
  <2>2. \A k : Tries(k) => Tries(k)'
    BY <1>1, <2>1 DEF Tries
  <2>3. QED
    BY <1>1, <2>1, <2>2 DEF RunInv
<1>19. QED
  BY <1>6, <1>7, <1>8, <1>9, <1>10, <1>11, <1>12, <1>13, <1>14, <1>15, <1>16, <1>17, <1>18
     DEF Next, System, Key

LEMMA NextFreshInv ==
  ASSUME ConfigInv, KeyInv, ~Rearms, MenuInv, FreshInv, [Next]_vars
  PROVE  FreshInv'
<1>1. UNCHANGED cfg /\ Table' = Table
  BY NextConfigInv, TableStays
<1>2. GlobalsInv(g) /\ g.saved \in Nat /\ timeout \in Int
  BY DEF MenuInv, GlobalsInv, Globals, KeyInv
<1>3. ASSUME pc' \notin {"run", "hidden", "menu"} PROVE FreshInv'
  BY <1>3 DEF FreshInv
<1>4. ASSUME attended' PROVE FreshInv'
  BY <1>4 DEF FreshInv
<1>5. ASSUME pc = "run", attended' = attended, timeout' = timeout PROVE FreshInv'
  BY <1>2, <1>5 DEF FreshInv
<1>6. CASE LoadConfig
  <2>1. PICK k \in {0, 1} : /\ k <= Len(Table)
                            /\ k = 1 => entry' = Table[1]
                            /\ g'.fbno = IF k < Len(Table) THEN k ELSE -1
    BY <1>2, <1>6, LoadConfigIs
  <2>2. pc' \in {"hidden", "menu"}
    BY <1>6 DEF LoadConfig
  <2>3. QED
    BY <1>1, <2>1, <2>2 DEF FreshInv
<1>7. CASE LoadNeverEnds
  BY <1>3, <1>7 DEF LoadNeverEnds
<1>8. CASE Tick
  <2>1. pc \in {"hidden", "menu"} /\ timeout >= 0 /\ timeout' = timeout - 1
        /\ UNCHANGED <<attended, entry>>
    BY <1>8 DEF Tick, menuVars
  <2>2. CASE timeout = 0 /\ Begin
    BY <2>1, <2>2 DEF FreshInv, Begin
  <2>3. CASE UNCHANGED <<pc, g, runVars>>
    BY <1>1, <2>1, <2>3 DEF FreshInv
  <2>4. QED
    BY <1>8, <2>2, <2>3 DEF Tick
<1>9. CASE RunCommand
  BY <1>5, <1>9 DEF RunCommand
<1>10. CASE RunEnds
  <2>1. CASE Restart
    BY <1>3, <2>1 DEF Restart
  <2>2. CASE ShowMenu /\ UNCHANGED timeout
    BY <1>5, <1>10, <2>2 DEF RunEnds
  <2>3. CASE pc' = "started"
    BY <1>3, <2>3
  <2>4. QED
    BY <1>10, <2>1, <2>2, <2>3 DEF RunEnds
<1>11. CASE RunFails
  BY <1>5, <1>11 DEF RunFails
<1>12. CASE Key
  BY <1>4, <1>12 DEF Key, KeyHidden, KeyMove, KeyLine, Press, KeyBoot, KeyEdit, KeyContinue
<1>13. CASE Reset
  BY <1>4, <1>13 DEF Reset
<1>14. CASE UNCHANGED vars
  BY <1>1, <1>14 DEF vars, menuVars, FreshInv
<1>15. QED
  BY <1>6, <1>7, <1>8, <1>9, <1>10, <1>11, <1>12, <1>13, <1>14 DEF Next, System

LEMMA NextEndlessInv ==
  ASSUME ConfigInv, ~Rearms, MenuInv, TableInv, RunInv, EndlessInv, [Next]_vars
  PROVE  EndlessInv'
<1>1. UNCHANGED cfg /\ HasEndMark' = HasEndMark
  BY NextConfigInv, TableStays
<1>2. ASSUME pc' # "endless" PROVE EndlessInv'
  BY <1>2 DEF EndlessInv
<1>3. CASE RunFails
  <2>1. pc = "run" /\ UNCHANGED list
    BY <1>3 DEF RunFails
  <2>2. SUFFICES ASSUME pc' = "endless", HasEndMark, ~InList PROVE FALSE
    BY <1>1, <2>1 DEF EndlessInv, InList
  <2>3. g.fbno >= 0 /\ FallBack
    BY <1>3, <2>2 DEF RunFails
  <2>4. g.fbno \in 0 .. Len(Table) - 1 /\ fbcount + 1 > Shown
    BY <2>1, <2>2, <2>3, FallBackIs
  <2>5. Table \in Seq(Nat) /\ Len(Table) \in Nat
    BY <2>1, TableHere
  <2>6. PICK k \in 0 .. Len(Table) : Tries(k)
    BY <2>1 DEF RunInv
  <2>7. g.fbno = k + Len(tried) - 1 /\ fbcount = Len(tried) - 1
    BY <2>1, <2>3, <2>6 DEF Tries
  <2>8. Shown = NumEntries /\ NumEntries \in Nat
    BY <2>2, CfgIs DEF Shown
  <2>9. Len(Table) <= NumEntries
    <3>1. ~DropsForever
      BY <2>1 DEF TableInv, DropsForever
    <3>2. NoTwice(Table) /\ \A i \in 1 .. Len(Table) : Table[i] < NumEntries
      BY <2>2, <3>1, TableIs
    <3>3. QED
      BY <2>5, <2>8, <3>2, NoMoreThanEntries
  <2>10. Len(tried) \in Nat
    BY DEF MenuInv
  <2> HIDE DEF Table, Shown
  <2>11. QED
    BY <2>4, <2>5, <2>6, <2>7, <2>8, <2>9, <2>10
<1>4. CASE LoadConfig
  BY <1>2, <1>4 DEF LoadConfig
<1>5. CASE LoadNeverEnds
  BY <1>2, <1>5 DEF LoadNeverEnds
<1>6. CASE Tick
  BY <1>2, <1>6 DEF Tick, Begin
<1>7. CASE RunCommand
  BY <1>2, <1>7 DEF RunCommand
<1>8. CASE RunEnds
  BY <1>2, <1>8 DEF RunEnds, ShowMenu, Restart
<1>9. CASE Key
  BY <1>2, <1>9
     DEF Key, KeyHidden, KeyMove, KeyLine, Press, KeyBoot, KeyEdit, KeyContinue, ShowMenu, Begin
<1>10. CASE Reset
  BY <1>2, <1>10 DEF Reset, Restart
<1>11. CASE UNCHANGED vars
  BY <1>1, <1>11 DEF vars, menuVars, EndlessInv, InList
<1>12. QED
  BY <1>3, <1>4, <1>5, <1>6, <1>7, <1>8, <1>9, <1>10, <1>11 DEF Next, System

-----------------------------------------------------------------------------
(* The theorems.                                                           *)

LEMMA InitIInv ==
  ASSUME Init
  PROVE  IInv
<1>1. ConfigInv
  BY DEF Init, ConfigInv
<1>2. NumEntries \in Nat \ {0}
  BY <1>1, CfgIs
<1>3. KeyInv
  BY BootAssumption DEF Init, KeyInv, UserStopsClock
<1>4. GlobalsInv(g)
  <2>1. 0 \in Nat
    OBVIOUS
  <2>2. QED
    BY <2>1, PowerOn DEF Init
<1>5. MenuInv
  BY <1>2, <1>4, NoneGiven DEF Init, MenuInv
<1>6. TableInv /\ RunInv /\ FreshInv /\ EndlessInv
  BY DEF Init, TableInv, RunInv, FreshInv, EndlessInv
<1>7. QED
  BY <1>1, <1>3, <1>5, <1>6 DEF IInv

LEMMA NextIInv ==
  ASSUME IInv, [Next]_vars
  PROVE  IInv'
<1>1. ConfigInv /\ KeyInv /\ ConfigInv' /\ KeyInv' /\ UNCHANGED cfg
  BY NextConfigInv, NextKeyInv DEF IInv
<1>2. Sound' = Sound /\ Rearms' = Rearms
  BY <1>1, CfgStays
<1>3. Sound' => MenuInv'
  BY <1>1, <1>2, NextMenuInv DEF IInv
<1>4. ASSUME ~Rearms' PROVE TableInv' /\ RunInv' /\ FreshInv' /\ EndlessInv'
  <2>1. ~Rearms /\ Sound
    BY <1>2, <1>4, NoneSound
  <2>2. MenuInv /\ TableInv /\ RunInv /\ FreshInv /\ EndlessInv
    BY <2>1 DEF IInv
  <2>3. QED
    BY <1>1, <2>1, <2>2, NextTableInv, NextRunInv, NextFreshInv, NextEndlessInv
<1>5. QED
  BY <1>1, <1>3, <1>4 DEF IInv

\* IInv is an invariant of booting, whatever the configuration says and the
\* user does (cmain, run_menu, run_script).
THEOREM Invariance == Spec => []IInv
<1>1. Init => IInv
  BY InitIInv
<1>2. IInv /\ [Next]_vars => IInv'
  BY NextIInv
<1>3. QED
  BY <1>1, <1>2, PTL DEF Spec

\* A user who pressed a key is not overtaken by the clock of run_menu, for
\* every number of repeats after which a key counts as stuck.
THEOREM UserIsNotOvertaken == Spec => []UserStopsClock
<1>1. IInv => UserStopsClock
  BY DEF IInv, KeyInv
<1>2. QED
  BY <1>1, Invariance, PTL

\* cmain's check of the fallback list is enough: if the scripts name only
\* entries that exist, only entries that exist are run, over any number of
\* reboots, saved defaults and edited lists.
THEOREM OnlyEntriesRun == Spec => [](Sound => EntryExists)
<1>1. ASSUME IInv, Sound PROVE EntryExists
  <2>1. MenuInv /\ KeyInv /\ ConfigInv /\ NumEntries \in Nat
    BY <1>1, CfgIs DEF IInv
  <2>2. /\ g \in Globals /\ g.table \in Cells
        /\ g.fbno \in -1 .. Len(Listed(g.table)) - 1
    BY <2>1 DEF MenuInv, GlobalsInv, Globals, Cells
  <2>3. g.saved \in Nat /\ {g.kernel, g.err, g.errorcheck} \subseteq BOOLEAN
    BY <2>2 DEF Globals
  <2>4. g.fbno \in -1 .. MaxFallback - 1 /\ g.fbno < Len(Listed(g.table))
        /\ g.table \in [1 .. MaxFallback -> Int]
    <3>1. Len(Listed(g.table)) \in 0 .. MaxFallback
      BY <2>2, ListedIs
    <3>2. g.table \in [1 .. MaxFallback -> Int]
      BY <2>2 DEF Cells
    <3>3. QED
      BY <2>2, <3>1, <3>2, BootAssumption
  <2>5. entry \in 0 .. NumEntries - 1 /\ entry \in Nat /\ entry < NumEntries
    BY <2>1 DEF MenuInv
  <2>6. attended \in BOOLEAN /\ writable \in BOOLEAN
    BY <2>1 DEF ConfigInv
  <2>7. TypeOK
    BY <2>1, <2>3, <2>4, <2>5, <2>6 DEF TypeOK, MenuInv, KeyInv
  <2>8. QED
    BY <2>1, <2>5, <2>7 DEF EntryExists, MenuInv
<1>2. QED
  BY <1>1, Invariance, PTL

\* Unattended booting tries every fallback entry of the configuration before
\* it gives up, and none of them twice; if a number comes twice inside the
\* list, fallback_func fails and none is tried (run_script).
THEOREM EveryFallbackIsTried == Spec => []FallbacksTried
<1>1. ASSUME IInv PROVE FallbacksTried
  <2>1. SUFFICES ASSUME ~Rearms PROVE FallbacksTried
    BY DEF FallbacksTried, UnattendedTriesAll, TriedOnce
  <2>2. ConfigInv /\ MenuInv /\ TableInv /\ RunInv /\ EndlessInv
    BY <1>1, <2>1, NoneSound DEF IInv
  <2>3. tried \in Seq(Nat) /\ Len(tried) \in Nat
    BY <2>2 DEF MenuInv
  <2>4. ASSUME tried # <<>>
        PROVE  /\ Table \in Seq(Nat) /\ Len(Table) \in Nat /\ Len(tried) > 0
               /\ ~DropsForever
               /\ \E k \in 0 .. Len(Table) : Tries(k)
    <3>1. pc \in {"run", "prompt", "endless"}
      BY <2>2, <2>4 DEF RunInv
    <3>2. QED
      BY <2>2, <2>3, <2>4, <3>1, TableHere DEF RunInv, TableInv, DropsForever
  <2>5. UnattendedTriesAll
    <3>0. RepeatInside(cfg.fallback) => Len(tried) <= 1
      <4> SUFFICES ASSUME RepeatInside(cfg.fallback), tried # <<>> PROVE Len(tried) <= 1
        BY <2>3
      <4>1. Table = <<>>
        BY DEF Table
      <4>2. PICK k \in 0 .. Len(Table) : Tries(k)
        BY <2>4
      <4>3. k + Len(tried) - 1 <= Len(Table) /\ Len(Table) = 0
        BY <4>1, <4>2 DEF Tries
      <4> HIDE DEF Table
      <4>4. QED
        BY <2>3, <4>2, <4>3
    <3> SUFFICES ASSUME ~RepeatInside(cfg.fallback), pc = "prompt", ~attended,
                        Len(cfg.fallback) <= MaxFallback, NEW n \in Promised
                 PROVE  n \in ToSet(tried)
      BY <3>0 DEF UnattendedTriesAll
    <3>1. tried # <<>>
      BY <2>2 DEF RunInv
    <3>2. PICK k \in 0 .. Len(Table) : Tries(k)
      BY <2>4, <3>1
    <3>3. /\ k + Len(tried) - 1 = Len(Table)
          /\ k = 0 \/ (k = 1 /\ tried[1] = Table[1])
          /\ \A i \in 1 .. Len(tried) - 1 : tried[i + 1] = Table[k + i]
      BY <3>2 DEF Tries
    <3>4. Table \in Seq(Nat) /\ Len(Table) \in Nat /\ Len(tried) > 0
      BY <2>4, <3>1
    <3>5. Promised \subseteq ToSet(Table)
      BY <2>2, <2>4, <3>1, TableIs
    <3>6. PICK j \in 1 .. Len(Table) : Table[j] = n
      BY <3>4, <3>5 DEF ToSet
    <3> HIDE DEF Table
    <3>7. CASE j <= k
      <4>1. tried[1] = n
        BY <3>3, <3>4, <3>6, <3>7
      <4>2. QED
        BY <2>3, <3>4, <4>1 DEF ToSet
    <3>8. CASE k < j
      <4>1. j - k \in 1 .. Len(tried) - 1 /\ k + (j - k) = j
        BY <2>3, <3>2, <3>3, <3>4, <3>8
      <4>2. tried[(j - k) + 1] = n /\ (j - k) + 1 \in 1 .. Len(tried)
        <5>1. tried[(j - k) + 1] = Table[k + (j - k)]
          BY <3>3, <4>1
        <5>2. tried[(j - k) + 1] = n
          BY <3>6, <4>1, <5>1
        <5>3. (j - k) + 1 \in 1 .. Len(tried)
          BY <2>3, <4>1
        <5>4. QED
          BY <5>2, <5>3
      <4>3. QED
        BY <2>3, <4>2 DEF ToSet
    <3>9. QED
      BY <3>2, <3>4, <3>7, <3>8
  <2>6. TriedOnce
    <3> SUFFICES ASSUME ~InList, tried # <<>>, HasEndMark
                 PROVE  IsInjective(Tail(tried)) /\ pc # "endless"
      BY DEF TriedOnce, HasEndMark
    <3>1. /\ Table \in Seq(Nat) /\ Len(Table) \in Nat /\ Len(tried) > 0 /\ ~DropsForever
          /\ \E k \in 0 .. Len(Table) : Tries(k)
      BY <2>4
    <3>2. PICK k \in 0 .. Len(Table) : Tries(k)
      BY <3>1
    <3>3. NoTwice(Table)
      BY <2>2, <3>1, TableIs
    <3>4. /\ k + Len(tried) - 1 <= Len(Table)
          /\ \A i \in 1 .. Len(tried) - 1 : tried[i + 1] = Table[k + i]
      BY <3>2 DEF Tries
    <3> DEFINE r == Tail(tried)
    <3>5. Len(r) = Len(tried) - 1 /\ DOMAIN r = 1 .. Len(tried) - 1
          /\ \A i \in 1 .. Len(tried) - 1 : r[i] = tried[i + 1]
      BY <2>3, <3>1
    <3> HIDE DEF Table, r
    <3>6. \A i, j \in 1 .. Len(tried) - 1 : r[i] = r[j] => i = j
      <4> SUFFICES ASSUME NEW i \in 1 .. Len(tried) - 1, NEW j \in 1 .. Len(tried) - 1,
                          r[i] = r[j]
                   PROVE  i = j
        OBVIOUS
      <4>1. Table[k + i] = Table[k + j]
        BY <3>4, <3>5
      <4>2. k + i \in 1 .. Len(Table) /\ k + j \in 1 .. Len(Table)
        <5> DEFINE n == Len(tried)  m == Len(Table)
        <5>1. k + n - 1 <= m /\ k \in 0 .. m /\ i \in 1 .. n - 1 /\ j \in 1 .. n - 1
              /\ n \in Nat /\ m \in Nat
          BY <2>3, <3>1, <3>2, <3>4
        <5> HIDE DEF n, m
        <5>2. k + i \in 1 .. m /\ k + j \in 1 .. m
          BY <5>1
        <5>3. QED
          BY <5>2 DEF m
      <4>3. k + i = k + j
        BY <3>3, <4>1, <4>2 DEF NoTwice
      <4>4. QED
        BY <3>1, <3>2, <4>3
    <3>7. IsInjective(r)
      BY <3>5, <3>6 DEF IsInjective
    <3>8. pc # "endless"
      BY <2>2 DEF EndlessInv
    <3>9. QED
      BY <3>7, <3>8 DEF r
  <2>7. QED
    BY <2>5, <2>6 DEF FallbacksTried
<1>2. QED
  BY <1>1, Invariance, PTL

=============================================================================
