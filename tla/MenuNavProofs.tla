--------------------------- MODULE MenuNavProofs ----------------------------
(***************************************************************************)
(* Theorems about the highlight of the menu, for every height of the box,  *)
(* every number of entries and every set of titles that boot nothing.      *)
(***************************************************************************)
EXTENDS MenuNav, FiniteSetTheorems, TLAPS

-----------------------------------------------------------------------------
\* A finite set of integers that is not empty has a least element: the sets of
\* its elements up to x are ordered by inclusion, which is well-founded.
LEMMA MinIsLeast ==
  ASSUME NEW S \in SUBSET Int, S # {}, IsFiniteSet(S)
  PROVE  Min(S) \in S /\ \A y \in S : Min(S) <= y
<1> DEFINE UpTo(x) == {y \in S : y <= x}
           Cones == {UpTo(x) : x \in S}
<1>1. Cones \subseteq FiniteSubsetsOf(S)
  <2>1. \A x \in S : UpTo(x) \in FiniteSubsetsOf(S)
    BY FS_Subset DEF FiniteSubsetsOf
  <2>2. QED
    BY <2>1
<1>2. \A x \in S : UpTo(x) \in Cones
  OBVIOUS
<1>3. Cones # {}
  BY <1>2
<1>4. \E least \in Cones : \A c \in Cones : <<c, least>> \notin StrictSubsetOrdering(S)
  <2> HIDE DEF Cones
  <2>1. IsWellFoundedOn(StrictSubsetOrdering(S), FiniteSubsetsOf(S))
    BY FS_StrictSubsetOrderingWellFounded
  <2>2. QED
    BY <1>1, <1>3, <2>1, WFMin
<1>5. PICK m \in S : \A c \in Cones : <<c, UpTo(m)>> \notin StrictSubsetOrdering(S)
  BY <1>4
<1>6. ASSUME NEW y \in S, y < m PROVE FALSE
  <2> HIDE DEF Cones
  <2>1. m \in UpTo(m) /\ m \notin UpTo(y)
    BY <1>6
  <2>2. \A z \in S : z <= y => z <= m
    BY <1>6
  <2>3. UpTo(y) \subseteq UpTo(m)
    BY <2>2
  <2>4. <<UpTo(y), UpTo(m)>> \in StrictSubsetOrdering(S)
    BY <2>1, <2>3 DEF StrictSubsetOrdering
  <2>5. QED
    BY <1>2, <1>5, <2>4
<1>7. \A y \in S : m <= y
  BY <1>6
<1>8. QED
  BY <1>7 DEF Min

\* The larger of two numbers.
LEMMA MaxOfTwo ==
  ASSUME NEW a \in Int, NEW b \in Int
  PROVE  Max({a, b}) = IF a >= b THEN a ELSE b
<1>1. PICK x \in {a, b} : x = (IF a >= b THEN a ELSE b) /\ \A y \in {a, b} : x >= y
  OBVIOUS
<1>2. QED
  BY <1>1 DEF Max

USE NavAssumption DEF NavAssumption

-----------------------------------------------------------------------------
(* The cursor of a menu of n entries is on an entry and in sight.          *)
Shown(c, n) ==
  /\ c \in Cursor
  /\ c.first >= 0 /\ c.entry >= 0
  /\ c.first + c.entry < n
  /\ ~dumb => c.entry < BoxH

(* The inductive invariant: the menu that is shown, and the main menu that *)
(* waits while a list is shown.  An empty list has the cursor of a list of *)
(* one line.                                                               *)
IInv ==
  /\ TypeOK
  /\ HighlightOnScreen
  /\ menu # "astray" => Shown(cur, IF num = 0 THEN 1 ELSE num)
  /\ menu = "main" => num > 0
  /\ menu = "list" => Shown(outer.cur, outer.num)

\* An index is put together again from its page and its line.
LEMMA PageAndLine ==
  ASSUME NEW t \in Nat
  PROVE  \E p \in Nat, q \in 0 .. BoxH - 1 :
           p = (t \div BoxH) * BoxH /\ q = t % BoxH /\ p + q = t
<1>1. t \div BoxH \in Nat /\ t % BoxH \in 0 .. BoxH - 1
  OBVIOUS
<1>2. BoxH * (t \div BoxH) + (t % BoxH) = t
  OBVIOUS
<1>3. (t \div BoxH) * BoxH = BoxH * (t \div BoxH) /\ BoxH * (t \div BoxH) \in Nat
  BY <1>1
<1>4. QED
  BY <1>1, <1>2, <1>3

\* A cursor with another first entry, and with another line.
LEMMA FirstMoved ==
  ASSUME NEW c \in Cursor, NEW p \in Int, NEW d, d = [c EXCEPT !.first = p]
  PROVE  d \in Cursor /\ d.first = p /\ d.entry = c.entry
BY DEF Cursor

LEMMA EntryMoved ==
  ASSUME NEW c \in Cursor, NEW q \in Int, NEW d, d = [c EXCEPT !.entry = q]
  PROVE  d \in Cursor /\ d.first = c.first /\ d.entry = q
BY DEF Cursor

LEMMA CursorNumbers ==
  ASSUME NEW c \in Cursor
  PROVE  c.first \in Int /\ c.entry \in Int /\ c.temp \in Nat
BY DEF Cursor

\* check_update shows the entry it is asked for.
LEMMA UpdatedShows ==
  ASSUME TypeOK, num > 0, Shown(cur, num), NEW t \in 0 .. num - 1
  PROVE  Shown(Updated(cur, t), num) /\ Updated(cur, t).first + Updated(cur, t).entry = t
<1> DEFINE temp == IF t * 10 >= num THEN 0 ELSE t
           there == IF t = cur.first + cur.entry THEN cur
                    ELSE IF t < cur.first \/ t >= cur.first + BoxH
                      THEN [cur EXCEPT !.first = (t \div BoxH) * BoxH, !.entry = t % BoxH]
                      ELSE [cur EXCEPT !.entry = t - cur.first]
<1>1. there \in Cursor /\ there.first >= 0 /\ there.entry >= 0
      /\ there.first + there.entry = t /\ (~dumb => there.entry < BoxH)
  <2>1. CASE t = cur.first + cur.entry
    BY <2>1 DEF TypeOK, Shown
  <2>2. CASE t # cur.first + cur.entry /\ (t < cur.first \/ t >= cur.first + BoxH)
    <3>1. PICK p \in Nat, q \in 0 .. BoxH - 1 :
            p = (t \div BoxH) * BoxH /\ q = t % BoxH /\ p + q = t
      BY PageAndLine
    <3>2. there = [cur EXCEPT !.first = p, !.entry = q]
      BY <2>2, <3>1
    <3> HIDE DEF there
    <3>3. cur \in Cursor /\ p \in Int /\ q \in Int
      BY DEF TypeOK
    <3>4. LET d == [cur EXCEPT !.first = p, !.entry = q]
          IN  d \in Cursor /\ d.first = p /\ d.entry = q
      BY <3>3 DEF Cursor
    <3>5. there \in Cursor /\ there.first = p /\ there.entry = q
      BY <3>2, <3>4
    <3>6. QED
      BY <3>1, <3>5
  <2>3. CASE t # cur.first + cur.entry /\ t >= cur.first /\ t < cur.first + BoxH
    BY <2>3 DEF TypeOK, Cursor, Shown
  <2>4. QED
    BY <2>1, <2>2, <2>3 DEF TypeOK, Cursor
<1>2. Updated(cur, t) = [there EXCEPT !.temp = temp] /\ temp \in Nat
  BY DEF Updated, TypeOK
<1>3. QED
  BY <1>1, <1>2 DEF Shown, Cursor, TypeOK

\* The menu is drawn with the highlighted entry on the screen.
LEMMA RestartedShows ==
  ASSUME NEW c \in Cursor, c.first >= 0, c.entry >= 0, dumb \in BOOLEAN,
         NEW n \in Nat, c.first + c.entry < n
  PROVE  Shown(Restarted(c), n)
BY DEF Restarted, Shown, Cursor

\* The arrow keys stop at a selectable entry, or stay where they are.
LEMMA SeekShows ==
  ASSUME TypeOK, num > 0, Shown(cur, num), NEW d \in Nat
  PROVE  /\ Shown(Seek(d), num)
         /\ LET there == Seek(d).first + Seek(d).entry
            IN  there = Highlight \/ Selectable(there)
<1> DEFINE At(i) == (Highlight + i * d) % num
           hits == {i \in 1 .. num - 1 : Selectable(At(i))}
<1>1. Highlight \in Nat /\ num \in Nat \ {0} /\ cur \in Cursor
  BY DEF Highlight, Shown, Cursor, TypeOK
<1>2. \A i \in Nat : At(i) \in 0 .. num - 1
  <2>1. ASSUME NEW i \in Nat PROVE At(i) \in 0 .. num - 1
    <3>1. i * d \in Nat
      OBVIOUS
    <3>2. Highlight + i * d \in Nat
      BY <1>1, <3>1
    <3>3. QED
      BY <1>1, <3>2
  <2>2. QED
    BY <2>1
<1>3. CASE hits = {}
  <2>1. Seek(d) = [cur EXCEPT !.temp = Highlight]
    BY <1>3 DEF Seek
  <2>2. Seek(d) \in Cursor /\ Seek(d).first = cur.first /\ Seek(d).entry = cur.entry
    BY <1>1, <2>1 DEF Cursor
  <2>3. QED
    BY <2>2 DEF Shown, Highlight
<1>4. CASE hits # {}
  <2>1. hits \in SUBSET Int /\ IsFiniteSet(hits)
    <3>1. IsFiniteSet(1 .. num - 1) /\ hits \subseteq 1 .. num - 1
      BY <1>1, FS_Interval
    <3> HIDE DEF hits
    <3>2. hits \in SUBSET (1 .. num - 1)
      BY <3>1
    <3>3. IsFiniteSet(hits)
      BY <3>1, <3>2, FS_Subset
    <3>4. QED
      BY <3>2, <3>3
  <2>2. Min(hits) \in hits
    <3> HIDE DEF hits
    <3>1. QED
      BY <1>4, <2>1, MinIsLeast
  <2>3. At(Min(hits)) \in 0 .. num - 1 /\ Selectable(At(Min(hits)))
    <3> HIDE DEF At
    <3>1. \A i \in hits : i \in Nat /\ Selectable(At(i))
      OBVIOUS
    <3> HIDE DEF hits
    <3>2. QED
      BY <1>2, <2>2, <3>1
  <2>4. Seek(d) = Updated(cur, At(Min(hits)))
    BY <1>4 DEF Seek
  <2>5. Shown(Updated(cur, At(Min(hits))), num)
        /\ Updated(cur, At(Min(hits))).first + Updated(cur, At(Min(hits))).entry = At(Min(hits))
    <3> HIDE DEF At, hits
    <3>1. QED
      BY <2>3, UpdatedShows
  <2>6. QED
    <3> HIDE DEF At, hits
    <3>1. QED
      BY <2>3, <2>4, <2>5
<1>5. QED
  BY <1>3, <1>4

\* What is known of the cursor before a key is pressed.
LEMMA CursorShown ==
  ASSUME TypeOK, num > 0, Shown(cur, num)
  PROVE  /\ cur.first \in Nat /\ cur.entry \in Nat /\ num \in Nat
         /\ cur.first + cur.entry < num
         /\ ~dumb => cur.entry < BoxH
         /\ Highlight = cur.first + cur.entry
         /\ Cleared \in Cursor /\ Cleared.first = cur.first /\ Cleared.entry = cur.entry
         /\ Shown(Cleared, num)
<1>1. cur \in Cursor /\ num \in Nat
  BY DEF TypeOK
<1>2. Cleared \in Cursor /\ Cleared.first = cur.first /\ Cleared.entry = cur.entry
  BY <1>1 DEF Cleared, Cursor
<1>3. cur.first \in Int /\ cur.entry \in Int
  BY <1>1, CursorNumbers
<1>4. QED
  BY <1>1, <1>2, <1>3 DEF Shown, Highlight

\* The line keys, the page keys and the digits.
LEMMA LinesShow ==
  ASSUME TypeOK, num > 0, Shown(cur, num)
  PROVE  Shown(Cleared, num) /\ Shown(OneBack, num) /\ Shown(OneOn, num)
<1>1. Shown(Updated(cur, num - 1), num) /\ Shown(Updated(cur, 0), num)
  BY UpdatedShows DEF TypeOK
<1>2. /\ cur.first \in Nat /\ cur.entry \in Nat /\ num \in Nat
      /\ cur.first + cur.entry < num
      /\ ~dumb => cur.entry < BoxH
      /\ Highlight = cur.first + cur.entry
  BY CursorShown
<1>3. Cleared \in Cursor /\ Cleared.first = cur.first /\ Cleared.entry = cur.entry
  BY CursorShown
<1>4. Shown(Cleared, num)
  BY CursorShown
<1>5. /\ cur.first - 1 \in Int /\ cur.entry - 1 \in Int
      /\ cur.first + 1 \in Int /\ cur.entry + 1 \in Int
  BY <1>2
<1>6. Shown(OneBack, num)
  <2>1. CASE cur.entry > 0
    <3>1. OneBack = [Cleared EXCEPT !.entry = cur.entry - 1]
      BY <1>3, <2>1 DEF OneBack
    <3>2. OneBack \in Cursor /\ OneBack.first = cur.first /\ OneBack.entry = cur.entry - 1
      BY <1>3, <1>5, <3>1, EntryMoved
    <3>3. QED
      BY <1>2, <2>1, <3>2 DEF Shown
  <2>2. CASE ~(cur.entry > 0) /\ ~dumb /\ cur.first > 0
    <3>1. OneBack = [Cleared EXCEPT !.first = cur.first - 1]
      BY <1>3, <2>2 DEF OneBack
    <3>2. OneBack \in Cursor /\ OneBack.first = cur.first - 1 /\ OneBack.entry = cur.entry
      BY <1>3, <1>5, <3>1, FirstMoved
    <3>3. QED
      BY <1>2, <2>2, <3>2 DEF Shown
  <2>3. CASE ~(cur.entry > 0) /\ (dumb \/ ~(cur.first > 0))
    BY <1>1, <1>4, <2>3 DEF OneBack
  <2>4. QED
    BY <2>1, <2>2, <2>3
<1>7. Shown(OneOn, num)
  <2>1. CASE ~(Highlight + 1 >= num) /\ (dumb \/ cur.entry < BoxH - 1)
    <3>1. OneOn = [Cleared EXCEPT !.entry = cur.entry + 1]
      BY <1>3, <2>1 DEF OneOn
    <3>2. OneOn \in Cursor /\ OneOn.first = cur.first /\ OneOn.entry = cur.entry + 1
      BY <1>3, <1>5, <3>1, EntryMoved
    <3>3. QED
      BY <1>2, <2>1, <3>2 DEF Shown
  <2>2. CASE ~(Highlight + 1 >= num) /\ ~(dumb \/ cur.entry < BoxH - 1) /\ num > BoxH + cur.first
    <3>1. OneOn = [Cleared EXCEPT !.first = cur.first + 1]
      BY <1>3, <2>2 DEF OneOn
    <3>2. OneOn \in Cursor /\ OneOn.first = cur.first + 1 /\ OneOn.entry = cur.entry
      BY <1>3, <1>5, <3>1, FirstMoved
    <3>3. QED
      BY <1>2, <2>2, <3>2 DEF Shown
  <2>3. CASE Highlight + 1 >= num
    BY <1>1, <1>4, <2>3 DEF OneOn
  <2>4. CASE ~(Highlight + 1 >= num) /\ ~(dumb \/ cur.entry < BoxH - 1) /\ ~(num > BoxH + cur.first)
    BY <1>4, <2>4 DEF OneOn
  <2>5. QED
    BY <2>1, <2>2, <2>3, <2>4
<1>8. QED
  BY <1>4, <1>6, <1>7

LEMMA PagesShow ==
  ASSUME TypeOK, num > 0, Shown(cur, num)
  PROVE  Shown(PageBack, num) /\ Shown(PageOn, num)
<1>1. /\ cur.first \in Nat /\ cur.entry \in Nat /\ num \in Nat
      /\ cur.first + cur.entry < num
      /\ ~dumb => cur.entry < BoxH
  BY CursorShown
<1>2. Cleared \in Cursor /\ Cleared.first = cur.first /\ Cleared.entry = cur.entry
  BY CursorShown
<1>3. cur.first - BoxH \in Int /\ cur.first + BoxH \in Int
  BY <1>1
<1>4. Shown(PageBack, num)
  <2>1. CASE cur.first - BoxH >= 0
    <3>1. PageBack = [Cleared EXCEPT !.first = cur.first - BoxH]
      BY <2>1 DEF PageBack
    <3>2. PageBack \in Cursor /\ PageBack.first = cur.first - BoxH
          /\ PageBack.entry = cur.entry
      BY <1>2, <1>3, <3>1, FirstMoved
    <3>3. QED
      BY <1>1, <2>1, <3>2 DEF Shown
  <2>2. CASE ~(cur.first - BoxH >= 0)
    <3> DEFINE line == Max({0, cur.entry + (cur.first - BoxH)})
    <3>1. PageBack = [Cleared EXCEPT !.first = 0, !.entry = line]
      BY <1>2, <2>2 DEF PageBack
    <3>2. line = IF 0 >= cur.entry + (cur.first - BoxH) THEN 0 ELSE cur.entry + (cur.first - BoxH)
      <4>1. cur.entry + (cur.first - BoxH) \in Int /\ 0 \in Int
        BY <1>1
      <4>2. QED
        BY <4>1, MaxOfTwo
    <3> HIDE DEF line
    <3>3. line \in Int /\ 0 <= line /\ line <= cur.entry
      BY <1>1, <2>2, <3>2
    <3>4. PageBack \in Cursor /\ PageBack.first = 0 /\ PageBack.entry = line
      <4>1. PageBack = [first |-> 0, entry |-> line, temp |-> Cleared.temp]
        BY <1>2, <3>1 DEF Cursor
      <4>2. Cleared.temp \in Nat
        BY <1>2, CursorNumbers
      <4>3. QED
        BY <3>3, <4>1, <4>2 DEF Cursor
    <3>5. QED
      BY <1>1, <3>3, <3>4 DEF Shown
  <2>3. QED
    BY <2>1, <2>2
<1>5. Shown(PageOn, num)
  <2>1. Max({0, num - BoxH}) = IF 0 >= num - BoxH THEN 0 ELSE num - BoxH
    BY <1>1, MaxOfTwo
  <2>2. CASE cur.first + BoxH + cur.entry + 1 >= num
    <3> DEFINE top == Max({0, num - BoxH})
    <3>1. PageOn = [first |-> top, entry |-> num - top - 1, temp |-> 0]
      BY <2>2 DEF PageOn
    <3>2. top \in 0 .. num - 1 /\ num - top <= BoxH
      BY <1>1, <2>1
    <3> HIDE DEF top
    <3>3. QED
      BY <1>1, <3>1, <3>2 DEF Shown, Cursor
  <2>3. CASE ~(cur.first + BoxH + cur.entry + 1 >= num)
    <3>1. PageOn = [Cleared EXCEPT !.first = cur.first + BoxH]
      BY <1>2, <2>3 DEF PageOn
    <3>2. PageOn \in Cursor /\ PageOn.first = cur.first + BoxH /\ PageOn.entry = cur.entry
      BY <1>2, <1>3, <3>1, FirstMoved
    <3>3. QED
      BY <1>1, <2>3, <3>2 DEF Shown
  <2>4. QED
    BY <2>2, <2>3
<1>6. QED
  BY <1>4, <1>5

LEMMA DigitsShow ==
  ASSUME TypeOK, num > 0, Shown(cur, num), NEW d \in 0 .. 9
  PROVE  Shown(Typed(d), num)
<1> DEFINE longer == cur.temp * 10 + d
           t == IF longer < num THEN longer ELSE IF d < num THEN d ELSE 0
<1>1. t \in 0 .. num - 1
  BY DEF TypeOK, Cursor
<1>2. Typed(d) \in {Updated(cur, t), Cleared}
  BY DEF Typed
<1>3. QED
  <2> HIDE DEF t
  <2>1. Shown(Updated(cur, t), num)
    BY <1>1, UpdatedShows
  <2>2. QED
    BY <1>2, <2>1, LinesShow

-----------------------------------------------------------------------------
(* An empty list counts as one of a single line.                           *)
Lines == IF num = 0 THEN 1 ELSE num

\* What a move key computes is in sight whenever there is an entry.
LEMMA KeysShow ==
  ASSUME TypeOK, num > 0, Shown(cur, num)
  PROVE  /\ Shown(IF dumb THEN OneBack ELSE Seek(num - 1), num)
         /\ Shown(IF dumb THEN OneOn ELSE Seek(1), num)
         /\ Shown(Updated(cur, 0), num)
         /\ Shown(Updated(cur, num - 1), num)
<1>1. num - 1 \in Nat /\ 1 \in Nat /\ 0 \in 0 .. num - 1 /\ num - 1 \in 0 .. num - 1
  BY DEF TypeOK
<1>2. Shown(Seek(num - 1), num) /\ Shown(Seek(1), num)
  BY <1>1, SeekShows
<1>3. Shown(Updated(cur, 0), num) /\ Shown(Updated(cur, num - 1), num)
  BY <1>1, UpdatedShows
<1>4. QED
  BY <1>2, <1>3, LinesShow

\* A key that only moves the highlight keeps it in sight.
LEMMA MoveKeeps ==
  ASSUME IInv, NEW c, Move(c), num > 0 => Shown(c, num)
  PROVE  IInv'
<1>1. cur \in Cursor /\ num \in Nat /\ menu # "astray"
  BY DEF IInv, TypeOK, Move
<1>2. Shown(cur', Lines)
  <2>1. CASE num > 0
    BY <1>1, <2>1 DEF Move, Lines
  <2>2. CASE num = 0
    <3>1. cur' = [cur EXCEPT !.first = 0, !.entry = 0]
      BY <2>2 DEF Move
    <3>2. cur' = [first |-> 0, entry |-> 0, temp |-> cur.temp] /\ cur.temp \in Nat
      BY <1>1, <3>1 DEF Cursor
    <3>3. QED
      BY <2>2, <3>2 DEF Shown, Cursor, Lines
  <2>3. QED
    BY <1>1, <2>1, <2>2
<1>3. UNCHANGED <<dumb, dead, menu, num, outer>>
  BY DEF Move
<1>4. QED
  BY <1>1, <1>2, <1>3 DEF IInv, TypeOK, HighlightOnScreen, Shown, Lines

\* Where a letter leaves the highlight.
LEMMA StruckShows ==
  ASSUME IInv, menu # "astray", NEW c \in Struck
  PROVE  Shown(c, Lines) /\ c.first \in Nat /\ c.entry \in Nat
<1>1. cur \in Cursor /\ num \in Nat /\ TypeOK
  BY DEF IInv, TypeOK
<1>2. Shown(c, Lines)
  <2>1. CASE num = 0
    <3>1. c = [cur EXCEPT !.first = 0, !.entry = 0]
      BY <2>1 DEF Struck
    <3>2. c = [first |-> 0, entry |-> 0, temp |-> cur.temp] /\ cur.temp \in Nat
      BY <1>1, <3>1 DEF Cursor
    <3>3. QED
      BY <2>1, <3>2 DEF Shown, Cursor, Lines
  <2>2. CASE num > 0
    <3>1. Shown(cur, num)
      BY <1>1, <2>2 DEF IInv
    <3>2. Shown(Cleared, num) /\ Shown(OneOn, num)
      BY <1>1, <2>2, <3>1, LinesShow
    <3>3. QED
      BY <1>1, <2>2, <3>2 DEF Struck, Lines
  <2>3. QED
    BY <1>1, <2>1, <2>2
<1>3. QED
  BY <1>2, CursorNumbers DEF Shown

-----------------------------------------------------------------------------
\* The cursor that a menu is drawn with, of an entry that is there.
LEMMA RedrawnShows ==
  ASSUME IInv, menu # "astray", NEW c \in Struck
  PROVE  Shown(Restarted(c), Lines)
<1>1. Shown(c, Lines) /\ c.first \in Nat /\ c.entry \in Nat
  BY StruckShows
<1>2. c \in Cursor /\ c.first + c.entry < Lines /\ dumb \in BOOLEAN /\ Lines \in Nat
  BY <1>1 DEF Shown, IInv, TypeOK, Lines
<1>3. QED
  BY <1>1, <1>2, RestartedShows

\* The lines of an entry that is edited.
LEMMA ListSteps ==
  ASSUME IInv, OpenLine \/ DeleteLine \/ EditLine
  PROVE  IInv'
<1>1. /\ menu = "list" /\ num \in Nat /\ outer.num \in Nat
      /\ UNCHANGED <<dumb, dead, menu, outer>>
  BY DEF IInv, TypeOK, OpenLine, DeleteLine, EditLine
<1>2. SUFFICES num' \in Nat /\ Shown(cur', Lines')
  BY <1>1 DEF IInv, TypeOK, HighlightOnScreen, Shown, Lines
<1>3. CASE OpenLine
  <2>1. PICK c \in Struck :
          cur' \in {c, IF num = 0 THEN c
                       ELSE IF c.entry < BoxH - 1 \/ dumb THEN [c EXCEPT !.entry = @ + 1]
                       ELSE [c EXCEPT !.first = @ + 1]}
    BY <1>3 DEF OpenLine
  <2>2. Shown(c, Lines) /\ c.first \in Nat /\ c.entry \in Nat /\ c \in Cursor
    BY <1>1, StruckShows DEF Shown
  <2>3. num' = num + 1 /\ Lines' = num + 1 /\ Lines \in Nat
    BY <1>1, <1>3 DEF OpenLine, Lines
  <2>4. CASE cur' = c
    BY <1>1, <2>2, <2>3, <2>4 DEF Shown, Lines
  <2>5. CASE cur' = [c EXCEPT !.entry = @ + 1] /\ num > 0 /\ (c.entry < BoxH - 1 \/ dumb)
    <3>1. cur' = [c EXCEPT !.entry = c.entry + 1] /\ c.entry + 1 \in Int
      BY <2>2, <2>5
    <3>2. cur' \in Cursor /\ cur'.first = c.first /\ cur'.entry = c.entry + 1
      BY <2>2, <3>1, EntryMoved
    <3>3. QED
      BY <1>1, <2>2, <2>3, <2>5, <3>2 DEF Shown, Lines
  <2>6. CASE cur' = [c EXCEPT !.first = @ + 1] /\ num > 0
    <3>1. cur' = [c EXCEPT !.first = c.first + 1] /\ c.first + 1 \in Int
      BY <2>2, <2>6
    <3>2. cur' \in Cursor /\ cur'.first = c.first + 1 /\ cur'.entry = c.entry
      BY <2>2, <3>1, FirstMoved
    <3>3. QED
      BY <1>1, <2>2, <2>3, <2>6, <3>2 DEF Shown, Lines
  <2>7. QED
    BY <1>1, <2>1, <2>4, <2>5, <2>6
<1>4. CASE DeleteLine
  <2>1. PICK c \in Struck :
          cur' = IF c.entry > 0 THEN [c EXCEPT !.entry = @ - 1]
                 ELSE IF c.first > 0 THEN [c EXCEPT !.first = @ - 1]
                 ELSE c
    BY <1>4 DEF DeleteLine
  <2>2. Shown(c, Lines) /\ c.first \in Nat /\ c.entry \in Nat /\ c \in Cursor
    BY <1>1, StruckShows DEF Shown
  <2>3. /\ num > 0 /\ num' = num - 1 /\ num' \in Nat /\ Lines = num
        /\ Lines' = IF num' = 0 THEN 1 ELSE num - 1
    BY <1>1, <1>4 DEF DeleteLine, Lines
  <2>4. CASE c.entry > 0
    <3>1. cur' = [c EXCEPT !.entry = c.entry - 1] /\ c.entry - 1 \in Int
      BY <2>1, <2>2, <2>4
    <3>2. cur' \in Cursor /\ cur'.first = c.first /\ cur'.entry = c.entry - 1
      BY <2>2, <3>1, EntryMoved
    <3>3. QED
      BY <1>1, <2>2, <2>3, <2>4, <3>2 DEF Shown
  <2>5. CASE ~(c.entry > 0) /\ c.first > 0
    <3>1. cur' = [c EXCEPT !.first = c.first - 1] /\ c.first - 1 \in Int
      BY <2>1, <2>2, <2>5
    <3>2. cur' \in Cursor /\ cur'.first = c.first - 1 /\ cur'.entry = c.entry
      BY <2>2, <3>1, FirstMoved
    <3>3. QED
      BY <1>1, <2>2, <2>3, <2>5, <3>2 DEF Shown
  <2>6. CASE ~(c.entry > 0) /\ ~(c.first > 0)
    <3>1. cur' = c /\ c.entry = 0 /\ c.first = 0
      BY <2>1, <2>2, <2>6
    <3>2. QED
      BY <1>1, <2>2, <2>3, <3>1 DEF Shown
  <2>7. QED
    BY <2>4, <2>5, <2>6
<1>5. CASE EditLine
  <2>1. PICK c \in Struck : cur' = Restarted(c)
    BY <1>5 DEF EditLine
  <2>2. Shown(Restarted(c), Lines)
    BY <1>1, RedrawnShows
  <2>3. num' = (IF num >= 1 THEN num ELSE 1) /\ num' \in Nat
    BY <1>1, <1>5, MaxOfTwo DEF EditLine
  <2>4. Lines' = Lines
    BY <1>1, <2>3 DEF Lines
  <2>5. QED
    BY <1>1, <2>1, <2>2, <2>3, <2>4 DEF Shown
<1>6. QED
  BY <1>3, <1>4, <1>5

\* Changing between the menus, and coming back from a boot that failed.
LEMMA MenuSteps ==
  ASSUME IInv, EditEntry \/ LeaveList \/ LeaveAndReturn \/ BootReturns
  PROVE  IInv'
<1>1. /\ TypeOK /\ num \in Nat /\ outer.num \in Nat /\ outer.cur \in Cursor
      /\ menu # "astray" /\ UNCHANGED <<dumb, dead>> /\ dumb \in BOOLEAN
  BY DEF IInv, TypeOK, EditEntry, LeaveList, LeaveAndReturn, BootReturns
<1>2. CASE EditEntry
  <2>1. PICK c \in Struck : outer' = [num |-> num, cur |-> c]
    BY <1>2 DEF EditEntry
  <2>2. num > 0 /\ menu' = "list" /\ num' \in 1 .. MaxLines
        /\ cur' = [first |-> 0, entry |-> 0, temp |-> 0]
    BY <1>2 DEF EditEntry, IInv
  <2>3. Shown(c, num) /\ c \in Cursor
    BY <1>1, <2>2, StruckShows DEF Shown, Lines
  <2>4. outer'.num = num /\ outer'.cur = c /\ outer' \in [num : Nat, cur : Cursor]
    BY <1>1, <2>1, <2>3
  <2>5. Shown(outer.cur, outer.num)'
    BY <1>1, <2>3, <2>4 DEF Shown
  <2>6. cur' \in Cursor /\ cur'.first = 0 /\ cur'.entry = 0 /\ num' \in Nat /\ num' > 0
    BY <2>2 DEF Cursor
  <2>7. Shown(cur, num)'
    BY <2>6 DEF Shown
  <2>8. TypeOK'
    BY <1>1, <2>2, <2>4, <2>6 DEF TypeOK
  <2>9. QED
    BY <2>2, <2>5, <2>6, <2>7, <2>8 DEF IInv, HighlightOnScreen, Shown
<1>3. CASE LeaveList
  <2>1. menu' = "main" /\ num' = outer.num /\ cur' = Restarted(outer.cur)
        /\ outer' = [num |-> 0, cur |-> outer.cur] /\ Shown(outer.cur, outer.num)
    BY <1>3 DEF LeaveList, IInv
  <2>2. outer.cur.first \in Int /\ outer.cur.entry \in Int
    BY <1>1, CursorNumbers
  <2>3. Shown(Restarted(outer.cur), outer.num) /\ outer.num > 0
    BY <1>1, <2>1, <2>2, RestartedShows DEF Shown
  <2>4. Shown(cur, num)' /\ num' > 0 /\ num' \in Nat
    BY <1>1, <2>1, <2>3 DEF Shown
  <2>5. outer' \in [num : Nat, cur : Cursor]
    BY <1>1, <2>1
  <2>6. TypeOK'
    BY <1>1, <2>1, <2>4, <2>5 DEF TypeOK, Shown
  <2>7. QED
    BY <2>1, <2>4, <2>6 DEF IInv, HighlightOnScreen, Shown
<1>4. ASSUME NEW c \in Struck, cur' = Restarted(c), UNCHANGED <<dumb, dead, menu, num, outer>>
      PROVE  IInv'
  <2>1. Shown(Restarted(c), Lines)
    BY <1>1, RedrawnShows
  <2>2. Shown(cur', Lines)
    BY <1>4, <2>1
  <2>3. QED
    BY <1>1, <1>4, <2>2 DEF IInv, TypeOK, HighlightOnScreen, Shown, Lines
<1>5. CASE LeaveAndReturn
  BY <1>4, <1>5 DEF LeaveAndReturn
<1>6. CASE BootReturns
  <2>1. CASE \E c \in Struck : cur' = Restarted(c) /\ menu' = menu
    BY <1>4, <1>6, <2>1 DEF BootReturns
  <2>2. CASE \E f \in 0 .. (IF menu = "main" THEN num ELSE outer.num) - 1 :
               /\ cur' = Restarted([first |-> 0, entry |-> f, temp |-> 0])
               /\ menu' = IF f < num THEN menu ELSE "astray"
    <3>1. PICK f \in 0 .. (IF menu = "main" THEN num ELSE outer.num) - 1 :
               /\ cur' = Restarted([first |-> 0, entry |-> f, temp |-> 0])
               /\ menu' = IF f < num THEN menu ELSE "astray"
      BY <2>2
    <3> DEFINE c == [first |-> 0, entry |-> f, temp |-> 0]
    <3>2. f \in Nat
      BY <1>1, <3>1
    <3>3. c \in Cursor /\ c.first = 0 /\ c.entry = f
      BY <3>2 DEF Cursor
    <3>4. cur' = Restarted(c)
      BY <3>1
    <3> HIDE DEF c
    <3>5. Shown(Restarted(c), f + 1)
      <4>1. f + 1 \in Nat /\ c.first >= 0 /\ c.entry >= 0 /\ c.first + c.entry < f + 1
        BY <3>2, <3>3
      <4>2. QED
        BY <1>1, <3>3, <4>1, RestartedShows
    <3>6. UNCHANGED <<dumb, dead, num, outer>> /\ menu \in {"main", "list"}
      BY <1>6 DEF BootReturns
    <3>7. cur' \in Cursor /\ cur'.first \in Int /\ cur'.entry \in Int
      BY <3>4, <3>5, CursorNumbers DEF Shown
    <3>8. TypeOK' /\ HighlightOnScreen'
      BY <1>1, <3>1, <3>4, <3>5, <3>6, <3>7 DEF TypeOK, HighlightOnScreen, Shown
    <3>9. f < num => Shown(cur', num) /\ num > 0
      BY <1>1, <3>2, <3>4, <3>5, <3>7 DEF Shown
    <3>10. menu' # "astray" => f < num /\ menu' = menu
      BY <3>1
    <3>11. QED
      BY <3>6, <3>8, <3>9, <3>10 DEF IInv, Shown
  <2>3. QED
    BY <1>6, <2>1, <2>2 DEF BootReturns
<1>7. QED
  BY <1>2, <1>3, <1>5, <1>6

-----------------------------------------------------------------------------
\* The menu cmain hands to run_menu satisfies the invariant.
LEMMA InitShows ==
  ASSUME Init
  PROVE  IInv
<1>1. PICK default \in 0 .. num - 1 :
        cur = Restarted([first |-> 0, entry |-> default, temp |-> 0])
  BY DEF Init
<1> DEFINE c == [first |-> 0, entry |-> default, temp |-> 0]
<1>2. num \in Nat \ {0} /\ dumb \in BOOLEAN /\ menu = "main" /\ dead \subseteq Nat
  BY DEF Init
<1>3. default \in Nat /\ default < num
  BY <1>1, <1>2
<1>4. c \in Cursor /\ c.first = 0 /\ c.entry = default /\ cur = Restarted(c)
  BY <1>1, <1>3 DEF Cursor
<1> HIDE DEF c
<1>5. Shown(Restarted(c), num)
  <2>1. c.first >= 0 /\ c.entry >= 0 /\ c.first + c.entry < num
    BY <1>2, <1>3, <1>4
  <2>2. QED
    BY <1>2, <1>4, <2>1, RestartedShows
<1>6. Shown(cur, num) /\ cur \in Cursor
  BY <1>4, <1>5 DEF Shown
<1>7. outer = [num |-> 0, cur |-> cur]
  BY DEF Init
<1>8. TypeOK
  BY <1>2, <1>6, <1>7 DEF TypeOK
<1>9. QED
  BY <1>2, <1>6, <1>8 DEF IInv, HighlightOnScreen, Shown

\* Every step keeps the invariant.
LEMMA StepShows ==
  ASSUME IInv, [Next]_vars
  PROVE  IInv'
<1>1. TypeOK /\ (menu # "astray" /\ num > 0 => Shown(cur, num))
  BY DEF IInv, TypeOK
<1>2. ASSUME NEW c, Move(c), num > 0 => Shown(c, num)
      PROVE  IInv'
  BY <1>2, MoveKeeps
<1>3. CASE KeyUp
  <2>1. Move(IF dumb THEN OneBack ELSE Seek(num - 1))
    BY <1>3 DEF KeyUp
  <2>2. menu # "astray"
    BY <2>1 DEF Move
  <2>3. num > 0 => Shown(IF dumb THEN OneBack ELSE Seek(num - 1), num)
    BY <1>1, <2>2, KeysShow
  <2>4. QED
    BY <1>2, <2>1, <2>3
<1>4. CASE KeyDown
  <2>1. Move(IF dumb THEN OneOn ELSE Seek(1))
    BY <1>4 DEF KeyDown
  <2>2. menu # "astray"
    BY <2>1 DEF Move
  <2>3. num > 0 => Shown(IF dumb THEN OneOn ELSE Seek(1), num)
    BY <1>1, <2>2, KeysShow
  <2>4. QED
    BY <1>2, <2>1, <2>3
<1>5. CASE KeyLeft \/ KeyRight
  <2>1. \/ Move(OneBack) \/ Move(OneOn)
    BY <1>5 DEF KeyLeft, KeyRight
  <2>2. menu # "astray"
    BY <2>1 DEF Move
  <2>3. QED
    BY <1>1, <1>2, <2>1, <2>2, LinesShow
<1>6. CASE KeyPPage \/ KeyNPage
  <2>1. \/ Move(PageBack) \/ Move(PageOn)
    BY <1>6 DEF KeyPPage, KeyNPage
  <2>2. menu # "astray"
    BY <2>1 DEF Move
  <2>3. QED
    BY <1>1, <1>2, <2>1, <2>2, PagesShow
<1>7. CASE KeyHome \/ KeyEnd
  <2>1. \/ Move(Updated(cur, 0)) \/ Move(Updated(cur, num - 1))
    BY <1>7 DEF KeyHome, KeyEnd
  <2>2. menu # "astray"
    BY <2>1 DEF Move
  <2>3. QED
    BY <1>1, <1>2, <2>1, <2>2, KeysShow
<1>8. CASE KeyDigit
  <2>1. PICK d \in 0 .. 9 : Move(Typed(d))
    BY <1>8 DEF KeyDigit
  <2>2. menu # "astray"
    BY <2>1 DEF Move
  <2>3. QED
    BY <1>1, <1>2, <2>1, <2>2, DigitsShow
<1>9. CASE UNCHANGED vars
  BY <1>9 DEF vars, IInv, TypeOK, HighlightOnScreen, Shown
<1>10. CASE Astray
  BY <1>9, <1>10 DEF Astray
<1>11. QED
  BY <1>3, <1>4, <1>5, <1>6, <1>7, <1>8, <1>9, <1>10, ListSteps, MenuSteps DEF Next

THEOREM Invariance == Spec => []IInv
BY InitShows, StepShows, PTL DEF Spec

(* Whatever keys are pressed, lines are opened and deleted and entries fail *)
(* (run_menu), the highlight is on an entry that exists and, on a terminal  *)
(* with a cursor, inside the box: the number titles[] and get_entry are     *)
(* called with.  For every height of the box and every number of entries.   *)
THEOREM HighlightIsShown == Spec => []HighlightShown
<1>1. IInv => HighlightShown
  <2> SUFFICES ASSUME IInv PROVE HighlightShown
    OBVIOUS
  <2>1. TypeOK /\ HighlightOnScreen /\ num \in Nat
    BY DEF IInv, TypeOK
  <2>2. Max({num, 1}) = IF num >= 1 THEN num ELSE 1
    BY <2>1, MaxOfTwo
  <2>3. menu # "astray" => Shown(cur, Max({num, 1}))
    BY <2>1, <2>2 DEF IInv
  <2>4. QED
    BY <2>1, <2>3 DEF HighlightShown, HighlightInMenu, Shown, Highlight
<1>2. QED
  BY <1>1, Invariance, PTL

(* The up and down arrows of the main menu never stop at a title that boots *)
(* nothing (run_menu, the loops over the attribute 0x08), wherever the      *)
(* titles that boot nothing are.                                            *)
THEOREM ArrowsAlwaysSkipDead == Spec => ArrowsSkipDead
<1>1. ASSUME IInv, ~dumb /\ menu = "main" /\ (KeyUp \/ KeyDown)
      PROVE  Highlight' = Highlight \/ Highlight' \notin dead
  <2>1. TypeOK /\ num > 0 /\ num \in Nat /\ Shown(cur, num)
    BY <1>1 DEF IInv, TypeOK
  <2>2. PICK d \in Nat : Move(Seek(d))
    BY <1>1, <2>1 DEF KeyUp, KeyDown
  <2>3. cur' = Seek(d)
    BY <2>1, <2>2 DEF Move
  <2>4. LET there == Seek(d).first + Seek(d).entry
        IN  there = Highlight \/ Selectable(there)
    BY <2>1, SeekShows
  <2>5. Highlight' = Seek(d).first + Seek(d).entry
    BY <2>3 DEF Highlight
  <2>6. QED
    BY <1>1, <2>4, <2>5 DEF Selectable
<1>2. IInv /\ [Next]_vars =>
        [~dumb /\ menu = "main" /\ (KeyUp \/ KeyDown)
           => Highlight' = Highlight \/ Highlight' \notin dead]_vars
  BY <1>1
<1>3. QED
  BY <1>2, Invariance, PTL DEF Spec, ArrowsSkipDead
=============================================================================
