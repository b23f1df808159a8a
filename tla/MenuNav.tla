------------------------------ MODULE MenuNav ------------------------------
(***************************************************************************)
(* The highlight of the grub4dos menu (stage2.c, run_menu): which entry is *)
(* highlighted, which part of a menu longer than the box is on the screen, *)
(* and the editor of one entry's commands, a menu of its own.              *)
(*                                                                         *)
(* Screen output is left out, and so are the strings: an entry is its      *)
(* number.  What happens when an entry is booted is in BootMenu; here it   *)
(* matters only where the highlight is when the menu comes back.           *)
(***************************************************************************)
EXTENDS Integers, FiniteSetsExt

CONSTANTS
  BoxH,        \* MENU_BOX_H, the lines of the menu box
  Sizes,       \* numbers of titles the configuration files have
  DeadSets,    \* sets of titles that boot nothing
  MaxLines     \* bound: commands of the entry that is edited

ASSUME NavAssumption ==
  /\ BoxH \in Nat \ {0} /\ MaxLines \in Nat \ {0}
  /\ Sizes \subseteq Nat \ {0} /\ DeadSets \subseteq SUBSET Nat

VARIABLES
  dumb,   \* TERM_DUMB: the terminal has no cursor
  dead,   \* titles with the attribute 0x08: their entries boot nothing
  menu,   \* "main", "list" (the commands of one entry), or "astray"
  num,    \* num_entries of the menu shown
  cur,    \* first_entry, entryno and temp_entryno of the menu shown
  outer   \* num and cur of the main menu while a list is shown

vars == <<dumb, dead, menu, num, cur, outer>>

Cursor == [first : Int, entry : Int, temp : Nat]

Highlight == cur.first + cur.entry

\* Mutant: the highlight may be below the box.
Restarted_Unscrolled(c) == [c EXCEPT !.temp = 0]

(* The menu is drawn anew (label restart). *)
Restarted(c) ==
  IF ~dumb /\ c.entry > BoxH - 1
    THEN [first |-> c.first + c.entry - (BoxH - 1), entry |-> BoxH - 1, temp |-> 0]
    ELSE [c EXCEPT !.temp = 0]

\* Mutant: the attribute is not looked at.
Selectable_All(k) == k \in Nat

(* The highlight goes to entry t (label check_update). *)
Updated(c, t) ==
  LET there == IF t = c.first + c.entry THEN c
               ELSE IF t < c.first \/ t >= c.first + BoxH
                 THEN [c EXCEPT !.first = (t \div BoxH) * BoxH, !.entry = t % BoxH]
                 ELSE [c EXCEPT !.entry = t - c.first]
  IN [there EXCEPT !.temp = IF t * 10 >= num THEN 0 ELSE t]

Selectable(k) == menu # "main" \/ k \notin dead

\* Mutant: the search begins at the entry after the next.
Seek_FromSecond(d) ==
  LET hits == {i \in 2 .. num - 1 : Selectable((Highlight + i * d) % num)}
  IN IF hits = {} THEN [cur EXCEPT !.temp = Highlight]
     ELSE Updated(cur, (Highlight + Min(hits) * d) % num)

(* The next entry, in steps of d around the menu, that the arrow keys stop at. *)
Seek(d) ==
  LET hits == {i \in 1 .. num - 1 : Selectable((Highlight + i * d) % num)}
      goal == (Highlight + Min(hits) * d) % num
  IN IF hits = {} THEN [cur EXCEPT !.temp = Highlight] ELSE Updated(cur, goal)

Cleared == [cur EXCEPT !.temp = 0]

(* One line back, or one line on: the left and right arrow keys, `^' and `v'. *)
OneBack ==
  IF cur.entry > 0 THEN [Cleared EXCEPT !.entry = @ - 1]
  ELSE IF dumb THEN Cleared
  ELSE IF cur.first > 0 THEN [Cleared EXCEPT !.first = @ - 1]
  ELSE Updated(cur, num - 1)

OneOn ==
  IF Highlight + 1 >= num THEN IF dumb THEN Cleared ELSE Updated(cur, 0)
  ELSE IF dumb \/ cur.entry < BoxH - 1 THEN [Cleared EXCEPT !.entry = @ + 1]
  ELSE IF num > BoxH + cur.first THEN [Cleared EXCEPT !.first = @ + 1]
  ELSE Cleared

PageBack ==
  LET top == cur.first - BoxH
  IN IF top >= 0 THEN [Cleared EXCEPT !.first = top]
     ELSE [Cleared EXCEPT !.first = 0, !.entry = Max({0, @ + top})]

PageOn ==
  LET top == Max({0, num - BoxH})
  IN IF cur.first + BoxH + cur.entry + 1 >= num
       THEN [first |-> top, entry |-> num - top - 1, temp |-> 0]
       ELSE [Cleared EXCEPT !.first = @ + BoxH]

(* A digit extends the number typed so far, or begins another. *)
Typed(d) ==
  LET longer == cur.temp * 10 + d
      t == IF longer < num THEN longer ELSE IF d < num THEN d ELSE 0
  IN IF t # 0 \/ d = 0 THEN Updated(cur, t) ELSE Cleared
-----------------------------------------------------------------------------
(* A key that only moves the highlight; in an empty list it goes to the top. *)
Move(c) ==
  /\ menu \in {"main", "list"}
  /\ cur' = IF num = 0 THEN [cur EXCEPT !.first = 0, !.entry = 0] ELSE c
  /\ UNCHANGED <<dumb, dead, menu, num, outer>>

KeyUp    == Move(IF dumb THEN OneBack ELSE Seek(num - 1))
KeyDown  == Move(IF dumb THEN OneOn ELSE Seek(1))
KeyLeft  == Move(OneBack)
KeyRight == Move(OneOn)
KeyPPage == Move(PageBack)
KeyNPage == Move(PageOn)
KeyHome  == Move(Updated(cur, 0))
KeyEnd   == Move(Updated(cur, num - 1))
KeyDigit == \E d \in 0 .. 9 : Move(Typed(d))

(* Where a letter leaves the highlight before its command is done: a key   *)
(* that has been held since the menu was drawn goes down one line as well. *)
Struck ==
  IF num = 0 THEN {[cur EXCEPT !.first = 0, !.entry = 0]} ELSE {Cleared, OneOn}

(* `o' and `O': a line after or before the highlighted one. *)
OpenLine ==
  /\ menu = "list" /\ num < MaxLines
  /\ \E c \in Struck :
       cur' \in {c, IF num = 0 THEN c
                    ELSE IF c.entry < BoxH - 1 \/ dumb THEN [c EXCEPT !.entry = @ + 1]
                    ELSE [c EXCEPT !.first = @ + 1]}
  /\ num' = num + 1
  /\ UNCHANGED <<dumb, dead, menu, outer>>

(* `d' *)
DeleteLine ==
  /\ menu = "list" /\ num > 0
  /\ \E c \in Struck :
       cur' = IF c.entry > 0 THEN [c EXCEPT !.entry = @ - 1]
              ELSE IF c.first > 0 THEN [c EXCEPT !.first = @ - 1]
              ELSE c
  /\ num' = num - 1
  /\ UNCHANGED <<dumb, dead, menu, outer>>

(* `e' in a list edits the line; an empty list gets one. *)
EditLine ==
  /\ menu = "list"
  /\ \E c \in Struck : cur' = Restarted(c)
  /\ num' = Max({num, 1})
  /\ UNCHANGED <<dumb, dead, menu, outer>>

(* `e' in the main menu shows the commands of the highlighted entry. *)
EditEntry ==
  /\ menu = "main"
  /\ menu' = "list"
  /\ \E c \in Struck : outer' = [num |-> num, cur |-> c]
  /\ num' \in 1 .. MaxLines
  /\ cur' = [first |-> 0, entry |-> 0, temp |-> 0]
  /\ UNCHANGED <<dumb, dead>>

(* ESC leaves the list. *)
LeaveList ==
  /\ menu = "list"
  /\ menu' = "main"
  /\ num' = outer.num
  /\ cur' = Restarted(outer.cur)
  /\ outer' = [num |-> 0, cur |-> outer.cur]
  /\ UNCHANGED <<dumb, dead>>

(* `c' and `p' come back to the same place. *)
LeaveAndReturn ==
  /\ menu \in {"main", "list"}
  /\ \E c \in Struck : cur' = Restarted(c)
  /\ UNCHANGED <<dumb, dead, menu, num, outer>>

(* An entry or a command list failed or booted nothing; with a fallback     *)
(* list, the highlight is on the fallback entry that ran last, a number of  *)
(* the main menu whichever menu is shown.  From there on the code reads     *)
(* strings beyond the list, and the model follows it no further.            *)
BootReturns ==
  /\ menu \in {"main", "list"}
  /\ \/ \E c \in Struck : cur' = Restarted(c) /\ menu' = menu
     \/ \E f \in 0 .. (IF menu = "main" THEN num ELSE outer.num) - 1 :
          /\ cur' = Restarted([first |-> 0, entry |-> f, temp |-> 0])
          /\ menu' = IF f < num THEN menu ELSE "astray"
  /\ UNCHANGED <<dumb, dead, num, outer>>

Astray == menu = "astray" /\ UNCHANGED vars

(* default_entry is below num_entries when run_menu is called (cmain). *)
Init ==
  /\ dumb \in BOOLEAN
  /\ menu = "main"
  /\ num \in Sizes
  /\ dead \in {d \cap (0 .. num - 1) : d \in DeadSets}
  /\ \E default \in 0 .. num - 1 :
       cur = Restarted([first |-> 0, entry |-> default, temp |-> 0])
  /\ outer = [num |-> 0, cur |-> cur]

Next ==
  \/ KeyUp \/ KeyDown \/ KeyLeft \/ KeyRight \/ KeyPPage \/ KeyNPage
  \/ KeyHome \/ KeyEnd \/ KeyDigit
  \/ OpenLine \/ DeleteLine \/ EditLine \/ EditEntry \/ LeaveList
  \/ LeaveAndReturn \/ BootReturns \/ Astray

Spec == Init /\ [][Next]_vars
-----------------------------------------------------------------------------
TypeOK ==
  /\ dumb \in BOOLEAN
  /\ menu \in {"main", "list", "astray"}
  /\ num \in Nat
  /\ dead \subseteq Nat
  /\ cur \in Cursor
  /\ outer \in [num : Nat, cur : Cursor]

(* Whatever keys are pressed, lines are opened and deleted and entries fail, *)
(* the highlight is on an entry that exists: titles[first_entry + entryno]   *)
(* and get_entry are called with that number.                                *)
HighlightInMenu ==
  menu # "astray" =>
    /\ cur.first >= 0 /\ cur.entry >= 0
    /\ Highlight < Max({num, 1})

(* On a terminal with a cursor the highlighted line is inside the box. *)
HighlightOnScreen == ~dumb => cur.entry < BoxH

(* The highlight is on an entry and in sight. *)
HighlightShown == TypeOK /\ HighlightInMenu /\ HighlightOnScreen

(* The up and down arrows never stop at a title that boots nothing: either  *)
(* the highlight stays or it goes to an entry that can be selected.         *)
ArrowsSkipDead ==
  [][~dumb /\ menu = "main" /\ (KeyUp \/ KeyDown)
       => Highlight' = Highlight \/ Highlight' \notin dead]_vars

(* Who only ever presses the down arrow comes past every entry of the main *)
(* menu that boots something, over and over, across the pages of the box.  *)
DownVisitsAll ==
  <>[][KeyDown]_vars /\ []<><<KeyDown>>_vars =>
    \A k \in 0 .. Max(Sizes) - 1 :
      []<>(dumb \/ menu # "main" \/ k >= num \/ k \in dead \/ Highlight = k)

=============================================================================
