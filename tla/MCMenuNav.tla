----------------------------- MODULE MCMenuNav -----------------------------
(***************************************************************************)
(* A box of three lines and menus of up to eleven entries: three pages and *)
(* a remainder, and a number of two digits.                                *)
(***************************************************************************)
EXTENDS MenuNav

MenuSizes == {1, 2, 4, 7, 11}

(* None, the first, runs of two, one in four, most and all of the titles. *)
Titles == {{}, {0}, {1, 2}, {3}, {2, 5, 6, 10}, {0, 1, 2, 3, 4, 6, 7, 8}, 0 .. 10}
=============================================================================
