---------------------------- MODULE MCBootFiles ----------------------------
(***************************************************************************)
(* Files that their owner writes with up to five lines, in every order,    *)
(* which leaves room for two sections with an empty line each; an edit may *)
(* make them longer, and owners delete lines of every file.                *)
(***************************************************************************)
EXTENDS BootFiles

\* Installing over and over would only add more to the files.
Bounded == Len(file) <= MaxLines + 2
=============================================================================
