------------------------------ MODULE MCFbDisk ------------------------------
(***************************************************************************)
(* Four primary sectors of two bytes, moved two at a time, and two extended *)
(* ones of three, with every layout of up to two files of one to three     *)
(* sectors; the names are alike, so the first file is a.  The number of the *)
(* last primary sector does not fit in Word.                               *)
(***************************************************************************)
EXTENDS FbDiskInv

Items(name) == [name : {name}, start : First .. Total - 1, size : Sizes]
Tried == {l \in {<<>>} \cup {<<m>> : m \in Items("a")} \cup
             {<<m, n>> : m \in Items("a"), n \in Items("b")} : Laid(l)}
Saves == { <<[name |-> "b", size |-> 4, ext |-> TRUE], [name |-> "a", size |-> 3, ext |-> FALSE]>> }
=============================================================================
