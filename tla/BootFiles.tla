----------------------------- MODULE BootFiles -----------------------------
(***************************************************************************)
(* How the installer edits the boot menus of the older versions of Windows *)
(* (src/wubi/backends/win32/backend.py and backends/common/utils.py):      *)
(* boot.ini of Windows NT to XP and config.sys of Windows 98.  The module  *)
(* Installation says when the edits happen; this one says what they do to  *)
(* a file that its owner has written and goes on editing.                  *)
(*                                                                         *)
(* A file is what Python's split('\n') makes of it, so that a last line    *)
(* "blank" stands for a newline at the end and << >> for an empty file.    *)
(* The lines that matter are told apart:                                   *)
(*   boot.ini    "os"       [operating systems]                            *)
(*               "header"   the header of another section                  *)
(*               "ours"     the line the installer writes                  *)
(*               "indented" the same line after its owner indented it      *)
(*   config.sys  "start", "menu", "end"   the block the installer writes   *)
(*   both        "entry"    any other line                                 *)
(*               "blank"    an empty line                                  *)
(*               "pad"      a line of the block's indentation only         *)
(*               "torn"     an owner's line that lost or gained text       *)
(***************************************************************************)
EXTENDS Naturals, Sequences, SequencesExt

CONSTANT MaxLines       \* the length up to which owners write files

ASSUME MaxLinesAssumption == MaxLines \in Nat \ {0}

VARIABLES
    which,              \* the file that is edited: "ini" or "sys"
    file,               \* its lines on the disk
    attrs,              \* "protected": read-only, system, hidden; or "open"
    writing             \* Idle, or << the lines about to be written >>

vars == <<which, file, attrs, writing>>

Idle == <<>>
Ours == {"ours", "indented"}
Headers == {"os", "header"}
Block == {"start", "menu", "end"}
OwnerLines(w) == {"entry", "blank"} \union
                     IF w = "ini" THEN Headers \union {"indented"} ELSE {}
Lines == Headers \union Ours \union Block \union {"entry", "blank", "pad", "torn"}

-----------------------------------------------------------------------------
(* boot.ini *)

\* A file that consists of one empty line is empty.
AsFile(s) == IF s = <<"blank">> THEN <<>> ELSE s

\* is_section when the loop of modify_bootini is at line i.
InSection(s, i) ==
    \E j \in 1..i : s[j] = "os" /\ \A k \in j+1..i : s[k] # "header"

\* Mutant: the header of another section does not end the section.
Stops_AnySection(s) ==
    {i \in DOMAIN s : /\ \E j \in 1..i : s[j] = "os"
                      /\ s[i] \in Ours \union {"blank"}}

\* The lines at which the loop stops.
Stops(s) == {i \in DOMAIN s : InSection(s, i) /\ s[i] \in Ours \union {"blank"}}

\* modify_bootini: replace our line, or put it before the first empty line of
\* the section; when the section has neither, the file stays as it is.
WithEntry(s) ==
    LET t == IF Last(s) # "blank" THEN Append(s, "blank") ELSE s
        i == CHOOSE n \in Stops(t) : \A m \in Stops(t) : n <= m
    IN  IF Stops(t) = {} THEN t
        ELSE IF t[i] = "blank" THEN InsertAt(t, i, "ours")
        ELSE ReplaceAt(t, i, "ours")

\* remove_line_in_file: every line that starts with ours, newline included.
WithoutEntry(s) ==
    LET left == SelectSeq(s, LAMBDA l : l # "ours")
    IN  IF s # <<>> /\ Last(s) = "ours"
        THEN AsFile(Append(left, "blank")) ELSE AsFile(left)

-----------------------------------------------------------------------------
(* config.sys *)

\* find of a marker: the first such line that ends with a newline, or 0.
Marker(s, m) ==
    LET at == {i \in 1..Len(s) - 1 : s[i] = m}
    IN  IF at = {} THEN 0 ELSE CHOOSE i \in at : \A j \in at : i <= j

\* modify_configsys appends its block, whose text starts with a newline.
WithBlock(s) ==
    (IF s = <<>> THEN <<"blank">> ELSE s) \o <<"start", "menu", "end", "pad">>

\* Two pieces of a line become one line.
Glued(l, r) ==
    CASE l \in {"blank", "pad"} -> r
      [] r = "blank" -> l
      [] OTHER -> "torn"

\* Two pieces of text, one behind the other.
Joined(s, t) ==
    IF s = <<>> THEN t ELSE
    IF t = <<>> THEN s ELSE
    AsFile(Front(s) \o <<Glued(Last(s), Head(t))>> \o Tail(t))

\* config[:-1] and config[-1:].
ButLastChar(s) ==
    CASE Last(s) = "blank" -> Front(s)
      [] Last(s) = "pad" -> s
      [] OTHER -> Append(Front(s), "torn")
LastChar(s) ==
    CASE Last(s) = "blank" -> <<"blank", "blank">>
      [] Last(s) = "pad" -> <<"pad">>
      [] OTHER -> <<"torn">>

\* Mutant: the text behind the block goes with it.
WithoutBlock_DropsRest(s) ==
    IF Marker(s, "start") > 0
    THEN SubSeq(s, 1, Marker(s, "start") - 1) \o <<"pad">> ELSE s

\* undo_configsys: the slices around the two markers, where a marker that is
\* missing counts as the position before the last character.
WithoutBlock(s) ==
    LET b == Marker(s, "start")
        e == Marker(s, "end")
        before == SubSeq(s, 1, b - 1) \o <<"pad">>
        after == SubSeq(s, e + 1, Len(s))
    IN  CASE b > 0 /\ e > 0 -> before \o after
          [] b > 0 /\ e = 0 -> Joined(before, LastChar(s))
          [] b = 0 /\ e > 0 -> Joined(ButLastChar(s), <<"end">> \o after)
          [] OTHER -> s

-----------------------------------------------------------------------------
(* The edits: attrib, read, open for writing (which empties the file), ...  *)
Begin(text) ==
    /\ writing = Idle
    /\ writing' = <<text>>
    /\ file' = <<>>
    /\ attrs' = "open"
    /\ UNCHANGED which

\* ... write, attrib.
Finish ==
    /\ writing # Idle
    /\ file' = writing[1]
    /\ writing' = Idle
    /\ attrs' = "protected"
    /\ UNCHANGED which

\* The program or the machine stops before the text is written.
Crash ==
    /\ writing # Idle
    /\ writing' = Idle
    /\ UNCHANGED <<which, file, attrs>>

ModifyBootini == which = "ini" /\ file # <<>> /\ Begin(WithEntry(file))

UndoBootini == which = "ini" /\ Begin(WithoutEntry(file))

ModifyConfigsys ==
    which = "sys" /\ Marker(file, "start") = 0 /\ Begin(WithBlock(file))

UndoConfigsys == which = "sys" /\ Begin(WithoutBlock(file))

\* An edit that ends early, with the attributes taken away: config.sys has
\* the block, or boot.ini is empty and content[-1] raises.
EndEarly ==
    /\ writing = Idle
    /\ \/ which = "sys" /\ Marker(file, "start") > 0
       \/ which = "ini" /\ file = <<>>
    /\ attrs' = "open"
    /\ UNCHANGED <<which, file, writing>>

\* The owner adds a line, takes one away, or indents ours.
OwnerEdits ==
    /\ writing = Idle
    /\ \/ /\ Len(file) < MaxLines
          /\ \E i \in 1..Len(file) + 1, l \in OwnerLines(which) :
                 file' = AsFile(InsertAt(file, i, l))
       \/ \E i \in DOMAIN file : file' = AsFile(RemoveAt(file, i))
       \/ \E i \in DOMAIN file :
              file[i] = "ours" /\ file' = ReplaceAt(file, i, "indented")
    /\ UNCHANGED <<which, attrs, writing>>

Init ==
    /\ which \in {"ini", "sys"}
    /\ file = <<>>
    /\ attrs = "protected"
    /\ writing = Idle

Next ==
    \/ ModifyBootini \/ UndoBootini \/ ModifyConfigsys \/ UndoConfigsys
    \/ Finish \/ Crash \/ EndEarly \/ OwnerEdits

Spec == Init /\ [][Next]_vars

-----------------------------------------------------------------------------
\* The lines that say something and that the installer did not write.
Owned(s) == SelectSeq(s, LAMBDA l : l \in Headers \union {"entry", "torn"})

\* The block stands as it was written, or it is gone.
Whole(s) ==
    \/ \A i \in DOMAIN s : s[i] \notin Block
    \/ \E i \in DOMAIN s : /\ i + 3 <= Len(s)
                           /\ SubSeq(s, i, i + 2) = <<"start", "menu", "end">>
                           /\ \A j \in DOMAIN s \ (i..i+2) : s[j] \notin Block

\* How many of the lines of s are in L.
CountIn(s, L) == Len(SelectSeq(s, LAMBDA l : l \in L))

TypeOK ==
    /\ which \in {"ini", "sys"}
    /\ attrs \in {"protected", "open"}
    /\ \A s \in {file} \union Range(writing) :
           \A i \in DOMAIN s : s[i] \in Lines

\* No edit touches a line of the owner, adds one or changes their order, as
\* long as the owner has not changed our block in config.sys: modify_bootini,
\* undo_bootini, modify_configsys, undo_configsys.
OwnersLinesKept ==
    [][writing = Idle /\ writing' # Idle /\ Whole(file) =>
           Owned(writing'[1]) = Owned(file)]_vars

\* An edit does its job in every file of the owner's making: the installation
\* leaves our entry in the section of boot.ini whenever the section ends the
\* file or has an empty line, and one block in config.sys; the uninstallation
\* leaves nothing of ours, but for a line that the owner indented.
EditsDoTheirJob ==
    [][/\ ModifyBootini /\ Stops(Append(file, "blank")) # {} =>
              \E i \in DOMAIN writing'[1] : /\ writing'[1][i] = "ours"
                                            /\ InSection(writing'[1], i)
       /\ UndoBootini => CountIn(writing'[1], {"ours"}) = 0
       /\ ModifyConfigsys /\ CountIn(file, Block) = 0 =>
              SelectSeq(writing'[1], LAMBDA l : l \in Block)
                  = <<"start", "menu", "end">>
       /\ UndoConfigsys /\ Whole(file) => CountIn(writing'[1], Block) = 0]_vars
=============================================================================
