-------------------------- MODULE InstallationInv ---------------------------
(***************************************************************************)
(* The inductive invariant of Installation: what the machine and the       *)
(* running session have in common between any two steps, as far as the     *)
(* properties of Installation need it.  InstallationProofs proves it; add  *)
(* INVARIANT IInv to MCInstallation.cfg to see TLC check it first.         *)
(***************************************************************************)
EXTENDS Installation

\* Where a session stands.  The four steps that edit boot.ini belong to either
\* list.
Editing     == {"unprotect", "truncate", "write", "protect"}
BeforeKey   == {"settings", "select", "mkdir", "mktree", "copy_uninstaller",
                "set_uninstall", "set_dir"}
Filling     == {"copy_files", "iso", "kernel", "preseed", "modify_boot"}
MakingEntry == {"create", "set_entry", "list_entry", "record"}
Undoing     == {"confirm", "undo_boot", "clear_boot", "undo_ini", "unlink",
                "remove_dir", "removing", "remove_key", "again"}

InList(p) == phase = p /\ pc \in Editing

\* The installation list, once create_uninstaller has tried to set InstallationDir.
Installing == pc \in Filling \cup MakingEntry \cup {"grub"} \/ InList("install")

\* The uninstallation list, once undo_bcd is done.
Unbooted == \/ pc \in {"undo_ini", "unlink", "remove_dir", "removing", "remove_key",
                       "again"}
            \/ InList("uninstall")

\* A session that runs has no outcome, and its list is the one its step is of.
ControlInv ==
    /\ pc # "off" => outcome = "none"
    /\ pc \in BeforeKey \cup Filling \cup MakingEntry \cup {"grub"} => phase = "install"
    /\ pc \in Undoing => phase = "uninstall"
    /\ pc \in Editing => bootloader = "xp"
    /\ pc \in MakingEntry => bootloader = "vista"

\* Every session makes one entry at most.
CountInv ==
    /\ created <= sessions
    /\ pc \notin {"off", "set_entry", "list_entry", "record", "grub"} =>
           created < sessions
    /\ pc \in {"set_entry", "list_entry", "record"} => created > 0

\* The directory that an installation fills was empty when it was chosen, and
\* is known before anything of value is in it; the only full directories beside
\* it are those whose InstallationDir was swallowed.
TargetInv ==
    /\ pc \in BeforeKey \ {"settings"} => targetDir \in Targets
    /\ pc \in BeforeKey => \A t \in Targets :
           tree[t] \cap Payload # {} => <<"dir", t>> \in unheard
    /\ pc \in BeforeKey \ {"settings", "select"} \/ Installing =>
           "foreign" \notin tree[targetDir]
    /\ pc \in BeforeKey \ {"settings", "select"} => tree[targetDir] \cap Payload = {}
    /\ pc = "mktree" => "dir" \in tree[targetDir]
    /\ pc \in {"copy_uninstaller", "set_uninstall", "set_dir"} =>
           tree[targetDir] # {}
    /\ pc = "set_dir" => reg.uninst = targetDir \/ <<"uninst", targetDir>> \in unheard
    /\ Installing => targetDir \in Targets /\ Known(targetDir)
    /\ Installing /\ pc # "copy_files" => "winboot" \in tree[targetDir]

\* An uninstallation works on the directory of the registry, which is somebody
\* else's only if the user put it there.
RecordInv ==
    /\ reg.dir \in Targets /\ "foreign" \in tree[reg.dir] => reg.dir \in usurped
    /\ pc \in Undoing \/ InList("uninstall") \/ Uninstalled => prevDir \in Targets
    /\ pc \in Undoing \ {"again"} \/ InList("uninstall") => prevDir = reg.dir
    /\ pc = "remove_key" => tree[prevDir] = {}

\* How a VistaBootDrive comes to be there without its installation, or with one
\* that the uninstaller does not know.
Leftover(S) == byHand \/ ClearUnheard \/ \E t \in S : Forgotten(t)

\* A new entry is made, and the old directory deleted, without a record, and
\* without an entry that has one.
BootInv ==
    /\ reg.boot # NoId =>
           \/ Leftover(Targets)
           \/ reg.dir \in Targets /\ "winboot" \in tree[reg.dir]
    /\ pc \in BeforeKey /\ reg.boot # NoId => Leftover(Targets)
    /\ pc \in Filling /\ reg.boot # NoId => Leftover(Targets \ {targetDir})
    /\ pc \in MakingEntry => reg.boot = NoId
    /\ Unbooted => \A e \in bcd : e.id # reg.boot
    /\ Unbooted /\ reg.boot # NoId => ClearUnheard
    /\ pc = "clear_boot" => \A e \in bcd : e.id # reg.boot

\* The entry that is being made.
EntryInv ==
    /\ pc = "list_entry" => \A e \in bcd : e.id = created => e.at = targetDir
    /\ pc = "record" =>
        /\ \A e \in bcd : e.id = created => e.at = targetDir /\ e.listed
        /\ \E e \in bcd : e.listed /\ e.at = targetDir

\* boot.ini lists the loader only where there is a boot.ini, and only before
\* the uninstallation list takes its files away.
IniInv ==
    /\ ini.text = "entry" => bootloader = "xp"
    /\ InList("install") => loader = LoaderFiles
    /\ pc = "protect" => (ini.text = "entry" <=> phase = "install")
    /\ pc \in {"unlink", "remove_dir", "removing", "remove_key"} => ini.text # "entry"
    /\ pc \in {"remove_dir", "removing", "remove_key"} => loader = {}

\* What the uninstallation removes is what was there when it started.
StartInv ==
    /\ pc \in {"confirm", "undo_boot"} => reg.boot = prevBoot
    /\ pc = "clear_boot" \/ Unbooted => \A e \in bcd : e.id # prevBoot

\* The whole: inductive over all sessions, whatever ends them.
IInv ==
    /\ TypeOK
    /\ ControlInv
    /\ CountInv
    /\ TargetInv
    /\ RecordInv
    /\ BootInv
    /\ EntryInv
    /\ IniInv
    /\ StartInv
    /\ UninstallerKnowsTarget
    /\ RecordedEntryBoots
    /\ BootIniHasLoader
    /\ BootEntryAdded
    /\ UninstallRemovesWhatItKnew
    /\ UninstallFailsOnlyDangling
=============================================================================
