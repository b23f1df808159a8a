---------------------------- MODULE Installation ----------------------------
(***************************************************************************)
(* What an installation leaves on the computer, and what later runs of the *)
(* program make of it: the dispatcher of src/src/wubi/application.py       *)
(* (run_installer, run_cd_boot, run_uninstaller) over the task lists of    *)
(* backends/common/backend.py (lines 76-129), whose functions are in       *)
(* backends/win32/backend.py.                                              *)
(*                                                                         *)
(* The persistent state is the target directories, the uninstall key of    *)
(* the registry, the entries of Vista's boot store, boot.ini and the       *)
(* loader files beside it.  A session is one run of the program: it may be *)
(* killed between any two of its steps, any command or file operation may  *)
(* raise, the user may cancel, and the next session finds what is left.    *)
(*                                                                         *)
(* The task list is taken at its contract (module TaskContract): tasks run *)
(* in order, a failed one stops the list, a cancelled list starts no other *)
(* task and lets the running one end.  get_iso is one step here and module *)
(* IsoAcquisition inside.  One drive is modified: the others have no       *)
(* boot.ini, and find the boot store modified already.  backup_iso and     *)
(* uncompress_* change nothing that is kept (the box of the backup is      *)
(* hidden and never checked).                                              *)
(***************************************************************************)
EXTENDS Naturals, FiniteSets

CONSTANTS
    Targets,        \* installation_dir on each drive the user may choose
    NoTarget,
    MaxSessions     \* bound: runs of the program

ASSUME TargetsAssumption ==
    /\ NoTarget \notin Targets
    /\ MaxSessions \in Nat \ {0}

VARIABLES
    tree,       \* for each target, what is there; "dir" is the directory
    reg,        \* the uninstall key: UninstallString, InstallationDir,
                \* VistaBootDrive
    bcd,        \* the entries of the boot store
    ini,        \* boot.ini: what it lists, and whether it is protected
    loader,     \* the files copied to the root of the drive
    bootloader, \* info.bootloader
    created,    \* the last id that bcdedit /create returned
    sessions,   \* runs so far
    mode,       \* info.run_task of the session
    phase,      \* the list that runs: "uninstall" or "install"
    first,      \* info.uninstall_before_install
    prevDir,    \* info.previous_target_dir
    targetDir,  \* info.target_dir
    content,    \* boot.ini as it was read
    pc,
    cancelled,  \* tasklist.cancel() was called
    outcome,    \* how the last session ended
    fault,      \* history: something raised by chance in this session
    prevBoot,   \* history: VistaBootDrive at the start of the session
    byHand,     \* history: a user deleted an installation by hand
    usurped,    \* history: directories a user put where the registry had an
                \* installation
    unheard     \* history: what set_value failed to write since it last did

registry == <<reg, unheard>>
byUsers  == <<byHand, usurped>>
machine == <<tree, registry, bcd, ini, loader, bootloader, created>>
session == <<mode, phase, first, prevDir, targetDir, content, prevBoot, byUsers>>
control == <<pc, cancelled, outcome, fault>>
vars == <<machine, sessions, session, control>>

Modes    == {"install", "cd_boot", "uninstall"}
Items    == {"dir", "install", "uninstaller", "winboot", "system", "foreign"}
Payload  == {"winboot", "system"}
Outcomes == {"none", "done", "nothing", "refused", "stopped", "failed"}
Texts    == {"windows", "entry", "empty"}
NoId     == 0
NoKey    == [uninst |-> NoTarget, dir |-> NoTarget, boot |-> NoId]

UninstallKey == [uninst : Targets \cup {NoTarget}, dir : Targets \cup {NoTarget},
                 boot : 0..MaxSessions]
Writes   == ({"uninst", "dir"} \X Targets) \cup {<<"boot", NoId>>}

LoaderFiles == {"archldr", "archldr.mbr"}

Pages   == {"confirm", "settings"}
\* Where a task starts: a cancelled list goes no further.
TaskStarts == {"undo_boot", "remove_dir", "remove_key", "select", "mkdir",
               "copy_uninstaller", "copy_files", "iso", "kernel", "preseed",
               "modify_boot", "grub"}
\* Inside a task.
Inside  == {"clear_boot", "undo_ini", "unprotect", "truncate", "write",
            "protect", "unlink", "removing", "mktree", "set_uninstall",
            "set_dir", "create", "set_entry", "list_entry", "record"}
Steps   == TaskStarts \cup Inside

TypeOK ==
    /\ tree \in [Targets -> SUBSET Items]
    /\ reg \in UninstallKey
    /\ bcd \subseteq [id : 1..MaxSessions, at : Targets \cup {NoTarget},
                      listed : BOOLEAN]
    /\ ini \in [text : Texts, protected : BOOLEAN]
    /\ loader \subseteq LoaderFiles
    /\ bootloader \in {"vista", "xp"}
    /\ created \in 0..MaxSessions
    /\ sessions \in 0..MaxSessions
    /\ mode \in Modes
    /\ phase \in {"install", "uninstall"}
    /\ first \in BOOLEAN
    /\ {prevDir, targetDir} \subseteq Targets \cup {NoTarget}
    /\ content \in Texts
    /\ pc \in {"off", "again"} \cup Pages \cup Steps
    /\ cancelled \in BOOLEAN
    /\ outcome \in Outcomes
    /\ fault \in BOOLEAN
    /\ prevBoot \in 0..MaxSessions
    /\ byHand \in BOOLEAN
    /\ usurped \subseteq Targets
    /\ unheard \subseteq Writes

-----------------------------------------------------------------------------
(* Helpers.                                                                *)

IsDir(t) == t \in Targets /\ tree[t] # {}

\* A step of a running list: a task of a cancelled list is not started.
At(step) == pc = step /\ (step \in TaskStarts => ~cancelled)

GoTo(step) == /\ pc' = step
              /\ UNCHANGED <<cancelled, outcome, fault>>

End(o) == /\ pc' = "off"
          /\ outcome' = o
          /\ cancelled' = FALSE
          /\ UNCHANGED fault

Add(t, items) == tree' = [tree EXCEPT ![t] = @ \cup items]

\* set_value logs an error of SetValueEx and returns: the caller goes on with the
\* old value in the key.  (An error of CreateKey is raised: Fault.)
SetValue(field, value) ==
    \/ /\ reg' = [reg EXCEPT ![field] = value]
       /\ unheard' = unheard \ {<<field, value>>}
    \/ /\ reg' = reg
       /\ unheard' = unheard \cup {<<field, value>>}

-----------------------------------------------------------------------------
(* The dispatcher.                                                         *)

\* The previous installation run_installer and run_cd_boot insist on removing.
InTheWay(m, d) == IF m = "cd_boot" THEN d # NoTarget ELSE IsDir(d)

\* select_task after fetch_basic_info.  If the uninstaller on disk is another
\* version, run_previous_uninstaller starts it and quits: a session of mode
\* "uninstall", which is here already.
Start(m) ==
    /\ pc = "off"
    /\ sessions < MaxSessions
    /\ sessions' = sessions + 1
    /\ mode' = m
    /\ prevDir' = reg.dir
    /\ prevBoot' = reg.boot
    /\ cancelled' = FALSE
    /\ fault' = FALSE
    /\ targetDir' = NoTarget
    /\ LET previous == m = "uninstall" \/ InTheWay(m, reg.dir) IN
       /\ first' = (m # "uninstall" /\ previous)
       /\ phase' = IF previous THEN "uninstall" ELSE "install"
       /\ IF ~previous
          THEN pc' = "settings" /\ outcome' = "none"
          ELSE IF IsDir(reg.dir)
          THEN pc' = "confirm" /\ outcome' = "none"
          ELSE /\ pc' = "off"      \* "No previous target dir found, exiting"
               /\ outcome' = IF m = "uninstall" THEN "nothing" ELSE "refused"
    /\ UNCHANGED <<machine, content, byUsers>>

\* The button of the uninstallation page.
ConfirmUninstall ==
    /\ pc = "confirm"
    /\ GoTo("undo_boot")
    /\ UNCHANGED <<machine, sessions, session>>

\* The settings page: the user chooses a drive.
ChooseSettings ==
    /\ pc = "settings"
    /\ \E t \in Targets : targetDir' = t
    /\ GoTo("select")
    /\ UNCHANGED <<machine, sessions, mode, phase, first, prevDir, content, prevBoot,
                   byUsers>>

\* fetch_basic_info and the second look after the uninstallation that comes
\* before an installation.
LookAgain ==
    /\ pc = "again"
    /\ prevDir' = reg.dir
    /\ IF cancelled
       THEN End("stopped") /\ phase' = phase
       ELSE IF InTheWay(mode, reg.dir)
       THEN End("refused") /\ phase' = phase
       ELSE GoTo("settings") /\ phase' = "install"
    /\ UNCHANGED <<machine, sessions, mode, first, targetDir, content, prevBoot,
                   byUsers>>

\* A page or the running list is cancelled.
Quit ==
    /\ \/ pc \in Pages /\ End("stopped")
       \/ /\ pc \in Steps /\ ~cancelled
          /\ cancelled' = TRUE
          /\ UNCHANGED <<pc, outcome, fault>>
    /\ UNCHANGED <<machine, sessions, session>>

\* The cancelled list comes to its next task.
Stopped ==
    /\ cancelled /\ pc \in TaskStarts
    /\ End("stopped")
    /\ UNCHANGED <<machine, sessions, session>>

\* A power cut, a killed process, or an exit after join(3) gave up.
Kill ==
    /\ pc # "off"
    /\ End("stopped")
    /\ UNCHANGED <<machine, sessions, session>>

\* What the step would do raises; remove_registry_key logs its error instead.
Fault ==
    /\ pc \in Steps \ {"remove_key"}
    /\ pc \in TaskStarts => ~cancelled
    /\ pc' = "off"
    /\ outcome' = "failed"
    /\ fault' = TRUE
    /\ cancelled' = FALSE
    /\ UNCHANGED <<machine, sessions, session>>

-----------------------------------------------------------------------------
(* The installation list, to the boot entry.                               *)

\* Mutant: the directory is taken without a look.
SelectTargetDir_NoCheck ==
    /\ At("select")
    /\ GoTo("mkdir")
    /\ UNCHANGED <<machine, sessions, session>>

SelectTargetDir ==
    /\ At("select")
    /\ IF IsDir(targetDir) THEN End("refused") ELSE GoTo("mkdir")
    /\ UNCHANGED <<machine, sessions, session>>

\* create_dir_structure makes the target directory first.
MakeTargetDir ==
    /\ At("mkdir")
    /\ Add(targetDir, {"dir"})
    /\ GoTo("mktree")
    /\ UNCHANGED <<registry, bcd, ini, loader, bootloader, created, sessions, session>>

MakeSubdirs ==
    /\ At("mktree")
    /\ Add(targetDir, {"install"})
    /\ GoTo("copy_uninstaller")
    /\ UNCHANGED <<registry, bcd, ini, loader, bootloader, created, sessions, session>>

CopyUninstaller ==
    /\ At("copy_uninstaller")
    /\ Add(targetDir, {"uninstaller"})
    /\ GoTo("set_uninstall")
    /\ UNCHANGED <<registry, bcd, ini, loader, bootloader, created, sessions, session>>

\* Mutant: InstallationDir is not set.
SetUninstallString_Only ==
    /\ At("set_uninstall")
    /\ SetValue("uninst", targetDir)
    /\ GoTo("copy_files")
    /\ UNCHANGED <<tree, bcd, ini, loader, bootloader, created, sessions, session>>

SetUninstallString ==
    /\ At("set_uninstall")
    /\ SetValue("uninst", targetDir)
    /\ GoTo("set_dir")
    /\ UNCHANGED <<tree, bcd, ini, loader, bootloader, created, sessions, session>>

SetInstallationDir ==
    /\ At("set_dir")
    /\ SetValue("dir", targetDir)
    /\ GoTo("copy_files")
    /\ UNCHANGED <<tree, bcd, ini, loader, bootloader, created, sessions, session>>

\* copy_installation_files, get_iso (or use_cd), extract_kernel, create_preseed.
FillWith  == [copy_files |-> "winboot", iso |-> "system", kernel |-> "system",
              preseed |-> "system"]
FillNext  == [copy_files |-> "iso", iso |-> "kernel", kernel |-> "preseed",
              preseed |-> "modify_boot"]
Fill ==
    \E step \in DOMAIN FillWith :
        /\ At(step)
        /\ Add(targetDir, {FillWith[step]})
        /\ GoTo(FillNext[step])
        /\ UNCHANGED <<registry, bcd, ini, loader, bootloader, created, sessions, session>>

\* The head of modify_bcd and modify_bootini: the loader goes to the drive; a
\* recorded VistaBootDrive is taken for an entry.
ModifyBootloader ==
    /\ At("modify_boot")
    /\ loader' = LoaderFiles
    /\ GoTo(CASE bootloader = "xp" -> "unprotect"
              [] bootloader = "vista" /\ reg.boot = NoId -> "create"
              [] OTHER -> "grub")
    /\ UNCHANGED <<tree, registry, bcd, ini, bootloader, created, sessions, session>>

\* Mutant: the id is recorded as soon as it is known.
CreateEntry_Recorded ==
    /\ At("create")
    /\ created' = created + 1
    /\ bcd' = bcd \cup {[id |-> created + 1, at |-> NoTarget, listed |-> FALSE]}
    /\ reg' = [reg EXCEPT !.boot = created + 1]
    /\ GoTo("set_entry")
    /\ UNCHANGED <<tree, unheard, ini, loader, bootloader, sessions, session>>

\* bcdedit /create.
CreateEntry ==
    /\ At("create")
    /\ created' = created + 1
    /\ bcd' = bcd \cup {[id |-> created + 1, at |-> NoTarget, listed |-> FALSE]}
    /\ GoTo("set_entry")
    /\ UNCHANGED <<tree, registry, ini, loader, bootloader, sessions, session>>

UpdateEntry(at, listed) ==
    bcd' = {e \in bcd : e.id # created}
               \cup {[id |-> created, at |-> at, listed |-> listed]}

\* bcdedit /set device and path.
SetEntry ==
    /\ At("set_entry")
    /\ UpdateEntry(targetDir, FALSE)
    /\ GoTo("list_entry")
    /\ UNCHANGED <<tree, registry, ini, loader, bootloader, created, sessions, session>>

\* bcdedit /displayorder and /timeout.
ListEntry ==
    /\ At("list_entry")
    /\ UpdateEntry(targetDir, TRUE)
    /\ GoTo("record")
    /\ UNCHANGED <<tree, registry, ini, loader, bootloader, created, sessions, session>>

\* The id of the new entry.  A swallowed error leaves the entry without a record
\* (nothing reads unheard for it).
RecordEntry ==
    /\ At("record")
    /\ reg' \in {[reg EXCEPT !.boot = created], reg}
    /\ GoTo("grub")
    /\ UNCHANGED <<tree, unheard, bcd, ini, loader, bootloader, created, sessions, session>>

\* modify_grub_configuration: root_size_mb + 'MB' adds an int and a string, so
\* that create_virtual_disks, uncompress_files and eject_cd are never reached.
ModifyGrubConfiguration ==
    /\ At("grub")
    /\ End("failed")
    /\ UNCHANGED <<machine, sessions, session>>

-----------------------------------------------------------------------------
(* boot.ini: modify_bootini and undo_bootini (remove_line_in_file) read it, *)
(* open it for writing, which empties it, and write it.                     *)

Unprotect ==
    /\ At("unprotect")
    /\ ini' = [ini EXCEPT !.protected = FALSE]
    /\ content' = ini.text
    /\ IF phase = "install" /\ ini.text = "empty"
       THEN End("failed")          \* content[-1] of an empty file
       ELSE GoTo("truncate")
    /\ UNCHANGED <<tree, registry, bcd, loader, bootloader, created, sessions, mode, phase,
                   first, prevDir, targetDir, prevBoot, byUsers>>

Truncate ==
    /\ At("truncate")
    /\ ini' = [ini EXCEPT !.text = "empty"]
    /\ GoTo("write")
    /\ UNCHANGED <<tree, registry, bcd, loader, bootloader, created, sessions, session>>

NewText == IF phase = "install" THEN "entry"
           ELSE IF content = "empty" THEN "empty" ELSE "windows"

WriteIni ==
    /\ At("write")
    /\ ini' = [ini EXCEPT !.text = NewText]
    /\ GoTo("protect")
    /\ UNCHANGED <<tree, registry, bcd, loader, bootloader, created, sessions, session>>

Protect ==
    /\ At("protect")
    /\ ini' = [ini EXCEPT !.protected = TRUE]
    /\ GoTo(IF phase = "install" THEN "grub" ELSE "unlink")
    /\ UNCHANGED <<tree, registry, bcd, loader, bootloader, created, sessions, session>>

-----------------------------------------------------------------------------
(* The uninstallation list.                                                *)

\* Mutant: the record is cleared, the entry is kept.
UndoBcd_Keep ==
    /\ At("undo_boot")
    /\ GoTo(IF reg.boot = NoId THEN "undo_ini" ELSE "clear_boot")
    /\ UNCHANGED <<machine, sessions, session>>

\* undo_bcd: bcdedit /delete fails if there is no such entry.
UndoBcd ==
    /\ At("undo_boot")
    /\ CASE reg.boot = NoId ->
              GoTo("undo_ini") /\ UNCHANGED bcd
         [] reg.boot # NoId /\ \E e \in bcd : e.id = reg.boot ->
              GoTo("clear_boot") /\ bcd' = {e \in bcd : e.id # reg.boot}
         [] OTHER ->
              End("failed") /\ UNCHANGED bcd
    /\ UNCHANGED <<tree, registry, ini, loader, bootloader, created, sessions, session>>

\* Mutant: the record is kept.
ClearBootRecord_Kept ==
    /\ At("clear_boot")
    /\ GoTo("undo_ini")
    /\ UNCHANGED <<machine, sessions, session>>

ClearBootRecord ==
    /\ At("clear_boot")
    /\ SetValue("boot", NoId)
    /\ GoTo("undo_ini")
    /\ UNCHANGED <<tree, bcd, ini, loader, bootloader, created, sessions, session>>

\* undo_bootini returns where there is no boot.ini.
UndoBootini ==
    /\ At("undo_ini")
    /\ GoTo(IF bootloader = "xp" THEN "unprotect" ELSE "unlink")
    /\ UNCHANGED <<machine, sessions, session>>

UnlinkLoader ==
    /\ At("unlink")
    /\ loader' = {}
    /\ GoTo("remove_dir")
    /\ UNCHANGED <<tree, registry, bcd, ini, bootloader, created, sessions, session>>

RemoveTargetDir ==
    /\ At("remove_dir")
    /\ GoTo(IF IsDir(prevDir) THEN "removing" ELSE "remove_key")
    /\ UNCHANGED <<machine, sessions, session>>

\* rm_tree: the files in some order, the directory last.
RmTree ==
    /\ At("removing")
    /\ \/ \E x \in tree[prevDir] \ {"dir"} :
              /\ tree' = [tree EXCEPT ![prevDir] = @ \ {x}]
              /\ UNCHANGED control
       \/ /\ tree[prevDir] \subseteq {"dir"}
          /\ tree' = [tree EXCEPT ![prevDir] = {}]
          /\ GoTo("remove_key")
    /\ UNCHANGED <<registry, bcd, ini, loader, bootloader, created, sessions, session>>

\* delete_key swallows its exceptions.
RemoveRegistryKey ==
    /\ At("remove_key")
    /\ \/ reg' = NoKey /\ unheard' = unheard \ {<<"boot", NoId>>}
       \/ UNCHANGED registry
    /\ IF first THEN GoTo("again") ELSE End("done")
    /\ UNCHANGED <<tree, bcd, ini, loader, bootloader, created, sessions, session>>

-----------------------------------------------------------------------------
(* The user, between two runs of the program.                              *)

\* Something else is put where the program would install, which may be where
\* the registry still has an installation.
UserCreates(t) ==
    /\ pc = "off"
    /\ tree[t] = {}
    /\ Add(t, {"dir", "foreign"})
    /\ usurped' = IF reg.dir = t THEN usurped \cup {t} ELSE usurped \ {t}
    /\ UNCHANGED <<registry, bcd, ini, loader, bootloader, created, sessions, mode,
                   phase, first, prevDir, targetDir, content, prevBoot, byHand,
                   control>>

\* "Please remove it before continuing": the directory is deleted by hand.
UserDeletes(t) ==
    /\ pc = "off"
    /\ tree[t] # {}
    /\ tree' = [tree EXCEPT ![t] = {}]
    /\ byHand' = (byHand \/ "winboot" \in tree[t])
    /\ usurped' = usurped \ {t}
    /\ UNCHANGED <<registry, bcd, ini, loader, bootloader, created, sessions, mode,
                   phase, first, prevDir, targetDir, content, prevBoot, control>>

-----------------------------------------------------------------------------
Init ==
    /\ tree = [t \in Targets |-> {}]
    /\ reg = NoKey
    /\ bcd = {}
    /\ ini = [text |-> "windows", protected |-> TRUE]
    /\ loader = {}
    /\ bootloader \in {"vista", "xp"}
    /\ created = 0
    /\ sessions = 0
    /\ mode = "install"
    /\ phase = "install"
    /\ first = FALSE
    /\ prevDir = NoTarget
    /\ targetDir = NoTarget
    /\ content = "windows"
    /\ pc = "off"
    /\ cancelled = FALSE
    /\ outcome = "none"
    /\ fault = FALSE
    /\ prevBoot = NoId
    /\ byHand = FALSE
    /\ usurped = {}
    /\ unheard = {}

Dispatch  == (\E m \in Modes : Start(m)) \/ ConfirmUninstall \/ ChooseSettings
             \/ LookAgain \/ Quit \/ Stopped \/ Kill \/ Fault
Install   == \/ SelectTargetDir \/ MakeTargetDir \/ MakeSubdirs
             \/ CopyUninstaller \/ SetUninstallString \/ SetInstallationDir
             \/ Fill \/ ModifyBootloader \/ CreateEntry \/ SetEntry
             \/ ListEntry \/ RecordEntry \/ ModifyGrubConfiguration
EditIni   == Unprotect \/ Truncate \/ WriteIni \/ Protect
Uninstall == \/ UndoBcd \/ ClearBootRecord \/ UndoBootini \/ UnlinkLoader
             \/ RemoveTargetDir \/ RmTree \/ RemoveRegistryKey
User      == \E t \in Targets : UserCreates(t) \/ UserDeletes(t)

Next == Dispatch \/ Install \/ EditIni \/ Uninstall \/ User

Spec == Init /\ [][Next]_vars

-----------------------------------------------------------------------------
(* What must hold.                                                         *)

\* After an error of SetValueEx that set_value swallowed: an installation whose
\* InstallationDir, and a deletion of the boot entry whose empty VistaBootDrive,
\* never got into the registry.
Forgotten(t) == <<"dir", t>> \in unheard /\ "winboot" \in tree[t]
ClearUnheard == <<"boot", NoId>> \in unheard

\* The registry leads to the directory, or a swallowed write is why it does not.
Known(t) == \/ <<"dir", t>> \in unheard
            \/ reg.dir = t /\ (reg.uninst = t \/ <<"uninst", t>> \in unheard)

\* A directory that holds more than the bare structure and the uninstaller is
\* one the registry leads the uninstaller to, however the installation that
\* filled it ended: create_uninstaller comes before copy_installation_files,
\* and nothing else is installed before the old directory is gone.  Only a write
\* that set_value swallowed can break that, and only for its own directory: with
\* no InstallationDir nothing leads there, without an UninstallString the entry
\* of the control panel is wrong and the program still finds the directory.
UninstallerKnowsTarget ==
    \A t \in Targets : tree[t] \cap Payload # {} => Known(t)

\* The boot entry that VistaBootDrive names leads to a directory with the boot
\* files: it is recorded when it is complete, and the record is cleared before
\* remove_target_dir deletes the first file.  Only a user can break that, by
\* deleting the directory.  An entry without a record (the session ended before
\* set_value, or set_value swallowed its error) is not spoken of: nothing in the
\* program finds it again.
RecordedEntryBoots ==
    \A e \in bcd : e.id = reg.boot =>
        /\ e.listed /\ e.at # NoTarget
        /\ "winboot" \in tree[e.at] \/ byHand

\* boot.ini lists the loader only while its files are on the drive:
\* modify_bootini copies them first, undo_bootloader unlinks them last.
BootIniHasLoader == ini.text = "entry" => loader = LoaderFiles

\* What the boot menu of the machine offers for the recorded installation can be
\* booted, old Windows or new.
EntriesBoot == TypeOK /\ RecordedEntryBoots /\ BootIniHasLoader

\* Whatever the user keeps where the program would install is never written
\* into and never deleted, in the same session or by a later uninstallation,
\* swallowed writes and killed sessions included.  What the user put where the
\* registry still had an installation is the one exception: run_installer and
\* run_uninstaller take it for that installation, and rm_tree deletes it.
ForeignUntouched ==
    [][pc # "off" =>
           \A t \in Targets \ usurped :
               "foreign" \in tree[t] => tree'[t] = tree[t]]_vars

\* README: "adds a new boot entry to the existing windows bootloader"
\* (src/README:57).  When modify_bootloader is done, the machine has an entry
\* for the directory just filled.  The exceptions are the ways an old
\* VistaBootDrive is still there to be taken for an entry of this one: its
\* installation was deleted by hand, or forgotten because its InstallationDir
\* was never written, or the record outlived undo_bcd.
BootEntryAdded ==
    pc = "grub" =>
        \/ bootloader = "xp" /\ ini.text = "entry"
        \/ bootloader = "vista" /\ \E e \in bcd : e.listed /\ e.at = targetDir
        \/ /\ reg.boot # NoId
           /\ \/ byHand \/ ClearUnheard
              \/ \E t \in Targets \ {targetDir} : Forgotten(t)

\* The uninstallation list ran to its end.
Uninstalled == pc = "again" \/ (pc = "off" /\ outcome = "done")

\* It removed the directory, the boot entry that was recorded when it started,
\* the line of boot.ini and the loader, whatever earlier sessions left.
UninstallRemovesWhatItKnew ==
    Uninstalled =>
        /\ tree[prevDir] \subseteq {"dir", "foreign"}
        /\ \A e \in bcd : e.id # prevBoot
        /\ ini.text # "entry"
        /\ loader = {}

\* Killed, cancelled and failed sessions can be repeated: an uninstallation in
\* which nothing goes wrong by chance fails in one case only, when
\* VistaBootDrive names an entry that was deleted already.
UninstallFailsOnlyDangling ==
    outcome = "failed" /\ phase = "uninstall" /\ ~fault =>
        reg.boot # NoId /\ \A e \in bcd : e.id # reg.boot

\* Uninstallation can be relied on: it does its job, and it can be repeated.
UninstallWorks == UninstallRemovesWhatItKnew /\ UninstallFailsOnlyDangling
=============================================================================
