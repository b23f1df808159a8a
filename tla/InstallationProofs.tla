------------------------- MODULE InstallationProofs -------------------------
(***************************************************************************)
(* Theorems about what installations leave on the computer, for every set  *)
(* of drives and every number of sessions.  IInv is inductive: one lemma   *)
(* for each of its parts says what the part needs of the others, with one  *)
(* step for each action, or for actions that leave the part alone.         *)
(***************************************************************************)
EXTENDS InstallationInv, TLAPS

USE TargetsAssumption
    DEF TargetsAssumption, machine, registry, byUsers, session, control, GoTo, End, At,
        NoId

-----------------------------------------------------------------------------
\* What the writes to the registry leave: the other two values, and every other
\* lost write; the value is what it should be, or its write is lost.
LEMMA UninstWrite ==
    ASSUME reg \in UninstallKey, SetUninstallString
    PROVE  /\ reg'.dir = reg.dir /\ reg'.boot = reg.boot
           /\ reg'.uninst = targetDir \/ <<"uninst", targetDir>> \in unheard'
           /\ \A t : <<"dir", t>> \in unheard' <=> <<"dir", t>> \in unheard
           /\ <<"boot", NoId>> \in unheard' <=> <<"boot", NoId>> \in unheard
           /\ targetDir \in Targets /\ unheard \subseteq Writes =>
                  reg' \in UninstallKey /\ unheard' \subseteq Writes
  BY DEF SetUninstallString, SetValue, UninstallKey, Writes

LEMMA DirWrite ==
    ASSUME reg \in UninstallKey, SetInstallationDir
    PROVE  /\ reg'.uninst = reg.uninst /\ reg'.boot = reg.boot
           /\ \/ reg'.dir = targetDir
              \/ <<"dir", targetDir>> \in unheard' /\ reg'.dir = reg.dir
           /\ \A t : t # targetDir =>
                  (<<"dir", t>> \in unheard' <=> <<"dir", t>> \in unheard)
           /\ \A t : <<"uninst", t>> \in unheard' <=> <<"uninst", t>> \in unheard
           /\ <<"boot", NoId>> \in unheard' <=> <<"boot", NoId>> \in unheard
           /\ targetDir \in Targets /\ unheard \subseteq Writes =>
                  reg' \in UninstallKey /\ unheard' \subseteq Writes
  BY DEF SetInstallationDir, SetValue, UninstallKey, Writes

LEMMA BootWrite ==
    ASSUME reg \in UninstallKey, RecordEntry
    PROVE  /\ reg'.uninst = reg.uninst /\ reg'.dir = reg.dir
           /\ reg'.boot \in {created, reg.boot}
           /\ created \in 0..MaxSessions => reg' \in UninstallKey
  BY DEF RecordEntry, UninstallKey

LEMMA BootClear ==
    ASSUME reg \in UninstallKey, ClearBootRecord
    PROVE  /\ reg'.uninst = reg.uninst /\ reg'.dir = reg.dir
           /\ \/ reg'.boot = NoId
              \/ <<"boot", NoId>> \in unheard' /\ reg'.boot = reg.boot
           /\ \A t : <<"dir", t>> \in unheard' <=> <<"dir", t>> \in unheard
           /\ \A t : <<"uninst", t>> \in unheard' <=> <<"uninst", t>> \in unheard
           /\ unheard \subseteq Writes => reg' \in UninstallKey /\ unheard' \subseteq Writes
  BY DEF ClearBootRecord, SetValue, UninstallKey, Writes

LEMMA KeyRemoved ==
    ASSUME reg \in UninstallKey, RemoveRegistryKey
    PROVE  /\ \/ reg'.uninst = NoTarget /\ reg'.dir = NoTarget /\ reg'.boot = NoId
              \/ reg' = reg /\ unheard' = unheard
           /\ \A t : <<"dir", t>> \in unheard' <=> <<"dir", t>> \in unheard
           /\ \A t : <<"uninst", t>> \in unheard' <=> <<"uninst", t>> \in unheard
           /\ reg' \in UninstallKey
           /\ unheard \subseteq Writes => unheard' \subseteq Writes
  BY DEF RemoveRegistryKey, NoKey, UninstallKey

-----------------------------------------------------------------------------
\* A computer without an installation.
LEMMA InitIInv == Init => IInv
<1> SUFFICES ASSUME Init PROVE IInv
  OBVIOUS
<1>1. TypeOK
  <2>1. tree \in [Targets -> SUBSET Items] /\ bcd = {} /\ loader = {}
    BY DEF Init
  <2>2. reg \in UninstallKey /\ unheard \subseteq Writes
    BY DEF Init, NoKey, UninstallKey
  <2>3. ini \in [text : Texts, protected : BOOLEAN] /\ content \in Texts
    BY DEF Init, Texts
  <2>4. created = 0 /\ sessions = 0 /\ prevBoot = 0 /\ first = FALSE /\ cancelled = FALSE
        /\ fault = FALSE /\ byHand = FALSE /\ usurped = {} /\ unheard = {}
        /\ prevDir = NoTarget /\ targetDir = NoTarget
        /\ bootloader \in {"vista", "xp"} /\ phase = "install" /\ pc = "off"
    BY DEF Init
  <2>5. mode \in Modes /\ outcome \in Outcomes
    BY DEF Init, Modes, Outcomes
  <2>6. created \in 0..MaxSessions /\ sessions \in 0..MaxSessions /\ prevBoot \in 0..MaxSessions
    BY <2>4
  <2>7. {prevDir, targetDir} \subseteq Targets \cup {NoTarget}
    BY <2>4
  <2>8. bcd \subseteq [id : 1..MaxSessions, at : Targets \cup {NoTarget}, listed : BOOLEAN]
        /\ loader \subseteq LoaderFiles
    BY <2>1
  <2>9. QED
    BY <2>1, <2>2, <2>3, <2>4, <2>5, <2>6, <2>7, <2>8 DEF TypeOK
<1>2. pc = "off" /\ tree = [t \in Targets |-> {}] /\ reg = NoKey /\ bcd = {}
      /\ unheard = {} /\ ini.text = "windows" /\ created = 0 /\ sessions = 0 /\ outcome = "none"
  BY DEF Init
<1>3. ~Installing /\ ~Unbooted /\ ~Uninstalled /\ pc \notin Editing
  BY <1>2 DEF Installing, Unbooted, Uninstalled, InList, Editing, Filling, MakingEntry
<1>4. ControlInv /\ CountInv
  BY <1>2, <1>3 DEF ControlInv, CountInv, BeforeKey, Filling, MakingEntry, Undoing
<1>5. TargetInv /\ RecordInv
  BY <1>2, <1>3 DEF TargetInv, RecordInv, BeforeKey, Undoing, InList, NoKey
<1>6. BootInv /\ EntryInv /\ IniInv /\ StartInv
  BY <1>2, <1>3 DEF BootInv, EntryInv, IniInv, StartInv, BeforeKey, Filling, MakingEntry,
     InList, NoKey
<1>7. UninstallerKnowsTarget /\ RecordedEntryBoots /\ BootIniHasLoader /\ BootEntryAdded
  BY <1>2 DEF UninstallerKnowsTarget, RecordedEntryBoots, BootIniHasLoader, BootEntryAdded
<1>8. UninstallRemovesWhatItKnew /\ UninstallFailsOnlyDangling
  BY <1>2, <1>3 DEF UninstallRemovesWhatItKnew, UninstallFailsOnlyDangling
<1>9. QED
  BY <1>1, <1>4, <1>5, <1>6, <1>7, <1>8 DEF IInv


\* The types.  An id of a boot entry is at most the number of sessions,
\* because a session that comes to bcdedit /create has not been there
\* before.
LEMMA NextTypeOK == IInv /\ [Next]_vars => TypeOK'
<1> SUFFICES ASSUME TypeOK,
                    pc \in {"mkdir", "mktree", "copy_uninstaller", "set_uninstall", "set_dir"}
                       \/ Installing => targetDir \in Targets,
                    pc = "removing" => prevDir \in Targets,
                    pc = "create" => created < sessions,
                    pc \in {"set_entry", "list_entry", "record"} => created > 0,
                    [Next]_vars
             PROVE  TypeOK'
  BY DEF IInv, CountInv, TargetInv, RecordInv, BeforeKey, Undoing
<1> USE DEF TypeOK, Installing, InList, Editing, Filling, MakingEntry, Modes,
   Items, Outcomes, Texts, NoKey, LoaderFiles, TaskStarts, Inside, Pages,
   Steps
<1>1. ASSUME NEW m \in Modes, Start(m) PROVE TypeOK'
  <2>1. pc' \in {"off", "settings", "confirm"} /\ outcome' \in {"none", "nothing", "refused"}
    BY <1>1 DEF Start
  <2>2. sessions' \in 0..MaxSessions /\ mode' \in Modes /\ prevDir' = reg.dir /\ prevBoot' = reg.boot
    BY <1>1 DEF Start
  <2>3. UNCHANGED <<machine, content, byUsers>> /\ cancelled' = FALSE /\ fault' = FALSE
       /\ targetDir' = NoTarget
    BY <1>1 DEF Start
  <2>4. first' \in BOOLEAN /\ phase' \in {"install", "uninstall"}
    BY <1>1 DEF Start
  <2>5. pc' \in {"off", "again"} \cup Pages \cup Steps /\ outcome' \in Outcomes
    BY <2>1
  <2>6. prevDir' \in Targets \cup {NoTarget} /\ prevBoot' \in 0..MaxSessions
    BY <2>2 DEF UninstallKey
  <2>7. {prevDir', targetDir'} \subseteq Targets \cup {NoTarget}
    BY <2>3, <2>6
  <2>8. QED
    BY <2>2, <2>3, <2>4, <2>5, <2>6, <2>7
<1>2. CASE ConfirmUninstall
  BY <1>2 DEF ConfirmUninstall
<1>3. CASE ChooseSettings
  BY <1>3 DEF ChooseSettings
<1>4. CASE LookAgain
  <2>1. reg.dir \in Targets \cup {NoTarget}
    BY DEF UninstallKey
  <2>2. prevDir' = reg.dir /\ pc' \in {"off", "settings"} /\ phase' \in {phase, "install"}
        /\ outcome' \in {outcome, "stopped", "refused"} /\ cancelled' \in BOOLEAN
        /\ UNCHANGED <<machine, sessions, mode, first, targetDir, content, prevBoot, byUsers,
                       fault>>
    BY <1>4 DEF LookAgain
  <2>3. {prevDir', targetDir'} \subseteq Targets \cup {NoTarget}
    BY <2>1, <2>2
  <2>4. QED
    BY <2>2, <2>3
<1>5. CASE Quit
  <2>1. UNCHANGED <<machine, sessions, session, fault>> /\ cancelled' \in BOOLEAN
    BY <1>5 DEF Quit
  <2>2. pc' \in {pc, "off"} /\ outcome' \in {outcome, "stopped"}
    BY <1>5 DEF Quit
  <2>3. QED
    BY <2>1, <2>2
<1>6. CASE Stopped
  <2>1. UNCHANGED <<machine, sessions, session>> /\ pc' = "off"
        /\ outcome' \in {"stopped", "failed"}
    BY <1>6 DEF Stopped
  <2>2. cancelled' \in BOOLEAN /\ fault' \in BOOLEAN
    BY <1>6 DEF Stopped
  <2>3. QED
    BY <2>1, <2>2
<1>7. CASE Kill
  <2>1. UNCHANGED <<machine, sessions, session>> /\ pc' = "off"
        /\ outcome' \in {"stopped", "failed"}
    BY <1>7 DEF Kill
  <2>2. cancelled' \in BOOLEAN /\ fault' \in BOOLEAN
    BY <1>7 DEF Kill
  <2>3. QED
    BY <2>1, <2>2
<1>8. CASE Fault
  <2>1. UNCHANGED <<machine, sessions, session>> /\ pc' = "off"
        /\ outcome' \in {"stopped", "failed"}
    BY <1>8 DEF Fault
  <2>2. cancelled' \in BOOLEAN /\ fault' \in BOOLEAN
    BY <1>8 DEF Fault
  <2>3. QED
    BY <2>1, <2>2
<1>9. CASE SelectTargetDir \/ MakeTargetDir \/ MakeSubdirs \/ CopyUninstaller
   \/ SetUninstallString \/ SetInstallationDir
  <2>1. CASE SelectTargetDir
    <3>1. UNCHANGED <<machine, sessions, session, fault>> /\ pc' \in {"off", "mkdir"}
          /\ outcome' \in {outcome, "refused"}
      BY <2>1 DEF SelectTargetDir
    <3>2. cancelled' \in BOOLEAN
      BY <2>1 DEF SelectTargetDir
    <3>3. QED
      BY <3>1, <3>2
  <2>2. CASE MakeTargetDir \/ MakeSubdirs \/ CopyUninstaller
    <3>1. targetDir \in Targets
      BY <2>2 DEF MakeTargetDir, MakeSubdirs, CopyUninstaller
    <3>2. \E items \in SUBSET Items : Add(targetDir, items)
      BY <2>2 DEF MakeTargetDir, MakeSubdirs, CopyUninstaller
    <3> HIDE DEF Items
    <3>3. tree' \in [Targets -> SUBSET Items]
      BY <3>1, <3>2 DEF Add
    <3>4. UNCHANGED <<registry, bcd, ini, loader, bootloader, created, sessions, session,
                      cancelled, outcome, fault>>
          /\ pc' \in {"mktree", "copy_uninstaller", "set_uninstall"}
      BY <2>2 DEF MakeTargetDir, MakeSubdirs, CopyUninstaller
    <3>5. QED
      BY <3>3, <3>4
  <2>3. CASE SetUninstallString
    <3>1. targetDir \in Targets
      BY <2>3 DEF SetUninstallString
    <3>2. reg' \in UninstallKey /\ unheard' \subseteq Writes
      BY <2>3, <3>1, UninstWrite
    <3>3. QED
      BY <2>3, <3>2 DEF SetUninstallString
  <2>4. CASE SetInstallationDir
    <3>1. targetDir \in Targets
      BY <2>4 DEF SetInstallationDir
    <3>2. reg' \in UninstallKey /\ unheard' \subseteq Writes
      BY <2>4, <3>1, DirWrite
    <3>3. QED
      BY <2>4, <3>2 DEF SetInstallationDir
  <2>5. QED
    BY <1>9, <2>1, <2>2, <2>3, <2>4
<1>10. CASE Fill
  BY <1>10 DEF Fill, FillNext, FillWith, Add
<1>11. CASE CreateEntry
  <2>1. created + 1 \in 1..MaxSessions
    BY <1>11 DEF CreateEntry
  <2>2. [id |-> created + 1, at |-> NoTarget, listed |-> FALSE]
          \in [id : 1..MaxSessions, at : Targets \cup {NoTarget}, listed : BOOLEAN]
    BY <2>1
  <2>3. bcd' \subseteq [id : 1..MaxSessions, at : Targets \cup {NoTarget}, listed : BOOLEAN]
    BY <1>11, <2>2 DEF CreateEntry
  <2>4. QED
    BY <1>11, <2>1, <2>3 DEF CreateEntry
<1>12. CASE SetEntry
  <2>1. [id |-> created, at |-> targetDir, listed |-> FALSE]
          \in [id : 1..MaxSessions, at : Targets \cup {NoTarget}, listed : BOOLEAN]
    BY <1>12 DEF SetEntry
  <2>2. bcd' \subseteq [id : 1..MaxSessions, at : Targets \cup {NoTarget}, listed : BOOLEAN]
    BY <1>12, <2>1 DEF SetEntry, UpdateEntry
  <2>3. QED
    BY <1>12, <2>2 DEF SetEntry
<1>13. CASE ListEntry
  <2>1. [id |-> created, at |-> targetDir, listed |-> TRUE]
          \in [id : 1..MaxSessions, at : Targets \cup {NoTarget}, listed : BOOLEAN]
    BY <1>13 DEF ListEntry
  <2>2. bcd' \subseteq [id : 1..MaxSessions, at : Targets \cup {NoTarget}, listed : BOOLEAN]
    BY <1>13, <2>1 DEF ListEntry, UpdateEntry
  <2>3. QED
    BY <1>13, <2>2 DEF ListEntry
<1>14. CASE ModifyBootloader \/ RecordEntry \/ ModifyGrubConfiguration
  <2>1. CASE ModifyBootloader
    BY <2>1 DEF ModifyBootloader
  <2>2. CASE RecordEntry
    <3>1. reg' \in UninstallKey
      BY <2>2, BootWrite
    <3>2. QED
      BY <2>2, <3>1 DEF RecordEntry
  <2>3. CASE ModifyGrubConfiguration
    <3>1. UNCHANGED <<machine, sessions, session, fault>> /\ pc' = "off"
          /\ outcome' = "failed" /\ cancelled' = FALSE
      BY <2>3 DEF ModifyGrubConfiguration
    <3>2. cancelled' \in BOOLEAN
      BY <3>1
    <3>3. QED
      BY <3>1, <3>2
  <2>4. QED
    BY <1>14, <2>1, <2>2, <2>3
<1>15. CASE Unprotect
  <2>1. ini' \in [text : Texts, protected : BOOLEAN] /\ content' \in Texts
    BY <1>15 DEF Unprotect
  <2>2. pc' \in {"off", "truncate"} /\ outcome' \in {outcome, "failed"}
    BY <1>15 DEF Unprotect
  <2>3. cancelled' \in BOOLEAN /\ fault' = fault
    BY <1>15 DEF Unprotect
  <2>4. UNCHANGED <<tree, registry, bcd, loader, bootloader, created, sessions, mode, phase,
                    first, prevDir, targetDir, prevBoot, byUsers>>
    BY <1>15 DEF Unprotect
  <2>5. QED
    BY <2>1, <2>2, <2>3, <2>4
<1>16. CASE Protect
  <2>1. ini' \in [text : Texts, protected : BOOLEAN]
    BY <1>16 DEF Protect
  <2>2. pc' \in {"grub", "unlink"}
    BY <1>16 DEF Protect
  <2>3. QED
    BY <1>16, <2>1, <2>2 DEF Protect
<1>17. CASE Truncate \/ WriteIni
  BY <1>17 DEF Truncate, WriteIni, NewText
<1>18. CASE Uninstall
  <2>1. CASE UndoBcd
    <3>1. UNCHANGED <<tree, registry, ini, loader, bootloader, created, sessions, session,
                      fault>>
          /\ pc' \in {"off", "undo_ini", "clear_boot"} /\ outcome' \in {outcome, "failed"}
      BY <2>1 DEF UndoBcd
    <3>2. bcd' \subseteq bcd
      BY <2>1 DEF UndoBcd
    <3>3. cancelled' \in BOOLEAN
      BY <2>1 DEF UndoBcd
    <3>4. bcd' \subseteq [id : 1..MaxSessions, at : Targets \cup {NoTarget}, listed : BOOLEAN]
      BY <3>2
    <3>5. QED
      BY <3>1, <3>3, <3>4
  <2>2. CASE ClearBootRecord
    <3>1. reg' \in UninstallKey /\ unheard' \subseteq Writes
      BY <2>2, BootClear
    <3>2. QED
      BY <2>2, <3>1 DEF ClearBootRecord
  <2>3. CASE UndoBootini \/ UnlinkLoader \/ RemoveTargetDir
    <3>1. UNCHANGED <<tree, registry, bcd, ini, bootloader, created, sessions, session,
                      cancelled, outcome, fault>>
          /\ pc' \in {"unprotect", "unlink", "remove_dir", "removing", "remove_key"}
      BY <2>3 DEF UndoBootini, UnlinkLoader, RemoveTargetDir
    <3>2. loader' \subseteq LoaderFiles
      BY <2>3 DEF UndoBootini, UnlinkLoader, RemoveTargetDir
    <3>3. QED
      BY <3>1, <3>2
  <2>4. CASE RmTree
    BY <2>4 DEF RmTree
  <2>5. CASE RemoveRegistryKey
    <3>1. reg' \in UninstallKey /\ unheard' \subseteq Writes
      BY <2>5, KeyRemoved
    <3>2. UNCHANGED <<tree, bcd, ini, loader, bootloader, created, sessions, session, fault>>
          /\ pc' \in {"off", "again"} /\ outcome' \in {outcome, "done"}
      BY <2>5 DEF RemoveRegistryKey
    <3>3. cancelled' \in BOOLEAN
      BY <2>5 DEF RemoveRegistryKey
    <3>4. QED
      BY <3>1, <3>2, <3>3
  <2>6. QED
    BY <1>18, <2>1, <2>2, <2>3, <2>4, <2>5 DEF Uninstall
<1>19. CASE User
  <2>1. \E t \in Targets : \E items \in SUBSET Items : tree' = [tree EXCEPT ![t] = items]
    BY <1>19 DEF User, UserCreates, UserDeletes, Add
  <2>2. tree' \in [Targets -> SUBSET Items]
    BY <2>1
  <2>3. byHand' \in BOOLEAN /\ usurped' \subseteq Targets
    BY <1>19 DEF User, UserCreates, UserDeletes
  <2>4. UNCHANGED <<registry, bcd, ini, loader, bootloader, created, sessions, mode,
                    phase, first, prevDir, targetDir, content, prevBoot, control>>
    BY <1>19 DEF User, UserCreates, UserDeletes
  <2>5. QED
    BY <2>2, <2>3, <2>4
<1>20. CASE UNCHANGED vars
  BY <1>20 DEF vars
<1>21. QED
  BY <1>1, <1>2, <1>3, <1>4, <1>5, <1>6, <1>7, <1>8, <1>9, <1>10, <1>11,
     <1>12, <1>13, <1>14, <1>15, <1>16, <1>17, <1>18, <1>19, <1>20 DEF Next,
     Dispatch, Install, EditIni, Uninstall

\* The step of a session tells the list that runs and the boot loader it is
\* for; its outcome is set when it ends.
LEMMA NextControl == IInv /\ [Next]_vars => ControlInv'
<1> SUFFICES ASSUME phase \in {"install", "uninstall"},
                    bootloader \in {"vista", "xp"}, ControlInv, [Next]_vars
             PROVE  ControlInv'
  BY DEF IInv, TypeOK
<1> USE DEF ControlInv, Editing, BeforeKey, Filling, MakingEntry, Undoing,
   TaskStarts, Pages
<1>1. CASE Dispatch
  BY <1>1 DEF Dispatch, Start, ConfirmUninstall, ChooseSettings, LookAgain,
     Quit, Stopped, Kill, Fault, InTheWay, IsDir
<1>2. CASE SelectTargetDir \/ MakeTargetDir \/ MakeSubdirs \/ CopyUninstaller
   \/ SetUninstallString \/ SetInstallationDir
  BY <1>2 DEF SelectTargetDir, MakeTargetDir, MakeSubdirs, CopyUninstaller,
     SetUninstallString, SetInstallationDir, IsDir, Add
<1>3. CASE Fill
  BY <1>3 DEF Fill, FillNext, FillWith, Add
<1>4. CASE ModifyBootloader \/ CreateEntry \/ SetEntry \/ ListEntry \/
   RecordEntry \/ ModifyGrubConfiguration
  BY <1>4 DEF ModifyBootloader, CreateEntry, SetEntry, ListEntry, RecordEntry,
     ModifyGrubConfiguration, UpdateEntry
<1>5. CASE EditIni
  BY <1>5 DEF EditIni, Unprotect, Truncate, WriteIni, Protect, NewText
<1>6. CASE Uninstall
  BY <1>6 DEF Uninstall, UndoBcd, ClearBootRecord, UndoBootini, UnlinkLoader,
     RemoveTargetDir, RmTree, RemoveRegistryKey, IsDir, NoKey
<1>7. CASE User
  BY <1>7 DEF User, UserCreates, UserDeletes, Add
<1>8. CASE UNCHANGED vars
  BY <1>8 DEF vars
<1>9. QED
  BY <1>1, <1>2, <1>3, <1>4, <1>5, <1>6, <1>7, <1>8 DEF Next, Dispatch,
     Install, EditIni, Uninstall

\* Only bcdedit /create counts, and a session that has made its entry goes on
\* to the end of its list without coming back.
LEMMA NextCount == IInv /\ [Next]_vars => CountInv'
<1> SUFFICES ASSUME created \in Nat, sessions \in Nat,
                    phase \in {"install", "uninstall"},
                    bootloader \in {"vista", "xp"}, ControlInv, CountInv,
                    [Next]_vars
             PROVE  CountInv'
  BY DEF IInv, TypeOK
<1> USE DEF CountInv, ControlInv, Editing, BeforeKey, Filling, MakingEntry,
   Undoing, TaskStarts, Pages
<1>1. CASE Dispatch
  BY <1>1 DEF Dispatch, Start, ConfirmUninstall, ChooseSettings, LookAgain,
     Quit, Stopped, Kill, Fault, InTheWay, IsDir
<1>2. CASE SelectTargetDir \/ MakeTargetDir \/ MakeSubdirs \/ CopyUninstaller
   \/ SetUninstallString \/ SetInstallationDir
  BY <1>2 DEF SelectTargetDir, MakeTargetDir, MakeSubdirs, CopyUninstaller,
     SetUninstallString, SetInstallationDir, IsDir, Add
<1>3. CASE Fill
  BY <1>3 DEF Fill, FillNext, FillWith, Add
<1>4. CASE ModifyBootloader \/ CreateEntry \/ SetEntry \/ ListEntry \/
   RecordEntry \/ ModifyGrubConfiguration
  BY <1>4 DEF ModifyBootloader, CreateEntry, SetEntry, ListEntry, RecordEntry,
     ModifyGrubConfiguration, UpdateEntry
<1>5. CASE EditIni
  BY <1>5 DEF EditIni, Unprotect, Truncate, WriteIni, Protect, NewText
<1>6. CASE Uninstall
  BY <1>6 DEF Uninstall, UndoBcd, ClearBootRecord, UndoBootini, UnlinkLoader,
     RemoveTargetDir, RmTree, RemoveRegistryKey, IsDir, NoKey
<1>7. CASE User
  BY <1>7 DEF User, UserCreates, UserDeletes, Add
<1>8. CASE UNCHANGED vars
  BY <1>8 DEF vars
<1>9. QED
  BY <1>1, <1>2, <1>3, <1>4, <1>5, <1>6, <1>7, <1>8 DEF Next, Dispatch,
     Install, EditIni, Uninstall

\* A chosen directory is empty until the installation fills it: nothing is
\* installed before the previous directory is gone (run_installer).
LEMMA NextTarget == IInv /\ [Next]_vars => TargetInv'
<1> SUFFICES ASSUME tree \in [Targets -> SUBSET Items], reg \in UninstallKey,
                    phase \in {"install", "uninstall"},
                    bootloader \in {"vista", "xp"}, ControlInv, TargetInv,
                    RecordInv, UninstallerKnowsTarget, [Next]_vars
             PROVE  TargetInv'
  BY DEF IInv, TypeOK
<1> USE DEF ControlInv, TargetInv, Known, Installing, InList, Editing, BeforeKey,
   Filling, MakingEntry, Undoing, TaskStarts, Pages
<1>1. ASSUME NEW m \in Modes, Start(m) PROVE TargetInv'
  <2>1. pc' = "settings" => ~IsDir(reg.dir)
    BY <1>1 DEF Start, InTheWay, IsDir
  <2>2. ~IsDir(reg.dir) => \A t \in Targets :
          tree[t] \cap Payload # {} => <<"dir", t>> \in unheard
    BY DEF UninstallerKnowsTarget, IsDir
  <2>3. pc' \in {"off", "settings", "confirm"} /\ UNCHANGED <<tree, unheard>>
    BY <1>1 DEF Start
  <2>4. QED
    BY <2>1, <2>2, <2>3
<1>2. CASE LookAgain
  <2>1. pc' = "settings" => ~IsDir(reg.dir)
    BY <1>2 DEF LookAgain, InTheWay, IsDir
  <2>2. ~IsDir(reg.dir) => \A t \in Targets :
          tree[t] \cap Payload # {} => <<"dir", t>> \in unheard
    BY DEF UninstallerKnowsTarget, IsDir
  <2>3. pc' \in {"off", "settings"} /\ UNCHANGED <<tree, unheard>>
    BY <1>2 DEF LookAgain
  <2>4. QED
    BY <2>1, <2>2, <2>3
<1>3. CASE ConfirmUninstall \/ ChooseSettings \/ Quit \/ Stopped \/ Kill \/
   Fault
  BY <1>3 DEF ConfirmUninstall, ChooseSettings, Quit, Stopped, Kill, Fault
<1>4. CASE SelectTargetDir
  BY <1>4 DEF SelectTargetDir, IsDir
<1>5. CASE MakeTargetDir
  <2>1. \A t \in Targets : (tree[t] \cup {"dir"}) \cap Payload = tree[t] \cap Payload
    BY DEF Payload
  <2>2. QED
    BY <1>5, <2>1 DEF MakeTargetDir, Add
<1>6. CASE MakeSubdirs
  <2>1. \A t \in Targets : (tree[t] \cup {"install"}) \cap Payload = tree[t] \cap Payload
    BY DEF Payload
  <2>2. QED
    BY <1>6, <2>1 DEF MakeSubdirs, Add
<1>7. CASE CopyUninstaller
  <2>1. \A t \in Targets : (tree[t] \cup {"uninstaller"}) \cap Payload = tree[t] \cap Payload
    BY DEF Payload
  <2>2. QED
    BY <1>7, <2>1 DEF CopyUninstaller, Add
<1>8. CASE SetUninstallString
  BY <1>8, UninstWrite DEF SetUninstallString
<1>9. CASE SetInstallationDir
  BY <1>9, DirWrite DEF SetInstallationDir
<1>10. CASE Fill
  BY <1>10 DEF Fill, FillNext, FillWith, Add
<1>11. CASE ModifyBootloader
  BY <1>11 DEF ModifyBootloader
<1>12. CASE CreateEntry
  BY <1>12 DEF CreateEntry
<1>13. CASE SetEntry
  BY <1>13 DEF SetEntry, UpdateEntry
<1>14. CASE ListEntry
  BY <1>14 DEF ListEntry, UpdateEntry
<1>15. CASE RecordEntry
  BY <1>15, BootWrite DEF RecordEntry
<1>16. CASE ModifyGrubConfiguration
  BY <1>16 DEF ModifyGrubConfiguration
<1>17. CASE EditIni
  BY <1>17 DEF EditIni, Unprotect, Truncate, WriteIni, Protect, NewText
<1>18. CASE Uninstall
  BY <1>18 DEF Uninstall, UndoBcd, ClearBootRecord, UndoBootini, UnlinkLoader,
     RemoveTargetDir, RmTree, RemoveRegistryKey, IsDir, NoKey
<1>19. CASE User
  BY <1>19 DEF User, UserCreates, UserDeletes, Add
<1>20. CASE UNCHANGED vars
  BY <1>20 DEF vars
<1>21. QED
  BY <1>1, <1>2, <1>3, <1>4, <1>5, <1>6, <1>7, <1>8, <1>9, <1>10, <1>11,
     <1>12, <1>13, <1>14, <1>15, <1>16, <1>17, <1>18, <1>19, <1>20 DEF Next,
     Dispatch, Install, EditIni, Uninstall

\* set_dir records the directory that select_target_dir found empty, so that
\* somebody else's directory is recorded only if it is put there afterwards.
LEMMA NextRecord == IInv /\ [Next]_vars => RecordInv'
<1> SUFFICES ASSUME tree \in [Targets -> SUBSET Items], reg \in UninstallKey,
                    phase \in {"install", "uninstall"},
                    bootloader \in {"vista", "xp"}, ControlInv, TargetInv,
                    RecordInv, [Next]_vars
             PROVE  RecordInv'
  BY DEF IInv, TypeOK
<1> USE DEF ControlInv, TargetInv, RecordInv, Known, Installing, InList, Editing,
   BeforeKey, Filling, MakingEntry, Undoing, TaskStarts, Pages, Uninstalled
<1>1. CASE Dispatch
  BY <1>1 DEF Dispatch, Start, ConfirmUninstall, ChooseSettings, LookAgain,
     Quit, Stopped, Kill, Fault, InTheWay, IsDir
<1>2. CASE SelectTargetDir
  BY <1>2 DEF SelectTargetDir, IsDir
<1>3. CASE MakeTargetDir
  BY <1>3 DEF MakeTargetDir, Add
<1>4. CASE MakeSubdirs
  BY <1>4 DEF MakeSubdirs, Add
<1>5. CASE CopyUninstaller
  BY <1>5 DEF CopyUninstaller, Add
<1>6. CASE SetUninstallString
  BY <1>6, UninstWrite DEF SetUninstallString
<1>7. CASE SetInstallationDir
  BY <1>7, DirWrite DEF SetInstallationDir
<1>8. CASE Fill
  BY <1>8 DEF Fill, FillNext, FillWith, Add
<1>9. CASE ModifyBootloader
  BY <1>9 DEF ModifyBootloader
<1>10. CASE CreateEntry
  BY <1>10 DEF CreateEntry
<1>11. CASE SetEntry
  BY <1>11 DEF SetEntry, UpdateEntry
<1>12. CASE ListEntry
  BY <1>12 DEF ListEntry, UpdateEntry
<1>13. CASE RecordEntry
  BY <1>13, BootWrite DEF RecordEntry
<1>14. CASE ModifyGrubConfiguration
  BY <1>14 DEF ModifyGrubConfiguration
<1>15. CASE EditIni
  BY <1>15 DEF EditIni, Unprotect, Truncate, WriteIni, Protect, NewText
<1>16. CASE UndoBcd
  BY <1>16 DEF UndoBcd
<1>17. CASE ClearBootRecord
  BY <1>17, BootClear DEF ClearBootRecord
<1>18. CASE UndoBootini
  BY <1>18 DEF UndoBootini
<1>19. CASE UnlinkLoader
  BY <1>19 DEF UnlinkLoader
<1>20. CASE RemoveTargetDir
  BY <1>20 DEF RemoveTargetDir, IsDir
<1>21. CASE RmTree
  BY <1>21 DEF RmTree
<1>22. CASE RemoveRegistryKey
  BY <1>22, KeyRemoved DEF RemoveRegistryKey
<1>23. CASE User
  BY <1>23 DEF User, UserCreates, UserDeletes, Add
<1>24. CASE UNCHANGED vars
  BY <1>24 DEF vars
<1>25. QED
  BY <1>1, <1>2, <1>3, <1>4, <1>5, <1>6, <1>7, <1>8, <1>9, <1>10, <1>11,
     <1>12, <1>13, <1>14, <1>15, <1>16, <1>17, <1>18, <1>19, <1>20, <1>21,
     <1>22, <1>23, <1>24 DEF Next, Dispatch, Install, EditIni, Uninstall

\* VistaBootDrive is cleared before the first file is deleted, and is found
\* without an installation only after a user deleted it or a write was swallowed.
LEMMA NextBoot == IInv /\ [Next]_vars => BootInv'
<1> SUFFICES ASSUME tree \in [Targets -> SUBSET Items], reg \in UninstallKey,
                    phase \in {"install", "uninstall"},
                    bootloader \in {"vista", "xp"}, ControlInv, TargetInv,
                    RecordInv, BootInv, \A e \in bcd : e.id # NoId, [Next]_vars
             PROVE  BootInv'
  BY DEF IInv, TypeOK
<1> USE DEF ControlInv, Editing, BeforeKey, Filling, MakingEntry, Undoing,
   TaskStarts, Pages, Installing, Unbooted, InList, TargetInv, RecordInv,
   BootInv, IsDir, Leftover, Forgotten, ClearUnheard
<1>1. CASE Dispatch
  BY <1>1 DEF Dispatch, Start, ConfirmUninstall, ChooseSettings, LookAgain,
     Quit, Stopped, Kill, Fault, InTheWay, IsDir
<1>2. CASE SelectTargetDir
  BY <1>2 DEF SelectTargetDir, IsDir
<1>3. CASE MakeTargetDir
  BY <1>3 DEF MakeTargetDir, Add
<1>4. CASE MakeSubdirs
  BY <1>4 DEF MakeSubdirs, Add
<1>5. CASE CopyUninstaller
  BY <1>5 DEF CopyUninstaller, Add
<1>6. CASE SetUninstallString
  BY <1>6, UninstWrite DEF SetUninstallString
<1>7. CASE SetInstallationDir
  <2>1. pc = "set_dir" /\ pc' = "copy_files" /\ targetDir \in Targets
        /\ UNCHANGED <<tree, bcd, byHand, targetDir, phase>>
    BY <1>7 DEF SetInstallationDir
  <2>2. "winboot" \notin tree[targetDir]
    BY <2>1 DEF Payload
  <2>3. reg'.boot = reg.boot
        /\ (<<"boot", NoId>> \in unheard' <=> <<"boot", NoId>> \in unheard)
        /\ \A t : t # targetDir => (<<"dir", t>> \in unheard' <=> <<"dir", t>> \in unheard)
    BY <1>7, DirWrite
  <2>4. reg.boot # NoId => Leftover(Targets \ {targetDir})'
    BY <2>1, <2>2, <2>3
  <2>5. Leftover(Targets \ {targetDir})' => Leftover(Targets)'
    BY <2>1
  <2>6. QED
    BY <2>1, <2>3, <2>4, <2>5
<1>8. CASE Fill
  <2>1. PICK step \in DOMAIN FillWith : pc = step /\ pc' = FillNext[step]
            /\ Add(targetDir, {FillWith[step]})
            /\ UNCHANGED <<registry, bcd, byHand, targetDir, phase>>
    BY <1>8 DEF Fill
  <2>2. targetDir \in Targets /\ \A t \in Targets \ {targetDir} : tree'[t] = tree[t]
    BY <2>1 DEF FillWith, Add
  <2>3. reg.boot # NoId => Leftover(Targets \ {targetDir})'
    BY <2>1, <2>2 DEF FillWith
  <2>4. pc' \in {"iso", "kernel", "preseed", "modify_boot"} /\ phase' = phase
    BY <2>1 DEF FillWith, FillNext
  <2>5. Leftover(Targets \ {targetDir})' => Leftover(Targets)'
    BY <2>1
  <2>6. QED
    BY <2>1, <2>3, <2>4, <2>5
<1>9. CASE ModifyBootloader
  BY <1>9 DEF ModifyBootloader
<1>10. CASE CreateEntry
  BY <1>10 DEF CreateEntry
<1>11. CASE SetEntry
  BY <1>11 DEF SetEntry, UpdateEntry
<1>12. CASE ListEntry
  BY <1>12 DEF ListEntry, UpdateEntry
<1>13. CASE RecordEntry
  <2>1. pc = "record" /\ pc' = "grub" /\ UNCHANGED <<tree, bcd, unheard, byHand, targetDir>>
    BY <1>13 DEF RecordEntry
  <2>2. reg'.dir = reg.dir
    BY <1>13, BootWrite
  <2>3. targetDir \in Targets /\ "winboot" \in tree[targetDir] /\ Known(targetDir)
    BY <2>1
  <2>4. CASE reg.dir = targetDir
    BY <2>1, <2>2, <2>3, <2>4
  <2>5. CASE <<"dir", targetDir>> \in unheard
    <3>1. Leftover(Targets)'
      BY <2>1, <2>3, <2>5
    <3>2. QED
      BY <2>1, <3>1
  <2>6. QED
    BY <2>3, <2>4, <2>5 DEF Known
<1>14. CASE ModifyGrubConfiguration
  BY <1>14 DEF ModifyGrubConfiguration
<1>15. CASE EditIni
  BY <1>15 DEF EditIni, Unprotect, Truncate, WriteIni, Protect, NewText
<1>16. CASE UndoBcd
  <2>1. pc = "undo_boot" /\ pc' \in {"undo_ini", "clear_boot", "off"}
        /\ UNCHANGED <<tree, registry, byHand, targetDir, phase>>
    BY <1>16 DEF UndoBcd
  <2>2. pc' = "undo_ini" => reg.boot = NoId /\ bcd' = bcd
    BY <1>16 DEF UndoBcd
  <2>3. pc' = "clear_boot" => \A e \in bcd' : e.id # reg.boot
    BY <1>16 DEF UndoBcd
  <2>4. reg.boot # NoId => Leftover(Targets)' \/ "winboot" \in tree[reg.dir]
    BY <2>1
  <2>5. QED
    BY <2>1, <2>2, <2>3, <2>4
<1>17. CASE ClearBootRecord
  <2>1. pc = "clear_boot" /\ pc' = "undo_ini"
        /\ UNCHANGED <<tree, bcd, byHand, targetDir, phase>>
    BY <1>17 DEF ClearBootRecord
  <2>2. \/ reg'.boot = NoId
        \/ <<"boot", NoId>> \in unheard' /\ reg'.boot = reg.boot
    BY <1>17, BootClear
  <2>3. \A e \in bcd' : e.id # reg'.boot
    BY <2>1, <2>2
  <2>4. QED
    BY <2>1, <2>2, <2>3
<1>18. CASE UndoBootini
  BY <1>18 DEF UndoBootini
<1>19. CASE UnlinkLoader
  BY <1>19 DEF UnlinkLoader
<1>20. CASE RemoveTargetDir
  BY <1>20 DEF RemoveTargetDir, IsDir
<1>21. CASE RmTree
  BY <1>21 DEF RmTree
<1>22. CASE RemoveRegistryKey
  <2>1. pc = "remove_key" /\ pc' \in {"again", "off"}
        /\ UNCHANGED <<tree, bcd, byHand, targetDir, phase>>
    BY <1>22 DEF RemoveRegistryKey
  <2>2. reg'.boot = NoId \/ (reg' = reg /\ unheard' = unheard)
    BY <1>22, KeyRemoved
  <2>3. QED
    BY <2>1, <2>2
<1>23. CASE User
  <2>1. ASSUME NEW t \in Targets, UserCreates(t) PROVE BootInv'
    BY <2>1 DEF UserCreates, Add
  <2>2. ASSUME NEW t \in Targets, UserDeletes(t) PROVE BootInv'
    BY <2>2 DEF UserDeletes
  <2>3. QED
    BY <1>23, <2>1, <2>2 DEF User
<1>24. CASE UNCHANGED vars
  BY <1>24 DEF vars
<1>25. QED
  BY <1>1, <1>2, <1>3, <1>4, <1>5, <1>6, <1>7, <1>8, <1>9, <1>10, <1>11,
     <1>12, <1>13, <1>14, <1>15, <1>16, <1>17, <1>18, <1>19, <1>20, <1>21,
     <1>22, <1>23, <1>24 DEF Next, Dispatch, Install, EditIni, Uninstall

\* The entry that is being made gets device, path and place in the menu before
\* it is recorded.
LEMMA NextEntry == IInv /\ [Next]_vars => EntryInv'
<1> SUFFICES ASSUME phase \in {"install", "uninstall"}, EntryInv, TargetInv,
                    ControlInv, [Next]_vars
             PROVE  EntryInv'
  BY DEF IInv, TypeOK
<1> USE DEF ControlInv, Editing, BeforeKey, Filling, MakingEntry, Undoing,
   TaskStarts, Pages, Installing, Unbooted, InList, EntryInv, TargetInv
<1>1. CASE Dispatch
  BY <1>1 DEF Dispatch, Start, ConfirmUninstall, ChooseSettings, LookAgain,
     Quit, Stopped, Kill, Fault, InTheWay, IsDir
<1>2. CASE SelectTargetDir \/ MakeTargetDir \/ MakeSubdirs \/ CopyUninstaller
   \/ SetUninstallString \/ SetInstallationDir
  BY <1>2 DEF SelectTargetDir, MakeTargetDir, MakeSubdirs, CopyUninstaller,
     SetUninstallString, SetInstallationDir, IsDir, Add
<1>3. CASE Fill
  BY <1>3 DEF Fill, FillNext, FillWith, Add
<1>4. CASE ListEntry
  <2>1. bcd' = {e \in bcd : e.id # created}
                  \cup {[id |-> created, at |-> targetDir, listed |-> TRUE]}
    BY <1>4 DEF ListEntry, UpdateEntry
  <2>2. \A e \in bcd' : e.id = created => e.at = targetDir /\ e.listed
    BY <2>1
  <2>3. [id |-> created, at |-> targetDir, listed |-> TRUE] \in bcd'
    BY <2>1
  <2>4. \E e \in bcd' : e.listed /\ e.at = targetDir
    BY <2>3
  <2>5. pc' = "record" /\ UNCHANGED <<created, targetDir>>
    BY <1>4 DEF ListEntry
  <2>6. QED
    BY <2>2, <2>4, <2>5
<1>5. CASE ModifyBootloader \/ CreateEntry \/ SetEntry \/ RecordEntry \/
   ModifyGrubConfiguration
  BY <1>5 DEF ModifyBootloader, CreateEntry, SetEntry, RecordEntry,
     ModifyGrubConfiguration, UpdateEntry
<1>6. CASE EditIni
  BY <1>6 DEF EditIni, Unprotect, Truncate, WriteIni, Protect, NewText
<1>7. CASE Uninstall
  BY <1>7 DEF Uninstall, UndoBcd, ClearBootRecord, UndoBootini, UnlinkLoader,
     RemoveTargetDir, RmTree, RemoveRegistryKey, IsDir, NoKey
<1>8. CASE User
  BY <1>8 DEF User, UserCreates, UserDeletes, Add
<1>9. CASE UNCHANGED vars
  BY <1>9 DEF vars
<1>10. QED
  BY <1>1, <1>2, <1>3, <1>4, <1>5, <1>6, <1>7, <1>8, <1>9 DEF Next, Dispatch,
     Install, EditIni, Uninstall

\* boot.ini says what the list that edits it wrote last.
LEMMA NextIni == IInv /\ [Next]_vars => IniInv'
<1> SUFFICES ASSUME tree \in [Targets -> SUBSET Items], reg \in UninstallKey,
                    phase \in {"install", "uninstall"},
                    bootloader \in {"vista", "xp"},
                    ini \in [text : Texts, protected : BOOLEAN], ControlInv,
                    IniInv, [Next]_vars
             PROVE  IniInv'
  BY DEF IInv, TypeOK
<1> USE DEF ControlInv, Editing, BeforeKey, Filling, MakingEntry, Undoing,
   TaskStarts, Pages, Installing, Unbooted, InList, IniInv
<1>1. CASE Dispatch
  BY <1>1 DEF Dispatch, Start, ConfirmUninstall, ChooseSettings, LookAgain,
     Quit, Stopped, Kill, Fault, InTheWay, IsDir
<1>2. CASE SelectTargetDir \/ MakeTargetDir \/ MakeSubdirs \/ CopyUninstaller
   \/ SetUninstallString \/ SetInstallationDir
  BY <1>2 DEF SelectTargetDir, MakeTargetDir, MakeSubdirs, CopyUninstaller,
     SetUninstallString, SetInstallationDir, IsDir, Add
<1>3. CASE Fill
  BY <1>3 DEF Fill, FillNext, FillWith, Add
<1>4. CASE ModifyBootloader \/ CreateEntry \/ SetEntry \/ ListEntry \/
   RecordEntry \/ ModifyGrubConfiguration
  BY <1>4 DEF ModifyBootloader, CreateEntry, SetEntry, ListEntry, RecordEntry,
     ModifyGrubConfiguration, UpdateEntry
<1>5. CASE WriteIni
  <2>1. NewText = "entry" <=> phase = "install"
    BY DEF NewText
  <2>2. ini'.text = NewText /\ pc = "write" /\ pc' = "protect"
        /\ UNCHANGED <<phase, bootloader, loader>>
    BY <1>5 DEF WriteIni
  <2>3. QED
    BY <2>1, <2>2
<1>6. CASE Unprotect \/ Truncate \/ Protect
  BY <1>6 DEF Unprotect, Truncate, Protect
<1>7. CASE Uninstall
  BY <1>7 DEF Uninstall, UndoBcd, ClearBootRecord, UndoBootini, UnlinkLoader,
     RemoveTargetDir, RmTree, RemoveRegistryKey, IsDir, NoKey
<1>8. CASE User
  BY <1>8 DEF User, UserCreates, UserDeletes, Add
<1>9. CASE UNCHANGED vars
  BY <1>9 DEF vars
<1>10. QED
  BY <1>1, <1>2, <1>3, <1>4, <1>5, <1>6, <1>7, <1>8, <1>9 DEF Next, Dispatch,
     Install, EditIni, Uninstall

\* undo_bcd deletes the entry that was recorded when the session started.
LEMMA NextStart == IInv /\ [Next]_vars => StartInv'
<1> SUFFICES ASSUME phase \in {"install", "uninstall"},
                    \A e \in bcd : e.id # NoId, ControlInv, StartInv, BootInv,
                    [Next]_vars
             PROVE  StartInv'
  BY DEF IInv, TypeOK
<1> USE DEF ControlInv, Editing, BeforeKey, Filling, MakingEntry, Undoing,
   TaskStarts, Pages, Installing, Unbooted, InList, BootInv, StartInv
<1>1. CASE Dispatch
  BY <1>1 DEF Dispatch, Start, ConfirmUninstall, ChooseSettings, LookAgain,
     Quit, Stopped, Kill, Fault, InTheWay, IsDir
<1>2. CASE SelectTargetDir \/ MakeTargetDir \/ MakeSubdirs \/ CopyUninstaller
   \/ SetUninstallString \/ SetInstallationDir
  BY <1>2 DEF SelectTargetDir, MakeTargetDir, MakeSubdirs, CopyUninstaller,
     SetUninstallString, SetInstallationDir, IsDir, Add
<1>3. CASE Fill
  BY <1>3 DEF Fill, FillNext, FillWith, Add
<1>4. CASE ModifyBootloader \/ CreateEntry \/ SetEntry \/ ListEntry \/
   RecordEntry \/ ModifyGrubConfiguration
  BY <1>4 DEF ModifyBootloader, CreateEntry, SetEntry, ListEntry, RecordEntry,
     ModifyGrubConfiguration, UpdateEntry
<1>5. CASE EditIni
  BY <1>5 DEF EditIni, Unprotect, Truncate, WriteIni, Protect, NewText
<1>6. CASE Uninstall
  BY <1>6 DEF Uninstall, UndoBcd, ClearBootRecord, UndoBootini, UnlinkLoader,
     RemoveTargetDir, RmTree, RemoveRegistryKey, IsDir, NoKey
<1>7. CASE User
  BY <1>7 DEF User, UserCreates, UserDeletes, Add
<1>8. CASE UNCHANGED vars
  BY <1>8 DEF vars
<1>9. QED
  BY <1>1, <1>2, <1>3, <1>4, <1>5, <1>6, <1>7, <1>8 DEF Next, Dispatch,
     Install, EditIni, Uninstall

\* Files come after set_dir and go before remove_key.
LEMMA NextKnows == IInv /\ [Next]_vars => UninstallerKnowsTarget'
<1> SUFFICES ASSUME tree \in [Targets -> SUBSET Items], reg \in UninstallKey,
                    phase \in {"install", "uninstall"},
                    bootloader \in {"vista", "xp"}, ControlInv, TargetInv,
                    RecordInv, UninstallerKnowsTarget, [Next]_vars
             PROVE  UninstallerKnowsTarget'
  BY DEF IInv, TypeOK
<1> USE DEF ControlInv, Editing, BeforeKey, Filling, MakingEntry, Undoing,
   TaskStarts, Pages, Installing, Unbooted, InList, TargetInv, RecordInv,
   Known, UninstallerKnowsTarget, Payload
<1>1. CASE Dispatch
  BY <1>1 DEF Dispatch, Start, ConfirmUninstall, ChooseSettings, LookAgain,
     Quit, Stopped, Kill, Fault, InTheWay, IsDir
<1>2. CASE SelectTargetDir \/ MakeTargetDir \/ MakeSubdirs \/ CopyUninstaller
   \/ SetUninstallString \/ SetInstallationDir
  <2>1. CASE SelectTargetDir \/ MakeTargetDir \/ MakeSubdirs \/ CopyUninstaller
    BY <2>1 DEF SelectTargetDir, MakeTargetDir, MakeSubdirs, CopyUninstaller, IsDir, Add
  <2>2. CASE SetUninstallString
    BY <2>2, UninstWrite DEF SetUninstallString
  <2>3. CASE SetInstallationDir
    BY <2>3, DirWrite DEF SetInstallationDir
  <2>4. QED
    BY <1>2, <2>1, <2>2, <2>3
<1>3. CASE Fill
  BY <1>3 DEF Fill, FillNext, FillWith, Add
<1>4. CASE ModifyBootloader
  BY <1>4 DEF ModifyBootloader
<1>5. CASE CreateEntry
  BY <1>5 DEF CreateEntry
<1>6. CASE SetEntry
  BY <1>6 DEF SetEntry, UpdateEntry
<1>7. CASE ListEntry
  BY <1>7 DEF ListEntry, UpdateEntry
<1>8. CASE RecordEntry
  BY <1>8, BootWrite DEF RecordEntry
<1>9. CASE ModifyGrubConfiguration
  BY <1>9 DEF ModifyGrubConfiguration
<1>10. CASE EditIni
  BY <1>10 DEF EditIni, Unprotect, Truncate, WriteIni, Protect, NewText
<1>11. CASE UndoBcd
  BY <1>11 DEF UndoBcd
<1>12. CASE ClearBootRecord
  BY <1>12, BootClear DEF ClearBootRecord
<1>13. CASE UndoBootini
  BY <1>13 DEF UndoBootini
<1>14. CASE UnlinkLoader
  BY <1>14 DEF UnlinkLoader
<1>15. CASE RemoveTargetDir
  BY <1>15 DEF RemoveTargetDir, IsDir
<1>16. CASE RmTree
  BY <1>16 DEF RmTree
<1>17. CASE RemoveRegistryKey
  BY <1>17, KeyRemoved DEF RemoveRegistryKey
<1>18. CASE User
  BY <1>18 DEF User, UserCreates, UserDeletes, Add
<1>19. CASE UNCHANGED vars
  BY <1>19 DEF vars
<1>20. QED
  BY <1>1, <1>2, <1>3, <1>4, <1>5, <1>6, <1>7, <1>8, <1>9, <1>10, <1>11,
     <1>12, <1>13, <1>14, <1>15, <1>16, <1>17, <1>18, <1>19 DEF Next,
     Dispatch, Install, EditIni, Uninstall

\* The record is written when the entry is complete, and cleared before its
\* directory is deleted; a user who deletes it leaves byHand.
LEMMA NextBoots == IInv /\ [Next]_vars => RecordedEntryBoots'
<1> SUFFICES ASSUME tree \in [Targets -> SUBSET Items], reg \in UninstallKey,
                    phase \in {"install", "uninstall"},
                    bootloader \in {"vista", "xp"}, created \in Nat,
                    pc \in {"set_entry", "list_entry", "record"} => created > 0,
                    \A e \in bcd : e.id # NoId /\ e.at \in Targets \cup {NoTarget},
                    ControlInv, TargetInv, BootInv, EntryInv,
                    UninstallerKnowsTarget, RecordedEntryBoots, [Next]_vars
             PROVE  RecordedEntryBoots'
  BY DEF IInv, TypeOK, CountInv
<1> USE DEF ControlInv, Editing, BeforeKey, Filling, MakingEntry, Undoing,
   TaskStarts, Pages, Installing, Unbooted, InList, TargetInv, BootInv,
   EntryInv, RecordedEntryBoots
<1>1. CASE Dispatch
  BY <1>1 DEF Dispatch, Start, ConfirmUninstall, ChooseSettings, LookAgain,
     Quit, Stopped, Kill, Fault, InTheWay, IsDir
<1>2. CASE SelectTargetDir
  BY <1>2 DEF SelectTargetDir, IsDir
<1>3. CASE MakeTargetDir
  BY <1>3 DEF MakeTargetDir, Add
<1>4. CASE MakeSubdirs
  BY <1>4 DEF MakeSubdirs, Add
<1>5. CASE CopyUninstaller
  BY <1>5 DEF CopyUninstaller, Add
<1>6. CASE SetUninstallString
  BY <1>6, UninstWrite DEF SetUninstallString
<1>7. CASE SetInstallationDir
  BY <1>7, DirWrite DEF SetInstallationDir
<1>8. CASE Fill
  BY <1>8 DEF Fill, FillNext, FillWith, Add
<1>9. CASE ModifyBootloader
  BY <1>9 DEF ModifyBootloader
<1>10. CASE CreateEntry
  BY <1>10 DEF CreateEntry
<1>11. CASE SetEntry
  BY <1>11 DEF SetEntry, UpdateEntry
<1>12. CASE ListEntry
  BY <1>12 DEF ListEntry, UpdateEntry
<1>13. CASE RecordEntry
  BY <1>13, BootWrite DEF RecordEntry
<1>14. CASE ModifyGrubConfiguration
  BY <1>14 DEF ModifyGrubConfiguration
<1>15. CASE EditIni
  BY <1>15 DEF EditIni, Unprotect, Truncate, WriteIni, Protect, NewText
<1>16. CASE UndoBcd
  BY <1>16 DEF UndoBcd
<1>17. CASE ClearBootRecord
  BY <1>17, BootClear DEF ClearBootRecord
<1>18. CASE UndoBootini
  BY <1>18 DEF UndoBootini
<1>19. CASE UnlinkLoader
  BY <1>19 DEF UnlinkLoader
<1>20. CASE RemoveTargetDir
  BY <1>20 DEF RemoveTargetDir, IsDir
<1>21. CASE RmTree
  BY <1>21 DEF RmTree
<1>22. CASE RemoveRegistryKey
  BY <1>22, KeyRemoved DEF RemoveRegistryKey
<1>23. CASE User
  <2>1. ASSUME NEW t \in Targets, UserCreates(t) PROVE RecordedEntryBoots'
    BY <2>1 DEF UserCreates, Add
  <2>2. ASSUME NEW t \in Targets, UserDeletes(t) PROVE RecordedEntryBoots'
    BY <2>2 DEF UserDeletes, UninstallerKnowsTarget, Payload
  <2>3. QED
    BY <1>23, <2>1, <2>2 DEF User
<1>24. CASE UNCHANGED vars
  BY <1>24 DEF vars
<1>25. QED
  BY <1>1, <1>2, <1>3, <1>4, <1>5, <1>6, <1>7, <1>8, <1>9, <1>10, <1>11,
     <1>12, <1>13, <1>14, <1>15, <1>16, <1>17, <1>18, <1>19, <1>20, <1>21,
     <1>22, <1>23, <1>24 DEF Next, Dispatch, Install, EditIni, Uninstall

\* The files are copied before boot.ini lists them, and unlinked after its
\* line is gone.
LEMMA NextLoader == IInv /\ [Next]_vars => BootIniHasLoader'
<1> SUFFICES ASSUME tree \in [Targets -> SUBSET Items], reg \in UninstallKey,
                    phase \in {"install", "uninstall"},
                    bootloader \in {"vista", "xp"},
                    ini \in [text : Texts, protected : BOOLEAN], ControlInv,
                    IniInv, BootIniHasLoader, [Next]_vars
             PROVE  BootIniHasLoader'
  BY DEF IInv, TypeOK
<1> USE DEF ControlInv, Editing, BeforeKey, Filling, MakingEntry, Undoing,
   TaskStarts, Pages, Installing, Unbooted, InList, IniInv, BootIniHasLoader
<1>1. CASE Dispatch
  BY <1>1 DEF Dispatch, Start, ConfirmUninstall, ChooseSettings, LookAgain,
     Quit, Stopped, Kill, Fault, InTheWay, IsDir
<1>2. CASE SelectTargetDir \/ MakeTargetDir \/ MakeSubdirs \/ CopyUninstaller
   \/ SetUninstallString \/ SetInstallationDir
  BY <1>2 DEF SelectTargetDir, MakeTargetDir, MakeSubdirs, CopyUninstaller,
     SetUninstallString, SetInstallationDir, IsDir, Add
<1>3. CASE Fill
  BY <1>3 DEF Fill, FillNext, FillWith, Add
<1>4. CASE ModifyBootloader \/ CreateEntry \/ SetEntry \/ ListEntry \/
   RecordEntry \/ ModifyGrubConfiguration
  BY <1>4 DEF ModifyBootloader, CreateEntry, SetEntry, ListEntry, RecordEntry,
     ModifyGrubConfiguration, UpdateEntry
<1>5. CASE EditIni
  BY <1>5 DEF EditIni, Unprotect, Truncate, WriteIni, Protect, NewText
<1>6. CASE Uninstall
  BY <1>6 DEF Uninstall, UndoBcd, ClearBootRecord, UndoBootini, UnlinkLoader,
     RemoveTargetDir, RmTree, RemoveRegistryKey, IsDir, NoKey
<1>7. CASE User
  BY <1>7 DEF User, UserCreates, UserDeletes, Add
<1>8. CASE UNCHANGED vars
  BY <1>8 DEF vars
<1>9. QED
  BY <1>1, <1>2, <1>3, <1>4, <1>5, <1>6, <1>7, <1>8 DEF Next, Dispatch,
     Install, EditIni, Uninstall

\* modify_grub_configuration comes after record, after protect, or after a
\* VistaBootDrive that survived its installation.
LEMMA NextAdded == IInv /\ [Next]_vars => BootEntryAdded'
<1> SUFFICES ASSUME tree \in [Targets -> SUBSET Items], reg \in UninstallKey,
                    phase \in {"install", "uninstall"},
                    bootloader \in {"vista", "xp"},
                    ini \in [text : Texts, protected : BOOLEAN], ControlInv,
                    TargetInv, IniInv, BootInv, EntryInv, BootEntryAdded,
                    [Next]_vars
             PROVE  BootEntryAdded'
  BY DEF IInv, TypeOK
<1> USE DEF ControlInv, Editing, BeforeKey, Filling, MakingEntry, Undoing,
   TaskStarts, Pages, Installing, Unbooted, InList, IniInv, BootInv, EntryInv,
   BootEntryAdded, Leftover, Forgotten, ClearUnheard
<1>1. CASE Dispatch
  BY <1>1 DEF Dispatch, Start, ConfirmUninstall, ChooseSettings, LookAgain,
     Quit, Stopped, Kill, Fault, InTheWay, IsDir
<1>2. CASE SelectTargetDir \/ MakeTargetDir \/ MakeSubdirs \/ CopyUninstaller
   \/ SetUninstallString \/ SetInstallationDir
  BY <1>2 DEF SelectTargetDir, MakeTargetDir, MakeSubdirs, CopyUninstaller,
     SetUninstallString, SetInstallationDir, IsDir, Add
<1>3. CASE Fill
  BY <1>3 DEF Fill, FillNext, FillWith, Add
<1>4. CASE ModifyBootloader \/ CreateEntry \/ SetEntry \/ ListEntry \/
   RecordEntry \/ ModifyGrubConfiguration
  BY <1>4 DEF ModifyBootloader, CreateEntry, SetEntry, ListEntry, RecordEntry,
     ModifyGrubConfiguration, UpdateEntry
<1>5. CASE EditIni
  BY <1>5 DEF EditIni, Unprotect, Truncate, WriteIni, Protect, NewText
<1>6. CASE Uninstall
  BY <1>6 DEF Uninstall, UndoBcd, ClearBootRecord, UndoBootini, UnlinkLoader,
     RemoveTargetDir, RmTree, RemoveRegistryKey, IsDir, NoKey
<1>7. CASE User
  BY <1>7 DEF User, UserCreates, UserDeletes, Add
<1>8. CASE UNCHANGED vars
  BY <1>8 DEF vars
<1>9. QED
  BY <1>1, <1>2, <1>3, <1>4, <1>5, <1>6, <1>7, <1>8 DEF Next, Dispatch,
     Install, EditIni, Uninstall

\* The steps of the uninstallation list in their order.
LEMMA NextRemoves == IInv /\ [Next]_vars => UninstallRemovesWhatItKnew'
<1> SUFFICES ASSUME tree \in [Targets -> SUBSET Items], reg \in UninstallKey,
                    phase \in {"install", "uninstall"},
                    bootloader \in {"vista", "xp"}, ControlInv, RecordInv,
                    IniInv, StartInv, UninstallRemovesWhatItKnew, [Next]_vars
             PROVE  UninstallRemovesWhatItKnew'
  BY DEF IInv, TypeOK
<1> USE DEF ControlInv, Editing, BeforeKey, Filling, MakingEntry, Undoing,
   TaskStarts, Pages, Installing, Unbooted, InList, RecordInv, IniInv,
   StartInv, Uninstalled, UninstallRemovesWhatItKnew
<1>1. CASE Dispatch
  BY <1>1 DEF Dispatch, Start, ConfirmUninstall, ChooseSettings, LookAgain,
     Quit, Stopped, Kill, Fault, InTheWay, IsDir
<1>2. CASE SelectTargetDir \/ MakeTargetDir \/ MakeSubdirs \/ CopyUninstaller
   \/ SetUninstallString \/ SetInstallationDir
  BY <1>2 DEF SelectTargetDir, MakeTargetDir, MakeSubdirs, CopyUninstaller,
     SetUninstallString, SetInstallationDir, IsDir, Add
<1>3. CASE Fill
  BY <1>3 DEF Fill, FillNext, FillWith, Add
<1>4. CASE ModifyBootloader \/ CreateEntry \/ SetEntry \/ ListEntry \/
   RecordEntry \/ ModifyGrubConfiguration
  BY <1>4 DEF ModifyBootloader, CreateEntry, SetEntry, ListEntry, RecordEntry,
     ModifyGrubConfiguration, UpdateEntry
<1>5. CASE EditIni
  BY <1>5 DEF EditIni, Unprotect, Truncate, WriteIni, Protect, NewText
<1>6. CASE Uninstall
  BY <1>6 DEF Uninstall, UndoBcd, ClearBootRecord, UndoBootini, UnlinkLoader,
     RemoveTargetDir, RmTree, RemoveRegistryKey, IsDir, NoKey
<1>7. CASE User
  BY <1>7 DEF User, UserCreates, UserDeletes, Add
<1>8. CASE UNCHANGED vars
  BY <1>8 DEF vars
<1>9. QED
  BY <1>1, <1>2, <1>3, <1>4, <1>5, <1>6, <1>7, <1>8 DEF Next, Dispatch,
     Install, EditIni, Uninstall

\* An outcome is only read while no session runs, and then only users act.
LEMMA NextFails == IInv /\ [Next]_vars => UninstallFailsOnlyDangling'
<1> SUFFICES ASSUME phase \in {"install", "uninstall"}, ControlInv,
                    UninstallFailsOnlyDangling, [Next]_vars
             PROVE  UninstallFailsOnlyDangling'
  BY DEF IInv, TypeOK
<1> USE DEF ControlInv, Editing, BeforeKey, Filling, MakingEntry, Undoing,
   TaskStarts, Pages, Installing, Unbooted, InList, UninstallFailsOnlyDangling
<1>1. CASE Dispatch
  BY <1>1 DEF Dispatch, Start, ConfirmUninstall, ChooseSettings, LookAgain,
     Quit, Stopped, Kill, Fault, InTheWay, IsDir
<1>2. CASE SelectTargetDir \/ MakeTargetDir \/ MakeSubdirs \/ CopyUninstaller
   \/ SetUninstallString \/ SetInstallationDir
  BY <1>2 DEF SelectTargetDir, MakeTargetDir, MakeSubdirs, CopyUninstaller,
     SetUninstallString, SetInstallationDir, IsDir, Add
<1>3. CASE Fill
  BY <1>3 DEF Fill, FillNext, FillWith, Add
<1>4. CASE ModifyBootloader \/ CreateEntry \/ SetEntry \/ ListEntry \/
   RecordEntry \/ ModifyGrubConfiguration
  BY <1>4 DEF ModifyBootloader, CreateEntry, SetEntry, ListEntry, RecordEntry,
     ModifyGrubConfiguration, UpdateEntry
<1>5. CASE EditIni
  BY <1>5 DEF EditIni, Unprotect, Truncate, WriteIni, Protect, NewText
<1>6. CASE Uninstall
  BY <1>6 DEF Uninstall, UndoBcd, ClearBootRecord, UndoBootini, UnlinkLoader,
     RemoveTargetDir, RmTree, RemoveRegistryKey, IsDir, NoKey
<1>7. CASE User
  BY <1>7 DEF User, UserCreates, UserDeletes, Add
<1>8. CASE UNCHANGED vars
  BY <1>8 DEF vars
<1>9. QED
  BY <1>1, <1>2, <1>3, <1>4, <1>5, <1>6, <1>7, <1>8 DEF Next, Dispatch,
     Install, EditIni, Uninstall

-----------------------------------------------------------------------------
\* IInv is inductive: it holds between any two steps of any number of sessions,
\* however they end.
THEOREM Invariance == Spec => []IInv
<1>1. IInv /\ [Next]_vars => IInv'
  BY NextTypeOK, NextControl, NextCount, NextTarget, NextRecord, NextBoot, NextEntry,
     NextIni, NextStart, NextKnows, NextBoots, NextLoader, NextAdded, NextRemoves,
     NextFails DEF IInv
<1>2. QED
  BY InitIInv, <1>1, PTL DEF Spec

\* What is filled can be uninstalled: the registry leads to every directory that
\* holds a file of an installation, unless set_value swallowed the very write that
\* records it (create_uninstaller, remove_registry_key).
THEOREM EveryInstallationIsKnown == Spec => []UninstallerKnowsTarget
<1>1. IInv => UninstallerKnowsTarget
  BY DEF IInv
<1>2. QED
  BY Invariance, <1>1, PTL

\* What the boot menus of the machine offer can be booted (modify_bcd,
\* undo_bcd, modify_bootini, undo_bootloader).
THEOREM BootMenusLeadSomewhere == Spec => []EntriesBoot
<1>1. IInv => EntriesBoot
  BY DEF IInv, EntriesBoot
<1>2. QED
  BY Invariance, <1>1, PTL

\* When modify_bootloader is done there is an entry for what was installed, unless
\* a VistaBootDrive was left over in one of the three ways there are.
THEOREM EntryIsAdded == Spec => []BootEntryAdded
<1>1. IInv => BootEntryAdded
  BY DEF IInv
<1>2. QED
  BY Invariance, <1>1, PTL

\* An uninstallation that ends did its job, and fails for one reason only.
THEOREM UninstallationIsReliable == Spec => []UninstallWorks
<1>1. IInv => UninstallWorks
  BY DEF IInv, UninstallWorks
<1>2. QED
  BY Invariance, <1>1, PTL

\* Somebody else's directory: MakeTargetDir and Fill write into the directory
\* that SelectTargetDir found empty, RmTree deletes the one of the registry.
LEMMA StepLeavesForeign ==
    IInv /\ [Next]_vars =>
        (pc # "off" => \A t \in Targets \ usurped :
                           "foreign" \in tree[t] => tree'[t] = tree[t])
<1> SUFFICES ASSUME IInv, [Next]_vars, pc # "off", NEW t \in Targets \ usurped,
                    "foreign" \in tree[t]
             PROVE  tree'[t] = tree[t]
  OBVIOUS
<1>1. tree \in [Targets -> SUBSET Items]
  BY DEF IInv, TypeOK
<1>2. pc \in {"mkdir", "mktree", "copy_uninstaller"} => "foreign" \notin tree[targetDir]
  BY DEF IInv, TargetInv, BeforeKey
<1>3. pc \in DOMAIN FillWith => "foreign" \notin tree[targetDir]
  BY DEF IInv, TargetInv, Installing, Filling, FillWith
<1>4. pc = "removing" => prevDir # t
  BY DEF IInv, RecordInv, Undoing
<1>5. CASE Dispatch
  BY <1>5 DEF Dispatch, Start, ConfirmUninstall, ChooseSettings, LookAgain, Quit,
     Stopped, Kill, Fault
<1>6. CASE MakeTargetDir \/ MakeSubdirs \/ CopyUninstaller
  BY <1>1, <1>2, <1>6 DEF MakeTargetDir, MakeSubdirs, CopyUninstaller, Add
<1>7. CASE Fill
  BY <1>1, <1>3, <1>7 DEF Fill, Add
<1>8. CASE SelectTargetDir \/ SetUninstallString \/ SetInstallationDir \/ ModifyBootloader
           \/ CreateEntry \/ SetEntry \/ ListEntry \/ RecordEntry \/ ModifyGrubConfiguration
  BY <1>8 DEF SelectTargetDir, SetUninstallString, SetInstallationDir, ModifyBootloader,
     CreateEntry, SetEntry, ListEntry, RecordEntry, ModifyGrubConfiguration
<1>9. CASE EditIni
  BY <1>9 DEF EditIni, Unprotect, Truncate, WriteIni, Protect
<1>10. CASE RmTree
  BY <1>1, <1>4, <1>10 DEF RmTree
<1>11. CASE UndoBcd \/ ClearBootRecord \/ UndoBootini \/ UnlinkLoader \/ RemoveTargetDir
            \/ RemoveRegistryKey
  BY <1>11 DEF UndoBcd, ClearBootRecord, UndoBootini, UnlinkLoader, RemoveTargetDir,
     RemoveRegistryKey
<1>12. CASE User
  BY <1>12 DEF User, UserCreates, UserDeletes
<1>13. CASE UNCHANGED vars
  BY <1>13 DEF vars
<1>14. QED
  BY <1>5, <1>6, <1>7, <1>8, <1>9, <1>10, <1>11, <1>12, <1>13
     DEF Next, Install, Uninstall

\* What the user keeps where the program would install is neither written into
\* nor deleted, in that session or by a later uninstallation, unless the user put
\* it where the registry still had an installation.
THEOREM OthersFilesStay == Spec => ForeignUntouched
<1>1. IInv /\ [Next]_vars =>
        [pc # "off" =>
           \A t \in Targets \ usurped :
                           "foreign" \in tree[t] => tree'[t] = tree[t]]_vars
  BY StepLeavesForeign
<1>2. QED
  BY Invariance, <1>1, PTL DEF Spec, ForeignUntouched
=============================================================================
