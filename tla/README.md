# A TLA+ model of the Archlive installer for Windows

The program under `src/src` is Wubi, adapted to Archlive: a Windows program that
puts a Linux distribution beside Windows without repartitioning.  It asks a few
questions, finds or downloads an ISO, copies it into a directory of a Windows
drive, adds a boot entry, and uninstalls all of that again.  Its own code is
Python 2 (`src/src/wubi`, `src/src/winui`) behind a launcher in C
(`src/src/pylauncher`).  The tree also holds, in C, the boot loader that the
installer puts on the machine (`src/src/grub4dos`) and the tools for its disks
(`src/src/grubutil`: fbinst, grubinst).  The rest (7z, urlgrabber, openpgp,
BitTorrent, translations) is third-party code that it packs or calls.

This directory holds TLA+ modules that model the installer's own logic, the
steering part of the boot loader and the file area of fbinst, TLC configurations
that check them on small instances, and TLAPS proofs, for every value of the
constants, about the task tree, the progress page, the ISO acquisition, the
installation, the loader's menu, booting and track buffer, and the file area of fbinst.
`PROJECT.json` lists components, runs, mutants, the map from definitions to source
lines, findings, hazards and theorems.

Contents: 1 inventory, 2 plan, 3 the modules and the code, 4 the runs, 5 findings,
6 the proofs, 7 what is only model-checked and what is not modelled.


## 1. Inventory

| part | source | state it keeps | operations |
|---|---|---|---|
| task tree, task thread | `wubi/backends/common/tasklist.py` | a tree of tasks with status, progress, error; a stop event | `__call__`, `add_subtask`, `set_progress`, `finish`, `cancel`, `run` |
| GUI thread, pages | `winui/ui.py`, `wubi/frontends/win32/*.py` | message queue, `_keep_running`, the page shown | `run`, `stop`, `quit`, `show_page`, `run_tasks`, `on_progress`, `on_quit` |
| dispatcher | `wubi/application.py` | `info`: one record shared by everything | `select_task`, `run_installer`, `run_uninstaller`, `run_cd_boot`, `quit` |
| ISO acquisition | `wubi/backends/common/backend.py`, `distro.py`, `downloader.py`, `btdownloader.py`, `metalink.py`, `signature.py` | `info.distro`, `iso_path`, `cd_path`, caches of listings and md5s, the files of the install directory | `find_any_iso`, `find_any_cd`, `get_iso` and what it calls, `extract_kernel` |
| installation, uninstallation | both `backend.py`, `virtualdisk.py`, `registry.py` | on the computer: target directory, registry key, boot entries, boot files | the tasks of the four task lists |
| boot files | `win32/backend.py`, `utils.py` | boot.ini, config.sys | `modify_*`, `undo_*`, `remove_line_in_file` |
| boot menu | `grub4dos/stage2/stage2.c` (`cmain`, `run_menu`, `run_script`), `builtins.c` | highlight and page, clock, script, fallback list, the saved default on disk | keys, `default`, `savedefault`, `fallback`, `timeout`, `errorcheck`, booting |
| track buffer | `grub4dos/stage2/disk_io.c` | `buf_drive`, `buf_track`, `buf_geom`, the buffer | `rawread`, `rawwrite`, `open_partition` |
| fbinst | `grubutil/fbinst/fbinst.c` | the list of files, the sectors | `add`, `add-menu`, `resize`, `copy`, `move`, `remove`, `clear`, `pack`, `load` |
| disk sizes | `installation_page.py`, `choose_disk_sizes` | sizes in MB | arithmetic |
| host information | `win32/backend.py`, `drive.py`, `memory.py`, mappings | read once | queries of Windows |
| launcher | `pylauncher/*.c` | a temporary directory and a copy of the launcher | three processes that hand the directory on |
| BitTorrent 3.4 | `src/src/bittorrent` | pieces, peers, requests | a library kept in the tree |

**Interaction.**  `application.run` asks the back end for information, shows a
settings page, builds a task list and hands it to `frontend.run_tasks`.  The task
list is a thread; the GUI thread runs a message loop.  They meet in three places:
the listener callback (`on_progress` runs on the task thread and sends messages to
windows of the GUI thread), `cancel()` (called on the GUI thread, read by the task
thread without a lock), and the fields `status` and `error` that the GUI thread
reads when its loop ends.  Back end functions get their own task as
`associated_task`, add subtasks to it and call them for a result; a subtask that
fails or may not run answers None.  What one run of the program leaves on the
computer is read by the next through the registry key.  What it leaves in boot.ini
or the BCD starts the boot loader, whose menu runs without any operating system;
the menu reads its entries, and writes its saved default, through the track buffer.
fbinst prepares disks the loader boots from; loader and tool share only the format.

**What is hard.**

- Two threads write `Task.status` without a lock.
- A call of a task means four different things: run, skip because the list is no
  longer active, skip because it ran already, fail silently and stop the list.
- `set_progress` runs subtasks and finishes the task in the middle of its function.
- `get_iso` tries four kinds of sources and the fields it sets for one source stay
  when it tries the next.
- Mirrors fail, lie, or deliver part of a file under the name of the last one.
- The GUI thread waits for a thread that may be waiting for the GUI thread.
- Installation and uninstallation are sequences of persistent effects without a
  journal: a crash, a failure or a cancelled list may end them anywhere, and the
  next run must make sense of the rest.
- Exceptions are swallowed in some places and end the list in others.
- The boot menu keeps one highlight in two variables that twenty keys change, runs a
  clock that keys stop and stuck keys start again, and goes through fallback entries
  that the entries themselves may replace while they fail, over reboots.
- The track buffer is one buffer and one geometry for all drives, kept valid by hand
  at some fifteen places, and disks are exchanged behind its back.
- fbinst moves the files first and writes their list last, in two areas whose sectors
  hold different numbers of bytes.

**What makes each part correct.**

- Task tree: a function runs at most once, a required failure and a `cancel()`
  stop the rest, a list that was not stopped does its whole plan, a stop is never
  forgotten, and the thread ends.
- GUI: the progress page is left exactly when the list is over, the finish page is
  not shown after a failure, quitting ends.
- ISO acquisition: what is installed was checked or has one of the stated excuses,
  for the distro that is installed; a rejected file stays out; a cancelled list
  writes nothing; the search ends.
- Installation: what is filled can be uninstalled, boot entries lead to files that
  exist, an interrupted run can be repeated, other people's files stay.

- Boot files: the owner's lines stay, an entry that is written can be found and taken
  away again.
- Boot menu: the highlight is on an entry that exists and in sight, everything that
  boots can be reached, a user is not overtaken by the clock, and a machine nobody
  watches tries every fallback system and starts one that works.
- Track buffer: what is read is what is on the disk; nothing is written under another
  drive's geometry.
- fbinst: files stay apart and in order, only the file being replaced or moved can be
  lost, sectors carry their number.

The hazards behind these are in `PROJECT.json`, each at its line.


## 2. Plan

In the order of importance; all of 1 to 8 is done.

1. **TaskList**, its abstract specification **TaskContract**, the inductive
   invariant **TaskListInv** and the proofs **TaskListProofs**.
2. **ProgressLoop**: the message loop against the task thread, and its proofs.
3. **IsoAcquisition**: `get_iso`, over the contract of the task tree.
4. **Installation**: dispatcher, installation and uninstallation over repeated,
   interrupted runs.
5. **BootFiles**: the edits that Installation takes as one text: line by line.
6. **BootMenu** and **MenuNav**: what the loader boots, and where keys lead.  They
   share the highlight: BootMenu lets it go anywhere, MenuNav says where it goes.
7. **TrackBuffer** and its proofs.
8. **FbDisk** and its proofs.

A proof module per component follows its module; a component whose invariant is more
than a few lines has it in a module of its own (`...Inv`), which its MC module extends,
so that TLC checks it first.

Left, in this order: theorems about BootFiles (`OwnersLinesKept`, `EditsDoTheirJob`); `use_cd` as a task of
its own in the CD boot list; format, restore, update and save of fbinst; the partition walk above the
track buffer.

Abstract specifications: TaskContract (done).  The contract is what ProgressLoop and
IsoAcquisition assume of the task tree.


## 3. The modules and the code

### TaskList, TaskContract, TaskListInv

`TaskList` models `Task` and `ThreadedTaskList` with the worker thread and the GUI
thread that cancels it.  A task is on the stack at most once, so the stack is one
control point per task (`pc`), a loop position (`next`) and the innermost call
(`top`).  The functions of the tasks are left open: at each point a function may add
a subtask, call one, report progress that is refused or that reaches the size,
return, or raise.  `ThreadedTaskList.cancel` is three steps of the GUI thread
(`SeeAlive`, `SetStopped`, `SetCancelled`), because the worker reads and writes
between them.  The functions that have been told to stop (`told`) are remembered for
the liveness property only.  `finish()` overwrites whatever the status was, as the code does.
`starts`, `overwrote` and `late` are history variables.

`TaskContract` says what the callers of a task list rely on, without a tree: every
function begins at most once, after a required failure nothing begins, a halt stays,
and a list that ends without a halt has begun its plan.  `KeepsContract` is the
refinement (`begun` is the set of tasks with `starts > 0`, `halted` is the event).
The contract deliberately does not promise that nothing begins after a halt: the code
does not keep that, and `LateStartBound` says exactly how far it misses it.

`TaskListInv` is the inductive invariant (section 6); `IsoAcquisitionInv`,
`InstallationInv`, `BootMenuInv` and `FbDiskInv` are those of the modules below.

### ProgressLoop

The GUI thread of `run_tasks`: the loop of `ui.Frontend.run` (`while _keep_running
and GetMessage`), the Cancel box, the destroyed window, `on_quit` with `join(3)`, and
the finish page's loop.  The task thread is reduced to what `on_progress` and
`run_tasks` see.  `SendMessage` from another thread blocks until the GUI thread is in
`GetMessage` or a message box; `stop()` is two steps, the flag and the posted
`WM_NULL`, which may outlive the loop it was meant for.  Windows itself is modelled
from its use here.

### IsoAcquisition

`find_any_iso`, `find_any_cd`, the settings page, `get_iso` with everything it calls,
and `extract_kernel`.  The task tree is used at its contract: a subtask under an
inactive list answers None, an exception in a required subtask makes the list
inactive and answers None.  `Cancel` may happen between any two steps, and copies and
downloads may stop in the middle.

Abstractions.  An image is the architecture that its info file states and whether
its md5 is that of the metalink; `Garbage` is a file that 7z cannot list.  The cache
of listings and the cache of info files are one (`listing`), because the second is
filled from the first.  A mirror may serve any image, of either architecture.  Nothing
checks the architecture of a download that has no md5; `RightMedium` has that excuse.
All distros share one name, as in the shipped lists.  The
isolists in `src/src/data` leave out options that `Distro.__init__` needs
(`data/isolist.ini` has them commented out); the model assumes a complete list.
"The shipped spelling" means `arch=amd64` and `arch=i386` in
`data/isolist.ini-dul`.  Kernel paths are taken to be the same for all architectures.
The urlgrabber in the tree stops a download when its progress callback returns True,
so a cancelled http download leaves a partial file and raises nothing.

### Installation

A session is one run of the program: `Start` is `fetch_basic_info` and `select_task`,
then the pages, the uninstallation list, the second look, the installation list.
Persistent are `tree` (what is in each target directory), `reg` (UninstallString,
InstallationDir, VistaBootDrive), `bcd`, `ini` and `loader`.  One action is one
persistent effect, so `Kill` can fall between any two.  `Fault` lets any step raise.
`set_value` raises when the key cannot be created, and only logs an error of
`SetValueEx`: `SetValue` writes the value or goes on with the old one, and
`RemoveRegistryKey` may silently leave the key, because `delete_key` swallows its errors
too.  `Quit` cancels: the running task goes on to its end, `Stopped` ends the list at the
next task (outcome "stopped", like a kill or a cancelled page).

Three history variables name what the code cannot make good, so that the properties
can say that *nothing else* goes wrong.  `unheard` is the set of writes that `set_value`
has lost and not made since.  `byHand` says that a user has deleted an installation.
`usurped` is the set of directories that a user put where the registry still had an
installation; the program takes such a directory for the installation and deletes it.

Abstractions.  `/set device` and `/set path` are one step, `/displayorder` and
`/timeout` too: an entry between them is as useless as before.  `create_uninstaller`
sets eight values, of which only two are ever read for a decision.  The ISO, the kernel
and the preseed file are one item ("system"): nothing tells them apart.  `bcdedit` is
found; `boot.ini` exists on one drive and its `[operating systems]` section is its
last; Windows 98 is left out.  The box for the ISO backup is hidden
and never checked, so `backup_iso` returns at its first line.
One session runs at a time, and the user touches directories only between sessions:
nothing in the program keeps a second instance from running, and no property below
would survive one.  The user may delete any of the directories and put another in any
place that is free, the recorded one included.

### BootFiles

One file, boot.ini or config.sys, as the lines that `split('\n')` makes of it, told
apart by what the edits look at.  `modify_bootini`, `undo_bootini` (with
`remove_line_in_file`), `modify_configsys` and `undo_configsys` are functions from
lines to lines; the write is two steps, because opening the file for writing empties
it, and a crash may fall between.  The owner adds and deletes lines between edits and
may indent ours, which `strip()` still recognises and `startswith` does not.
`find()` answers -1 for a missing marker and the slices then cut at the last
character: `WithoutBlock` has the four cases.  Our entry is one kind of line, however
it is spelled.

### MenuNav

`run_menu` of stage2 as seen by the keys: `first_entry`, `entryno` and `temp_entryno`,
with a terminal that has a cursor or not (`dumb`).  Up, down, page and digit keys
search the entry they go to, skipping titles that boot nothing; `check_update` moves
the page.  `o`, `O`, `d` and `e` change a command list; ESC, a failed boot and the
command line come back to a menu that is drawn again (`restart`, `Restarted`).  A key
that has been held since the menu was drawn goes down a line as well (`Struck`).

### BootMenu

From power-on: `cmain` reads the configuration and the saved default, drops fallback
entries that do not exist, and replaces a default that does not; the hidden menu and
the clock; the keys as far as they steer booting; `run_script` command by command with
`&&`, `||`, errors and `errorcheck`; the loop that tries fallback entries; reboots
after a panic, and a user who resets the machine.  Of a kernel only what becomes of it
counts (`health`): it is missing, cannot be started, panics or starts.  The file of
the saved default is the only memory over reboots; when it cannot be written,
`savedefault` leaves no error and the script goes on.  `g.table` is `fallback_entries`,
an array of fixed length in which -1 ends the list (`Listed`).  `fallback` fills it from
the front (`Fallbacks`) and, at a number that comes twice, fails when more numbers
follow (`RepeatInside`): what was read stands over the old contents (`Over`), without an
end mark and without a next entry.  `&&` and `||` go by what a command *returns*
(`Returns`), which for `savedefault` and `errorcheck` is not whether there was an error.
`BootMenuInv` also names what the theorems speak of: `Table`, the entries that `cmain`
leaves to be tried, and `Sound`, scripts that name only entries that exist, and none
twice inside a list.

### TrackBuffer

`rawread` is a loop with one iteration per step (`ReadHit`, `ReadPart`, `ReadTrack`,
`ReadRetry`), each of which may fail instead; `rawwrite` writes one sector and keeps
the buffer up to date; `real_open_partition` asks for the geometry of another drive
(`Open`, `OpenFails`); a command gives the buffer's drive up before it runs, because
the disk may have been exchanged while the prompt waited (`Exchange`).  `Bios` reads
nonsense (`Wrong`) when the geometry is another drive's.  Tracks longer than the
buffer are cut (`Vtrack`), which `get_diskinfo` rules out for 512 byte sectors
(`BufferAssumption`).  Assumed: disks are exchanged between commands only, a write that
fails leaves the sector as it was, and the drive map does not change.

### FbDisk

A command of fbinst reads the list, decides, moves sectors and writes the list back.
`Start` is all that happens before the first sector is written; the transfers are kept
in `work`, in batches of the buffer's size; `Fetch` reads a batch (`Made` is the sector
that a transfer makes of what it reads), `Store` writes one sector of it, and a `Crash`
may fall anywhere.  `find_space`, `check_space` and
`alloc_file` are `Alloc`; `copy_disk`, `save_file_data`, `save_buff` and `cpy_file` give
the transfers.  Bytes are tagged with the file they were written for, so that
`FilesKept` compares what a file reads with what it was given.  `write_header` is one
step.  The flag of the extended area that `save_buff` and `add-menu` do not pass on is
not passed on here either.  A sector's number is of 16 bits: `Number` is the number
modulo `Word`, and `CheckDisk` compares it with the whole number, as `check_disk` does.
A disk starts with any list that `format` and commands of
fbinst leave behind: sorted, every file inside one area (`LayoutsAssumption`).  Archive
files, which fbinst treats as disks whose primary area ends where the files begin
(`fb_ar_mode`, `fbinst.c:1173`), are left out: `FbAssumption` has `First < Pri`.


## 4. The runs

Each property of a passing run has a mutant: a definition of the model changed the
way a plausible bug would change the code.  The run then finds the property violated.

| run | question | bounds |
|---|---|---|
| `tasklist` | the tree, its invariant, the contract; does a stop end the thread | root, two planned and two addable tasks |
| `progress` | loop and thread, safety and liveness | three reports |
| `iso` | safety and end of `get_iso` | four distros, two mirrors, every content of five paths |
| `install` | repeated runs, crashes, faults, directories deleted by hand | two drives, three sessions |
| `boot_files` | edits of the installer between edits of the owner | five lines of the owner's, seven in all |
| `menu_nav` | every sequence of keys | up to eleven entries, a box of three lines, lists of five |
| `boot_menu` | from power-on to a started system | six configurations of two and three entries, every health of every kernel |
| `fb_disk` | commands, quits, crashes | four sectors and two, numbers below four, three names and sizes, two commands, every layout of two files |
| `track_buffer` | reads, writes, failures, exchanged disks | two drives of three sectors, two sectors in the buffer |

What they show.

- `tasklist`: `RunsAtMostOnce` although two loops walk the subtasks and functions call
  them too; `NoStartAfterFailure`; `LateStartBound` (at most one function starts after
  `cancel()` of a running list); `CompletionMeansDone` (nothing runs below a COMPLETED
  task, and a list that ran undisturbed did its plan); `CancelIsSticky`, which needs
  the event besides the status; `KeepsContract`; the inductive invariant `IInv`; and
  `StopEndsThread`, whose premise `FunctionsTerminate` is that a function ends once
  `set_progress` has told it to.  Weak fairness of the worker already makes a function take
  its steps; the premise only excludes one that goes on calling `set_progress` for ever.
- `progress`: `LeftWhenOver`, `NoFinishAfterFailure`, `FinishIsUsers`, `ProgressEnds`
  (no stop is lost although `run()` sets what `stop()` clears) and `QuitEnds` (the
  three seconds are what resolves the deadlock).
- `iso`: `RightMedium` (what is installed was checked or has one of the stated excuses,
  the distro is the medium's, a rejected file stays out), `NoSilentStop`,
  `CancelledWritesNothing`, `Ends`.
- `install`: `UninstallerKnowsTarget`, `EntriesBoot`, `BootEntryAdded`,
  `UninstallWorks`, `ForeignUntouched`.  The exceptions are in the properties, by history
  variable, and there are no others.  `UninstallerKnowsTarget`: the write of the
  directory's own InstallationDir was lost (without the UninstallString only the control
  panel is wrong).  `BootEntryAdded`: an old VistaBootDrive is still recorded, because an
  installation was deleted by hand or forgotten in that way, or because the empty record
  of `undo_bcd` was lost.  `EntriesBoot`: an installation was deleted by hand.
  `ForeignUntouched`: the user's directory stands where the registry has an installation.
- `boot_files`: `OwnersLinesKept` as long as the block in config.sys is whole;
  `EditsDoTheirJob` wherever the section has an empty line or ends the file.
- `menu_nav`: `HighlightShown`, `ArrowsSkipDead` and, for who only presses the down
  arrow, `DownVisitsAll`.
- `boot_menu`: `EntryExists`, `UserStopsClock`, `FallbacksTried`, `BootAttemptsEnd`,
  `TimeoutEnds`, and `FallbackSystemStarts`, which is the manual's promise about
  `default saved`, `fallback 1 2` and `savedefault fallback`, over reboots.
- `fb_disk`: `ListLaid`, `FilesKept`, `CheckPasses`.
- `track_buffer`: `Coherent`, `ReadsDisk`, `WritesWithGeometry`.

**Why the bounds are enough.**  Two planned tasks give an earlier and a later one; two
addable ones give a subtask of a subtask and two subtasks of one task; a required and
an optional task are on each level.  Three reports are one before, one during and one
after any step of the GUI.  Two mirrors are a failing one and a next one; five paths
are one for each role a file has.  Two drives are an old and a new place of the
installation; three sessions are an interrupted installation, an interrupted
uninstallation and one that finds both.  Ids of boot entries are bounded by the
sessions.  Five lines hold two sections with an empty line each, or the block between
two lines; `Bounded` only stops files that grow by being edited over and over.  Eleven
entries are three pages and a remainder, and a number of two digits.  The six
configurations are the manual's, one with a default and entries that do not exist, one
with a number that comes twice inside the list, two entries that set each other as
fallback, and two full tables (of four, for the code's eight); a key counts as stuck after two or three repeats instead of 8 and 30.  Four
sectors of two bytes and two of three give files of one to three sectors, gaps on both
sides of the border and moves that overlap; the last primary sector's number does not
fit in `Word`; the buffer is two sectors, so that a long move is in pieces.  A disk of three sectors with tracks of two has a track that
is cut short by its end; the other drive's track of three is longer than the buffer.

**Symmetry** of the two drives is used in the Installation run only, which checks no
liveness.  **Deadlock** is checked except where the run of the program (`iso`), the
number of sessions (`install`) or the number of commands (`fb_disk`, `fb_menu`) ends the
behaviour.

**Fairness.**  `TaskList`: weak fairness of the worker, which the operating system
schedules; the user need not cancel.  `ProgressLoop`: weak fairness of both threads,
and strong fairness of `Answer` and `TakePosted`, because `GetMessage` serves sent
messages first, then posted ones, and input last: a user who keeps clicking cannot
starve them.  A question box is answered at last.  Nothing forces the user to press
Finish.  `IsoAcquisition`: weak fairness of the program's step.  `BootMenu`: weak
fairness of the machine, whose clock ticks and whose code runs; nobody has to press a
key.  `MenuNav` has none of its own: `DownVisitsAll` names the keys it speaks of.
`Installation`, `BootFiles`, `FbDisk` and `TrackBuffer` have safety only: they have no
thread that must go on, and any command may be the last.


## 5. Findings

Each is a run that expects a violation, of one property that a sentence of the
repository states; `PROJECT.json` quotes it.

| run | what the code does |
|---|---|
| `tasklist_late_stop` | A cancel between the guard of the root's `__call__` and `status = ACTIVE` is overwritten, and the plan runs on. |
| `boot_full_table` | A full fallback table whose last entry does not exist makes `cmain` loop for ever before the menu. |
| `fb_menu` | `save_buff` writes the first 510 bytes of a menu into each of its sectors in the primary area. |

Where a finding or one of the following limits a passing property, the property says
so.  These are in the models as the code has them, and no run is spent on them:

*Installer.*

- On a 64 bit machine the info file says `x86_64` and the isolist `amd64`:
  `set_distro_from_arch` (`common/backend.py:411`) finds no distro for a valid ISO.
- The fallback after an unreadable CD (`common/backend.py:460`) is dead code: the
  failing copy is a required subtask and ends the list.
- The id of the boot entry is recorded last (`win32/backend.py:635`); a crash before
  that leaves an entry that a complete uninstallation does not remove.
- A crash between `bcdedit /delete` and the cleared record (`win32/backend.py:684`)
  makes every later uninstallation fail; `UninstallWorks` shows that this is the *only*
  way an undisturbed one fails.
- `root_size_mb + 'MB'` (`common/backend.py:634`) raises in every installation, so no
  virtual disk is ever made.
- A subtask that a function adds after its progress reached the size is never run
  (`tasklist.py:143`); the list still ends COMPLETED.
- `get_iso_file_names` (`win32/backend.py:463`) keeps None in its cache for a file that
  cannot be listed; the next question about it raises in `is_valid_iso`.
- `--32bit` with no metalink at hand installs a 64 bit ISO found at start-up
  (`get_prespecified_iso` ignores the arch, `copy_iso` then checks without it).
- A key that outlived its directory (`delete_key` swallows its error) makes `--cdboot`
  refuse for a directory that is not there (`application.py:207`).
- A `VistaBootDrive` left by an installation that was deleted by hand keeps the next
  one from getting an entry (`win32/backend.py:623`, an exception in
  `BootEntryAdded`).
- `set_value` logs a failed `SetValueEx` and goes on (`registry.py:46`): without its
  InstallationDir a finished installation is never found again; an entry that was not
  recorded is never deleted; a VistaBootDrive that was not emptied is taken by the next
  installation for its own entry.
- A directory that the user puts where the registry still has an installation is taken
  for it and deleted, by the uninstaller or by the installer's look at the previous
  installation (`application.py:144`, `rm_tree`).

*Boot files.*

- The literal `'C:\archldr.mbr'` (`win32/backend.py:525`, `:554`) holds the character
  BEL, so that the line of boot.ini names no file.  The model does not spell names.
- A section without an empty line that is followed by another header gets no entry;
  one whose owner puts an empty line before our entry gets a second.
- An empty boot.ini, as a crash leaves it, raises in `content[-1]` (`:528`).
- `modify_configsys` returns with the attributes taken away when the block is there
  (`:567`); `undo_configsys` cuts off or doubles text when one marker is missing (`:594`).

*Boot menu.*

- `savedefault` in an edited command list saves the number of the *line*
  (`stage2.c:1156`).
- A `fallback` command inside an entry is not checked against the number of entries.
- A failure in a command list sets the highlight to an entry of the main menu while the
  list is shown (`stage2.c:1169`): beyond its end the code reads what is behind it
  (`astray` in MenuNav).
- With a list of few lines, or a table that is full, trying the fallback entries is
  called an endless loop (`stage2.c:1178`) although each is tried once.
- In a full table, a dropped entry leaves a copy of the last one (`stage2.c:1796`),
  which is then run twice.
- ESC out of the hidden menu leaves the unattended mode on, unlike any key in the menu.
- `a && b` whose first command fails leaves no error: the script goes on.
- On a terminal without a cursor the box does not bound the highlight (`stage2.c:492`).
- A number that comes twice inside the list of `fallback` makes the command fail, and no
  fallback entry is tried (`FallbacksTried`).  The comment at `builtins.c:3655` says
  "Remove duplications to prevent infinite looping": the number is skipped, but not the
  blank behind it.

*fbinst.*

- A sector's number is 16 bits, and `format --primary` has a lower bound only
  (`fbinst.c:796`): `check` compares with the whole number (`fbinst.c:2705`) and fails
  at sector 65536 of a disk that is just formatted (`CheckPasses` says so).
- `alloc_file` moves the list within itself with `memcpy` (`fbinst.c:1614`), which the
  model takes for a move.
- `pack`, `resize` and `copy` do not patch the sector numbers in a boot file of syslinux
  that they move; the contents of files are opaque here.
- `load` quits in the middle of an archive with sectors written and the list unchanged
  (`Quit`): a file that it was replacing is lost.
- A gap that the primary area fills exactly leaves the count of sectors at the primary
  size (`find_space`), so that a file may be refused that would fit.


## 6. The proofs

No theorem assumes more than the named ASSUME of its module.

| module | theorem | property |
|---|---|---|
| `TaskListProofs` | `TypeCorrect` | `TypeOK` |
| | `Invariant` | `IInv` |
| | `AtMostOnce` | `RunsAtMostOnce` |
| | `CancelTakesEffect` | `LateStartBound` |
| | `FailureStopsTheList` | `NoStartAfterFailure` |
| | `CompletionIsDone` | `CompletionMeansDone` |
| | `CancelStays` | `CancelIsSticky` |
| | `ImplementsContract` | `KeepsContract` |
| `ProgressLoopProofs` | `Invariance` | `TypeOK /\ IInv` |
| | `LoopLeftWhenOver` | `LeftWhenOver` |
| | `FailureIsSeen` | `NoFinishAfterFailure` |
| | `FinishPageIsUsers` | `FinishIsUsers` |
| `IsoAcquisitionProofs` | `MediumIsRight` | `RightMedium` |
| | `NoStopIsSilent` | `NoSilentStop` |
| | `NothingWrittenAfterCancel` | `CancelledWritesNothing` |
| `InstallationProofs` | `Invariance` | `IInv` |
| | `EveryInstallationIsKnown` | `UninstallerKnowsTarget` |
| | `BootMenusLeadSomewhere` | `EntriesBoot` |
| | `EntryIsAdded` | `BootEntryAdded` |
| | `UninstallationIsReliable` | `UninstallWorks` |
| | `OthersFilesStay` | `ForeignUntouched` |
| `MenuNavProofs` | `HighlightIsShown` | `HighlightShown` |
| | `ArrowsAlwaysSkipDead` | `ArrowsSkipDead` |
| `BootMenuProofs` | `Invariance` | `IInv` |
| | `UserIsNotOvertaken` | `UserStopsClock` |
| | `OnlyEntriesRun` | `EntryExists`, when the scripts are `Sound` |
| | `EveryFallbackIsTried` | `FallbacksTried` |
| `TrackBufferProofs` | `Invariance` | `IInv` |
| | `BufferCoherent` | `Coherent` |
| | `ReadsAreRight` | `ReadsDisk` |
| | `WritesAreAimed` | `WritesWithGeometry` |
| `FbDiskProofs` | `Invariance` | `IInv` |
| | `ListIsLaid` | `ListLaid` |
| | `PrimaryIsNumbered` | `CheckPasses` |
| | `FilesAreKept` | `FilesKept` |

**The task tree**, for every finite or infinite set of tasks, every plan and every
choice of required tasks.  The assumption is `TasksAssumption`: the root is a task,
None is not, the plan is a sequence of distinct tasks other than the root.  The
constructor guarantees it.

*Why an invariant is needed.*  None of the properties is inductive.  "At most once"
holds because a task whose function begins was INACTIVE, which needs that its status
leaves INACTIVE with the start and that only the top of the stack is between guard
and start.  "No start after a failure" needs that no *other* task is between its
guard and its start when one fails, and that no call passes its guard under a root
that is not active; the latter needs that every attached task descends from the root.
`IInv` has one conjunct per idea:

- `TreeInv`: parents of attached tasks are attached, lists and parents agree, and
  every set of tasks closed under parents that holds an attached task holds the root.
  The last part stands for "descends from the root" without recursion: `Lineage` is
  defined as a least closed set, so that no induction is needed.
- `StackInv`: only the top of the stack has just entered.
- `OnceInv`: a function has begun exactly when its status left INACTIVE.
- `FailInv`: with an error the root is neither INACTIVE nor ACTIVE and nobody has
  entered.
- `StopInv`: the event comes before every CANCELLED status and every error.
- `LateInv`: what `cancel()` on an active root can let through.
- `PlanInv`: as long as nobody stops it, the root works through its plan.
- `QuietInv`: the calls on the stack form a lineage, each the child of the next, so
  that what lies outside the lineage of the innermost call is not running; nothing
  below a COMPLETED task is on the stack, and nothing new is attached there.
- `ReturnInv`: what `status` is when a call has returned, which gives
  `CompletionMeansDone`: `finish()` may complete the running task in the middle of its
  function, but the calls below it are over by then.

Each conjunct has a lemma with a step per action.  `ImplementsContract` maps every
step of the tree to a step or a stutter of the contract, under `IInv` before and
after.  TLC checks `IInv` in run `tasklist`; the theorem says it for all constants.

**The progress page**, for any number of reports (`ReportsAssumption`).  That the loop
is left when the list is over depends on what the *task* thread has still to do: it
clears the flag in the middle of a notification, and `run()` sets it when a loop
begins.  `ListAgrees` says what the status, the error and the place of the task thread
say about each other; `LoopAgrees` that a loop of the progress page whose flag is
cleared serves a list that is over, and that the last clearing is past unless there was
an error; `FinishAgrees` that the finish page has no clearing left to fear.  The
quitting program cancels the list under the task thread's feet, so the conjuncts
exempt `join` and `exit`.

**The track buffer**, for any drives, contents, geometries and sizes of the buffer
(`BufferAssumption`).  `Coherent` is not inductive: a write updates the buffer at
`sector - buf_track`, found with `sectors` and not with the length of the buffer's
track, so that it needs that tracks fit the buffer on drives that are written; that the
geometry is that of the drive in the buffer (`GeometryOfBuffer`); and that the buffer
starts at a multiple of the track and lies on the disk (`TrackInBuffer`), from which
two sectors lie in the same track exactly when their beginnings agree (lemmas on `%`).
`ReadsDisk` needs that nothing is written while a read is under way and that it stays on
the disk (`ReadInDisk`).

**The ISO acquisition**, for any set of distros, isolist, mirrors and contents of the
files; the constants are kept apart by the module's named assumptions.  `RightMedium`
speaks of the end; what makes it true is knowledge that is gathered at the beginning
and must survive three other sources.  `PathInv` and `CdInv` say which path is checked
for whom; `CacheInv` and `ListingInv` that a cached listing is that of the file, except
for downloads, where a listing of an earlier mirror's image may stand: that image had the
wrong md5, so that the next one is compared with the md5 of the same distro; `DistroInv` that the distro is in line with the image between the parts of a
check; `RejectedInv` that a rejected ISO would be rejected for every distro that may be
chosen when it is asked for again; `AcceptedInv` carries the result of an accepted check
(`Vouched`, `InLine`) over the copy to `extract_kernel`.  `ListInv` ties the activity
of the list to its reasons, from which `NoSilentStop` follows.

**The installation**, for any set of target directories and any number of sessions, with
a kill, a fault or a cancellation between any two steps, a lost write wherever the
registry is written, and users who delete and make directories between sessions.  The
conjuncts of `IInv` say what the *machine* is like at each step of a session, so that
the end of a session anywhere leaves a machine from which the next one may start:
`TargetInv` (the directory is empty until it is `Known`, and what else is full has a lost
InstallationDir), `RecordInv` (the recorded directory is the user's only if it is
`usurped`; the key goes when the directory is empty), `BootInv` (a record without an
installation has one of the three causes of `Leftover`; a new entry is made, and the old
directory removed, without a record or with one that no entry has), `EntryInv`, `IniInv`
and `StartInv`.  The
properties themselves are conjuncts as well: `EntriesBoot` is needed for its own
preservation by the uninstallation.

**The highlight**, for every height of the box, number of entries and set of titles that
boot nothing (`NavAssumption`).  `Seek` chooses the least or greatest candidate of a
set, so the lemmas are about extrema of finite sets; the rest is arithmetic on `first`,
`entryno` and the page, with a step per key.

**Booting**, for any configurations and edits (`ConfigAssumption` says what they are made
of), any size of the fallback table and any thresholds for stuck keys (`BootAssumption`).
`cmain` checks the fallback numbers of the configuration but nothing checks those that a
script gives; so `OnlyEntriesRun` has the hypothesis `Sound`, that the scripts name only
entries that exist and none twice inside a list, and is about everything else: saved defaults, the default that is
replaced, edited lists, fallbacks of fallbacks, reboots.  `FallbacksTried` speaks of
attempts in which no script sets the list, and says for a configuration with
`RepeatInside` that at most one entry runs.  For the others its invariant says that the entries tried
after the first are those of the table from some place `k` on (`Tries`), and where the
next one is; unattended, `k` is 0, or 1 when the first fallback entry has taken the place
of a default that does not exist (`FreshInv`).  That no run through the table is called
an endless loop needs that a table of different existing entries is not longer than the
menu: the pigeonhole principle.  What `fallback_func` puts into the table is a prefix of
its list (`FallbacksIs`), which is read back up to the end mark (`ListedIs`); what
`cmain` keeps of it is a fold (`CheckedIs`).  The proofs cannot use an induction theorem (its parameter is an
operator) and take two detours: the lemma `Least`, from the well-foundedness of `<`,
shows by a least counterexample that the recursive function behind a fold exists
(`IterExists`), and `UpTo`, an induction over the *set* of numbers at which something
holds, carries a statement from element to element (`TableKept`).

**The file area of fbinst**, for any sizes of the two areas, of their sectors and of the
buffer, any files and archives, and any layout to begin with (`FbAssumption`,
`LayoutsAssumption`).  `alloc_file` is the heart of it.  `find_space` counts sectors of
the primary area until a gap over both areas has been seen, whatever area a gap lies in;
the lemma `SpaceIs` shows that this is safe: once such a gap has been passed every later
one begins beyond the primary area (`InOrder`, `Gaps`), and before that the larger count
only wastes room (`CeilingShrinks`).  `InsertKeeps` then puts the file between its
neighbours.  `PackedOne` carries "the next file begins no earlier than the last one now
ends" from file to file: a file never moves up, and never out of its area, so that it
takes the sectors it took.  pack and load are folds and are treated like those of
booting.  `GrownGood` bounds what `cpy_file` copies and fills by the two files involved.
For `CheckPasses` the invariant follows the sectors from the transfers into the buffer:
`Numbered` says that a sector that waits to be written carries the number of its place,
modulo `Word`; that `check` passes up to `Word` sectors and not beyond is arithmetic
(`NumberFits`).

`FilesKept` speaks of the disk between any two writes, and what makes it true is what the
transfers that are still to come will do.  `Final(d, w)` is the disk when the batches `w`
have been carried out on `d`, a fold of `Moved` over them, and `KeptInv` has four parts:
`OldReads` (the files of the list on the disk read as they should, but those that are
being replaced), `Resting` (a program that has stopped has left nothing undone),
`NewReads` (when buffer and transfers have been carried out, the files of the *new* list
read as they should) and `Undisturbed` (each transfer alone is harmless to a file that is
not replaced).  `Fetch` and `Store` keep them because the final disk stays the same:
`Fetch` takes the first step of the fold, and the sectors of a buffer differ from each
other.  `WriteHeader` finds nothing left to do, so that `NewReads` becomes `OldReads`;
`Crash` and `Quit` need `Undisturbed`, because any part of the transfers may have been
carried out.  The work is in the commands, each of which has to establish `NewReads`.
`copy_disk` goes upwards from the first sector; that the copy is nevertheless that of the
sectors as they were (`Safe`: no transfer needs a sector that one before it has
overwritten) holds because `pack` only moves files down and `copy` copies between files
that lie apart.  Two places hold the same bytes of a file because the file stays in its
area (`Room`).  `alloc_file` gives a new file sectors that no other file has, or only the
file's own.  `pack` writes only below the file it moves, so that the files above still
read as they did when their turn comes (`PackedReads`).  Files that are grown, filled or
cut are compared byte by byte.  Not promised are the contents of a menu that spans
several sectors of the primary area: `MenuKept` is refuted (section 5).


## 7. Limits

*Only model-checked:* liveness (`StopEndsThread`, `ProgressEnds`, `QuitEnds`, `Ends`,
`BootAttemptsEnd`, `TimeoutEnds`, `FallbackSystemStarts`, `DownVisitsAll`), which is out
of the prover's reach; and the safety of BootFiles (`OwnersLinesKept`,
`EditsDoTheirJob`), whose edits are operations on whole sequences of lines.

*Not modelled:*

- the progress estimates and all texts; which of two errors is shown when a second
  required task fails (the last one overwrites `root.error`);
- parsing of metalinks and signatures (their outcome is an input of IsoAcquisition);
  queries of Windows; the settings pages, which write fields of `info` once; disk
  sizes, which are arithmetic for tasks that are never reached;
- the tasks after `modify_grub_configuration`, which the code never reaches; Windows 98
  in Installation; two instances of the program at a time, which nothing prevents and
  no property would survive; a directory that the user makes between the look at it
  and its use (`win32/backend.py:82`);
- the launcher: three processes hand a directory on, after a fixed second
  (`pylauncher/header.c:104`).  Whether that works is decided by what Windows does with
  a file that is deleted on close, which would have to be invented here;
- of the boot loader: the password, the command line, the parser of the configuration,
  the drive map (a table read by assembler), the file systems and the loaders of
  kernels, and the network drivers, which come from Etherboot;
- of `savedefault`: a power failure between the two sectors across which the number may
  lie; of fbinst: a power failure inside `write_header`, and format, restore, update,
  sync, save and the menu compiler;
- grubinst, which writes one boot record once; BitTorrent and the other third-party code.
