------------------------------ MODULE BootMenu ------------------------------
(***************************************************************************)
(* What grub4dos boots: stage2.c (cmain, run_menu, run_script) with the    *)
(* commands that steer it (builtins.c: default, savedefault, fallback,     *)
(* timeout, hiddenmenu, errorcheck), from power-on to a started system,    *)
(* over reboots.                                                           *)
(*                                                                         *)
(* A configuration is a record; an entry is its sequence of commands; of   *)
(* loading and starting a kernel only the result counts (`health').  Where *)
(* keys move the highlight is MenuNav's subject: here it goes anywhere.    *)
(* The password is left out: whoever may edit may do so.                   *)
(***************************************************************************)
EXTENDS Integers, SequencesExt

CONSTANTS
  Configs,      \* [timeout, hidden, default, fallback, entries]
  Edits,        \* command lists that a user may make of an entry
  MaxFallback,  \* MAX_FALLBACK_ENTRIES
  StuckSoft,    \* repeats after which a key counts as stuck (8)
  StuckHard,    \* the same for the up and down arrows (30)
  StuckTimeout  \* seconds until the menu goes on without the user (5)

ASSUME BootAssumption ==
  /\ MaxFallback \in Nat \ {0} /\ StuckTimeout \in Nat
  /\ StuckSoft \in Nat \ {0} /\ StuckHard \in Nat /\ StuckSoft <= StuckHard

(* Commands; those that `&&' and `||' join are simple. *)
Simples ==
  [op : {"kernel", "save", "savefallback", "unknown"}]
    \cup [op : {"fallback"}, nums : Seq(Nat)] \cup [op : {"errorcheck"}, on : BOOLEAN]
Commands == Simples \cup [op : {"and", "or"}, first : Simples, second : Simples]
Scripts == Seq(Commands)

ASSUME ConfigAssumption ==
  /\ Configs \subseteq [timeout : Int, hidden : BOOLEAN, default : [saved : BOOLEAN, num : Nat],
                       fallback : Seq(Nat), entries : Seq(Scripts) \ {<<>>}]
  /\ Edits \subseteq Scripts \ {<<>>}

VARIABLES
  cfg,       \* the configuration file
  health,    \* what becomes of each entry's kernel
  writable,  \* the file of the default entry can be written
  pc,        \* "off", "hidden", "menu", "run", "prompt", "endless", "void",
             \* "hung", "started"
  g,         \* the globals that commands read and write, see Globals
  timeout,   \* grub_timeout
  entry,     \* the highlighted entry of the main menu
  list,      \* the commands being edited, <<>> in the main menu
  line,      \* the highlighted line of the list
  todo,      \* the commands left of the script that runs
  running,   \* the entry the script belongs to
  fbcount,   \* fallbacked_entries
  held,      \* old_c_count, 0 before the first key, -1 after another key
  heldKey,   \* old_c: "arrow" or "other"
  tried,     \* the entries run since the menu was left (history)
  attended   \* a key was pressed or the machine was reset (history)

menuVars == <<entry, list, line>>
keyVars  == <<held, heldKey>>
runVars  == <<todo, running, fbcount, tried>>
fixed    == <<cfg, health, writable>>
vars == <<fixed, pc, g, timeout, menuVars, keyVars, runVars, attended>>

Health == {"good", "panics", "refuses", "missing"}
NumEntries == Len(cfg.entries)
InList == list # <<>>
Current == IF InList THEN line ELSE entry                 \* current_entryno
Shown == IF InList THEN Len(list) ELSE NumEntries         \* num_entries
NoKernel(s) == [s EXCEPT !.kernel = FALSE, !.err = FALSE]

(* fallback_entries: the numbers up to the end mark -1, if there is one. *)
NoTable == <<-1>> \o [i \in 1 .. MaxFallback - 1 |-> 0]
Listed(table) ==
  LET marks == {i \in 1 .. MaxFallback : table[i] < 0}
  IN SubSeq(table, 1, IF marks = {} THEN MaxFallback ELSE Min(marks) - 1)

\* Mutant: the last entry of the list is left out.
After_Short(fbs, i) == IF i + 2 < Len(fbs) THEN i + 1 ELSE -1

(* The place in a list of fallback entries after i, -1 at its end. *)
After(fbs, i) == IF i + 1 < Len(fbs) THEN i + 1 ELSE -1
-----------------------------------------------------------------------------
(* fallback: the table takes the numbers up to the first that has come     *)
(* before.  That one is skipped, but not the blank behind it, at which the *)
(* command fails when more numbers follow: what it has read stands in the  *)
(* table, and all else is as it was.                                       *)
Repeats(nums) == {i \in 1 .. Len(nums) : \E j \in 1 .. i - 1 : nums[j] = nums[i]}
Fallbacks(nums) ==
  SubSeq(nums, 1, Min(Repeats(nums) \cup {Len(nums) + 1, MaxFallback + 1}) - 1)
RepeatInside(nums) == \E i \in Repeats(nums) : i <= MaxFallback /\ i < Len(nums)

Over(table, front) ==
  SubSeq(front \o SubSeq(table, Len(front) + 1, MaxFallback), 1, MaxFallback)

Fallback(nums, s) ==
  LET fbs == Fallbacks(nums)
  IN IF RepeatInside(nums)
       THEN [s EXCEPT !.table = Over(@, fbs), !.err = TRUE]
       ELSE [s EXCEPT !.table = Over(@, Append(fbs, -1)),
                      !.fbno = IF fbs = <<>> THEN -1 ELSE 0]
-----------------------------------------------------------------------------
(* The commands.  Each takes the globals to the globals it leaves. *)

(* savedefault: a file that cannot be opened, read or written is no error. *)
SaveDefault(s, n) == IF writable THEN [s EXCEPT !.saved = n] ELSE s

\* Mutant: the first of the fallback entries, whichever entry runs.
SaveFallback_First(s) ==
  IF Listed(s.table) = <<>> THEN [s EXCEPT !.err = TRUE]
  ELSE SaveDefault(s, s.table[1])

(* savedefault fallback: the fallback entry that comes after the entry that *)
(* runs; that there is none is an error.                                    *)
SaveFallback(s) ==
  LET fbs  == Listed(s.table)
      at   == {i \in 1 .. Len(fbs) : fbs[i] = Current}
      next == IF at = {} THEN 1 ELSE Min(at) + 1
  IN IF next > Len(fbs) THEN [s EXCEPT !.err = TRUE] ELSE SaveDefault(s, fbs[next])

Simple(c, s) ==
  CASE c.op = "kernel"       -> IF health[running] = "missing"
                                  THEN [s EXCEPT !.err = TRUE]
                                  ELSE [s EXCEPT !.kernel = TRUE]
    [] c.op = "save"         -> SaveDefault(s, Current)
    [] c.op = "savefallback" -> SaveFallback(s)
    [] c.op = "fallback"     -> Fallback(c.nums, s)
    [] c.op = "errorcheck"   -> [s EXCEPT !.errorcheck = c.on]
    [] c.op = "unknown"      -> [s EXCEPT !.err = TRUE]

(* What a command returns need not be whether there was an error. *)
Returns(c, s) ==
  CASE c.op \in {"save", "savefallback"} -> writable /\ ~Simple(c, s).err
    [] c.op = "errorcheck"               -> c.on
    [] OTHER                             -> ~Simple(c, s).err

(* One line of a script.  `&&' and `||' go by what the first command       *)
(* returns and take its error away; the line fails as a whole, before any  *)
(* of it runs, when one of the two is unknown.                             *)
Command(c, s0) ==
  LET s == [s0 EXCEPT !.err = FALSE] IN
  IF c.op \notin {"and", "or"} THEN Simple(c, s)
  ELSE IF "unknown" \in {c.first.op, c.second.op} THEN [s EXCEPT !.err = TRUE]
  ELSE LET one == [Simple(c.first, s) EXCEPT !.err = FALSE]
       IN IF Returns(c.first, s) <=> c.op = "and" THEN Simple(c.second, one) ELSE one
-----------------------------------------------------------------------------
(* All that a machine keeps when it restarts is the file of the default. *)
Forgotten ==
  [saved |-> g.saved, kernel |-> FALSE, err |-> FALSE, errorcheck |-> TRUE,
   table |-> NoTable, fbno |-> -1]

(* The fallback command of the configuration; errors are passed over. *)
Configured == [Fallback(cfg.fallback, Forgotten) EXCEPT !.err = FALSE]

(* A table that a completed fallback command has made is looked through for *)
(* entries that do not exist.  Each moves what is behind it up; the last    *)
(* place stays what it was.                                                 *)
Keep(kept, n) == IF n < NumEntries THEN Append(kept, n) ELSE kept
Checked(table) ==
  LET fbs == Listed(table)
      ok  == FoldLeft(Keep, <<>>, fbs)
      up  == Len(fbs) - Len(ok)
  IN ok \o SubSeq(table, Len(fbs) + 1, MaxFallback)
        \o [i \in 1 .. up |-> table[MaxFallback]]

(* The last entry of a full table, when it does not exist, is moved onto *)
(* itself for ever.                                                       *)
DropsForever ==
  LET fbs == Fallbacks(cfg.fallback)
  IN /\ ~RepeatInside(cfg.fallback)
     /\ Len(fbs) = MaxFallback /\ Last(fbs) >= NumEntries

LoadNeverEnds ==
  /\ pc = "off" /\ DropsForever
  /\ pc' = "hung"
  /\ UNCHANGED <<fixed, g, timeout, menuVars, keyVars, runVars, attended>>

\* Mutant: the entries of the fallback list are taken as they are.
LoadConfig_Unchecked ==
  /\ pc = "off"
  /\ pc' = "menu"
  /\ timeout' = cfg.timeout
  /\ entry' = IF cfg.default.saved THEN g.saved ELSE 0
  /\ g' = Configured
  /\ list' = <<>> /\ line' = 0
  /\ held' = 0 /\ heldKey' = "other"
  /\ attended' = FALSE
  /\ UNCHANGED <<fixed, runVars>>

(* Power-on.  cmain reads the saved entry and the configuration, drops the *)
(* fallback entries that do not exist and replaces a default that does not.*)
LoadConfig ==
  \E s \in {Configured} :
  LET table == IF s.fbno >= 0 THEN Checked(s.table) ELSE s.table
      fbs == IF s.fbno >= 0 THEN Listed(table) ELSE <<>>
      default == IF cfg.default.saved THEN g.saved ELSE cfg.default.num
      present == default < NumEntries
  IN /\ pc = "off"
     /\ ~DropsForever
     /\ pc' = IF cfg.hidden /\ cfg.timeout >= 0 THEN "hidden" ELSE "menu"
     /\ timeout' = cfg.timeout
     /\ entry' = IF present THEN default ELSE IF fbs # <<>> THEN fbs[1] ELSE 0
     /\ g' = [s EXCEPT
                !.table = table,
                !.fbno = IF fbs = <<>> THEN -1 ELSE IF present THEN 0 ELSE After(fbs, 0)]
     /\ list' = <<>> /\ line' = 0
     /\ held' = 0 /\ heldKey' = "other"
     /\ attended' = FALSE
     /\ UNCHANGED <<fixed, runVars>>

(* The highlighted entry, or the edited list, begins to run (boot_entry). *)
Begin ==
  /\ pc' = "run"
  /\ running' = entry
  /\ todo' = IF InList THEN list ELSE cfg.entries[entry + 1]
  /\ fbcount' = 0
  /\ tried' = <<entry>>

(* The script is left and forgotten. *)
EndScript == todo' = <<>> /\ running' = 0 /\ fbcount' = 0 /\ tried' = <<>>

(* The menu is drawn again. *)
ShowMenu ==
  /\ pc' = "menu"
  /\ held' = 0 /\ heldKey' = "other"
  /\ EndScript

Restart ==
  /\ pc' = "off"
  /\ g' = Forgotten
  /\ timeout' = -1
  /\ entry' = 0 /\ list' = <<>> /\ line' = 0
  /\ held' = 0 /\ heldKey' = "other"
  /\ EndScript

\* Mutant: at zero the clock stands still.
Tick_Stalls ==
  /\ pc \in {"hidden", "menu"} /\ timeout > 0
  /\ timeout' = timeout - 1
  /\ UNCHANGED <<fixed, pc, g, menuVars, keyVars, runVars, attended>>

(* A second passes. *)
Tick ==
  /\ pc \in {"hidden", "menu"} /\ timeout >= 0
  /\ timeout' = timeout - 1
  /\ IF timeout = 0 THEN Begin /\ g' = NoKernel(g)
     ELSE UNCHANGED <<pc, g, runVars>>
  /\ UNCHANGED <<fixed, menuVars, keyVars, attended>>

(* ESC interrupts the hidden menu; any other key is swallowed. *)
KeyHidden ==
  /\ pc = "hidden"
  /\ timeout' = -1
  /\ ShowMenu
  /\ attended' = TRUE
  /\ UNCHANGED <<fixed, g, menuVars>>

(* What every key in the menu does first: it stops the clock, and with a    *)
(* running clock the unattended mode ends.                                  *)
Unattended(s) == IF timeout >= 0 THEN [s EXCEPT !.fbno = -1] ELSE s

(* A key that the menu goes on with: the same key over and over since the  *)
(* menu was drawn is a stuck key, and the clock runs again.                *)
Count(k, same) ==
  IF held = 0 THEN 1
  ELSE IF held > 0 /\ same /\ k = heldKey THEN IF held < StuckHard THEN held + 1 ELSE held
  ELSE -1

\* Mutant: the clock runs again at the second key.
Stuck_AnyKey(k, n) == n # 1

Stuck(k, n) == n >= StuckHard \/ (n >= StuckSoft /\ k = "other")

Press(k) ==
  /\ pc = "menu"
  /\ \E same \in BOOLEAN :
       LET n == Count(k, same) IN
         /\ held' = n
         /\ heldKey' = IF held = 0 THEN k ELSE heldKey
         /\ timeout' = IF Stuck(k, n) THEN StuckTimeout ELSE -1
  /\ g' = Unattended(g)
  /\ attended' = TRUE
  /\ UNCHANGED <<fixed, pc, runVars>>

(* It moves the highlight or does nothing, ... *)
KeyMove ==
  /\ \E k \in {"arrow", "other"} : Press(k)
  /\ IF InList
       THEN line' \in 0 .. Len(list) - 1 /\ UNCHANGED entry
       ELSE entry' \in 0 .. NumEntries - 1 /\ UNCHANGED line
  /\ UNCHANGED list

(* ... or, in the list, opens or deletes a line (`o', `O', `d'). *)
KeyLine ==
  /\ InList /\ Press("other")
  /\ list' \in Edits
  /\ line' \in 0 .. Len(list') - 1
  /\ UNCHANGED entry

(* RETURN or `b' *)
KeyBoot ==
  /\ pc = "menu"
  /\ timeout' = -1
  /\ g' = NoKernel(Unattended(g))
  /\ Begin
  /\ attended' = TRUE
  /\ UNCHANGED <<fixed, menuVars, keyVars>>

(* `e' opens the highlighted entry's commands; in the list, `e' changes the *)
(* highlighted one; ESC goes back.                                          *)
KeyEdit ==
  /\ pc = "menu"
  /\ timeout' = -1
  /\ g' = Unattended(g)
  /\ ShowMenu
  /\ \/ /\ ~InList
        /\ list' = cfg.entries[entry + 1]
        /\ line' = 0
     \/ /\ InList
        /\ list' \in Edits
        /\ line' \in 0 .. Len(list') - 1
     \/ InList /\ list' = <<>> /\ line' = 0
  /\ attended' = TRUE
  /\ UNCHANGED <<fixed, entry>>
-----------------------------------------------------------------------------
(* run_script: one command after the other until one fails. *)
Failing == g.err /\ g.errorcheck

RunCommand ==
  /\ pc = "run" /\ ~Failing /\ todo # <<>>
  /\ g' = Command(Head(todo), g)
  /\ todo' = Tail(todo)
  /\ UNCHANGED <<fixed, pc, timeout, menuVars, keyVars, running, fbcount, tried, attended>>

(* The end of the commands: without a kernel the menu comes back, with one *)
(* the command boot is run.                                                *)
RunEnds ==
  /\ pc = "run" /\ ~Failing /\ todo = <<>>
  /\ \/ /\ ~g.kernel
        /\ ShowMenu
        /\ g' = NoKernel(g)
        /\ UNCHANGED <<timeout, menuVars>>
     \/ /\ g.kernel /\ health[running] = "good"
        /\ pc' = "started"
        /\ EndScript
        /\ UNCHANGED <<g, timeout, menuVars, keyVars>>
     \/ /\ g.kernel /\ health[running] = "panics"
        /\ Restart
  /\ UNCHANGED <<fixed, attended>>

\* Mutant: without the test for an endless loop.
FallBack_Unbounded ==
  LET f == g.table[g.fbno + 1] IN
  /\ IF InList THEN line' = f /\ UNCHANGED entry ELSE entry' = f /\ UNCHANGED line
  /\ g' = [NoKernel(g) EXCEPT !.fbno = After(Listed(g.table), g.fbno)]
  /\ running' = f
  /\ todo' = cfg.entries[f + 1]
  /\ UNCHANGED <<pc, fbcount, tried>>

(* A command or boot itself failed.  The next fallback entry runs, if there *)
(* is one and the loop does not go on for too long; its number becomes the *)
(* highlight of whichever menu is shown.                                    *)
FallBack ==
  LET f == g.table[g.fbno + 1] IN
  /\ IF InList THEN line' = f /\ UNCHANGED entry ELSE entry' = f /\ UNCHANGED line
  /\ g' = [NoKernel(g) EXCEPT !.fbno = After(Listed(g.table), g.fbno)]
  /\ fbcount' = fbcount + 1
  /\ running' = f
  /\ IF fbcount + 1 > Shown THEN pc' = "endless" /\ UNCHANGED <<todo, tried>>
     ELSE IF f >= NumEntries THEN pc' = "void" /\ UNCHANGED <<todo, tried>>
     ELSE /\ todo' = cfg.entries[f + 1]
          /\ tried' = Append(tried, f)
          /\ UNCHANGED pc

RunFails ==
  /\ pc = "run"
  /\ Failing \/ (todo = <<>> /\ g.kernel /\ health[running] = "refuses")
  /\ IF g.fbno >= 0 THEN FallBack
     ELSE pc' = "prompt" /\ g' = NoKernel(g) /\ UNCHANGED <<entry, line, runVars>>
  /\ UNCHANGED <<fixed, timeout, list, keyVars, attended>>

(* "Press any key to continue" *)
KeyContinue ==
  /\ pc \in {"prompt", "endless"}
  /\ ShowMenu
  /\ attended' = TRUE
  /\ UNCHANGED <<fixed, g, timeout, menuVars>>

(* The machine is switched off and on; what was in memory is gone. *)
Reset ==
  /\ pc # "off"
  /\ Restart
  /\ attended' = TRUE
  /\ UNCHANGED fixed

Init ==
  /\ cfg \in Configs
  /\ health \in [0 .. NumEntries - 1 -> Health]
  /\ writable \in BOOLEAN
  /\ pc = "off"
  /\ g = [saved |-> 0, kernel |-> FALSE, err |-> FALSE, errorcheck |-> TRUE,
          table |-> NoTable, fbno |-> -1]
  /\ timeout = -1
  /\ entry = 0 /\ list = <<>> /\ line = 0
  /\ todo = <<>> /\ running = 0 /\ fbcount = 0 /\ tried = <<>>
  /\ held = 0 /\ heldKey = "other"
  /\ attended = FALSE

Key == KeyHidden \/ KeyMove \/ KeyLine \/ KeyBoot \/ KeyEdit \/ KeyContinue

System == LoadConfig \/ LoadNeverEnds \/ Tick \/ RunCommand \/ RunEnds \/ RunFails

Next == System \/ Key \/ Reset

(* The machine goes on by itself: the clock ticks and code runs.  Nobody *)
(* has to press a key.                                                   *)
Spec == Init /\ [][Next]_vars /\ WF_vars(System)
-----------------------------------------------------------------------------
TypeOK ==
  /\ pc \in {"off", "hidden", "menu", "run", "prompt", "endless", "void", "hung", "started"}
  /\ timeout \in Int /\ entry \in Nat /\ line \in Nat /\ running \in Nat
  /\ fbcount \in Nat
  /\ held \in -1 .. StuckHard /\ heldKey \in {"arrow", "other"}
  /\ g.saved \in Nat /\ g.fbno \in -1 .. MaxFallback - 1
  /\ g.table \in [1 .. MaxFallback -> Int] /\ g.fbno < Len(Listed(g.table))
  /\ {g.kernel, g.err, g.errorcheck, attended, writable} \subseteq BOOLEAN

(* What a script may give as fallback entries of its own. *)
Given(c) ==
  CASE c.op = "fallback" -> {c.nums}
    [] c.op \in {"and", "or"} -> {s.nums : s \in {t \in {c.first, c.second} : t.op = "fallback"}}
    [] OTHER -> {}
GivenIn(script) == UNION {Given(script[i]) : i \in 1 .. Len(script)}
AllGiven == UNION {GivenIn(script) : script \in ToSet(cfg.entries) \cup Edits}

(* Some entry, or what a user makes of one, gives fallback entries. *)
Rearms == AllGiven # {}

(* The fallback entries of the configuration that exist. *)
Promised == {n \in ToSet(cfg.fallback) : n < NumEntries}

(* Only entries that exist are run: titles[current_entryno] is read without *)
(* another look.                                                            *)
EntryExists == TypeOK /\ pc # "void" /\ (pc = "hidden" => entry < NumEntries)

(* A user who has pressed a key since the menu was drawn is not overtaken *)
(* by the clock, unless the key was pressed long enough to count as stuck.*)
UserStopsClock ==
  pc = "menu" /\ held # 0 /\ timeout >= 0 => held >= StuckSoft

(* "Go into unattended boot mode: ... instead of waiting for the user":  *)
(* with nobody there, the boot stops at an error only when every fallback *)
(* entry of the configuration has been tried; none is tried when the      *)
(* fallback command has failed at a number that comes twice.              *)
UnattendedTriesAll ==
  ~Rearms =>
    IF RepeatInside(cfg.fallback) THEN Len(tried) <= 1
    ELSE pc = "prompt" /\ ~attended /\ Len(cfg.fallback) <= MaxFallback
           => Promised \subseteq ToSet(tried)

(* No fallback entry is run twice in an attempt, and none is called an *)
(* endless loop, as long as entries do not set the fallback list anew  *)
(* and the table is not full of entries that do not exist.             *)
TriedOnce ==
  /\ ~Rearms /\ ~InList /\ tried # <<>>
  /\ Len(Fallbacks(cfg.fallback)) < MaxFallback
  => IsInjective(Tail(tried)) /\ pc # "endless"

(* Unattended booting tries every fallback entry, and each of them once; it *)
(* tries none if a number comes twice inside the list.                      *)
FallbacksTried == UnattendedTriesAll /\ TriedOnce

(* However the entries fail and whatever fallback lists they set, running *)
(* them comes to an end.                                                  *)
BootAttemptsEnd == pc = "run" ~> pc # "run"

(* The clock that runs comes to its end when the machine is left alone. *)
TimeoutEnds == <>[][~Key /\ ~Reset]_vars => (timeout >= 0 ~> timeout < 0)

(* docs/grub.texi, "Booting fallback systems": with default saved, fallback *)
(* 1 2 and savedefault fallback in the entries, "this solution ensures that *)
(* your system is started even if GRUB cannot find your kernel or if your   *)
(* kernel panics": over any number of reboots without a user, as long as    *)
(* one of the systems works and the default file can be written.            *)
FollowsManual ==
  /\ cfg.default.saved /\ cfg.fallback = <<1, 2>> /\ cfg.timeout >= 0
  /\ \A i \in 1 .. NumEntries :
       cfg.entries[i] = <<[op |-> "kernel"],
                          [op |-> IF i < NumEntries THEN "savefallback" ELSE "save"]>>
FallbackSystemStarts ==
  FollowsManual /\ writable /\ "good" \in {health[e] : e \in DOMAIN health}
    /\ []~attended => <>(pc = "started")

(* docs/grub.texi, "fallback": "Go into unattended boot mode ... You can *)
(* specify multiple fallback entry numbers": whatever numbers are given,  *)
(* the configuration is loaded and the menu comes.                        *)
ConfigLoads == pc # "hung"
=============================================================================
