----------------------------- MODULE BootMenuInv -----------------------------
(***************************************************************************)
(* The inductive invariant of BootMenu.  A part of it speaks of machines   *)
(* whose entries name only entries that exist when they set fallback       *)
(* entries: the code checks the numbers of the configuration, and only     *)
(* those.  To check it on the instance of MCBootMenu add INVARIANT IInv to *)
(* its cfg.                                                                *)
(***************************************************************************)
EXTENDS BootMenu

(* What the scripts give as fallback entries exists, and is read to its end. *)
Sound ==
  \A nums \in AllGiven :
    ~RepeatInside(nums) /\ \A i \in 1 .. Len(nums) : nums[i] < NumEntries

(* The list without the entries that do not exist; in a full table the last *)
(* one stays behind for each.                                               *)
Existing(fbs) ==
  LET ok == FoldLeft(Keep, <<>>, fbs)
  IN IF Len(fbs) < MaxFallback THEN ok
     ELSE ok \o [i \in 1 .. Len(fbs) - Len(ok) |-> Last(fbs)]

(* The fallback entries that cmain leaves to be tried. *)
Table == IF RepeatInside(cfg.fallback) THEN <<>> ELSE Existing(Fallbacks(cfg.fallback))
HasEndMark == Len(Fallbacks(cfg.fallback)) < MaxFallback

Globals ==
  [saved : Nat, kernel : BOOLEAN, err : BOOLEAN, errorcheck : BOOLEAN,
   table : [1 .. MaxFallback -> Nat \cup {-1}], fbno : Int]

(* What holds whatever the scripts say. *)
ConfigInv ==
  /\ cfg \in Configs
  /\ health \in [0 .. NumEntries - 1 -> Health]
  /\ writable \in BOOLEAN /\ attended \in BOOLEAN

KeyInv ==
  /\ held \in -1 .. StuckHard /\ heldKey \in {"arrow", "other"}
  /\ timeout \in Int
  /\ UserStopsClock

(* As long as one of them may be next, the fallback entries in the table *)
(* exist and the next one is among them.                                 *)
GlobalsInv(s) ==
  /\ s \in Globals
  /\ s.fbno \in -1 .. Len(Listed(s.table)) - 1
  /\ s.fbno >= 0 => \A i \in 1 .. Len(Listed(s.table)) : s.table[i] < NumEntries

MenuInv ==
  /\ pc \in {"off", "hidden", "menu", "run", "prompt", "endless", "hung", "started"}
  /\ entry \in 0 .. NumEntries - 1 /\ line \in Nat
  /\ running \in Nat /\ fbcount \in Nat /\ tried \in Seq(Nat)
  /\ list \in Scripts /\ todo \in Scripts
  /\ GivenIn(list) \subseteq AllGiven /\ GivenIn(todo) \subseteq AllGiven
  /\ GlobalsInv(g)

(* As long as no script gives another one, the table is the configuration's. *)
TableInv ==
  pc \notin {"off", "hung"} =>
    IF RepeatInside(cfg.fallback) THEN g.fbno = -1
    ELSE Listed(g.table) = Table /\ ~DropsForever

(* The entries that were tried after the first one are those of the table  *)
(* from place k on, and the next one is the next of the table.             *)
Tries(k) ==
  /\ k + Len(tried) - 1 <= Len(Table)
  /\ \A i \in 1 .. Len(tried) - 1 : tried[i + 1] = Table[k + i]
  /\ pc = "run" => fbcount = Len(tried) - 1
  /\ pc = "run" /\ g.fbno >= 0 => g.fbno = k + Len(tried) - 1
  /\ ~attended =>
       /\ k = 0 \/ (k = 1 /\ tried[1] = Table[1])
       /\ pc = "prompt" \/ (pc = "run" /\ g.fbno < 0) => k + Len(tried) - 1 = Len(Table)

RunInv ==
  /\ pc \in {"run", "prompt", "endless"} => tried # <<>>
  /\ tried # <<>> => pc \in {"run", "prompt", "endless"} /\ \E k \in 0 .. Len(Table) : Tries(k)

(* Before anybody or anything has run an entry, the whole table is to come, *)
(* but for the entry that has taken the place of the default.               *)
FreshInv ==
  ~attended =>
    /\ pc = "run" => timeout < 0
    /\ pc \in {"hidden", "menu"} /\ timeout >= 0 =>
         \E k \in {0, 1} :
           /\ k <= Len(Table)
           /\ k = 1 => entry = Table[1]
           /\ g.fbno = IF k < Len(Table) THEN k ELSE -1

(* An endless loop is only ever seen among the few lines of an edited list. *)
EndlessInv == pc = "endless" /\ HasEndMark => InList

(* The whole. *)
IInv ==
  /\ ConfigInv
  /\ KeyInv
  /\ Sound => MenuInv
  /\ ~Rearms => TableInv /\ RunInv /\ FreshInv /\ EndlessInv
=============================================================================
