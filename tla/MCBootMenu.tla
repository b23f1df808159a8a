----------------------------- MODULE MCBootMenu -----------------------------
(***************************************************************************)
(* Configurations of two and three entries; each kernel missing, refused,  *)
(* panicking or good; a key counts as stuck after two or three repeats.    *)
(***************************************************************************)
EXTENDS BootMenuInv

Kernel == [op |-> "kernel"]
Save   == [op |-> "save"]
Unknown == [op |-> "unknown"]
SaveFb == [op |-> "savefallback"]
Give(nums) == [op |-> "fallback", nums |-> nums]
Errorcheck(on) == [op |-> "errorcheck", on |-> on]
Both(a, b) == [op |-> "and", first |-> a, second |-> b]
Either(a, b) == [op |-> "or", first |-> a, second |-> b]

Saved == [saved |-> TRUE, num |-> 0]
Entry(n) == [saved |-> FALSE, num |-> n]

(* The three systems of the manual. *)
Manual ==
  [timeout |-> 1, hidden |-> FALSE, default |-> Saved, fallback |-> <<1, 2>>,
   entries |-> << <<Kernel, SaveFb>>, <<Kernel, SaveFb>>, <<Kernel, Save>> >>]

(* A default and fallback entries that do not exist, and one named twice. *)
Sloppy ==
  [timeout |-> 0, hidden |-> TRUE, default |-> Entry(7), fallback |-> <<5, 1, 0, 1>>,
   entries |-> << <<Errorcheck(FALSE), Unknown, Kernel>>,
                  <<Either(SaveFb, Save), Kernel>> >>]

(* A list with a number twice inside. *)
Doubled ==
  [timeout |-> 0, hidden |-> FALSE, default |-> Saved, fallback |-> <<1, 1, 0>>,
   entries |-> << <<Both(SaveFb, Kernel)>>, <<Save, Unknown>> >>]

(* Entries that point at each other, one of them at its second attempt. *)
Ring ==
  [timeout |-> -1, hidden |-> TRUE, default |-> Entry(0), fallback |-> <<>>,
   entries |-> << <<Give(<<1>>), Kernel>>,
                  <<Either(Give(<<0, 0, 1>>), Give(<<0>>)), Both(Kernel, Save)>> >>]

(* A table of fallback entries without room for an end mark. *)
Crowded(nums) ==
  [timeout |-> 0, hidden |-> FALSE, default |-> Entry(7), fallback |-> nums,
   entries |-> << <<Kernel>>, <<Unknown>> >>]

Tested == {Manual, Sloppy, Doubled, Ring, Crowded(<<5, 1, 7, 0>>), Crowded(<<1, 5, 0, 7>>)}
Edited == {<<Save, Kernel>>}
=============================================================================
