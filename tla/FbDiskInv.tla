----------------------------- MODULE FbDiskInv -----------------------------
(***************************************************************************)
(* The inductive invariants of the file area of a fbinst disk: IInv of the *)
(* places of files and of the sectors, and KeptInv, on top of it, of what  *)
(* the files hold.  To check them on the instance of MCFbDisk add          *)
(* INVARIANT IInv KeptInv to its cfg.                                      *)
(***************************************************************************)
EXTENDS FbDisk

FileItem == [name : Names, start : Nat, size : Nat]

GoodList(l) == l \in Seq(FileItem) /\ Laid(l)

\* A batch of transfers from the file area to the sectors A, each once.
GoodBatch(b, A) ==
  /\ b \in Seq({b[i] : i \in DOMAIN b})
  /\ \A i \in 1 .. Len(b) :
       /\ b[i].to \in A /\ b[i].from \in Sectors
       /\ \A j \in 1 .. Len(b) : b[i].to = b[j].to => i = j

Into(w, A) ==
  /\ w \in Seq({w[i] : i \in DOMAIN w})
  /\ \A i \in 1 .. Len(w) : GoodBatch(w[i], A)

\* A sector that waits to be written carries the number of its place.
Numbered(b) ==
  /\ b.to \in Sectors
  /\ DOMAIN b.bytes = 1 .. ExtBytes
  /\ b.to < Pri => \A k \in PriBytes + 1 .. ExtBytes : b.bytes[k] = Number(b.to)

GoodBuf(q) ==
  /\ q \in Seq({q[i] : i \in DOMAIN q})
  /\ \A i \in 1 .. Len(q) :
       /\ Numbered(q[i])
       /\ \A j \in 1 .. Len(q) : q[i].to = q[j].to => i = j

(* The lists are laid out one file after the other in memory and on the    *)
(* disk, what a command still has to do stays inside the file area, and the *)
(* sectors of the primary area are numbered on the disk and in the buffer. *)
IInv ==
  /\ DOMAIN disk = Sectors
  /\ \A s \in Sectors : DOMAIN disk[s] = 1 .. ExtBytes
  /\ GoodList(hdr) /\ GoodList(list)
  /\ touched \subseteq Names
  /\ running \in BOOLEAN /\ commits \in BOOLEAN /\ runs \in 0 .. MaxRuns
  /\ Into(work, Sectors) /\ GoodBuf(buf)
  /\ PrimaryNumbered
-----------------------------------------------------------------------------
(* The disk when the sectors of a buffer are written, and when batches are. *)
Flushed(d, q) ==
  [s \in Sectors |-> IF \E i \in 1 .. Len(q) : q[i].to = s
                       THEN q[CHOOSE i \in 1 .. Len(q) : q[i].to = s].bytes
                     ELSE d[s]]
Moved(d, b) ==
  [s \in Sectors |-> IF \E i \in 1 .. Len(b) : b[i].to = s
                       THEN Made(d, b[CHOOSE i \in 1 .. Len(b) : b[i].to = s])
                     ELSE d[s]]
Final(d, w) == FoldLeft(Moved, d, w)

(* What a file needs of a sector. *)
Used(m, s) ==
  {((i - 1) % Room(m.start)) + 1 : i \in {j \in 1 .. m.size :
                                            m.start + (j - 1) \div Room(m.start) = s}}

IsBytes(b, n) == b = [i \in 1 .. n |-> b[i]]

\* What every name holds.
Record(h) == DOMAIN h = Names /\ \A name \in Names : h[name] = Holds(h[name].bytes, h[name].kind)

FilesOf(l) == {l[i] : i \in 1 .. Len(l)}

\* The files of l are as long as h says, and read as h says.
Sized(l, h) == \A m \in FilesOf(l) : IsBytes(h[m.name].bytes, m.size)
Reads(d, l, h, names) ==
  \A m \in FilesOf(l) :
    m.name \in names /\ h[m.name].kind = "ok" => Read(d, m) = h[m.name].bytes

\* A transfer leaves a file as it reads, all of them do, and a buffer does.
Harmless(t, m) == \A k \in Used(m, t.to) : t.from = t.to /\ k <= t.keep
AllHarmless(w, m) == \A j \in 1 .. Len(w) : \A n \in 1 .. Len(w[j]) : Harmless(w[j][n], m)
SameBytes(q, d, m) ==
  \A j \in 1 .. Len(q) : \A k \in Used(m, q[j].to) : q[j].bytes[k] = d[q[j].to][k]

(* The files on the disk read as they should, but those being replaced;    *)
OldReads ==
  Record(truth) /\ Sized(hdr, truth) /\ Reads(disk, hdr, truth, Names \ touched)

(* a program that has stopped has left nothing undone;                     *)
Resting == ~running => work = <<>> /\ buf = <<>> /\ touched = {}

(* when all the transfers are carried out, so do the files of the new list; *)
NewReads ==
  running /\ commits =>
    Record(wish) /\ Sized(list, wish) /\ Reads(Final(Flushed(disk, buf), work), list, wish, Names)

(* and a file that is not replaced reads as it does whichever transfers are *)
(* carried out.                                                            *)
Undisturbed ==
  \A m \in FilesOf(hdr) : m.name \notin touched => AllHarmless(work, m) /\ SameBytes(buf, disk, m)

KeptInv == OldReads /\ Resting /\ NewReads /\ Undisturbed
=============================================================================
