------------------------------- MODULE FbDisk -------------------------------
(***************************************************************************)
(* The file area of a fbinst disk (grubutil/fbinst/fbinst.c).  A command   *)
(* reads the list of files from the disk, changes its copy of the list,    *)
(* moves and writes sectors of files, and writes the list back last.  A    *)
(* quit or a crash in between leaves the old list over the new sectors.    *)
(*                                                                         *)
(* A sector holds ExtBytes bytes.  In the primary area, below sector Pri,  *)
(* the bytes after PriBytes are a trailer: the sector's own number, modulo *)
(* Word, for it is of 16 bits.                                             *)
(***************************************************************************)
EXTENDS Integers, SequencesExt, FiniteSetsExt

CONSTANTS
  First,     \* fb_boot_base + 1 + fb_boot_size, the first sector for files
  Pri,       \* fb_pri_size
  Total,     \* fb_total_size
  PriBytes,  \* 510
  ExtBytes,  \* 512
  Word,      \* 2^16, the numbers that a trailer can hold
  Chunk,     \* GLOB_BUF_SIZE, the sectors read at a time
  Capacity,  \* the files that the list has room for
  Names,     \* file names
  Sizes,     \* sizes that files are given
  Archives,  \* archives to load: sequences of [name, size, ext]
  Layouts,   \* lists of files the disk may hold at first
  MaxRuns    \* commands that are run

ASSUME FbAssumption ==
  /\ First \in Nat /\ Pri \in Nat /\ Total \in Nat
  /\ First < Pri /\ Pri <= Total
  /\ PriBytes \in Nat \ {0} /\ ExtBytes \in Nat /\ PriBytes < ExtBytes
  /\ Word \in Nat \ {0}
  /\ Chunk \in Nat \ {0} /\ Capacity \in Nat /\ MaxRuns \in Nat
  /\ Sizes \subseteq Nat \ {0}

VARIABLES
  disk,    \* the sectors, each a sequence of bytes <<tag, number>>
  hdr,     \* the list on the disk, of [name, start, size]
  list,    \* fb_list, the list in memory
  work,    \* the transfers to come, in batches that are read together
  buf,     \* global_buffer: sectors read and not yet written
  running, \* a command runs
  commits, \* it ends in write_header, not in quit
  runs,    \* the number of commands begun
  truth,   \* what each file of hdr should hold, see Holds (history)
  wish,    \* what each file of list should hold (history)
  touched  \* the files that the command is replacing or moving (history)

memory  == <<list, work, buf>>
history == <<truth, wish, touched>>
vars == <<disk, hdr, memory, running, commits, runs, history>>

Sectors == First .. Total - 1
Byte(tag, n, i) == <<<<tag, n>>, i>>
Fill == Byte("fill", 0, 0)
Left == Byte("left", 0, 0)   \* whatever global_buffer held before
Number(s) == Byte("at", (s % Word), 0)   \* a uchar2
Content(name, n, size) == [i \in 1 .. size |-> Byte(name, n, i)]

(* The bytes of a file and whether they can be relied on: "ok", "menu" of  *)
(* a menu over several primary sectors, "lost" of a file whose replacement *)
(* was cut short.                                                          *)
Holds(bytes, kind) == [bytes |-> bytes, kind |-> kind]

Room(start) == IF start >= Pri THEN ExtBytes ELSE PriBytes
CeilDiv(a, b) == (a + b - 1) \div b
Count(start, size) == CeilDiv(size, Room(start))
End(m) == m.start + Count(m.start, m.size)

(* load_file_data: the bytes of a file. *)
Read(d, m) ==
  [i \in 1 .. m.size |->
     d[m.start + (i - 1) \div Room(m.start)][((i - 1) % Room(m.start)) + 1]]

(* find_file *)
Has(l, name) == \E i \in 1 .. Len(l) : l[i].name = name
Place(l, name) == CHOOSE i \in 1 .. Len(l) : l[i].name = name
Find(l, name) == l[Place(l, name)]
NamesOf(l) == {l[i].name : i \in 1 .. Len(l)}

(* del_file *)
Without(l, name) == IF Has(l, name) THEN RemoveAt(l, Place(l, name)) ELSE l
-----------------------------------------------------------------------------
(* find_space: the first gap in the list that has room. *)
GapBegin(l, i) == IF i = 1 THEN First ELSE End(l[i - 1])
GapEnd(l, i) == IF i > Len(l) THEN Total ELSE l[i].start
Straddles(l, i) == GapBegin(l, i) < Pri /\ GapEnd(l, i) > Pri

(* check_space: where in gap i the file would start, -1 when nowhere.  The *)
(* number of sectors is that of the primary area until a gap over both     *)
(* areas has been seen.                                                    *)
SpaceIn(l, i, size, ext) ==
  LET begin == GapBegin(l, i)
      end == GapEnd(l, i)
      inPri == CeilDiv(size, PriBytes)
      inExt == CeilDiv(size, ExtBytes)
      count == IF \E j \in 1 .. i - 1 : Straddles(l, j) THEN inExt ELSE inPri
  IN IF ~Straddles(l, i)
       THEN IF (begin >= Pri \/ ~ext) /\ end - begin >= count THEN begin ELSE -1
     ELSE IF ~ext /\ Pri - begin >= inPri THEN begin
     ELSE IF end - Pri >= inExt THEN Pri
     ELSE -1

Fitting(l, size, ext) ==
  {i \in 1 .. Len(l) + 1 : SpaceIn(l, i, size, ext) # -1}

\* Mutant: the new item goes to the end of the list.
Alloc_Appends(l, f) ==
  LET rest == Without(l, f.name)
      fits == Fitting(rest, f.size, f.ext)
      i == Min(fits)
  IN IF fits = {} \/ Len(rest) >= Capacity THEN <<>>
     ELSE Append(rest, [name |-> f.name, start |-> SpaceIn(rest, i, f.size, f.ext),
                        size |-> f.size])

(* alloc_file: the list with the file in its place, <<>> when there is no *)
(* room (quit).  A file of that name is deleted first.                    *)
Alloc(l, f) ==
  LET rest == Without(l, f.name)
      fits == Fitting(rest, f.size, f.ext)
      i == Min(fits)
  IN IF fits = {} \/ Len(rest) >= Capacity THEN <<>>
     ELSE InsertAt(rest, i, [name |-> f.name, start |-> SpaceIn(rest, i, f.size, f.ext),
                             size |-> f.size])
-----------------------------------------------------------------------------
(* A transfer to sector `to': the first `keep' bytes of sector `from', then *)
(* those of `over'.                                                         *)
Batches(s) == [i \in 1 .. CeilDiv(Len(s), Chunk) |->
                 SubSeq(s, (i - 1) * Chunk + 1, Min({i * Chunk, Len(s)}))]

Blank(byte) == [k \in 1 .. ExtBytes |-> byte]

\* Mutant: from the last sectors to the first.
Copied_FromTop(to, from, n) ==
  Reverse(Batches([i \in 1 .. n |-> [to |-> to + i - 1, from |-> from + i - 1,
                                      keep |-> Room(to), over |-> Blank(Fill)]]))

(* copy_disk *)
Copied(to, from, n) ==
  Batches([i \in 1 .. n |-> [to |-> to + i - 1, from |-> from + i - 1,
                             keep |-> Room(to), over |-> Blank(Fill)]])

(* save_file_data *)
Saved(m, bytes) ==
  LET n == Room(m.start) IN
  Batches([i \in 1 .. Count(m.start, m.size) |->
     [to |-> m.start + i - 1, from |-> m.start + i - 1, keep |-> 0,
      over |-> [k \in 1 .. ExtBytes |->
                  IF k <= n /\ (i - 1) * n + k <= m.size THEN bytes[(i - 1) * n + k]
                  ELSE Left]]])

(* save_buff: in the primary area every sector is given the first piece. *)
SavedBuff(m, bytes) ==
  IF m.start >= Pri THEN Saved(m, bytes)
  ELSE [i \in 1 .. Count(m.start, m.size) |->
     <<[to |-> m.start + i - 1, from |-> m.start, keep |-> 0,
        over |-> [k \in 1 .. ExtBytes |-> IF k <= Len(bytes) THEN bytes[k] ELSE Left]]>>]

(* cpy_file: what is written for a file m that continues the file old. *)
Grown(m, old) ==
  LET n == Room(m.start)
      whole == old.size \div n
      kept == old.size % n
      at == m.start + whole
      rest == IF kept = 0 THEN at ELSE at + 1
  IN (IF m.start = old.start THEN <<>> ELSE Copied(m.start, old.start, whole))
     \o (IF kept = 0 THEN <<>>
         ELSE << <<[to |-> at, from |-> old.start + whole, keep |-> kept,
                    over |-> Blank(Fill)]>> >>)
     \o Batches([i \in 1 .. End(m) - rest |->
                  [to |-> rest + i - 1, from |-> m.start, keep |-> 0,
                   over |-> Blank(Fill)]])
-----------------------------------------------------------------------------
(* The program is called. *)
Called == ~running /\ runs < MaxRuns

(* A command has read the list and made up its mind. *)
Start(newList, transfers, ends, plan, replaced) ==
  /\ running' = TRUE
  /\ commits' = ends
  /\ list' = newList
  /\ work' = transfers
  /\ wish' = plan
  /\ touched' = replaced \cap NamesOf(hdr)
  /\ runs' = runs + 1
  /\ UNCHANGED <<disk, hdr, buf, truth>>

(* fbinst add *)
Add(name, size, ext) ==
  LET l == Alloc(hdr, [name |-> name, size |-> size, ext |-> ext])
      bytes == Content(name, runs + 1, size)
  IN /\ Called /\ l # <<>>
     /\ Start(l, Saved(Find(l, name), bytes), TRUE,
              [truth EXCEPT ![name] = Holds(bytes, "ok")], {name})

(* fbinst add-menu, and with --append: the option for the extended area is *)
(* not passed on.                                                          *)
AddMenu(name, size, append) ==
  LET new == Content(name, runs + 1, size)
      old == IF append /\ Has(hdr, name) THEN Front(Read(disk, Find(hdr, name))) ELSE <<>>
      meant == IF append /\ Has(hdr, name) THEN Front(truth[name].bytes) ELSE <<>>
      l == Alloc(hdr, [name |-> name, size |-> Len(old) + size, ext |-> FALSE])
      m == Find(l, name)
      kind == IF old # <<>> /\ truth[name].kind # "ok" THEN truth[name].kind
              ELSE IF m.start < Pri /\ m.size > PriBytes THEN "menu" ELSE "ok"
  IN /\ Called /\ l # <<>>
     /\ Start(l, SavedBuff(m, old \o new), TRUE,
              [truth EXCEPT ![name] = Holds(meant \o new, kind)], {name})

(* fbinst resize of a file that is there.  A file is cut by its size alone. *)
Cut(name, size) ==
  /\ Called /\ Has(hdr, name) /\ Find(hdr, name).size >= size
  /\ Start([hdr EXCEPT ![Place(hdr, name)].size = size], <<>>, TRUE,
           [truth EXCEPT ![name].bytes = SubSeq(truth[name].bytes, 1, size)], {})

(* A file that grows keeps to its area, and may move down. *)
Grow(name, size) ==
  LET old == Find(hdr, name)
      l == Alloc(hdr, [name |-> name, size |-> size, ext |-> old.start >= Pri])
      m == Find(l, name)
  IN /\ Called /\ Has(hdr, name) /\ old.size < size
     /\ l # <<>> /\ Room(m.start) = Room(old.start)
     /\ Start(l, Grown(m, old), TRUE,
              [truth EXCEPT ![name].bytes = @ \o [i \in 1 .. size - old.size |-> Fill]],
              IF m.start = old.start THEN {} ELSE {name})

(* fbinst resize of a file that is not there *)
Create(name, size, ext) ==
  LET l == Alloc(hdr, [name |-> name, size |-> size, ext |-> ext])
      m == Find(l, name)
  IN /\ Called /\ ~Has(hdr, name) /\ l # <<>>
     /\ Start(l, Grown(m, [start |-> m.start, size |-> 0]), TRUE,
              [truth EXCEPT ![name] = Holds([i \in 1 .. size |-> Fill], "ok")], {})

(* fbinst copy: the file of that name goes first, and the copy stays in the *)
(* area of the original.                                                    *)
Copy(from, name) ==
  LET old == Find(hdr, from)
      l == Alloc(hdr, [name |-> name, size |-> old.size, ext |-> old.start >= Pri])
      m == Find(l, name)
  IN /\ Called /\ from # name /\ Has(hdr, from)
     /\ l # <<>> /\ Room(m.start) = Room(old.start)
     /\ Start(l, Grown(m, old), TRUE, [truth EXCEPT ![name] = truth[from]], {name})

(* fbinst move *)
Rename(from, name) ==
  LET rest == Without(hdr, name) IN
  /\ Called /\ from # name /\ Has(hdr, from)
  /\ Start([i \in 1 .. Len(rest) |->
              IF rest[i].name = from THEN [rest[i] EXCEPT !.name = name] ELSE rest[i]],
           <<>>, TRUE, [truth EXCEPT ![name] = truth[from]], {})

(* fbinst remove, and clear *)
RemoveFile(name) ==
  Called /\ Has(hdr, name) /\ Start(Without(hdr, name), <<>>, TRUE, truth, {})
Clear == Called /\ Start(<<>>, <<>>, TRUE, truth, {})

(* fbinst pack: each file in turn moves down to where the one before ends. *)
PackOne(acc, m) ==
  LET to == IF acc.at < Pri /\ m.start >= Pri THEN Pri ELSE acc.at
      n == Count(m.start, m.size)
  IN [at |-> to + n, list |-> Append(acc.list, [m EXCEPT !.start = to]),
      moves |-> IF to = m.start THEN acc.moves ELSE acc.moves \o Copied(to, m.start, n)]

Pack ==
  LET packed == FoldLeft(PackOne, [at |-> First, list |-> <<>>, moves |-> <<>>], hdr)
  IN /\ Called
     /\ Start(packed.list, packed.moves, TRUE, truth,
              {hdr[i].name : i \in {j \in 1 .. Len(hdr) : packed.list[j] # hdr[j]}})

(* fbinst load: every file of the archive is added; when one has no room the *)
(* program quits with the files before it written.                           *)
LoadOne(acc, f) ==
  LET l == Alloc(acc.list, f)
      bytes == Content(f.name, runs + 1, f.size)
  IN IF ~acc.ok \/ l = <<>> THEN [acc EXCEPT !.ok = FALSE]
     ELSE [ok |-> TRUE, list |-> l,
           moves |-> acc.moves \o Saved(Find(l, f.name), bytes),
           plan |-> [acc.plan EXCEPT ![f.name] = Holds(bytes, "ok")]]

Load(archive) ==
  LET loaded == FoldLeft(LoadOne, [ok |-> TRUE, list |-> hdr, moves |-> <<>>, plan |-> truth],
                         archive)
  IN /\ Called
     /\ Start(loaded.list, loaded.moves, loaded.ok, loaded.plan, NamesOf(archive))
-----------------------------------------------------------------------------
\* Mutant: sectors are copied with the number of their old place.
Made_OldNumber(d, t) ==
  [k \in 1 .. ExtBytes |->
     IF t.to < Pri /\ k > PriBytes THEN Number(t.from)
     ELSE IF k <= t.keep THEN d[t.from][k] ELSE t.over[k]]

(* What a transfer makes of its sector.  In the primary area it is given its *)
(* number.                                                                   *)
Made(d, t) ==
  [k \in 1 .. ExtBytes |->
     IF t.to < Pri /\ k > PriBytes THEN Number(t.to)
     ELSE IF k <= t.keep THEN d[t.from][k] ELSE t.over[k]]

(* The next batch is read. *)
Fetch ==
  /\ running /\ buf = <<>> /\ work # <<>>
  /\ buf' = [i \in 1 .. Len(Head(work)) |->
               [to |-> Head(work)[i].to, bytes |-> Made(disk, Head(work)[i])]]
  /\ work' = Tail(work)
  /\ UNCHANGED <<disk, hdr, list, running, commits, runs, history>>

Store ==
  /\ running /\ buf # <<>>
  /\ disk' = [disk EXCEPT ![Head(buf).to] = Head(buf).bytes]
  /\ buf' = Tail(buf)
  /\ UNCHANGED <<hdr, list, work, running, commits, runs, history>>

(* The program is over, with this list and these files on the disk. *)
Over(newHdr, holds) ==
  /\ running' = FALSE /\ commits' = FALSE
  /\ list' = <<>> /\ work' = <<>> /\ buf' = <<>>
  /\ wish' = <<>> /\ touched' = {}
  /\ hdr' = newHdr /\ truth' = holds
  /\ UNCHANGED <<disk, runs>>

(* The files that were being replaced are lost, whole or torn. *)
Damaged == [name \in Names |-> IF name \in touched THEN [truth[name] EXCEPT !.kind = "lost"]
                               ELSE truth[name]]

WriteHeader == running /\ work = <<>> /\ buf = <<>> /\ commits /\ Over(list, wish)
Quit == running /\ work = <<>> /\ buf = <<>> /\ ~commits /\ Over(hdr, Damaged)
Crash == running /\ Over(hdr, Damaged)

Init ==
  /\ hdr \in Layouts
  /\ truth = [name \in Names |->
                 Holds(IF Has(hdr, name) THEN Content(name, 0, Find(hdr, name).size) ELSE <<>>, "ok")]
  /\ disk = [s \in Sectors |-> [k \in 1 .. ExtBytes |->
       LET owner == {i \in 1 .. Len(hdr) : s \in hdr[i].start .. End(hdr[i]) - 1}
           m == hdr[CHOOSE i \in owner : TRUE]
           n == (s - m.start) * Room(s) + k
       IN IF s < Pri /\ k > PriBytes THEN Number(s)
          ELSE IF owner # {} /\ n <= m.size THEN Byte(m.name, 0, n) ELSE Left]]
  /\ list = <<>> /\ work = <<>> /\ buf = <<>>
  /\ running = FALSE /\ commits = FALSE /\ runs = 0
  /\ wish = <<>> /\ touched = {}

Command ==
  \/ \E name \in Names, size \in Sizes, b \in BOOLEAN :
       Add(name, size, b) \/ AddMenu(name, size, b) \/ Create(name, size, b)
  \/ \E name \in Names, size \in Sizes : Cut(name, size) \/ Grow(name, size)
  \/ \E from, name \in Names : Copy(from, name) \/ Rename(from, name)
  \/ \E name \in Names : RemoveFile(name)
  \/ \E archive \in Archives : Load(archive)
  \/ Clear
  \/ Pack

Next == Command \/ Fetch \/ Store \/ WriteHeader \/ Quit \/ Crash

Spec == Init /\ [][Next]_vars
-----------------------------------------------------------------------------
(* Files lie in the order of the list, apart from each other, inside one area. *)
Laid(l) ==
  /\ \A i \in 1 .. Len(l) :
       /\ l[i].start >= First /\ l[i].size > 0 /\ End(l[i]) <= Total
       /\ l[i].start < Pri => End(l[i]) <= Pri
       /\ i < Len(l) => End(l[i]) <= l[i + 1].start
  /\ \A i, j \in 1 .. Len(l) : l[i].name = l[j].name => i = j
  /\ Len(l) <= Capacity

ASSUME LayoutsAssumption ==
  /\ \A l \in Layouts : l \in Seq([name : Names, start : Nat, size : Nat]) /\ Laid(l)
  /\ \A a \in Archives : a \in Seq([name : Names, size : Nat \ {0}, ext : BOOLEAN])

TypeOK ==
  /\ DOMAIN disk = Sectors
  /\ \A s \in Sectors : DOMAIN disk[s] = 1 .. ExtBytes
  /\ NamesOf(hdr) \cup NamesOf(list) \cup touched \subseteq Names
  /\ running \in BOOLEAN /\ commits \in BOOLEAN /\ runs \in 0 .. MaxRuns
  /\ \A i \in 1 .. Len(buf) : buf[i].to \in Sectors
  /\ \A i \in 1 .. Len(work) : \A j \in 1 .. Len(work[i]) :
       work[i][j].to \in Sectors /\ work[i][j].from \in Sectors

(* find_space takes the list to be sorted: a gap's length is a difference  *)
(* of unsigned numbers.  Every command leaves it so, in memory and on disk.*)
ListLaid == TypeOK /\ Laid(hdr) /\ Laid(list)

(* Whenever the program stops, and after any commands, a file of the list on *)
(* the disk reads as it was written, moved, grown or copied; only the file   *)
(* that a command was replacing or moving can be lost to a crash or a quit.  *)
FilesKept ==
  \A i \in 1 .. Len(hdr) :
    LET m == hdr[i] IN
    m.name \notin touched /\ truth[m.name].kind = "ok" => Read(disk, m) = truth[m.name].bytes

Carries(s, byte) == \A k \in PriBytes + 1 .. ExtBytes : disk[s][k] = byte
PrimaryNumbered == \A s \in Sectors : s < Pri => Carries(s, Number(s))

(* check_disk, which compares the 16 bits with an int. *)
CheckDisk == \A s \in Sectors : s < Pri => Carries(s, Byte("at", s, 0))

(* fbinst check, "Check primary data area for inconsistency": whatever was  *)
(* copied, grown or packed, and wherever a command was cut short, each      *)
(* primary sector carries the number of its own place, 16 bits of it.  So   *)
(* check passes on a disk of up to Word primary sectors, and on no larger   *)
(* one, that is just formatted or not: format does not bound --primary.     *)
CheckPasses == PrimaryNumbered /\ (CheckDisk <=> Pri <= Word)

(* fbinst add-menu, "Add/update menu file": a menu reads back as it was given. *)
MenuKept ==
  \A i \in 1 .. Len(hdr) :
    LET m == hdr[i] IN
    m.name \notin touched /\ truth[m.name].kind = "menu" => Read(disk, m) = truth[m.name].bytes
=============================================================================
