----------------------------- MODULE TrackBuffer -----------------------------
(***************************************************************************)
(* The track buffer of grub4dos (stage2/disk_io.c): rawread fills it a     *)
(* track at a time, rawwrite keeps it up to date, open_partition and every *)
(* command of a script or of the command line give it up.                  *)
(*                                                                         *)
(* A sector is one value; offsets inside sectors are left out.  Only       *)
(* drives with sectors of 512 bytes are written.                           *)
(***************************************************************************)
EXTENDS Integers, Sequences

CONSTANTS
  Drives,    \* the drives
  NoDrive,   \* -1 as a drive
  Values,    \* the contents of a sector
  Wrong,     \* what a sector reads as under another drive's geometry
  Final,     \* the last sector of every drive
  Spt,       \* geometry.sectors of each drive
  Fits,      \* BUFFERLEN in sectors of each drive
  Size,      \* the sectors of the smallest kind in the buffer
  BigSector  \* the drives with larger sectors

ASSUME BufferAssumption ==
  /\ NoDrive \notin Drives
  /\ Final \in Nat /\ Size \in Nat
  /\ Spt \in [Drives -> Nat \ {0}] /\ Fits \in [Drives -> 1 .. Size]
  /\ BigSector \subseteq Drives
  /\ \A d \in Drives \ BigSector : Spt[d] <= Fits[d]   \* get_diskinfo sees to it

VARIABLES
  media,     \* what is in each drive
  bufDrive,  \* buf_drive
  bufTrack,  \* buf_track, the first sector in the buffer or -1
  geom,      \* the drive that buf_geom describes
  buffer,    \* BUFFERADDR
  current,   \* current_drive
  opened,    \* the command has used current_drive (history)
  prompt,    \* no command runs
  reading,   \* rawread runs
  first,     \* the sector that it began with (history)
  got,       \* the sectors it has delivered
  left       \* the sectors it has still to deliver

cache == <<bufDrive, bufTrack, geom, buffer>>
call  == <<reading, first, got, left>>
vars == <<media, cache, current, opened, prompt, call>>

NoTrack == -1
Sector == 0 .. Final
Places == 0 .. Size - 1
Contents == Values \cup {Wrong}

(* sectors_per_vtrack: a track, or as much of it as the buffer holds *)
Vtrack(d) == IF Spt[d] > Fits[d] THEN Fits[d] ELSE Spt[d]

(* biosdisk: sector s of drive d, looked for with the geometry of buf_geom *)
Bios(d, s) == IF geom = d THEN media[d][s] ELSE Wrong
-----------------------------------------------------------------------------
(* A command begins: buf_drive is given up, as the disk may be another one. *)
Command ==
  /\ prompt
  /\ prompt' = FALSE
  /\ opened' = FALSE
  /\ bufDrive' = NoDrive
  /\ UNCHANGED <<media, bufTrack, geom, buffer, current, call>>

CommandEnds ==
  /\ ~prompt /\ ~reading
  /\ prompt' = TRUE
  /\ UNCHANGED <<media, cache, current, opened, call>>

(* The user puts another disk into a drive. *)
Exchange(d) ==
  /\ prompt
  /\ \E disk \in [Sector -> Values] : media' = [media EXCEPT ![d] = disk]
  /\ UNCHANGED <<cache, current, opened, prompt, call>>

(* set_device and the like *)
SetDevice(d) ==
  /\ ~prompt /\ ~reading
  /\ current' = d
  /\ opened' = FALSE
  /\ UNCHANGED <<media, cache, prompt, call>>

(* The geometry of another drive is asked for. *)
Switch ==
  /\ bufDrive # current
  /\ bufDrive' = current /\ geom' = current /\ bufTrack' = NoTrack
  /\ UNCHANGED buffer

\* Mutant: get_diskinfo has changed the geometry when it fails.
OpenFails_NewGeometry ==
  /\ ~prompt /\ ~reading
  /\ bufDrive # current
  /\ opened' = FALSE
  /\ geom' = current
  /\ UNCHANGED <<media, bufDrive, bufTrack, buffer, current, prompt, call>>

\* Mutant: the geometry is not asked for.
Open_Lazy ==
  /\ ~prompt /\ ~reading
  /\ opened' = TRUE
  /\ UNCHANGED <<media, cache, current, prompt, call>>

(* open_partition *)
Open ==
  /\ ~prompt /\ ~reading
  /\ Switch \/ (bufDrive = current /\ UNCHANGED cache)
  /\ opened' = TRUE
  /\ UNCHANGED <<media, current, prompt, call>>

OpenFails ==
  /\ ~prompt /\ ~reading
  /\ bufDrive # current
  /\ opened' = FALSE
  /\ UNCHANGED <<media, cache, current, prompt, call>>

(* `buf_track = -1', as before and after some writes *)
Forget ==
  /\ ~prompt /\ ~reading
  /\ bufTrack' = NoTrack
  /\ UNCHANGED <<media, bufDrive, geom, buffer, current, opened, prompt, call>>
-----------------------------------------------------------------------------
(* rawread of n sectors of current_drive *)
Read(s, n) ==
  /\ ~prompt /\ ~reading
  /\ reading' = TRUE
  /\ first' = s /\ got' = <<>> /\ left' = n
  /\ UNCHANGED <<media, cache, current, opened, prompt>>

ReadSwitches ==
  /\ reading /\ left > 0
  /\ Switch
  /\ opened' = TRUE
  /\ UNCHANGED <<media, current, prompt, call>>

next  == first + Len(got)
soff  == next % Vtrack(current)
track == next - soff
num   == Vtrack(current) - soff      \* num_sect

(* What the buffer holds after n sectors from s on were read into it. *)
Loaded(s, n) ==
  [i \in Places |-> IF i < n THEN Bios(current, s + i) ELSE buffer[i]]
InDisk(s, n) == s + n - 1 <= Final

(* The sectors from a place in the buffer on are handed over. *)
Deliver(buf, place) ==
  LET size == IF left > num THEN num ELSE left IN
  /\ got' = got \o [i \in 1 .. size |-> buf[place + i - 1]]
  /\ left' = left - size
  /\ UNCHANGED <<reading, first>>

Iterates ==
  /\ reading /\ left > 0 /\ bufDrive = current
  /\ opened' = TRUE
  /\ UNCHANGED <<media, bufDrive, geom, current, prompt>>

ReadHit ==
  /\ Iterates /\ track = bufTrack
  /\ Deliver(buffer, soff)
  /\ UNCHANGED <<bufTrack, buffer>>

\* Mutant: the buffer counts as the track.
ReadPart_Valid ==
  /\ Iterates /\ track # bufTrack /\ left > num /\ InDisk(next, num)
  /\ bufTrack' = track
  /\ buffer' = Loaded(next, num)
  /\ Deliver(buffer', 0)

(* More tracks follow: only what is needed of this one is read. *)
ReadPart ==
  /\ Iterates /\ track # bufTrack /\ left > num /\ InDisk(next, num)
  /\ bufTrack' = NoTrack
  /\ buffer' = Loaded(next, num)
  /\ Deliver(buffer', 0)

ReadTrack ==
  /\ Iterates /\ track # bufTrack /\ left <= num /\ InDisk(track, Vtrack(current))
  /\ bufTrack' = track
  /\ buffer' = Loaded(track, Vtrack(current))
  /\ Deliver(buffer', soff)

(* The track cannot be read, the sectors asked for can. *)
ReadRetry ==
  /\ Iterates /\ track # bufTrack /\ left <= num /\ InDisk(next, left)
  /\ bufTrack' = NoTrack
  /\ buffer' = Loaded(next, left)
  /\ Deliver(buffer', 0)

(* rawread returns 0, which may be at any disk access. *)
ReadFails ==
  /\ reading /\ left > 0
  /\ reading' = FALSE
  /\ \/ bufDrive # current /\ UNCHANGED bufTrack
     \/ bufDrive = current /\ track # bufTrack /\ bufTrack' = NoTrack
  /\ UNCHANGED <<media, bufDrive, geom, buffer, current, opened, prompt, first, got, left>>

ReadReturns ==
  /\ reading /\ left = 0
  /\ reading' = FALSE
  /\ UNCHANGED <<media, cache, current, opened, prompt, first, got, left>>
-----------------------------------------------------------------------------
(* rawwrite of one sector to current_drive, which the command has used.  A *)
(* write that fails leaves the sector as it was.                           *)
Write(s, v) ==
  /\ ~prompt /\ ~reading /\ opened /\ current \notin BigSector
  /\ Bios(current, s) # v
  /\ media' = [media EXCEPT ![current][s] = v]
  /\ buffer' = IF bufDrive = current /\ s - (s % Spt[geom]) = bufTrack
                 THEN [buffer EXCEPT ![s - bufTrack] = v] ELSE buffer
  /\ UNCHANGED <<bufDrive, bufTrack, geom, current, opened, prompt, call>>

Init ==
  /\ media \in [Drives -> [Sector -> Values]]
  /\ bufDrive = NoDrive /\ bufTrack = NoTrack
  /\ geom \in Drives /\ current \in Drives
  /\ buffer \in {[i \in Places |-> Wrong]}
  /\ opened = FALSE /\ prompt = TRUE
  /\ reading = FALSE /\ first = 0 /\ got = <<>> /\ left = 0

ReadStep ==
  \/ ReadSwitches \/ ReadHit \/ ReadPart \/ ReadTrack \/ ReadRetry
  \/ ReadFails \/ ReadReturns

Next ==
  \/ Command \/ CommandEnds \/ Open \/ OpenFails \/ Forget \/ ReadStep
  \/ \E d \in Drives : Exchange(d) \/ SetDevice(d)
  \/ \E s \in Sector, n \in 1 .. Final + 1 : InDisk(s, n) /\ Read(s, n)
  \/ \E s \in Sector, v \in Values : Write(s, v)

Spec == Init /\ [][Next]_vars
-----------------------------------------------------------------------------
TypeOK ==
  /\ media \in [Drives -> [Sector -> Values]]
  /\ bufDrive \in Drives \cup {NoDrive} /\ geom \in Drives /\ current \in Drives
  /\ bufTrack \in Sector \cup {NoTrack}
  /\ buffer \in [Places -> Contents]
  /\ opened \in BOOLEAN /\ prompt \in BOOLEAN /\ reading \in BOOLEAN
  /\ first \in Sector /\ got \in Seq(Contents) /\ left \in Nat

(* The buffer is what is on the disk, sector by sector, whenever rawread    *)
(* would use it, whatever was written, exchanged or could not be read since.*)
Coherent ==
  ~prompt /\ bufDrive # NoDrive /\ bufTrack # NoTrack =>
    \A i \in 0 .. Vtrack(bufDrive) - 1 : buffer[i] = media[bufDrive][bufTrack + i]

(* rawread delivers what is on the disk, whichever of its sectors came from *)
(* the buffer.                                                              *)
ReadsDisk ==
  reading => \A i \in 1 .. Len(got) : got[i] = media[current][first + i - 1]

(* rawwrite does not ask for the geometry: buf_geom is that of the drive *)
(* written to.                                                            *)
WritesWithGeometry ==
  ~prompt /\ opened => bufDrive = current /\ geom = current
-----------------------------------------------------------------------------
(* buf_geom is that of the drive in the buffer, if there is one. *)
GeometryOfBuffer == bufDrive # NoDrive => geom = bufDrive

(* The buffer starts at a track boundary and ends on the disk. *)
TrackInBuffer ==
  bufDrive # NoDrive /\ bufTrack # NoTrack =>
    /\ \E k \in Sector : bufTrack = k * Vtrack(bufDrive)
    /\ bufTrack + Vtrack(bufDrive) - 1 <= Final

(* rawread is called by commands and asked for sectors that exist. *)
ReadInDisk == reading => ~prompt /\ first + Len(got) + left - 1 <= Final

(* What the three properties above need to be inductive. *)
IInv ==
  /\ TypeOK
  /\ GeometryOfBuffer /\ TrackInBuffer /\ ReadInDisk
  /\ Coherent /\ ReadsDisk /\ WritesWithGeometry
=============================================================================
