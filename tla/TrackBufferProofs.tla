-------------------------- MODULE TrackBufferProofs --------------------------
(***************************************************************************)
(* For any drives, geometries and sizes of the buffer, the three           *)
(* properties of module TrackBuffer hold: IInv is inductive.               *)
(***************************************************************************)
EXTENDS TrackBuffer, TLAPS

-----------------------------------------------------------------------------
(* Arithmetic: a sector has one place in one track.                        *)

LEMMA Division ==
  ASSUME NEW n \in Nat, NEW v \in Nat \ {0}
  PROVE  /\ n % v \in 0 .. v - 1
         /\ n \div v \in Nat
         /\ n = (n \div v) * v + (n % v)
  OBVIOUS

LEMMA Times ==
  ASSUME NEW k \in Nat, NEW m \in Nat, NEW v \in Nat \ {0}, k < m
  PROVE  k * v + v <= m * v
<1>1. PICK e \in Nat : m = k + 1 + e
  <2>. WITNESS m - k - 1 \in Nat
  <2>. QED  OBVIOUS
<1>2. m * v = k * v + v + e * v
  BY <1>1
<1>3. e * v \in Nat /\ k * v \in Nat
  OBVIOUS
<1>. QED  BY <1>2, <1>3

(* The track of a sector inside the track k * v begins there.              *)
LEMMA SameTrack ==
  ASSUME NEW v \in Nat \ {0}, NEW k \in Nat, NEW s \in Nat,
         k * v <= s, s < k * v + v
  PROVE  s - (s % v) = k * v
<1>. DEFINE m == s \div v
<1>1. m \in Nat /\ s % v \in 0 .. v - 1 /\ s = m * v + (s % v)
  BY Division
<1>2. m * v \in Nat /\ k * v \in Nat
  BY <1>1
<1>3. CASE k < m
  <2>1. k * v + v <= m * v  BY <1>1, <1>3, Times
  <2>. QED  BY <1>1, <1>2, <2>1
<1>4. CASE m < k
  <2>1. m * v + v <= k * v  BY <1>1, <1>4, Times
  <2>. QED  BY <1>1, <1>2, <2>1
<1>5. CASE k = m
  BY <1>1, <1>2, <1>5
<1>. QED  BY <1>1, <1>3, <1>4, <1>5

LEMMA VtrackType ==
  ASSUME NEW d \in Drives
  PROVE  /\ Vtrack(d) \in Nat \ {0} /\ Vtrack(d) <= Size
         /\ d \notin BigSector => Vtrack(d) = Spt[d]
  BY BufferAssumption DEF Vtrack

-----------------------------------------------------------------------------
(* What rawread knows when it looks for a sector.                          *)
LEMMA PlaceOfNext ==
  ASSUME IInv, reading, left > 0, current \in Drives
  PROVE  /\ next \in Sector
         /\ soff \in 0 .. Vtrack(current) - 1
         /\ num \in 1 .. Vtrack(current)
         /\ track \in Sector /\ track + soff = next
         /\ soff + num = Vtrack(current)
         /\ \E k \in Sector : track = k * Vtrack(current)
<1>. DEFINE v == Vtrack(current)
            q == next \div v
<1>1. v \in Nat \ {0}
  BY VtrackType
<1>2. next \in Nat /\ next <= Final /\ Final \in Nat
  BY BufferAssumption DEF IInv, TypeOK, ReadInDisk, next, Sector
<1>3. soff \in 0 .. v - 1 /\ q \in Nat /\ next = q * v + soff
  BY <1>1, <1>2, Division DEF soff
<1>4. track = q * v
  <2>1. q * v \in Nat  BY <1>1, <1>3
  <2>. QED  BY <1>2, <1>3, <2>1 DEF track
<1>5. q <= q * v
  <2>1. CASE q = 0  BY <2>1, <1>1
  <2>2. CASE q # 0
    <3>1. v - 1 \in Nat /\ q * v = q + q * (v - 1)  BY <1>1, <1>3
    <3>2. q * (v - 1) \in Nat  BY <1>1, <1>3
    <3>. QED  BY <1>3, <3>1, <3>2
  <2>. QED  BY <2>1, <2>2
<1>6. q * v \in Nat  BY <1>1, <1>3
<1>7. track \in Sector /\ q \in Sector
  BY <1>2, <1>3, <1>4, <1>5, <1>6 DEF Sector
<1>. QED
  BY <1>1, <1>2, <1>3, <1>4, <1>7 DEF num, track, Sector

(* Sectors handed over from a place that holds what is on the disk.        *)
LEMMA Delivered ==
  ASSUME IInv, Iterates, current \in Drives,
         NEW b \in [Places -> Contents], NEW p \in Nat, Deliver(b, p),
         \A j \in 0 .. num - 1 :
            j < left => p + j \in Places /\ b[p + j] = media[current][next + j]
  PROVE  /\ ReadsDisk' /\ ReadInDisk'
         /\ got' \in Seq(Contents) /\ left' \in Nat /\ first' \in Sector
         /\ reading' \in BOOLEAN
<1>. DEFINE size == IF left > num THEN num ELSE left
            piece == [i \in 1 .. size |-> b[p + i - 1]]
<1>1. reading /\ left > 0 /\ left \in Nat /\ got \in Seq(Contents)
      /\ first \in Sector /\ first \in Nat /\ Final \in Nat
  BY BufferAssumption DEF Iterates, IInv, TypeOK, Sector
<1>2. num \in Nat \ {0} /\ next \in Nat
  BY <1>1, PlaceOfNext, VtrackType DEF Sector
<1>3. size \in Nat /\ size <= num /\ size <= left /\ size > 0
  BY <1>1, <1>2
<1>4. \A i \in 1 .. size :
         /\ p + i - 1 \in Places
         /\ b[p + i - 1] = media[current][next + i - 1]
  <2>. SUFFICES ASSUME NEW i \in 1 .. size
       PROVE  p + i - 1 \in Places /\ b[p + i - 1] = media[current][next + i - 1]
    OBVIOUS
  <2>1. i - 1 \in 0 .. num - 1 /\ i - 1 < left
    BY <1>1, <1>2, <1>3
  <2>2. p + (i - 1) = p + i - 1 /\ next + (i - 1) = next + i - 1
    BY <1>2, <1>3
  <2>. QED  BY <2>1, <2>2
<1>5. piece \in Seq(Contents) /\ Len(piece) = size
  BY <1>3, <1>4
<1>6. got' = got \o piece /\ left' = left - size /\ reading' = reading /\ first' = first
  BY DEF Deliver
<1>7. Len(got') = Len(got) + size /\ got' \in Seq(Contents) /\ Len(got) \in Nat
  <2>. HIDE DEF piece, size
  <2>1. Len(got \o piece) = Len(got) + Len(piece) /\ got \o piece \in Seq(Contents)
        /\ Len(got) \in Nat
    BY <1>1, <1>5
  <2>. QED  BY <1>5, <1>6, <2>1
<1>8. \A i \in 1 .. Len(got') : got'[i] = media[current][first + i - 1]
  <2>. SUFFICES ASSUME NEW i \in 1 .. Len(got')
       PROVE  got'[i] = media[current][first + i - 1]
    OBVIOUS
  <2>1. CASE i <= Len(got)
    <3>1. got'[i] = got[i]  BY <1>1, <1>5, <1>6, <1>7, <2>1
    <3>. QED  BY <1>1, <1>7, <2>1, <3>1 DEF IInv, ReadsDisk
  <2>2. CASE i > Len(got)
    <3>. DEFINE j == i - Len(got)
    <3>1. j \in 1 .. size /\ got'[i] = piece[j]
      BY <1>1, <1>3, <1>5, <1>6, <1>7, <2>2
    <3>2. piece[j] = media[current][next + j - 1]
      BY <1>4, <3>1
    <3>3. next + j - 1 = first + i - 1
      BY <1>1, <1>7 DEF next
    <3>. QED  BY <3>1, <3>2, <3>3
  <2>. QED  BY <1>3, <1>7, <2>1, <2>2
<1>9. ReadsDisk'
  BY <1>8, <1>6 DEF ReadsDisk, Iterates
<1>10. ReadInDisk'
  <2>1. ~prompt' /\ first + Len(got) + left - 1 <= Final
    BY <1>1 DEF IInv, ReadInDisk, Iterates
  <2>. QED  BY <1>1, <1>3, <1>6, <1>7, <2>1 DEF ReadInDisk
<1>. QED
  BY <1>1, <1>3, <1>6, <1>7, <1>9, <1>10

-----------------------------------------------------------------------------
LEMMA Initial == Init => IInv
<1>. SUFFICES ASSUME Init PROVE IInv
  OBVIOUS
<1>1. first \in Sector /\ left \in Nat /\ got \in Seq(Contents) /\ bufTrack = NoTrack
  BY BufferAssumption DEF Init, Sector
<1>2. buffer \in [Places -> Contents]
  BY DEF Init, Contents
<1>3. TypeOK
  BY <1>1, <1>2 DEF Init, TypeOK
<1>. QED
  BY <1>3 DEF Init, IInv, GeometryOfBuffer, TrackInBuffer, ReadInDisk, Coherent,
              ReadsDisk, WritesWithGeometry

(* The steps that leave disks and buffer as they are.                      *)
LEMMA QuietSteps ==
  ASSUME IInv, \/ Command \/ CommandEnds \/ Open \/ OpenFails \/ Forget
               \/ ReadSwitches \/ ReadFails \/ ReadReturns
               \/ (\E d \in Drives : SetDevice(d))
               \/ (\E s \in Sector, n \in 1 .. Final + 1 : InDisk(s, n) /\ Read(s, n))
               \/ UNCHANGED vars
  PROVE  IInv'
<1>. USE DEF IInv, TypeOK, GeometryOfBuffer, TrackInBuffer, ReadInDisk, Coherent,
             ReadsDisk, WritesWithGeometry
<1>1. CASE Command  BY <1>1 DEF Command, call
<1>2. CASE CommandEnds  BY <1>2 DEF CommandEnds, call, cache
<1>3. CASE Open
  BY <1>3, BufferAssumption DEF Open, Switch, call, cache, NoTrack
<1>4. CASE OpenFails  BY <1>4 DEF OpenFails, call, cache
<1>5. CASE Forget  BY <1>5 DEF Forget, call, NoTrack
<1>6. CASE ReadSwitches
  BY <1>6, BufferAssumption DEF ReadSwitches, Switch, call, NoTrack
<1>7. CASE ReadFails  BY <1>7 DEF ReadFails, NoTrack
<1>8. CASE ReadReturns  BY <1>8 DEF ReadReturns, cache
<1>9. CASE \E d \in Drives : SetDevice(d)
  <2>1. PICK d \in Drives : SetDevice(d)
    BY <1>9
  <2>. QED  BY <2>1 DEF SetDevice, cache, call
<1>10. CASE \E s \in Sector, n \in 1 .. Final + 1 : InDisk(s, n) /\ Read(s, n)
  <2>1. PICK s \in Sector, n \in 1 .. Final + 1 : InDisk(s, n) /\ Read(s, n)
    BY <1>10
  <2>2. Len(got') = 0 /\ got' \in Seq(Contents) /\ n \in Nat /\ s \in Nat
    BY <2>1, BufferAssumption DEF Read, Sector
  <2>. QED  BY <2>1, <2>2 DEF Read, InDisk, cache
<1>11. CASE UNCHANGED vars  BY <1>11 DEF vars, cache, call
<1>. QED
  BY <1>1, <1>2, <1>3, <1>4, <1>5, <1>6, <1>7, <1>8, <1>9, <1>10, <1>11

(* Another disk may come while no command runs, when nothing is promised.  *)
LEMMA ExchangeStep ==
  ASSUME IInv, NEW d \in Drives, Exchange(d)
  PROVE  IInv'
  BY DEF Exchange, IInv, TypeOK, GeometryOfBuffer, TrackInBuffer, ReadInDisk,
         Coherent, ReadsDisk, WritesWithGeometry, cache, call

(* An iteration of rawread leaves the drive and the disks alone.           *)
LEMMA IterationFrame ==
  ASSUME IInv, Iterates
  PROVE  /\ current \in Drives /\ current # NoDrive /\ geom = current
         /\ left > 0 /\ reading /\ ~prompt
         /\ media' \in [Drives -> [Sector -> Values]]
         /\ bufDrive' \in Drives /\ geom' \in Drives /\ current' \in Drives
         /\ opened' \in BOOLEAN /\ prompt' \in BOOLEAN
         /\ GeometryOfBuffer' /\ WritesWithGeometry'
  BY BufferAssumption
  DEF Iterates, IInv, TypeOK, GeometryOfBuffer, ReadInDisk, WritesWithGeometry

(* Reading sectors of the disk puts them at the start of the buffer.       *)
LEMMA LoadedIsDisk ==
  ASSUME IInv, Iterates, NEW s \in Sector, NEW n \in 1 .. Vtrack(current), InDisk(s, n)
  PROVE  /\ Loaded(s, n) \in [Places -> Contents]
         /\ \A i \in 0 .. n - 1 :
               i \in Places /\ Loaded(s, n)[i] = media[current][s + i]
<1>1. geom = current /\ current \in Drives
  BY IterationFrame
<1>2. Vtrack(current) \in Nat /\ Vtrack(current) <= Size /\ Size \in Nat /\ Final \in Nat
  BY <1>1, VtrackType, BufferAssumption
<1>3. \A i \in Places : i < n => s + i \in Sector
  BY <1>2 DEF InDisk, Sector, Places
<1>4. Loaded(s, n) \in [Places -> Contents]
  BY <1>1, <1>3 DEF Loaded, Bios, Contents, IInv, TypeOK
<1>5. \A i \in 0 .. n - 1 : i \in Places
  BY <1>2 DEF Places
<1>. QED
  BY <1>1, <1>4, <1>5 DEF Loaded, Bios

LEMMA ReadHitStep ==
  ASSUME IInv, ReadHit
  PROVE  IInv'
<1>1. Iterates /\ current \in Drives /\ left > 0 /\ reading /\ ~prompt
  BY IterationFrame DEF ReadHit
<1>2. soff \in 0 .. Vtrack(current) - 1 /\ num \in 1 .. Vtrack(current)
      /\ soff + num = Vtrack(current) /\ track \in Sector /\ track + soff = next
  BY <1>1, PlaceOfNext
<1>3. Vtrack(current) \in Nat /\ Vtrack(current) <= Size /\ Size \in Nat
  BY <1>1, VtrackType, BufferAssumption
<1>4. bufDrive = current /\ bufDrive # NoDrive /\ track = bufTrack /\ bufTrack # NoTrack
  BY <1>1, <1>2, BufferAssumption DEF ReadHit, Iterates, NoTrack, Sector
<1>5. \A i \in 0 .. Vtrack(current) - 1 : buffer[i] = media[current][track + i]
  BY <1>1, <1>4 DEF IInv, Coherent
<1>6. \A j \in 0 .. num - 1 :
         soff + j \in Places /\ buffer[soff + j] = media[current][next + j]
  <2>. SUFFICES ASSUME NEW j \in 0 .. num - 1
       PROVE  soff + j \in Places /\ buffer[soff + j] = media[current][next + j]
    OBVIOUS
  <2>1. soff + j \in 0 .. Vtrack(current) - 1 /\ soff + j \in Places
    BY <1>2, <1>3 DEF Places
  <2>2. track + (soff + j) = next + j
    BY <1>2, <1>3, BufferAssumption DEF Sector
  <2>. QED  BY <1>5, <2>1, <2>2
<1>7. buffer \in [Places -> Contents] /\ soff \in Nat /\ Deliver(buffer, soff)
  BY <1>2, <1>3 DEF IInv, TypeOK, ReadHit
<1>8. /\ ReadsDisk' /\ ReadInDisk'
      /\ got' \in Seq(Contents) /\ left' \in Nat /\ first' \in Sector /\ reading' \in BOOLEAN
  BY <1>1, <1>6, <1>7, Delivered
<1>9. TypeOK'
  BY <1>1, <1>8, IterationFrame DEF TypeOK, ReadHit, IInv
<1>10. TrackInBuffer' /\ Coherent'
  BY <1>1 DEF IInv, ReadHit, Iterates, TrackInBuffer, Coherent
<1>. QED
  BY <1>1, <1>8, <1>9, <1>10, IterationFrame DEF IInv

(* What is handed over from the start of the buffer, the track given up.   *)
LEMMA ReadPartStep ==
  ASSUME IInv, NEW n \in 1 .. num, Iterates, InDisk(next, n),
         left > num \/ n = left, left > num => n = num,
         bufTrack' = NoTrack, buffer' = Loaded(next, n), Deliver(buffer', 0)
  PROVE  IInv'
<1>1. current \in Drives /\ left > 0 /\ reading /\ left \in Nat
  BY IterationFrame DEF IInv, TypeOK
<1>2. next \in Sector /\ num \in 1 .. Vtrack(current) /\ Vtrack(current) \in Nat
  BY <1>1, PlaceOfNext, VtrackType
<1>3. n \in 1 .. Vtrack(current)
  BY <1>2
<1>4. /\ buffer' \in [Places -> Contents]
      /\ \A i \in 0 .. n - 1 : i \in Places /\ buffer'[i] = media[current][next + i]
  BY <1>2, <1>3, LoadedIsDisk
<1>5. \A j \in 0 .. num - 1 :
         j < left => 0 + j \in Places /\ buffer'[0 + j] = media[current][next + j]
  <2>. SUFFICES ASSUME NEW j \in 0 .. num - 1, j < left
       PROVE  0 + j \in Places /\ buffer'[0 + j] = media[current][next + j]
    OBVIOUS
  <2>1. j \in 0 .. n - 1 /\ 0 + j = j
    BY <1>1, <1>2
  <2>. QED  BY <1>4, <2>1
<1>6. /\ ReadsDisk' /\ ReadInDisk'
      /\ got' \in Seq(Contents) /\ left' \in Nat /\ first' \in Sector /\ reading' \in BOOLEAN
  BY <1>1, <1>4, <1>5, Delivered
<1>7. TypeOK'
  BY <1>4, <1>6, IterationFrame DEF TypeOK
<1>. QED
  BY <1>6, <1>7, IterationFrame DEF IInv, TrackInBuffer, Coherent

(* The whole track is read and stays in the buffer.                        *)
LEMMA ReadTrackStep ==
  ASSUME IInv, ReadTrack
  PROVE  IInv'
<1>. DEFINE v == Vtrack(current)
<1>1. Iterates /\ current \in Drives /\ left > 0 /\ reading /\ left \in Nat
  BY IterationFrame DEF ReadTrack, IInv, TypeOK
<1>2. v \in Nat \ {0}
  BY <1>1, VtrackType
<1>3. /\ soff \in 0 .. v - 1 /\ num \in 1 .. v /\ soff + num = v
      /\ track \in Sector /\ track + soff = next
      /\ \E k \in Sector : track = k * v
  BY <1>1, PlaceOfNext
<1>4. v \in 1 .. Vtrack(current) /\ InDisk(track, v)
      /\ bufTrack' = track /\ buffer' = Loaded(track, v)
  BY <1>2 DEF ReadTrack
<1>5. /\ buffer' \in [Places -> Contents]
      /\ \A i \in 0 .. v - 1 : i \in Places /\ buffer'[i] = media[current][track + i]
  BY <1>1, <1>3, <1>4, LoadedIsDisk
<1>6. \A j \in 0 .. num - 1 :
         soff + j \in Places /\ buffer'[soff + j] = media[current][next + j]
  <2>. SUFFICES ASSUME NEW j \in 0 .. num - 1
       PROVE  soff + j \in Places /\ buffer'[soff + j] = media[current][next + j]
    OBVIOUS
  <2>1. soff + j \in 0 .. v - 1
    BY <1>2, <1>3
  <2>2. track + (soff + j) = next + j
    BY <1>2, <1>3, BufferAssumption DEF Sector
  <2>. QED  BY <1>5, <2>1, <2>2
<1>7. soff \in Nat /\ Deliver(buffer', soff)
  BY <1>2, <1>3 DEF ReadTrack
<1>8. /\ ReadsDisk' /\ ReadInDisk'
      /\ got' \in Seq(Contents) /\ left' \in Nat /\ first' \in Sector /\ reading' \in BOOLEAN
  <2>. HIDE DEF v
  <2>. QED  BY <1>1, <1>5, <1>6, <1>7, Delivered
<1>9. TypeOK'
  BY <1>1, <1>3, <1>4, <1>5, <1>8, IterationFrame DEF TypeOK
<1>10. bufDrive' = current /\ media' = media
  BY <1>1 DEF Iterates
<1>11. Coherent'
  BY <1>4, <1>5, <1>10 DEF Coherent, Vtrack
<1>12. TrackInBuffer'
  BY <1>3, <1>4, <1>10 DEF TrackInBuffer, InDisk, Vtrack
<1>. QED
  BY <1>1, <1>8, <1>9, <1>11, <1>12, IterationFrame DEF IInv

LEMMA ReadSteps ==
  ASSUME IInv, ReadPart \/ ReadRetry
  PROVE  IInv'
<1>1. Iterates /\ current \in Drives /\ left > 0 /\ reading /\ left \in Nat
  BY IterationFrame DEF ReadPart, ReadRetry, IInv, TypeOK
<1>2. num \in Nat \ {0}
  BY <1>1, PlaceOfNext, VtrackType
<1>3. CASE ReadPart
  <2>1. num \in 1 .. num  BY <1>2
  <2>. QED  BY <1>1, <1>3, <2>1, ReadPartStep DEF ReadPart
<1>4. CASE ReadRetry
  <2>1. left \in 1 .. num /\ ~(left > num)  BY <1>1, <1>2, <1>4 DEF ReadRetry
  <2>. QED  BY <1>1, <1>4, <2>1, ReadPartStep DEF ReadRetry
<1>. QED  BY <1>3, <1>4

(* The sector that is written is changed in the buffer as well, if it is   *)
(* there: its track is found with buf_geom, which is that of the drive.    *)
LEMMA WriteStep ==
  ASSUME IInv, NEW s \in Sector, NEW x \in Values, Write(s, x)
  PROVE  IInv'
<1>. DEFINE v == Vtrack(current)
<1>1. /\ ~prompt /\ ~reading /\ current \in Drives /\ current \notin BigSector
      /\ bufDrive = current /\ geom = current /\ bufDrive # NoDrive
  BY BufferAssumption DEF Write, IInv, TypeOK, WritesWithGeometry
<1>2. v \in Nat \ {0} /\ v <= Size /\ Spt[geom] = v /\ Size \in Nat /\ Final \in Nat
  BY <1>1, VtrackType, BufferAssumption
<1>3. s \in Nat /\ s % v \in 0 .. v - 1
  BY <1>2, Division, BufferAssumption DEF Sector
<1>4. media' = [media EXCEPT ![current][s] = x]
  BY DEF Write
<1>5. media' \in [Drives -> [Sector -> Values]]
  BY <1>1, <1>4 DEF IInv, TypeOK
<1>6. UNCHANGED <<bufDrive, bufTrack, geom, current, opened, prompt, call>>
  BY DEF Write
<1>7. \A t \in Sector : media'[current][t] = IF t = s THEN x ELSE media[current][t]
  BY <1>1, <1>4 DEF IInv, TypeOK
<1>8. CASE s - (s % v) # bufTrack
  <2>1. buffer' = buffer
    BY <1>2, <1>8 DEF Write
  <2>2. ASSUME bufTrack # NoTrack, NEW i \in 0 .. v - 1
        PROVE  bufTrack + i \in Sector /\ bufTrack + i # s
    <3>1. PICK k \in Sector : bufTrack = k * v
      BY <1>1, <2>2 DEF IInv, TrackInBuffer
    <3>2. bufTrack \in Nat /\ bufTrack + v - 1 <= Final /\ k \in Nat
      BY <1>1, <2>2, BufferAssumption DEF IInv, TypeOK, TrackInBuffer, Sector
    <3>3. bufTrack + i \in Sector
      BY <1>2, <3>2 DEF Sector
    <3>4. CASE bufTrack + i = s
      <4>1. k * v <= s /\ s < k * v + v
        BY <1>2, <1>3, <3>1, <3>2, <3>4
      <4>2. s - (s % v) = k * v
        <5>. HIDE DEF v
        <5>. QED  BY <1>2, <1>3, <3>2, <4>1, SameTrack
      <4>. QED  BY <1>8, <3>1, <4>2
    <3>. QED  BY <3>3, <3>4
  <2>3. Coherent'
    BY <1>1, <1>6, <1>7, <2>1, <2>2 DEF IInv, Coherent, Vtrack
  <2>. QED
    BY <1>1, <1>5, <1>6, <2>1, <2>3
    DEF IInv, TypeOK, GeometryOfBuffer, TrackInBuffer, ReadInDisk, ReadsDisk,
        WritesWithGeometry, call, Vtrack
<1>9. CASE s - (s % v) = bufTrack
  <2>1. s - bufTrack \in Places
    BY <1>2, <1>3, <1>9 DEF Places
  <2>2. buffer' = [buffer EXCEPT ![s - bufTrack] = x]
    BY <1>1, <1>2, <1>9 DEF Write
  <2>3. buffer' \in [Places -> Contents]
    BY <2>1, <2>2 DEF IInv, TypeOK, Contents
  <2>4. bufTrack # NoTrack /\ bufTrack \in Nat
    BY <1>2, <1>3, <1>9 DEF NoTrack
  <2>5. bufTrack + v - 1 <= Final
    BY <1>1, <2>4 DEF IInv, TrackInBuffer
  <2>6. ASSUME NEW i \in 0 .. v - 1
        PROVE  buffer'[i] = media'[current][bufTrack + i]
    <3>1. i \in Places /\ bufTrack + i \in Sector
      BY <1>2, <2>4, <2>5 DEF Places, Sector
    <3>2. i = s - bufTrack <=> bufTrack + i = s
      BY <1>2, <1>3, <2>4
    <3>3. buffer[i] = media[current][bufTrack + i]
      BY <1>1, <2>4 DEF IInv, Coherent
    <3>4. buffer'[i] = IF i = s - bufTrack THEN x ELSE buffer[i]
      BY <2>2, <3>1 DEF IInv, TypeOK
    <3>. QED  BY <1>7, <3>1, <3>2, <3>3, <3>4
  <2>7. Coherent'
    BY <1>1, <1>6, <2>6 DEF Coherent, Vtrack
  <2>. QED
    BY <1>1, <1>5, <1>6, <2>3, <2>7
    DEF IInv, TypeOK, GeometryOfBuffer, TrackInBuffer, ReadInDisk, ReadsDisk,
        WritesWithGeometry, call, Vtrack
<1>. QED  BY <1>8, <1>9

LEMMA Inductive == IInv /\ [Next]_vars => IInv'
<1>. SUFFICES ASSUME IInv, [Next]_vars PROVE IInv'
  OBVIOUS
<1>1. ASSUME NEW d \in Drives, Exchange(d) PROVE IInv'
  BY <1>1, ExchangeStep
<1>2. ASSUME NEW s \in Sector, NEW x \in Values, Write(s, x) PROVE IInv'
  BY <1>2, WriteStep
<1>3. CASE ReadHit  BY <1>3, ReadHitStep
<1>4. CASE ReadTrack  BY <1>4, ReadTrackStep
<1>5. CASE ReadPart \/ ReadRetry  BY <1>5, ReadSteps
<1>. QED  BY <1>1, <1>2, <1>3, <1>4, <1>5, QuietSteps DEF Next, ReadStep

-----------------------------------------------------------------------------
(* The inductive invariant: besides the three properties below, buf_geom   *)
(* describes the drive in the buffer and the buffer starts at a track.     *)
THEOREM Invariance == Spec => []IInv
  BY Initial, Inductive, PTL DEF Spec

(* Whatever rawread would take from the buffer is what is on the disk.     *)
THEOREM BufferCoherent == Spec => []Coherent
<1>1. IInv => Coherent  BY DEF IInv
<1>. QED  BY <1>1, Invariance, PTL

(* rawread delivers what is on the disk, also piece by piece, with         *)
(* failures before and with whatever was written since.                    *)
THEOREM ReadsAreRight == Spec => []ReadsDisk
<1>1. IInv => ReadsDisk  BY DEF IInv
<1>. QED  BY <1>1, Invariance, PTL

(* rawwrite, which does not ask for a geometry, has that of its drive.     *)
THEOREM WritesAreAimed == Spec => []WritesWithGeometry
<1>1. IInv => WritesWithGeometry  BY DEF IInv
<1>. QED  BY <1>1, Invariance, PTL
=============================================================================
