--------------------------- MODULE MCTrackBuffer ---------------------------
(***************************************************************************)
(* A disk whose second track is cut short and one whose track is larger than*)
(* the buffer.                                                             *)
(***************************************************************************)
EXTENDS TrackBuffer

SectorsPerTrack == [d \in Drives |-> IF d \in BigSector THEN 3 ELSE 2]
TwoFit == [d \in Drives |-> 2]
=============================================================================
