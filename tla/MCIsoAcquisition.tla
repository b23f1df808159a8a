-------------------------- MODULE MCIsoAcquisition --------------------------
(***************************************************************************)
(* An isolist with both spellings of both architectures: the shipped one   *)
(* (data/isolist.ini-dul) has only those of the processor.                 *)
(***************************************************************************)
EXTENDS IsoAcquisitionInv

CONSTANTS a64, a32, x64, x32

BothSpellings == {a64, a32, x64, x32}

ArchOf(d) == CASE d = a64 -> "amd64" [] d = a32 -> "i386"
               [] d = x64 -> "x86_64" [] d = x32 -> "i686"
BothArch == [d \in BothSpellings |-> ArchOf(d)]
=============================================================================
