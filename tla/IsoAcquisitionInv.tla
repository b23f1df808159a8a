------------------------- MODULE IsoAcquisitionInv -------------------------
(***************************************************************************)
(* The inductive invariant of IsoAcquisition: what is known between two    *)
(* steps of get_iso of the path that is checked, of the cached listings,   *)
(* of the image that an accepted check goes on with, and of the task list. *)
(* To see that it is one on the instance of MCIsoAcquisition, add          *)
(* INVARIANT IInv to its cfg.                                              *)
(***************************************************************************)
EXTENDS IsoAcquisition

Starting == pc \in {"find_any_iso", "find_any_cd", "settings"}

Checking == pc \in {"validate", "metalink", "md5"}

CheckFor(f) == Checking /\ for = f

Downloading == pc \in {"clear", "fetch", "discard"} \/ CheckFor("download_iso")

\* What a file answers when it is asked for the first time.
Answer(p) == IF file[p] = Garbage THEN NoAnswer ELSE file[p]

\* An inactive list has a reason, and an active one has none to stop.
ListInv ==
    /\ IF active THEN ~cancelled /\ raised \subseteq {"torrent"}
                 ELSE cancelled \/ raised \ {"torrent"} # {}
    /\ pc \in {"stopped", "failed"} => ~active
    /\ Starting \/ pc = "installed" => active

\* The path of info.iso_path, and the path that is checked.
PathInv ==
    /\ \/ Starting \/ pc \in {"get_prespecified_iso", "use_cd", "use_iso"}
       \/ CheckFor("get_prespecified_iso")
       => isoPath \in Local \cup {None}
    /\ Checking \/ pc = "copy" => for \in Callers
    /\ pc = "copy" => for \in {"get_prespecified_iso", "use_iso"}
    /\ (Checking \/ pc = "copy") /\ for \in {"get_prespecified_iso", "use_iso"}
       => target \in Local
    /\ CheckFor("use_cd") => target = "installation.iso"
    /\ CheckFor("download_iso") => target = "saved"
    /\ pc = "extract_kernel" => isoPath # None

\* The CD while its copy is checked, and afterwards.
CdInv ==
    /\ CheckFor("use_cd") \/ pc = "excuse" =>
         cdPath = "cd" /\ isoPath = "installation.iso"
    /\ CheckFor("use_cd") /\ active => file["installation.iso"] = file["cd"]

\* The loop over the mirrors.
MirrorInv ==
    /\ Downloading => cdPath = None
    /\ CheckFor("download_iso") \/ pc \in {"fetch", "discard"} => left > 0

\* The caches of the local ISO hold what is in the files.
CacheInv ==
    /\ \A p \in Local : file[p] = None \/ listing[p] \in {Unasked, Answer(p)}
    /\ \A p \in Paths : listing[p] # Garbage

\* Those of the two installed files are filled by the checks of the CD's copy
\* and of the downloads; the latter may hold the listing of an earlier mirror's
\* image.  That one had the wrong md5, so that the next is compared with the md5
\* of the same distro, whatever its own architecture is.
ListingInv ==
    /\ \/ Starting \/ pc \in {"get_prespecified_iso", "use_cd"}
       \/ CheckFor("get_prespecified_iso") \/ (CheckFor("use_cd") /\ pc = "validate")
       => listing["installation.iso"] = Unasked
    /\ Downloading \/ pc \in {"extract_kernel"} \cup Terminal \/ listing["saved"] = Unasked
    /\ Downloading /\ active /\ listing["saved"] \in Readable =>
         /\ ~check_arch => Arch[distro] = listing["saved"].arch
         /\ pc \in {"metalink", "md5"} \/ (metalink[distro] = "hash" /\ ~skipMd5)

\* The distro is in line with the image that is checked.
DistroInv ==
    /\ Starting => DistroOf(arch) # None
    /\ \/ ~active \/ distro # None \/ Starting
       \/ pc \in {"copy", "extract_kernel"} \cup Terminal
    /\ pc \in {"metalink", "md5"} => distro # None /\ ~skipMd5
    /\ pc = "md5" => metalink[distro] = "hash"
    /\ pc \in {"metalink", "md5"} /\ target \in Local =>
         /\ file[target] \in Readable
         /\ ~check_arch => Arch[distro] = file[target].arch
    /\ pc = "metalink" /\ active /\ ~check_arch /\ file[target] \in Readable =>
         \/ Is64(file[target].arch) = Is64(Arch[distro])
         \/ for = "download_iso" /\ metalink[distro] = "hash"

\* A local ISO with the wrong md5 has it for whatever distro may be chosen when
\* it is checked again.
RejectedInv ==
    /\ \A p \in rejected :
         /\ ~skipMd5 /\ file[p] \in Readable
         /\ \A d \in Distros :
              (IF check_arch THEN d = distro ELSE Arch[d] = file[p].arch) =>
                metalink[d] = "hash" /\ ~Md5Is(file[p], d)
    /\ Starting => rejected = {}
    /\ RejectedStaysOut

\* An accepted check of an image and its excuse.
Vouched(image) ==
    CASE excuse = "none" -> Md5Is(image, distro)
      [] excuse = "skipped" -> skipMd5
      [] excuse = "preview" -> pc # "copy" /\ cdPath # None
      [] excuse \in {"no metalink", "no hash"} -> metalink[distro] # "hash"

InLine(image) ==
    ~check_arch /\ excuse # "preview" /\ image \in Readable =>
        Is64(image.arch) = Is64(Arch[distro])

\* What is copied, what is handed to extract_kernel and what is installed.
AcceptedInv ==
    /\ pc = "copy" /\ active /\ distro # None =>
         Vouched(file[target]) /\ InLine(file[target])
    /\ pc = "extract_kernel" /\ active /\ distro # None =>
         Vouched(file[isoPath]) /\ InLine(Medium)
    /\ pc = "installed" =>
         /\ distro # None /\ Medium \in Readable
         /\ Vouched(file[isoPath]) /\ InLine(Medium)

IInv ==
    TypeOK /\ ListInv /\ PathInv /\ CdInv /\ MirrorInv /\ CacheInv /\ ListingInv
    /\ DistroInv /\ RejectedInv /\ AcceptedInv
=============================================================================
