--------------------------- MODULE IsoAcquisition ---------------------------
(***************************************************************************)
(* How the installer comes by its ISO: CommonBackend.get_iso in            *)
(* wubi/backends/common/backend.py with everything it calls, preceded by   *)
(* the media search of fetch_basic_info and followed by extract_kernel.    *)
(*                                                                         *)
(* get_iso tries the ISO found at start-up, a CD, another local ISO and at *)
(* last the mirrors of the metalink.  Each of its parts runs as a subtask: *)
(*                                                                         *)
(*  - a subtask called under a list that is no longer active returns None  *)
(*    without doing anything (module TaskList, MayRun);                    *)
(*  - an exception in a required subtask makes the list inactive and the   *)
(*    call return None: the caller never sees the exception.               *)
(*                                                                         *)
(* The user may cancel the list between any two steps (Cancel) and in the  *)
(* middle of a copy or a torrent, which then stop short.                   *)
(*                                                                         *)
(* Data: an image is the architecture its info file states and whether its *)
(* md5 is the one in the metalink of that architecture's distro; Garbage   *)
(* is a file of a plausible size whose contents cannot be listed.  All     *)
(* distros share one name; CD and ISO of other products are no image at    *)
(* all.  One signature, size and version check is passed by all images.    *)
(***************************************************************************)
EXTENDS Naturals, FiniteSets

CONSTANTS
    Distros,        \* the sections of isolist.ini
    Arch,           \* their arch option
    Mirrors,        \* bound: the urls in a metalink
    Garbage,        \* a file that 7z cannot list
    Unasked,        \* a path that is not in the cache
    NoAnswer,       \* the None that the cache holds for an unlistable file
    None            \* Python's None; no file at a path

\* The spellings: of get_arch and of disk_info_re.
CpuArch  == {"amd64", "i386"}
DiscArch == {"x86_64", "i686"}
Is64(a)  == a \in {"amd64", "x86_64"}

ASSUME IsolistAssumption ==
    /\ IsFiniteSet(Distros)
    /\ Arch \in [Distros -> CpuArch \cup DiscArch]
    /\ \E d \in Distros : Arch[d] \in CpuArch
    /\ \A d, e \in Distros : Arch[d] = Arch[e] => d = e
    /\ None \notin Distros
    /\ Mirrors \in Nat

\* An ISO in the root of a drive, one in the backup directory, the CD, and
\* the two files of the install directory.
Local     == {"found", "backup"}
Installed == {"installation.iso", "saved"}
Paths     == Local \cup Installed \cup {"cd"}
Readable  == [arch : DiscArch, matches : BOOLEAN]
Images    == Readable \cup {Garbage}

\* The markers are told apart from each other and from what they stand beside.
ASSUME MarkerAssumption ==
    /\ None \notin {Garbage, Unasked, NoAnswer} \cup Readable \cup Paths
    /\ Garbage \notin {Unasked, NoAnswer} \cup Readable
    /\ Unasked # NoAnswer /\ {Unasked, NoAnswer} \cap Readable = {}

VARIABLES
    file,       \* what is at each path
    listing,    \* WindowsBackend.cache and Distro.cache: a path's image, or
                \* NoAnswer or Unasked
    arch,       \* info.arch
    skipMd5,    \* info.skip_md5_check
    distro,     \* info.distro
    isoPath, isoDistro, cdPath, cdDistro,   \* the fields of info
    metalink,   \* Distro.metalink: "none", with an md5 hash, without
    hashed,     \* the keys of info.iso_md5_hashes
    active,     \* the task list is active
    left,       \* mirrors that download_iso may still try
    target,     \* the argument of check_iso
    for,        \* the function that called check_iso
    pc,
    cancelled,  \* history: the user cancelled
    raised,     \* history: where exceptions were raised
    excuse,     \* history: why the last accepted check compared no md5
    rejected    \* history: the local files whose md5 was wrong

input == <<arch, skipMd5>>
media == <<isoPath, isoDistro, cdPath, cdDistro>>
vars  == <<file, listing, input, distro, media, metalink, hashed, active, left,
           target, for, pc, cancelled, raised, excuse, rejected>>

Excuses  == {"none", "skipped", "no metalink", "no hash", "preview"}
Faults   == {"listing", "arch", "no distro", "metalink", "copy iso", "copy cd",
             "cd_distro", "isfile(None)", "mirror", "torrent", "unlink",
             "not retrieved", "kernel"}
Terminal == {"installed", "stopped", "failed"}
Steps    == {"find_any_iso", "find_any_cd", "settings", "get_prespecified_iso",
             "validate", "metalink", "md5", "copy", "use_cd", "excuse",
             "use_iso", "download_iso", "clear", "fetch", "discard",
             "extract_kernel"}
Callers  == {"get_prespecified_iso", "use_cd", "use_iso", "download_iso"}

-----------------------------------------------------------------------------
(* Helpers.                                                                *)

\* Set for a real or a forced 32 bit machine.
check_arch == arch = "i386"

\* distros_dict.get((name, a)).
DistroOf(a) ==
    IF \E d \in Distros : Arch[d] = a THEN CHOOSE d \in Distros : Arch[d] = a
    ELSE None

\* check_info on an image whose listing and info file could be read.
ValidFor(image, d, checked) ==
    image \notin {None, Garbage} /\ (checked => image.arch = Arch[d])

\* The md5 of the image is the md5 in the metalink of d.
Md5Is(image, d) ==
    image \notin {None, Garbage} /\ image.matches /\ Is64(image.arch) = Is64(Arch[d])

\* What get_iso_file_names and get_info answer: the cached image, if any.
Listed(p) ==
    IF listing[p] = Unasked
    THEN IF file[p] = Garbage THEN NoAnswer ELSE file[p]
    ELSE listing[p]

Exists(p) == p # None /\ file[p] # None

\* The second question about a path without an answer: "for f in None".
PoisonedList(p) == Exists(p) /\ listing[p] = NoAnswer

Heard(p) == IF file[p] = None THEN listing ELSE [listing EXCEPT ![p] = Listed(p)]

\* set_distro_from_arch.
DistroFor(image) ==
    IF check_arch \/ Arch[distro] = image.arch THEN distro ELSE DistroOf(image.arch)

\* Mutant: the list is cancelled and nobody is told why.
Raise_NoError(fault) == active' = FALSE /\ raised' = raised

\* An exception in a required subtask.
Raise(fault) == active' = FALSE /\ raised' = raised \cup {fault}

\* An exception in get_iso itself.
Fail(fault) == Raise(fault) /\ pc' = "failed"

\* What check_iso returns, and where its caller goes on.
Accept(why) ==
    /\ excuse' = why
    /\ isoPath' = IF for = "download_iso" THEN "saved" ELSE isoPath
    /\ pc' = IF for \in {"get_prespecified_iso", "use_iso"} THEN "copy"
             ELSE "extract_kernel"

Reject ==
    /\ pc' = CASE for = "get_prespecified_iso" -> "use_cd"
               [] for = "use_cd"               -> "excuse"
               [] for = "use_iso"              -> "download_iso"
               [] for = "download_iso"         -> "discard"
    /\ UNCHANGED <<excuse, isoPath>>

\* check_iso(p) is called from f; none of its frames has returned yet.
Check(p, f) == target' = p /\ for' = f /\ pc' = "validate"

Init ==
    /\ \E f \in [Local \cup {"cd"} -> Images \cup {None}] :
         file = [p \in Paths |-> IF p \in Installed THEN None ELSE f[p]]
    /\ listing = [p \in Paths |-> Unasked]
    /\ arch \in {a \in CpuArch : DistroOf(a) # None}
    /\ skipMd5 \in BOOLEAN
    /\ distro = None
    /\ isoPath = None /\ isoDistro = None /\ cdPath = None /\ cdDistro = None
    /\ metalink = [d \in Distros |-> "none"]
    /\ hashed = {} /\ active = TRUE /\ left = 0
    /\ target = None /\ for = None /\ pc = "find_any_iso"
    /\ cancelled = FALSE /\ raised = {} /\ excuse = "none" /\ rejected = {}

-----------------------------------------------------------------------------
(* Start-up and the settings page.                                         *)

\* find_any_iso asks every distro about the ISO, find_any_cd about the CD.
\* The second distro's question about Garbage raises and ends the program.
FindAnyIso ==
    /\ pc = "find_any_iso"
    /\ listing' = Heard("found")
    /\ IF file["found"] = Garbage /\ Cardinality(Distros) > 1
       THEN Fail("listing") /\ UNCHANGED <<isoPath, isoDistro>>
       ELSE /\ \/ \E d \in Distros :
                    /\ ValidFor(file["found"], d, check_arch)
                    /\ isoPath' = "found" /\ isoDistro' = d
               \/ /\ \A d \in Distros : ~ValidFor(file["found"], d, check_arch)
                  /\ UNCHANGED <<isoPath, isoDistro>>
            /\ pc' = "find_any_cd"
            /\ UNCHANGED <<active, raised>>
    /\ UNCHANGED <<file, input, distro, cdPath, cdDistro, metalink, hashed, left,
                   target, for, cancelled, excuse, rejected>>

FindAnyCd ==
    /\ pc = "find_any_cd"
    /\ \/ \E d \in Distros :
            /\ ValidFor(file["cd"], d, check_arch)
            /\ cdPath' = "cd" /\ cdDistro' = d
       \/ /\ \A d \in Distros : ~ValidFor(file["cd"], d, check_arch)
          /\ UNCHANGED <<cdPath, cdDistro>>
    /\ pc' = "settings"
    /\ UNCHANGED <<file, listing, input, distro, isoPath, isoDistro, metalink,
                   hashed, active, left, target, for, cancelled, raised, excuse,
                   rejected>>

\* on_distro_change; while the page is shown a CD may be put in or taken out.
Settings ==
    /\ pc = "settings"
    /\ distro' = DistroOf(arch)
    /\ \E c \in {file["cd"], None} \cup Images :
         /\ file["cd"] # None => c \in {file["cd"], None}
         /\ file' = [file EXCEPT !["cd"] = c]
    /\ pc' = "get_prespecified_iso"
    /\ UNCHANGED <<listing, input, media, metalink, hashed, active, left, target,
                   for, cancelled, raised, excuse, rejected>>

-----------------------------------------------------------------------------
(* check_iso.                                                              *)

\* is_valid_iso without the arch, set_distro_from_arch, skip_md5_check.
Validate ==
    /\ pc = "validate"
    /\ listing' = IF active THEN Heard(target) ELSE listing
    /\ \/ /\ ~(active /\ Exists(target) /\ (PoisonedList(target) \/ Listed(target) # NoAnswer))
          /\ Reject
          /\ UNCHANGED <<distro, active, raised>>
       \/ /\ active /\ PoisonedList(target)
          /\ Raise("listing") /\ Reject
          /\ UNCHANGED distro
       \/ /\ active /\ Exists(target) /\ Listed(target) # NoAnswer
          /\ distro' = DistroFor(Listed(target))
          /\ \/ skipMd5 /\ Accept("skipped") /\ UNCHANGED <<active, raised>>
             \/ ~skipMd5 /\ distro' = None /\ Raise("arch") /\ Reject
             \/ /\ ~skipMd5 /\ distro' # None
                /\ pc' = "metalink"
                /\ UNCHANGED <<active, raised, excuse, isoPath>>
    /\ UNCHANGED <<file, input, isoDistro, cdPath, cdDistro, metalink, hashed,
                   left, target, for, cancelled, rejected>>

\* The outcomes of the get_metalink subtask; a metalink that cannot be
\* authenticated is parsed all the same.
Metalinks ==
    IF metalink[distro] # "none" THEN {metalink[distro]}
    ELSE IF active THEN {"none", "hash", "no hash"} ELSE {"none"}

\* check_metalink is called outside of every try block.
MetalinkRaises ==
    /\ metalink[distro] = "none" /\ active
    /\ Raise("metalink")
    /\ UNCHANGED metalink

\* Without a metalink or without its md5 the ISO is accepted.
CheckMetalink ==
    /\ pc = "metalink"
    /\ \/ \E m \in Metalinks :
            /\ metalink' = [metalink EXCEPT ![distro] = m]
            /\ \/ m = "none" /\ Accept("no metalink")
               \/ m = "no hash" /\ Accept("no hash")
               \/ m = "hash" /\ pc' = "md5" /\ UNCHANGED <<excuse, isoPath>>
            /\ UNCHANGED <<active, raised>>
       \/ MetalinkRaises /\ Accept("no metalink")
    /\ UNCHANGED <<file, listing, input, distro, isoDistro, cdPath, cdDistro,
                   hashed, left, target, for, cancelled, rejected>>

Remembered(p) == {p} \ Installed

\* The md5 is computed in a subtask, or remembered from an earlier check.
CheckMd5 ==
    /\ pc = "md5"
    /\ LET known == active \/ target \in hashed IN
       /\ hashed' = IF known THEN hashed \cup Remembered(target) ELSE hashed
       /\ \/ /\ known /\ Md5Is(file[target], distro)
             /\ Accept("none")
             /\ UNCHANGED rejected
          \/ /\ ~(known /\ Md5Is(file[target], distro))
             /\ Reject
             /\ rejected' = IF known THEN rejected \cup ({target} \cap Local) ELSE rejected
    /\ UNCHANGED <<file, listing, input, distro, isoDistro, cdPath, cdDistro,
                   metalink, active, left, target, for, cancelled, raised>>

-----------------------------------------------------------------------------
(* get_prespecified_iso, use_cd, use_iso.                                  *)

\* Mutant: a failed copy is no failure of the list.
CopyFrom_NotRequired(p, fault) ==
    \/ ~active /\ UNCHANGED <<file, active, raised, cancelled>>
    \/ /\ active
       /\ file' = [file EXCEPT !["installation.iso"] = file[p],
                               ![p] = IF p = "backup" THEN None ELSE @]
       /\ UNCHANGED <<active, raised, cancelled>>
    \/ /\ active /\ raised' = raised \cup {fault} /\ UNCHANGED active
       /\ \E part \in {file["installation.iso"], Garbage, file[p]} :
            file' = [file EXCEPT !["installation.iso"] = part]
       /\ UNCHANGED cancelled
    \/ /\ active /\ p # "backup"
       /\ active' = FALSE /\ cancelled' = TRUE
       /\ file' = [file EXCEPT !["installation.iso"] = Garbage]
       /\ UNCHANGED raised

\* Mutant: the copy does not look at the list at all.
CopyFrom_AnyStatus(p, fault) ==
    /\ file' = [file EXCEPT !["installation.iso"] = file[p],
                            ![p] = IF p = "backup" THEN None ELSE @]
    /\ UNCHANGED <<active, raised, cancelled>>

\* copy_file, and shutil.move for the backup: skipped, done, failed half way or
\* after the last byte (before the source is removed), or left by the cancelling
\* user.
CopyFrom(p, fault) ==
    \/ ~active /\ UNCHANGED <<file, active, raised, cancelled>>
    \/ /\ active
       /\ file' = [file EXCEPT !["installation.iso"] = file[p],
                               ![p] = IF p = "backup" THEN None ELSE @]
       /\ UNCHANGED <<active, raised, cancelled>>
    \/ /\ active /\ Raise(fault)
       /\ \E part \in {file["installation.iso"], Garbage, file[p]} :
            file' = [file EXCEPT !["installation.iso"] = part]
       /\ UNCHANGED cancelled
    \/ /\ active /\ p # "backup"
       /\ active' = FALSE /\ cancelled' = TRUE
       /\ file' = [file EXCEPT !["installation.iso"] = Garbage]
       /\ UNCHANGED raised

\* The ISO is copied whether or not is_valid_iso liked its arch.
GetPrespecifiedIso ==
    /\ pc = "get_prespecified_iso"
    /\ \/ /\ Exists(isoPath)
          /\ cdPath' = IF active /\ ValidFor(file[isoPath], distro, check_arch)
                       THEN None ELSE cdPath
          /\ Check(isoPath, "get_prespecified_iso")
       \/ /\ ~Exists(isoPath)
          /\ pc' = "use_cd"
          /\ UNCHANGED <<cdPath, target, for>>
    /\ UNCHANGED <<file, listing, input, distro, isoPath, isoDistro, cdDistro,
                   metalink, hashed, active, left, cancelled, raised, excuse, rejected>>

\* copy_iso after an accepted check; whatever the copy did, it returns True.
CopyIso ==
    /\ pc = "copy"
    /\ CopyFrom(target, "copy iso")
    /\ cdPath' = None /\ isoPath' = "installation.iso"
    /\ pc' = "extract_kernel"
    /\ UNCHANGED <<listing, input, distro, isoDistro, cdDistro, metalink, hashed,
                   left, target, for, excuse, rejected>>

KnownCd == cdDistro # None /\ distro = cdDistro /\ Exists(cdPath)

\* The copy is a required subtask, so that the except branch is never reached.
UseCd ==
    /\ pc = "use_cd"
    /\ \/ /\ KnownCd \/ (distro # None /\ ValidFor(file["cd"], distro, check_arch))
          /\ CopyFrom("cd", "copy cd")
          /\ isoPath' = "installation.iso" /\ cdPath' = "cd"
          /\ Check("installation.iso", "use_cd")
       \/ /\ ~KnownCd /\ distro = None
          /\ Fail("no distro")
          /\ UNCHANGED <<file, isoPath, cdPath, target, for, cancelled>>
       \/ /\ ~KnownCd /\ distro # None /\ ~ValidFor(file["cd"], distro, check_arch)
          /\ pc' = "use_iso"
          /\ UNCHANGED <<file, isoPath, cdPath, target, for, active, cancelled, raised>>
    /\ UNCHANGED <<listing, input, distro, isoDistro, cdDistro, metalink, hashed,
                   left, excuse, rejected>>

\* The check of the CD's image failed.  Only now it matters whether the CD
\* calls itself alpha, beta or release candidate.
CdRejected ==
    /\ pc = "excuse"
    /\ \/ /\ cdDistro = None
          /\ Fail("cd_distro")
          /\ UNCHANGED <<isoPath, cdPath, excuse>>
       \/ /\ cdDistro # None
          /\ excuse' = "preview" /\ pc' = "extract_kernel"
          /\ UNCHANGED <<isoPath, cdPath, active, raised>>
       \/ /\ cdDistro # None
          /\ isoPath' = None /\ cdPath' = None /\ pc' = "use_iso"
          /\ UNCHANGED <<active, raised, excuse>>
    /\ UNCHANGED <<file, listing, input, distro, isoDistro, cdDistro, metalink,
                   hashed, left, target, for, cancelled, rejected>>

KnownIso == isoDistro # None /\ distro = isoDistro

\* The order of the search paths is not fixed: the program may lie in any.
FindIso(p) == file[p] # None /\ listing[p] # NoAnswer /\ ValidFor(file[p], distro, check_arch)

UseIso ==
    /\ pc = "use_iso"
    /\ \/ /\ KnownIso /\ isoPath = None
          /\ Fail("isfile(None)")
          /\ UNCHANGED <<listing, target, for>>
       \/ /\ KnownIso /\ Exists(isoPath)
          /\ Check(isoPath, "use_iso")
          /\ UNCHANGED <<listing, active, raised>>
       \/ /\ ~KnownIso /\ distro = None
          /\ Fail("no distro")
          /\ UNCHANGED <<listing, target, for>>
       \/ /\ ~KnownIso /\ distro # None
          /\ \E p \in Local : FindIso(p) /\ Check(p, "use_iso")
          /\ UNCHANGED <<listing, active, raised>>
       \/ /\ ~KnownIso /\ distro # None
          /\ \E p \in Local : PoisonedList(p)
          /\ Fail("listing")
          /\ UNCHANGED <<listing, target, for>>
       \/ /\ ~KnownIso /\ distro # None
          /\ \A p \in Local : ~FindIso(p) /\ ~PoisonedList(p)
          /\ listing' = [p \in Paths |-> IF p \in Local THEN Heard(p)[p] ELSE listing[p]]
          /\ pc' = "download_iso"
          /\ UNCHANGED <<target, for, active, raised>>
    /\ UNCHANGED <<file, input, distro, media, metalink, hashed, left, cancelled,
                   excuse, rejected>>

-----------------------------------------------------------------------------
(* download_iso.                                                           *)

\* download_iso looks at the first five urls only.
Tries == IF Mirrors < 5 THEN Mirrors ELSE 5

Download ==
    /\ pc = "download_iso"
    /\ cdPath' = None
    /\ \/ distro = None /\ Fail("no distro") /\ UNCHANGED <<metalink, left>>
       \/ /\ distro # None
          /\ \E m \in Metalinks :
               /\ metalink' = [metalink EXCEPT ![distro] = m]
               /\ \/ m = "none" /\ Fail("not retrieved") /\ UNCHANGED left
                  \/ /\ m # "none"
                     /\ left' \in 0..Tries /\ pc' = "clear"
                     /\ UNCHANGED <<active, raised>>
       \/ /\ distro # None
          /\ MetalinkRaises /\ pc' = "failed" /\ UNCHANGED left
    /\ UNCHANGED <<file, listing, input, distro, isoPath, isoDistro, cdDistro,
                   hashed, target, for, cancelled, excuse, rejected>>

\* Mutant: the same mirror again.
NextMirror_Again == left' = left /\ pc' = "clear"

NextMirror == left' = left - 1 /\ pc' = "clear"

\* The head of the loop: no mirror left, a torrent that is not wanted, or a
\* mirror for which an older file is deleted.
Clear ==
    /\ pc = "clear"
    /\ \/ left = 0 /\ Fail("not retrieved") /\ UNCHANGED <<file, left>>
       \/ left > 0 /\ NextMirror /\ UNCHANGED <<file, active, raised>>
       \/ /\ left > 0
          /\ file' = [file EXCEPT !["saved"] = None]
          /\ pc' = "fetch"
          /\ UNCHANGED <<left, active, raised>>
    /\ UNCHANGED <<listing, input, distro, media, metalink, hashed, target, for,
                   cancelled, excuse, rejected>>

Partial == {file["saved"], Garbage}

\* The download of one mirror: skipped in an inactive list, finished, failed
\* (an http mirror is required and ends the list, a torrent is not), or left
\* unfinished because progress reports told it that the user cancelled.  A
\* mirror may serve any image, also one of the other architecture.
Fetch ==
    /\ pc = "fetch"
    /\ \/ ~active /\ NextMirror /\ UNCHANGED <<file, target, for, active, cancelled, raised>>
       \/ /\ active
          /\ \E i \in Images : file' = [file EXCEPT !["saved"] = i]
          /\ Check("saved", "download_iso")
          /\ UNCHANGED <<left, active, cancelled, raised>>
       \/ /\ active
          /\ \E i \in Partial : file' = [file EXCEPT !["saved"] = i]
          /\ \/ Raise("mirror")
             \/ raised' = raised \cup {"torrent"} /\ UNCHANGED active
          /\ NextMirror
          /\ UNCHANGED <<target, for, cancelled>>
       \/ /\ active /\ active' = FALSE /\ cancelled' = TRUE
          /\ \E i \in Partial : file' = [file EXCEPT !["saved"] = i]
          /\ Check("saved", "download_iso")
          /\ UNCHANGED <<left, raised>>
    /\ UNCHANGED <<listing, input, distro, media, metalink, hashed, excuse, rejected>>

\* The downloaded ISO failed its check and is deleted, if there is one.
Discard ==
    /\ pc = "discard"
    /\ \/ file["saved"] = None /\ Fail("unlink") /\ UNCHANGED <<file, left>>
       \/ /\ file["saved"] # None
          /\ file' = [file EXCEPT !["saved"] = None]
          /\ NextMirror
          /\ UNCHANGED <<active, raised>>
    /\ UNCHANGED <<listing, input, distro, media, metalink, hashed, target, for,
                   cancelled, excuse, rejected>>

-----------------------------------------------------------------------------
(* The next task of the list, and the cancelling user.                     *)

Medium == IF cdPath # None THEN file["cd"] ELSE file[isoPath]

\* Skipped in an inactive list; may always fail on its files.
ExtractKernel ==
    /\ pc = "extract_kernel"
    /\ \/ ~active /\ pc' = "stopped" /\ UNCHANGED <<active, raised>>
       \/ active /\ Fail("kernel")
       \/ /\ active /\ distro # None /\ Medium \notin {None, Garbage}
          /\ pc' = "installed"
          /\ UNCHANGED <<active, raised>>
    /\ UNCHANGED <<file, listing, input, distro, media, metalink, hashed, left,
                   target, for, cancelled, excuse, rejected>>

Cancel ==
    /\ pc \notin Terminal \cup {"find_any_iso", "find_any_cd", "settings"}
    /\ ~cancelled
    /\ active' = FALSE /\ cancelled' = TRUE
    /\ UNCHANGED <<file, listing, input, distro, media, metalink, hashed, left,
                   target, for, pc, raised, excuse, rejected>>

Work ==
    \/ FindAnyIso \/ FindAnyCd \/ Settings
    \/ GetPrespecifiedIso \/ CopyIso \/ UseCd \/ CdRejected \/ UseIso
    \/ Validate \/ CheckMetalink \/ CheckMd5
    \/ Download \/ Clear \/ Fetch \/ Discard \/ ExtractKernel

Next == Work \/ Cancel

\* The program and the worker thread go on; the user need not do anything.
Spec == Init /\ [][Next]_vars /\ WF_vars(Work)

-----------------------------------------------------------------------------
(* Properties.                                                             *)

\* The fields of info and of the run have their types.
TypeOK ==
    /\ file \in [Paths -> Images \cup {None}]
    /\ listing \in [Paths -> Images \cup {NoAnswer, Unasked}]
    /\ arch \in CpuArch /\ skipMd5 \in BOOLEAN
    /\ {distro, isoDistro, cdDistro} \subseteq Distros \cup {None}
    /\ isoPath \in Paths \cup {None} /\ cdPath \in {"cd", None}
    /\ metalink \in [Distros -> {"none", "hash", "no hash"}]
    /\ hashed \subseteq Local /\ rejected \subseteq Local
    /\ active \in BOOLEAN /\ cancelled \in BOOLEAN
    /\ left \in 0..Tries
    /\ target \in Paths \cup {None} /\ for \in Callers \cup {None}
    /\ pc \in Steps \cup Terminal
    /\ raised \subseteq Faults /\ excuse \in Excuses

\* What the installation goes on with has been compared with the md5 of the
\* metalink of the chosen distro, unless check_iso or use_cd had one of their
\* excuses.  The check is of the source, the installation is of the copy, and
\* the distro may change in between.
InstalledIsVerified ==
    pc = "installed" =>
        IF excuse = "none" THEN Md5Is(file[isoPath], distro)
        ELSE \/ excuse = "skipped" /\ skipMd5
             \/ excuse = "preview" /\ cdPath # None
             \/ excuse \in {"no metalink", "no hash"} /\ metalink[distro] # "hash"

\* set_distro_from_arch: on a 64 bit machine the distro is in line with the
\* medium, also after other media were looked at and rejected.
DistroFollowsMedium ==
    pc = "installed" /\ ~check_arch /\ excuse # "preview" =>
        Is64(Medium.arch) = Is64(Arch[distro])

\* A local ISO that once had the wrong md5 is not copied later in the run.
RejectedStaysOut == pc = "copy" => target \notin rejected

\* What is copied and installed is the right medium for the machine, and the
\* right copy of it, in a state that makes sense.
RightMedium ==
    TypeOK /\ InstalledIsVerified /\ DistroFollowsMedium /\ RejectedStaysOut

\* The installation stops only for the user or for an exception that is shown,
\* and goes on only if the single exception was a torrent's.
NoSilentStop ==
    /\ pc \in {"stopped", "failed"} => cancelled \/ raised \ {"torrent"} # {}
    /\ pc = "installed" => ~cancelled /\ raised \subseteq {"torrent"}

\* An inactive list writes no file any more, although get_iso runs on to its
\* end; the only change is that a download is deleted.
CancelledWritesNothing ==
    [][~active => \A p \in Paths : file'[p] \in {file[p], None}]_vars

\* get_iso comes to an end, whatever the mirrors do.
Ends == <>(pc \in Terminal)

=============================================================================
