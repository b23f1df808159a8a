------------------------ MODULE IsoAcquisitionProofs ------------------------
(***************************************************************************)
(* Theorems about get_iso, for every isolist, every number of mirrors and  *)
(* every order of steps.  IInv of IsoAcquisitionInv is inductive: a lemma  *)
(* for each action shows that it keeps each part.                          *)
(***************************************************************************)
EXTENDS IsoAcquisitionInv, TLAPS

-----------------------------------------------------------------------------
(* What the helpers answer.                                                *)

LEMMA DistroOfIs ==
  ASSUME NEW a
  PROVE  DistroOf(a) = None \/ (DistroOf(a) \in Distros /\ Arch[DistroOf(a)] = a)
BY DEF DistroOf

\* set_distro_from_arch answers nothing, or a distro in line with the image.
LEMMA DistroForIs ==
  ASSUME TypeOK, distro # None, NEW image \in Readable
  PROVE  /\ DistroFor(image) \in Distros \cup {None}
         /\ check_arch => DistroFor(image) = distro
         /\ ~check_arch /\ DistroFor(image) # None => Arch[DistroFor(image)] = image.arch
BY DistroOfIs DEF DistroFor, TypeOK

LEMMA DistroForTyped ==
  ASSUME TypeOK, NEW image
  PROVE  DistroFor(image) \in Distros \cup {None}
BY DistroOfIs DEF DistroFor, TypeOK

\* An exception of any part but a torrent ends the list and is remembered.
LEMMA RaiseIs ==
  ASSUME TypeOK, NEW f \in Faults \ {"torrent"}, Raise(f)
  PROVE  ~active' /\ active' \in BOOLEAN /\ raised' \subseteq Faults
         /\ raised' \ {"torrent"} # {}
BY DEF Raise, TypeOK

\* What a path answers, and what the cache holds afterwards.
LEMMA ListedIs ==
  ASSUME TypeOK, NEW p \in Paths, file[p] # None
  PROVE  /\ Listed(p) \in Readable \cup {NoAnswer, Garbage}
         /\ listing[p] = Unasked => Listed(p) = Answer(p)
         /\ listing[p] # Unasked => Listed(p) = listing[p]
BY DEF Listed, Answer, TypeOK, Images

LEMMA HeardIs ==
  ASSUME TypeOK, NEW p \in Paths
  PROVE  /\ Heard(p) \in [Paths -> Images \cup {NoAnswer, Unasked}]
         /\ Heard(p)[p] = IF file[p] = None THEN listing[p] ELSE Listed(p)
         /\ \A q \in Paths : q # p => Heard(p)[q] = listing[q]
BY ListedIs DEF Heard, TypeOK, Images

\* The metalink of a distro is fetched once.
LEMMA MetalinksAre ==
  ASSUME TypeOK, distro \in Distros
  PROVE  /\ Metalinks \subseteq {"none", "hash", "no hash"}
         /\ metalink[distro] = "hash" => Metalinks = {"hash"}
BY DEF Metalinks, TypeOK

\* A file that is written, deleted or left alone is still a file.
LEMMA FileTyped ==
  ASSUME TypeOK, NEW p, NEW image \in Images \cup {None}
  PROVE  /\ [file EXCEPT ![p] = image] \in [Paths -> Images \cup {None}]
         /\ \A q \in Paths : q # p => [file EXCEPT ![p] = image][q] = file[q]
         /\ p \in Paths => [file EXCEPT ![p] = image][p] = image
BY DEF TypeOK

\* All that the copy of p, copy_file or shutil.move, can do.
Copied(p) ==
  /\ file' \in [Paths -> Images \cup {None}]
  /\ \A q \in Paths \ {p, "installation.iso"} : file'[q] = file[q]
  /\ p # "backup" /\ p # "installation.iso" => file'[p] = file[p]
  /\ p = "backup" /\ file'[p] # file[p] =>
       active' /\ file'[p] = None /\ file'["installation.iso"] = file[p]
  /\ ~active => file' = file
  /\ active' => active /\ file'["installation.iso"] = file[p]
  /\ active' \in BOOLEAN /\ cancelled' \in BOOLEAN
  /\ raised' \subseteq Faults
  /\ \/ UNCHANGED <<active, cancelled, raised>>
     \/ ~active' /\ (cancelled' \/ raised' \ {"torrent"} # {})

LEMMA CopyFromIs ==
  ASSUME TypeOK, NEW p \in Paths, NEW fault \in Faults \ {"torrent"}, CopyFrom(p, fault)
  PROVE  Copied(p)
<1>1. CASE ~active /\ UNCHANGED <<file, active, raised, cancelled>>
  BY <1>1 DEF TypeOK, Copied
<1>2. CASE /\ active
           /\ file' = [file EXCEPT !["installation.iso"] = file[p],
                                   ![p] = IF p = "backup" THEN None ELSE @]
           /\ UNCHANGED <<active, raised, cancelled>>
  BY <1>2 DEF TypeOK, Copied, Paths, Installed
<1>3. CASE /\ active /\ Raise(fault)
           /\ \E part \in {file["installation.iso"], Garbage, file[p]} :
                file' = [file EXCEPT !["installation.iso"] = part]
           /\ UNCHANGED cancelled
  <2>1. PICK part \in Images \cup {None} : file' = [file EXCEPT !["installation.iso"] = part]
    BY <1>3 DEF TypeOK, Paths, Installed, Images
  <2>2. ~active' /\ active' \in BOOLEAN /\ raised' \subseteq Faults
        /\ raised' \ {"torrent"} # {} /\ cancelled' = cancelled
    BY <1>3, RaiseIs
  <2>3. QED
    BY <1>3, <2>1, <2>2 DEF TypeOK, Copied
<1>4. CASE /\ active /\ p # "backup"
           /\ active' = FALSE /\ cancelled' = TRUE
           /\ file' = [file EXCEPT !["installation.iso"] = Garbage]
           /\ UNCHANGED raised
  BY <1>4 DEF TypeOK, Copied, Images
<1>5. QED
  BY <1>1, <1>2, <1>3, <1>4 DEF CopyFrom

\* What RejectedInv asks of a step that rejects nothing.
LEMMA RejectedKept ==
  ASSUME RejectedInv, UNCHANGED <<rejected, input>>,
         \A p \in rejected : file'[p] = file[p],
         check_arch => distro' = distro \/ rejected = {},
         Starting' => Starting,
         \A d \in Distros : metalink[d] = "hash" => metalink'[d] = "hash",
         pc' = "copy" => target' \notin rejected
  PROVE  RejectedInv'
BY DEF RejectedInv, RejectedStaysOut, input, check_arch

\* What ListInv asks of a step: what happens to the list has its reason.
LEMMA ListKept ==
  ASSUME TypeOK, ListInv,
         \/ UNCHANGED <<active, cancelled>> /\ raised' = raised
         \/ UNCHANGED <<active, cancelled>> /\ raised' = raised \cup {"torrent"}
         \/ ~active' /\ (cancelled' \/ raised' \ {"torrent"} # {}),
         pc' \in {"stopped", "failed"} => ~active',
         Starting' \/ pc' = "installed" => active'
  PROVE  ListInv'
<1>1. CASE UNCHANGED <<active, cancelled>> /\ raised' = raised
  BY <1>1 DEF ListInv
<1>2. CASE UNCHANGED <<active, cancelled>> /\ raised' = raised \cup {"torrent"}
  <2>1. raised' \ {"torrent"} = raised \ {"torrent"}
    BY <1>2
  <2>2. raised \subseteq {"torrent"} => raised' \subseteq {"torrent"}
    BY <1>2
  <2>3. QED
    BY <1>2, <2>1, <2>2 DEF ListInv
<1>3. CASE ~active' /\ (cancelled' \/ raised' \ {"torrent"} # {})
  BY <1>3 DEF ListInv
<1>4. QED
  BY <1>1, <1>2, <1>3

\* What CacheInv asks of a step: a local ISO at most disappears, and a cache is
\* at most filled with the answer.
LEMMA CacheKept ==
  ASSUME TypeOK, CacheInv,
         \A p \in Local : file'[p] \in {file[p], None},
         \A p \in Paths : \/ listing'[p] = listing[p]
                          \/ file[p] # None /\ listing'[p] = Listed(p)
  PROVE  CacheInv'
<1>1. \A p \in Local : p \in Paths
  BY DEF Paths
<1>2. \A p \in Paths : file[p] # None =>
        Listed(p) # Garbage /\ (listing[p] = Unasked => Listed(p) = Answer(p))
                            /\ (listing[p] # Unasked => Listed(p) = listing[p])
  BY ListedIs, MarkerAssumption DEF Listed, CacheInv
<1>3. \A p \in Local : file'[p] # None => Answer(p)' = Answer(p)
  BY DEF Answer
<1>4. QED
  BY <1>1, <1>2, <1>3 DEF CacheInv

\* What AcceptedInv asks of the return of check_iso: the reason given holds,
\* and the distro is in line with the image that was checked.
LEMMA AcceptKeeps ==
  ASSUME TypeOK, PathInv, CdInv, MirrorInv, Checking,
         NEW why \in {"none", "skipped", "no metalink", "no hash"}, Accept(why),
         UNCHANGED <<file, input, cdPath, target, for>>, active' => active,
         active' /\ distro' # None =>
           /\ CASE why = "none" -> Md5Is(file[target], distro')
                [] why = "skipped" -> skipMd5
                [] why \in {"no metalink", "no hash"} -> metalink'[distro'] # "hash"
           /\ ~check_arch /\ file[target] \in Readable =>
                Is64(file[target].arch) = Is64(Arch[distro'])
  PROVE  AcceptedInv'
<1>1. CASE for \in {"get_prespecified_iso", "use_iso"}
  <2>1. pc' = "copy" /\ excuse' = why
    BY <1>1 DEF Accept
  <2>2. active' /\ distro' # None => Vouched(file[target])' /\ InLine(file[target])'
    BY <2>1 DEF Vouched, InLine, input, check_arch
  <2>3. QED
    BY <2>1, <2>2 DEF AcceptedInv
<1>2. CASE for = "use_cd"
  <2>1. pc' = "extract_kernel" /\ excuse' = why /\ isoPath' = isoPath
    BY <1>2 DEF Accept
  <2>2. isoPath = target /\ cdPath # None /\ (active => file[target] = file["cd"])
    BY <1>2, MarkerAssumption DEF CdInv, PathInv, CheckFor, Paths
  <2>3. active' => file'[isoPath'] = file[target] /\ Medium' = file[target]
    BY <2>1, <2>2 DEF Medium
  <2>4. active' /\ distro' # None => Vouched(file[isoPath])' /\ InLine(Medium)'
    BY <2>1, <2>3 DEF Vouched, InLine, input, check_arch
  <2>5. QED
    BY <2>1, <2>4 DEF AcceptedInv
<1>3. CASE for = "download_iso"
  <2>1. pc' = "extract_kernel" /\ excuse' = why /\ isoPath' = "saved"
    BY <1>3 DEF Accept
  <2>2. target = "saved" /\ cdPath = None
    BY <1>3 DEF MirrorInv, PathInv, CheckFor, Downloading
  <2>3. file'[isoPath'] = file[target] /\ Medium' = file[target]
    BY <2>1, <2>2 DEF Medium
  <2>4. active' /\ distro' # None => Vouched(file[isoPath])' /\ InLine(Medium)'
    BY <2>1, <2>3 DEF Vouched, InLine, input, check_arch
  <2>5. QED
    BY <2>1, <2>4 DEF AcceptedInv
<1>4. QED
  BY <1>1, <1>2, <1>3 DEF PathInv, Callers

\* A rejected check goes on with the next source.
LEMMA RejectKeeps ==
  ASSUME PathInv, Checking, Reject
  PROVE  AcceptedInv' /\ pc' \in {"use_cd", "excuse", "download_iso", "discard"}
<1>1. pc' \in {"use_cd", "excuse", "download_iso", "discard"}
  BY DEF PathInv, Reject, Callers
<1>2. QED
  BY <1>1 DEF AcceptedInv

\* The count of mirrors goes down to nought.
LEMMA LeftTyped ==
  ASSUME TypeOK
  PROVE  /\ Tries \in Nat /\ left \in Nat
         /\ left > 0 => left - 1 \in 0 .. Tries
<1>1. Tries \in Nat
  BY IsolistAssumption DEF Tries
<1>2. left \in 0 .. Tries
  BY DEF TypeOK
<1>3. QED
  BY <1>1, <1>2

\* What the steps outside of check_iso keep of the paths that are no local ISO.
LEMMA LocalPaths ==
  /\ Local \subseteq Paths /\ {"cd", "installation.iso", "saved"} \subseteq Paths
  /\ "cd" \notin Local /\ "installation.iso" \notin Local /\ "saved" \notin Local
BY DEF Local, Paths, Installed

\* What DistroInv asks of a step that calls no check and keeps the distro.
LEMMA DistroKept ==
  ASSUME DistroInv, UNCHANGED <<distro, input>>, active' => active,
         pc \in {"excuse", "clear", "fetch", "discard"},
         pc' \in {"extract_kernel", "use_iso", "clear", "fetch", "validate", "failed"}
  PROVE  DistroInv'
<1>1. ~Starting /\ pc \notin {"copy", "extract_kernel"} \cup Terminal
  BY DEF Starting, Terminal
<1>2. active' => distro' # None
  BY <1>1 DEF DistroInv
<1>3. ~Starting' /\ pc' \notin {"metalink", "md5"}
  BY DEF Starting
<1>4. QED
  BY <1>2, <1>3 DEF DistroInv

\* Where a step of check_iso leads to.
Onward ==
  \/ for = "get_prespecified_iso" /\ pc' \in {"use_cd", "copy"} /\ isoPath' = isoPath
  \/ for = "use_cd" /\ pc' \in {"excuse", "extract_kernel"} /\ isoPath' = isoPath
  \/ for = "use_iso" /\ pc' \in {"download_iso", "copy"} /\ isoPath' = isoPath
  \/ for = "download_iso" /\ pc' = "discard" /\ isoPath' = isoPath
  \/ for = "download_iso" /\ pc' = "extract_kernel" /\ isoPath' = "saved"
  \/ pc' \in {"metalink", "md5"} /\ isoPath' = isoPath

LEMMA OnwardIs ==
  ASSUME PathInv, Checking, Reject \/ \E why : Accept(why)
  PROVE  Onward
BY DEF PathInv, Callers, Reject, Accept, Onward

\* The paths, the CD and the mirrors after a step of check_iso.
LEMMA OnwardKeeps ==
  ASSUME TypeOK, PathInv, CdInv, MirrorInv, Checking, Onward, active' => active,
         UNCHANGED <<file, cdPath, left, target, for>>
  PROVE  PathInv' /\ CdInv' /\ MirrorInv'
<1>1. CheckFor(for) /\ for \in Callers
  BY DEF CheckFor, PathInv
<1>2. "installation.iso" # None /\ "saved" # None
  BY LocalPaths, MarkerAssumption
<1>3. PathInv'
  BY <1>1, <1>2 DEF PathInv, CdInv, Onward, CheckFor, Starting
<1>4. CdInv'
  BY <1>1 DEF CdInv, Onward, CheckFor
<1>5. MirrorInv'
  BY <1>1 DEF MirrorInv, Onward, Downloading, CheckFor, Checking
<1>6. QED
  BY <1>3, <1>4, <1>5

\* The caches of the installed files after a step of check_iso.
LEMMA OnwardCaches ==
  ASSUME PathInv, ListingInv, Checking, Onward, for' = for,
         listing'["saved"] = listing["saved"] \/ for = "download_iso",
         listing'["installation.iso"] = listing["installation.iso"]
           \/ for # "get_prespecified_iso",
         for = "download_iso" /\ active' /\ listing'["saved"] \in Readable
           /\ pc' # "extract_kernel" =>
           /\ ~check_arch' => Arch[distro'] = listing'["saved"].arch
           /\ pc' = "discard" => metalink'[distro'] = "hash" /\ ~skipMd5'
  PROVE  ListingInv'
<1>1. CheckFor(for) /\ for \in Callers
  BY DEF CheckFor, PathInv
<1>2. QED
  BY <1>1 DEF ListingInv, Onward, Starting, Downloading, CheckFor, Checking,
     Terminal

-----------------------------------------------------------------------------
(* Every action keeps every part of the invariant.                         *)

\* find_any_iso asks about a local ISO.
LEMMA FindAnyIsoKeeps ==
  ASSUME IInv, FindAnyIso
  PROVE  IInv'
<1>1. TypeOK /\ ListInv /\ PathInv /\ CdInv /\ MirrorInv /\ CacheInv /\ ListingInv
      /\ DistroInv /\ RejectedInv /\ AcceptedInv
  BY DEF IInv
<1>2. TypeOK'
  <2>1. file' \in [Paths -> Images \cup {None}]
    BY <1>1 DEF FindAnyIso, TypeOK
  <2>2. listing' \in [Paths -> Images \cup {NoAnswer, Unasked}]
    BY <1>1, HeardIs DEF FindAnyIso, Paths, Local
  <2>3. arch' \in CpuArch /\ skipMd5' \in BOOLEAN
    BY <1>1 DEF FindAnyIso, input, TypeOK
  <2>4. distro' \in Distros \cup {None} /\ isoDistro' \in Distros \cup {None}
    BY <1>1 DEF FindAnyIso, TypeOK
  <2>5. cdDistro' \in Distros \cup {None}
    BY <1>1 DEF FindAnyIso, TypeOK
  <2>6. isoPath' \in Paths \cup {None} /\ cdPath' \in {"cd", None}
    BY <1>1 DEF FindAnyIso, TypeOK, Paths, Local
  <2>7. metalink' \in [Distros -> {"none", "hash", "no hash"}]
    BY <1>1 DEF FindAnyIso, TypeOK
  <2>8. hashed' \subseteq Local /\ rejected' \subseteq Local
    BY <1>1 DEF FindAnyIso, TypeOK
  <2>9. left' \in 0..Tries
    BY <1>1 DEF FindAnyIso, TypeOK
  <2>10. active' \in BOOLEAN /\ cancelled' \in BOOLEAN
    BY <1>1, RaiseIs DEF FindAnyIso, Fail, TypeOK, Faults
  <2>11. target' \in Paths \cup {None} /\ for' \in Callers \cup {None}
    BY <1>1 DEF FindAnyIso, TypeOK
  <2>12. pc' \in Steps \cup Terminal
    BY <1>1 DEF FindAnyIso, Fail, Steps, Terminal
  <2>13. raised' \subseteq Faults
    BY <1>1, RaiseIs DEF FindAnyIso, Fail, TypeOK, Faults
  <2>14. excuse' \in Excuses
    BY <1>1 DEF FindAnyIso, TypeOK
  <2>15. QED
    BY <2>1, <2>2, <2>3, <2>4, <2>5, <2>6, <2>7, <2>8, <2>9, <2>10, <2>11,
       <2>12, <2>13, <2>14 DEF TypeOK
<1>3. ListInv'
  <2>1. \/ UNCHANGED <<active, cancelled>> /\ raised' = raised
        \/ UNCHANGED <<active, cancelled>> /\ raised' = raised \cup {"torrent"}
        \/ ~active' /\ (cancelled' \/ raised' \ {"torrent"} # {})
    BY <1>1, RaiseIs DEF FindAnyIso, Fail, Faults
  <2>2. (pc' \in {"stopped", "failed"} => ~active')
        /\ (Starting' \/ pc' = "installed" => active')
    BY <1>1 DEF FindAnyIso, Fail, ListInv, Starting, Raise
  <2>3. QED
    BY <1>1, <2>1, <2>2, ListKept
<1>4. PathInv'
  BY <1>1 DEF FindAnyIso, Fail, PathInv, Starting, CheckFor, Checking, Local
<1>5. CdInv'
  BY <1>1 DEF FindAnyIso, Fail, CdInv, CheckFor, Checking
<1>6. MirrorInv'
  BY <1>1 DEF FindAnyIso, Fail, MirrorInv, Downloading, CheckFor, Checking
<1>7. CacheInv'
  <2>1. \A p \in Local : file'[p] \in {file[p], None}
    BY <1>1 DEF FindAnyIso
  <2>2. \A p \in Paths : \/ listing'[p] = listing[p]
                         \/ file[p] # None /\ listing'[p] = Listed(p)
    BY <1>1, HeardIs DEF FindAnyIso, Paths, Local
  <2>3. QED
    BY <1>1, <2>1, <2>2, CacheKept
<1>8. ListingInv'
  <2>1. "found" \in Paths /\ "found" # "saved" /\ "found" # "installation.iso"
    BY DEF Paths, Local
  <2>2. listing'["saved"] = listing["saved"]
        /\ listing'["installation.iso"] = listing["installation.iso"]
    BY <1>1, <2>1, HeardIs DEF FindAnyIso, Paths, Installed
  <2>3. pc = "find_any_iso" /\ pc' \in {"failed", "find_any_cd"}
    BY DEF FindAnyIso, Fail
  <2>4. QED
    BY <1>1, <2>2, <2>3 DEF ListingInv, Starting, Downloading, CheckFor,
       Checking, Terminal
<1>9. DistroInv'
  BY <1>1 DEF FindAnyIso, Fail, input, DistroInv, Starting, Terminal
<1>10. RejectedInv'
  <2>1. UNCHANGED <<rejected, input>> /\ (check_arch => distro' = distro \/ rejected = {})
        /\ (Starting' => Starting) /\ (pc' = "copy" => target' \notin rejected)
    BY <1>1 DEF FindAnyIso, Fail, Starting
  <2>2. \A p \in rejected : file'[p] = file[p]
    BY <1>1 DEF FindAnyIso
  <2>3. \A d \in Distros : metalink[d] = "hash" => metalink'[d] = "hash"
    BY <1>1 DEF FindAnyIso
  <2>4. QED
    BY <1>1, <2>1, <2>2, <2>3, RejectedKept
<1>11. AcceptedInv'
  BY <1>1 DEF FindAnyIso, Fail, AcceptedInv
<1>12. QED
  BY <1>2, <1>3, <1>4, <1>5, <1>6, <1>7, <1>8, <1>9, <1>10, <1>11 DEF IInv

\* find_any_cd asks about the CD.
LEMMA FindAnyCdKeeps ==
  ASSUME IInv, FindAnyCd
  PROVE  IInv'
<1>1. TypeOK /\ ListInv /\ PathInv /\ CdInv /\ MirrorInv /\ CacheInv /\ ListingInv
      /\ DistroInv /\ RejectedInv /\ AcceptedInv
  BY DEF IInv
<1>2. TypeOK'
  <2>1. file' \in [Paths -> Images \cup {None}]
    BY <1>1 DEF FindAnyCd, TypeOK
  <2>2. listing' \in [Paths -> Images \cup {NoAnswer, Unasked}]
    BY <1>1 DEF FindAnyCd, TypeOK
  <2>3. arch' \in CpuArch /\ skipMd5' \in BOOLEAN
    BY <1>1 DEF FindAnyCd, input, TypeOK
  <2>4. distro' \in Distros \cup {None} /\ isoDistro' \in Distros \cup {None}
    BY <1>1 DEF FindAnyCd, TypeOK
  <2>5. cdDistro' \in Distros \cup {None}
    BY <1>1 DEF FindAnyCd, TypeOK
  <2>6. isoPath' \in Paths \cup {None} /\ cdPath' \in {"cd", None}
    BY <1>1 DEF FindAnyCd, TypeOK
  <2>7. metalink' \in [Distros -> {"none", "hash", "no hash"}]
    BY <1>1 DEF FindAnyCd, TypeOK
  <2>8. hashed' \subseteq Local /\ rejected' \subseteq Local
    BY <1>1 DEF FindAnyCd, TypeOK
  <2>9. left' \in 0..Tries
    BY <1>1 DEF FindAnyCd, TypeOK
  <2>10. active' \in BOOLEAN /\ cancelled' \in BOOLEAN
    BY <1>1 DEF FindAnyCd, TypeOK
  <2>11. target' \in Paths \cup {None} /\ for' \in Callers \cup {None}
    BY <1>1 DEF FindAnyCd, TypeOK
  <2>12. pc' \in Steps \cup Terminal
    BY <1>1 DEF FindAnyCd, Steps
  <2>13. raised' \subseteq Faults
    BY <1>1 DEF FindAnyCd, TypeOK
  <2>14. excuse' \in Excuses
    BY <1>1 DEF FindAnyCd, TypeOK
  <2>15. QED
    BY <2>1, <2>2, <2>3, <2>4, <2>5, <2>6, <2>7, <2>8, <2>9, <2>10, <2>11,
       <2>12, <2>13, <2>14 DEF TypeOK
<1>3. ListInv'
  <2>1. \/ UNCHANGED <<active, cancelled>> /\ raised' = raised
        \/ UNCHANGED <<active, cancelled>> /\ raised' = raised \cup {"torrent"}
        \/ ~active' /\ (cancelled' \/ raised' \ {"torrent"} # {})
    BY <1>1 DEF FindAnyCd
  <2>2. (pc' \in {"stopped", "failed"} => ~active')
        /\ (Starting' \/ pc' = "installed" => active')
    BY <1>1 DEF FindAnyCd, ListInv, Starting
  <2>3. QED
    BY <1>1, <2>1, <2>2, ListKept
<1>4. PathInv'
  BY <1>1 DEF FindAnyCd, PathInv, Starting, CheckFor, Checking
<1>5. CdInv'
  BY <1>1 DEF FindAnyCd, CdInv, CheckFor, Checking
<1>6. MirrorInv'
  BY <1>1 DEF FindAnyCd, MirrorInv, Downloading, CheckFor, Checking
<1>7. CacheInv'
  <2>1. \A p \in Local : file'[p] \in {file[p], None}
    BY <1>1 DEF FindAnyCd
  <2>2. \A p \in Paths : \/ listing'[p] = listing[p]
                         \/ file[p] # None /\ listing'[p] = Listed(p)
    BY <1>1 DEF FindAnyCd
  <2>3. QED
    BY <1>1, <2>1, <2>2, CacheKept
<1>8. ListingInv'
  BY <1>1 DEF FindAnyCd, ListingInv, Starting, Downloading, CheckFor, Checking,
     Terminal
<1>9. DistroInv'
  BY <1>1 DEF FindAnyCd, input, DistroInv, Starting
<1>10. RejectedInv'
  <2>1. UNCHANGED <<rejected, input>> /\ (check_arch => distro' = distro \/ rejected = {})
        /\ (Starting' => Starting) /\ (pc' = "copy" => target' \notin rejected)
    BY <1>1 DEF FindAnyCd, Starting
  <2>2. \A p \in rejected : file'[p] = file[p]
    BY <1>1 DEF FindAnyCd
  <2>3. \A d \in Distros : metalink[d] = "hash" => metalink'[d] = "hash"
    BY <1>1 DEF FindAnyCd
  <2>4. QED
    BY <1>1, <2>1, <2>2, <2>3, RejectedKept
<1>11. AcceptedInv'
  BY <1>1 DEF FindAnyCd, AcceptedInv
<1>12. QED
  BY <1>2, <1>3, <1>4, <1>5, <1>6, <1>7, <1>8, <1>9, <1>10, <1>11 DEF IInv

\* The settings page.
LEMMA SettingsKeeps ==
  ASSUME IInv, Settings
  PROVE  IInv'
<1>1. TypeOK /\ ListInv /\ PathInv /\ CdInv /\ MirrorInv /\ CacheInv /\ ListingInv
      /\ DistroInv /\ RejectedInv /\ AcceptedInv
  BY DEF IInv
<1>2. TypeOK'
  <2>1. file' \in [Paths -> Images \cup {None}]
    <3>1. PICK c \in {file["cd"], None} \cup Images : file' = [file EXCEPT !["cd"] = c]
      BY DEF Settings
    <3>2. c \in Images \cup {None}
      BY <1>1, LocalPaths DEF TypeOK
    <3>3. QED
      BY <1>1, <3>1, <3>2, FileTyped
  <2>2. listing' \in [Paths -> Images \cup {NoAnswer, Unasked}]
    BY <1>1 DEF Settings, TypeOK
  <2>3. arch' \in CpuArch /\ skipMd5' \in BOOLEAN
    BY <1>1 DEF Settings, input, TypeOK
  <2>4. distro' \in Distros \cup {None} /\ isoDistro' \in Distros \cup {None}
    <3>1. distro' = DistroOf(arch) /\ isoDistro' = isoDistro
      BY DEF Settings, media
    <3>2. QED
      BY <1>1, <3>1, DistroOfIs DEF TypeOK
  <2>5. cdDistro' \in Distros \cup {None}
    BY <1>1 DEF Settings, media, TypeOK
  <2>6. isoPath' \in Paths \cup {None} /\ cdPath' \in {"cd", None}
    BY <1>1 DEF Settings, media, TypeOK
  <2>7. metalink' \in [Distros -> {"none", "hash", "no hash"}]
    BY <1>1 DEF Settings, TypeOK
  <2>8. hashed' \subseteq Local /\ rejected' \subseteq Local
    BY <1>1 DEF Settings, TypeOK
  <2>9. left' \in 0..Tries
    BY <1>1 DEF Settings, TypeOK
  <2>10. active' \in BOOLEAN /\ cancelled' \in BOOLEAN
    BY <1>1 DEF Settings, TypeOK
  <2>11. target' \in Paths \cup {None} /\ for' \in Callers \cup {None}
    BY <1>1 DEF Settings, TypeOK
  <2>12. pc' \in Steps \cup Terminal
    BY <1>1 DEF Settings, Steps
  <2>13. raised' \subseteq Faults
    BY <1>1 DEF Settings, TypeOK
  <2>14. excuse' \in Excuses
    BY <1>1 DEF Settings, TypeOK
  <2>15. QED
    BY <2>1, <2>2, <2>3, <2>4, <2>5, <2>6, <2>7, <2>8, <2>9, <2>10, <2>11,
       <2>12, <2>13, <2>14 DEF TypeOK
<1>3. ListInv'
  <2>1. \/ UNCHANGED <<active, cancelled>> /\ raised' = raised
        \/ UNCHANGED <<active, cancelled>> /\ raised' = raised \cup {"torrent"}
        \/ ~active' /\ (cancelled' \/ raised' \ {"torrent"} # {})
    BY <1>1 DEF Settings
  <2>2. (pc' \in {"stopped", "failed"} => ~active')
        /\ (Starting' \/ pc' = "installed" => active')
    BY <1>1 DEF Settings, Starting
  <2>3. QED
    BY <1>1, <2>1, <2>2, ListKept
<1>4. PathInv'
  BY <1>1 DEF Settings, media, PathInv, Starting, CheckFor, Checking
<1>5. CdInv'
  BY <1>1 DEF Settings, CdInv, CheckFor, Checking
<1>6. MirrorInv'
  BY <1>1 DEF Settings, MirrorInv, Downloading, CheckFor, Checking
<1>7. CacheInv'
  <2>1. \A p \in Local : file'[p] \in {file[p], None}
    BY <1>1 DEF Settings, Paths, Local
  <2>2. \A p \in Paths : \/ listing'[p] = listing[p]
                         \/ file[p] # None /\ listing'[p] = Listed(p)
    BY <1>1 DEF Settings
  <2>3. QED
    BY <1>1, <2>1, <2>2, CacheKept
<1>8. ListingInv'
  BY <1>1 DEF Settings, ListingInv, Starting, Downloading, CheckFor, Checking,
     Terminal
<1>9. DistroInv'
  <2>1. distro' # None /\ pc' = "get_prespecified_iso"
    BY <1>1 DEF Settings, DistroInv, Starting
  <2>2. QED
    BY <2>1 DEF DistroInv, Starting
<1>10. RejectedInv'
  <2>1. UNCHANGED <<rejected, input>> /\ (check_arch => distro' = distro \/ rejected = {})
        /\ (Starting' => Starting) /\ (pc' = "copy" => target' \notin rejected)
    BY <1>1 DEF Settings, Starting, RejectedInv
  <2>2. \A p \in rejected : file'[p] = file[p]
    BY <1>1 DEF Settings, TypeOK, Paths, Local
  <2>3. \A d \in Distros : metalink[d] = "hash" => metalink'[d] = "hash"
    BY <1>1 DEF Settings
  <2>4. QED
    BY <1>1, <2>1, <2>2, <2>3, RejectedKept
<1>11. AcceptedInv'
  BY <1>1 DEF Settings, AcceptedInv
<1>12. QED
  BY <1>2, <1>3, <1>4, <1>5, <1>6, <1>7, <1>8, <1>9, <1>10, <1>11 DEF IInv

\* check_iso: is_valid_iso and set_distro_from_arch.
LEMMA ValidateKeeps ==
  ASSUME IInv, Validate
  PROVE  IInv'
<1>1. TypeOK /\ ListInv /\ PathInv /\ CdInv /\ MirrorInv /\ CacheInv /\ ListingInv
      /\ DistroInv /\ RejectedInv /\ AcceptedInv
  BY DEF IInv
<1>2. pc = "validate" /\ Checking /\ target \in Paths
      /\ (target \in Local \/ (for = "use_cd" /\ target = "installation.iso")
                          \/ (for = "download_iso" /\ target = "saved"))
  BY <1>1, LocalPaths DEF Validate, Checking, PathInv, CheckFor, Callers
<1>3. /\ listing' \in [Paths -> Images \cup {NoAnswer, Unasked}]
      /\ \A q \in Paths \ {target} : listing'[q] = listing[q]
      /\ \/ listing'[target] = listing[target]
         \/ file[target] # None /\ active /\ listing'[target] = Listed(target)
  <2>1. CASE ~active
    BY <1>1, <2>1 DEF Validate, TypeOK
  <2>2. CASE active
    BY <1>1, <1>2, <2>2, HeardIs DEF Validate
  <2>3. QED
    BY <2>1, <2>2
<1> DEFINE Found == active /\ file[target] # None /\ Listed(target) # NoAnswer
                    /\ distro' = DistroFor(Listed(target))
<1>4. \/ Reject /\ UNCHANGED <<distro, active, raised>>
      \/ Reject /\ UNCHANGED distro /\ Raise("listing")
      \/ Reject /\ Raise("arch") /\ Found /\ ~skipMd5
      \/ Accept("skipped") /\ UNCHANGED <<active, raised>> /\ Found /\ skipMd5
      \/ /\ pc' = "metalink" /\ UNCHANGED <<active, raised, excuse, isoPath>>
         /\ Found /\ ~skipMd5 /\ distro' # None
  BY DEF Validate, Exists
<1>5. Found =>
                /\ Listed(target) \in Readable /\ distro # None
                /\ target \in Local => file[target] = Listed(target)
                /\ for = "use_cd" /\ file[target] \in Readable => file[target] = Listed(target)
  <2> SUFFICES ASSUME Found PROVE
                /\ Listed(target) \in Readable /\ distro # None
                /\ target \in Local => file[target] = Listed(target)
                /\ for = "use_cd" /\ file[target] \in Readable => file[target] = Listed(target)
    OBVIOUS
  <2>1. Listed(target) # Garbage
    BY <1>1, <1>2 DEF Listed, CacheInv
  <2>2. Listed(target) \in Readable
    BY <1>1, <1>2, <2>1, ListedIs
  <2>3. distro # None
    BY <1>1, <1>2 DEF DistroInv, Starting, Terminal
  <2>4. listing[target] \in {Unasked, Answer(target)} => Listed(target) = file[target]
    <3>1. listing[target] \in {Unasked, Answer(target)} => Listed(target) = Answer(target)
      BY <1>1, <1>2, ListedIs
    <3>2. QED
      BY <3>1 DEF Answer
  <2>5. target \in Local => listing[target] \in {Unasked, Answer(target)}
    BY <1>1 DEF CacheInv
  <2>6. for = "use_cd" => listing[target] = Unasked
    BY <1>1, <1>2 DEF ListingInv, CheckFor, PathInv
  <2>7. QED
    BY <2>2, <2>3, <2>4, <2>5, <2>6
<1>6. Found /\ distro' # None =>
                                /\ check_arch => distro' = distro
                                /\ ~check_arch => Arch[distro'] = Listed(target).arch
  <2> SUFFICES ASSUME Found, distro' # None
               PROVE  /\ check_arch => distro' = distro
                      /\ ~check_arch => Arch[distro'] = Listed(target).arch
    OBVIOUS
  <2>1. distro # None /\ Listed(target) \in Readable
    BY <1>5
  <2>2. /\ check_arch => DistroFor(Listed(target)) = distro
        /\ ~check_arch /\ DistroFor(Listed(target)) # None =>
             Arch[DistroFor(Listed(target))] = Listed(target).arch
    BY <1>1, <2>1, DistroForIs
  <2>3. QED
    BY <2>2
<1>7. Found /\ ~check_arch /\ for = "download_iso" =>
         \/ file[target] = Listed(target)
         \/ ~skipMd5 /\ distro' = distro /\ metalink[distro] = "hash"
  <2> SUFFICES ASSUME Found, ~check_arch, for = "download_iso", listing[target] # Unasked
               PROVE  ~skipMd5 /\ distro' = distro /\ metalink[distro] = "hash"
    BY <1>1, <1>2, ListedIs DEF Listed
  <2>1. Downloading /\ CheckFor("download_iso") /\ target = "saved" /\ active
    BY <1>1, <1>2 DEF Downloading, CheckFor, PathInv
  <2>2. Listed(target) = listing[target] /\ listing[target] \in Readable
    BY <1>5 DEF Listed
  <2>3. Arch[distro] = listing[target].arch /\ metalink[distro] = "hash" /\ ~skipMd5
    BY <1>1, <1>2, <2>1, <2>2 DEF ListingInv
  <2>4. distro' = distro
    BY <2>2, <2>3 DEF DistroFor
  <2>5. QED
    BY <2>3, <2>4
<1>8. Found /\ distro' # None /\ ~check_arch /\ file[target] \in Readable =>
        \/ Is64(file[target].arch) = Is64(Arch[distro'])
        \/ for = "download_iso" /\ ~skipMd5 /\ metalink[distro'] = "hash"
  <2>1. CASE target \in Local
    BY <1>5, <1>6, <2>1
  <2>2. CASE for = "use_cd"
    BY <1>5, <1>6, <2>2
  <2>3. CASE for = "download_iso"
    BY <1>6, <1>7, <2>3
  <2>4. QED
    BY <1>2, <2>1, <2>2, <2>3
<1>9. Reject => pc' \in {"use_cd", "excuse", "download_iso", "discard"}
  BY <1>1, <1>2, RejectKeeps
<1>10. Onward /\ (active' => active)
  BY <1>1, <1>2, <1>4, OnwardIs DEF Raise, Onward
<1>11. UNCHANGED <<file, input, isoDistro, cdPath, cdDistro, metalink, hashed, left,
                   target, for, cancelled, rejected>>
  BY DEF Validate
<1>12. Reject /\ active' =>
         distro' = distro /\ (file[target] = None \/ Listed(target) = NoAnswer)
  <2> SUFFICES ASSUME Reject, active'
               PROVE  distro' = distro /\ (file[target] = None \/ Listed(target) = NoAnswer)
    OBVIOUS
  <2>1. target # None /\ pc' \notin {"metalink", "copy", "extract_kernel"}
    BY <1>2, <1>9, MarkerAssumption
  <2>2. ~Raise("listing") /\ ~Raise("arch") /\ ~Accept("skipped")
    BY <2>1 DEF Raise, Accept
  <2>3. active /\ ~(active /\ Exists(target) /\ (PoisonedList(target) \/ Listed(target) # NoAnswer))
        /\ distro' = distro
    BY <1>10, <2>1, <2>2 DEF Validate
  <2>4. QED
    BY <2>1, <2>3 DEF Exists
<1> HIDE DEF Found
<1>15. TypeOK'
  <2>1. file' \in [Paths -> Images \cup {None}]
    BY <1>1 DEF Validate, TypeOK
  <2>2. listing' \in [Paths -> Images \cup {NoAnswer, Unasked}]
    BY <1>3
  <2>3. arch' \in CpuArch /\ skipMd5' \in BOOLEAN
    BY <1>1 DEF Validate, input, TypeOK
  <2>4. distro' \in Distros \cup {None} /\ isoDistro' \in Distros \cup {None}
    <3>1. distro' = distro \/ distro' = DistroFor(Listed(target))
      BY DEF Validate
    <3>2. QED
      BY <1>1, <1>11, <3>1, DistroForTyped DEF TypeOK
  <2>5. cdDistro' \in Distros \cup {None}
    BY <1>1 DEF Validate, TypeOK
  <2>6. isoPath' \in Paths \cup {None} /\ cdPath' \in {"cd", None}
    BY <1>1 DEF Validate, Reject, Accept, TypeOK, Paths, Installed
  <2>7. metalink' \in [Distros -> {"none", "hash", "no hash"}]
    BY <1>1 DEF Validate, TypeOK
  <2>8. hashed' \subseteq Local /\ rejected' \subseteq Local
    BY <1>1 DEF Validate, TypeOK
  <2>9. left' \in 0..Tries
    BY <1>1 DEF Validate, TypeOK
  <2>10. active' \in BOOLEAN /\ cancelled' \in BOOLEAN
    BY <1>1, RaiseIs DEF Validate, TypeOK, Faults
  <2>11. target' \in Paths \cup {None} /\ for' \in Callers \cup {None}
    BY <1>1 DEF Validate, TypeOK
  <2>12. pc' \in Steps \cup Terminal
    BY <1>1 DEF Validate, Reject, Accept, Steps, Callers, PathInv, Checking
  <2>13. raised' \subseteq Faults
    BY <1>1, RaiseIs DEF Validate, TypeOK, Faults
  <2>14. excuse' \in Excuses
    BY <1>1 DEF Validate, Reject, Accept, TypeOK, Excuses
  <2>15. QED
    BY <2>1, <2>2, <2>3, <2>4, <2>5, <2>6, <2>7, <2>8, <2>9, <2>10, <2>11,
       <2>12, <2>13, <2>14 DEF TypeOK
<1>16. ListInv'
  <2>1. \/ UNCHANGED <<active, cancelled>> /\ raised' = raised
        \/ UNCHANGED <<active, cancelled>> /\ raised' = raised \cup {"torrent"}
        \/ ~active' /\ (cancelled' \/ raised' \ {"torrent"} # {})
    BY <1>1, RaiseIs DEF Validate, Faults
  <2>2. (pc' \in {"stopped", "failed"} => ~active')
        /\ (Starting' \/ pc' = "installed" => active')
    BY <1>1 DEF Validate, Reject, Accept, Starting, PathInv, Checking, Callers
  <2>3. QED
    BY <1>1, <2>1, <2>2, ListKept
<1>17. PathInv'
  BY <1>1, <1>2, <1>10, <1>11, OnwardKeeps
<1>18. CdInv'
  BY <1>1, <1>2, <1>10, <1>11, OnwardKeeps
<1>19. MirrorInv'
  BY <1>1, <1>2, <1>10, <1>11, OnwardKeeps
<1>20. CacheInv'
  <2>1. \A p \in Local : file'[p] \in {file[p], None}
    BY <1>1 DEF Validate
  <2>2. \A p \in Paths : \/ listing'[p] = listing[p]
                         \/ file[p] # None /\ listing'[p] = Listed(p)
    BY <1>1, <1>3
  <2>3. QED
    BY <1>1, <2>1, <2>2, CacheKept
<1>21. ListingInv'
  <2>1. for = "download_iso" => target = "saved" /\ Downloading
    BY <1>1, <1>2 DEF CheckFor, PathInv, Downloading
  <2>2. listing'["saved"] = listing["saved"] \/ for = "download_iso"
    BY <1>2, <1>3, LocalPaths
  <2>3. listing'["installation.iso"] = listing["installation.iso"] \/ for # "get_prespecified_iso"
    BY <1>2, <1>3, LocalPaths
  <2>4. ASSUME for = "download_iso", active', listing'["saved"] \in Readable, pc' # "extract_kernel"
        PROVE  /\ ~check_arch' => Arch[distro'] = listing'["saved"].arch
               /\ pc' = "discard" => metalink'[distro'] = "hash" /\ ~skipMd5'
    <3>1. target = "saved" /\ Downloading /\ pc = "validate" /\ active
      BY <1>2, <1>10, <2>1, <2>4
    <3>2. CASE Reject
      <4>1. distro' = distro /\ listing'["saved"] = listing["saved"]
        <5>1. distro' = distro /\ (file["saved"] = None \/ Listed("saved") = NoAnswer)
          BY <1>12, <2>4, <3>1, <3>2
        <5>2. listing'["saved"] = listing["saved"]
          BY <1>3, <2>4, <3>1, <5>1, LocalPaths, MarkerAssumption
        <5>3. QED
          BY <5>1, <5>2
      <4>2. QED
        BY <1>1, <1>11, <2>4, <3>1, <4>1 DEF ListingInv, input, check_arch
    <3>3. CASE pc' = "metalink"
      <4>1. Found /\ distro' # None
        BY <1>4, <1>9, <2>4, <3>3 DEF Accept
      <4>2. listing'["saved"] = Listed(target)
        BY <1>1, <1>2, <3>1, <4>1, HeardIs DEF Found, Validate
      <4>3. QED
        BY <1>6, <1>11, <3>3, <4>1, <4>2 DEF input, check_arch
    <3>4. QED
      BY <1>4, <2>4, <3>2, <3>3 DEF Accept
  <2>5. QED
    BY <1>1, <1>2, <1>10, <1>11, <2>2, <2>3, <2>4, OnwardCaches
<1>22. DistroInv'
  <2>1. ~Starting' /\ pc' # "md5"
    BY <1>4, <1>9 DEF Starting, Accept
  <2>2. CASE pc' = "metalink"
    <3>1. Found /\ ~skipMd5 /\ distro' # None
      BY <1>4, <1>9, <2>2 DEF Accept
    <3>2. target \in Local => file[target] \in Readable /\ file[target] = Listed(target)
      BY <1>5, <3>1
    <3>3. target \in Local /\ ~check_arch => Arch[distro'] = file[target].arch
      BY <1>6, <3>1, <3>2
    <3>4. QED
      BY <1>8, <1>11, <2>1, <2>2, <3>1, <3>2, <3>3 DEF DistroInv, input,
         check_arch
  <2>3. CASE pc' # "metalink"
    <3>1. Accept("skipped") => pc' \in {"copy", "extract_kernel"}
      BY DEF Accept
    <3>2. Accept("skipped") \/ distro' = distro \/ active' = FALSE
      BY <1>4, <2>3 DEF Raise
    <3>3. active => distro # None
      BY <1>1, <1>2 DEF DistroInv, Starting, Terminal
    <3>4. QED
      BY <1>10, <2>1, <2>3, <3>1, <3>2, <3>3 DEF DistroInv
  <2>4. QED
    BY <2>2, <2>3
<1>23. RejectedInv'
  <2>1. UNCHANGED <<rejected, input>> /\ (check_arch => distro' = distro \/ rejected = {})
        /\ (Starting' => Starting) /\ (pc' = "copy" => target' \notin rejected)
    <3>1. check_arch => distro' = distro \/ rejected = {}
      BY <1>4 DEF Found, DistroFor
    <3>2. pc' = "copy" => target' \notin rejected
      BY <1>1, <1>4, <1>9, <1>11 DEF RejectedInv
    <3>3. ~Starting'
      BY <1>4, <1>9 DEF Starting, Accept
    <3>4. QED
      BY <1>11, <3>1, <3>2, <3>3
  <2>2. \A p \in rejected : file'[p] = file[p]
    BY <1>1 DEF Validate
  <2>3. \A d \in Distros : metalink[d] = "hash" => metalink'[d] = "hash"
    BY <1>1 DEF Validate
  <2>4. QED
    BY <1>1, <2>1, <2>2, <2>3, RejectedKept
<1>24. AcceptedInv'
  <2>1. CASE Reject
    BY <1>1, <1>2, <2>1, RejectKeeps
  <2>2. CASE Accept("skipped") /\ Found /\ skipMd5
    BY <1>1, <1>2, <1>8, <1>10, <1>11, <2>2, AcceptKeeps
  <2>3. CASE pc' = "metalink"
    BY <2>3 DEF AcceptedInv
  <2>4. QED
    BY <1>4, <2>1, <2>2, <2>3
<1>25. QED
  BY <1>15, <1>16, <1>17, <1>18, <1>19, <1>20, <1>21, <1>22, <1>23, <1>24 DEF
     IInv

\* check_iso: the metalink.
LEMMA CheckMetalinkKeeps ==
  ASSUME IInv, CheckMetalink
  PROVE  IInv'
<1>1. TypeOK /\ ListInv /\ PathInv /\ CdInv /\ MirrorInv /\ CacheInv /\ ListingInv
      /\ DistroInv /\ RejectedInv /\ AcceptedInv
  BY DEF IInv
<1>2. pc = "metalink" /\ Checking /\ distro \in Distros /\ ~skipMd5
  BY <1>1 DEF CheckMetalink, Checking, DistroInv, TypeOK
<1>3. UNCHANGED <<file, listing, input, distro, isoDistro, cdPath, cdDistro, hashed, left,
                  target, for, cancelled, rejected>>
  BY DEF CheckMetalink
<1>4. /\ metalink' \in [Distros -> {"none", "hash", "no hash"}]
      /\ \A d \in Distros : metalink[d] = "hash" => metalink'[d] = "hash"
  <2>1. metalink' = metalink \/ \E m \in Metalinks : metalink' = [metalink EXCEPT ![distro] = m]
    BY DEF CheckMetalink, MetalinkRaises
  <2>2. QED
    BY <1>1, <1>2, <2>1, MetalinksAre DEF TypeOK
<1>5. \/ /\ Accept("no metalink") \/ Accept("no hash")
         /\ active' => active /\ metalink'[distro] # "hash"
         /\ metalink[distro] # "hash"
      \/ /\ pc' = "md5" /\ metalink'[distro] = "hash"
         /\ UNCHANGED <<excuse, isoPath, active, raised>>
  <2>1. CASE MetalinkRaises /\ Accept("no metalink")
    BY <2>1 DEF MetalinkRaises
  <2>2. ASSUME NEW m \in Metalinks, metalink' = [metalink EXCEPT ![distro] = m],
               \/ m = "none" /\ Accept("no metalink")
               \/ m = "no hash" /\ Accept("no hash")
               \/ m = "hash" /\ pc' = "md5" /\ UNCHANGED <<excuse, isoPath>>,
               UNCHANGED <<active, raised>>
        PROVE  \/ /\ Accept("no metalink") \/ Accept("no hash")
                  /\ active' => active /\ metalink'[distro] # "hash"
                  /\ metalink[distro] # "hash"
               \/ /\ pc' = "md5" /\ metalink'[distro] = "hash"
                  /\ UNCHANGED <<excuse, isoPath, active, raised>>
    <3>1. metalink'[distro] = m
      BY <1>1, <1>2, <2>2 DEF TypeOK
    <3>2. m # "hash" => metalink[distro] # "hash"
      BY <1>1, <1>2, MetalinksAre
    <3>3. QED
      BY <2>2, <3>1, <3>2
  <2>3. QED
    BY <2>1, <2>2 DEF CheckMetalink
<1>6. Onward /\ (active' => active)
  <2>1. active' => active
    BY <1>5
  <2>2. CASE pc' = "md5" /\ UNCHANGED <<excuse, isoPath, active, raised>>
    BY <2>1, <2>2 DEF Onward
  <2>3. CASE Accept("no metalink") \/ Accept("no hash")
    <3>1. Onward
      BY <1>1, <1>2, <2>3, OnwardIs
    <3>2. QED
      BY <2>1, <3>1
  <2>4. QED
    BY <1>5, <2>1, <2>2, <2>3
<1>7. target \in rejected => metalink[distro] = "hash"
  BY <1>1, <1>2 DEF RejectedInv, DistroInv, TypeOK
<1>9. TypeOK'
  <2>1. file' \in [Paths -> Images \cup {None}]
    BY <1>1 DEF CheckMetalink, TypeOK
  <2>2. listing' \in [Paths -> Images \cup {NoAnswer, Unasked}]
    BY <1>1 DEF CheckMetalink, TypeOK
  <2>3. arch' \in CpuArch /\ skipMd5' \in BOOLEAN
    BY <1>1 DEF CheckMetalink, input, TypeOK
  <2>4. distro' \in Distros \cup {None} /\ isoDistro' \in Distros \cup {None}
    BY <1>1 DEF CheckMetalink, TypeOK
  <2>5. cdDistro' \in Distros \cup {None}
    BY <1>1 DEF CheckMetalink, TypeOK
  <2>6. isoPath' \in Paths \cup {None} /\ cdPath' \in {"cd", None}
    BY <1>1 DEF CheckMetalink, Accept, TypeOK, Paths, Installed
  <2>7. metalink' \in [Distros -> {"none", "hash", "no hash"}]
    BY <1>4
  <2>8. hashed' \subseteq Local /\ rejected' \subseteq Local
    BY <1>1 DEF CheckMetalink, TypeOK
  <2>9. left' \in 0..Tries
    BY <1>1 DEF CheckMetalink, TypeOK
  <2>10. active' \in BOOLEAN /\ cancelled' \in BOOLEAN
    BY <1>1, RaiseIs DEF CheckMetalink, MetalinkRaises, TypeOK, Faults
  <2>11. target' \in Paths \cup {None} /\ for' \in Callers \cup {None}
    BY <1>1 DEF CheckMetalink, TypeOK
  <2>12. pc' \in Steps \cup Terminal
    BY <1>1 DEF CheckMetalink, Accept, Steps
  <2>13. raised' \subseteq Faults
    BY <1>1, RaiseIs DEF CheckMetalink, MetalinkRaises, TypeOK, Faults
  <2>14. excuse' \in Excuses
    BY <1>1 DEF CheckMetalink, Accept, TypeOK, Excuses
  <2>15. QED
    BY <2>1, <2>2, <2>3, <2>4, <2>5, <2>6, <2>7, <2>8, <2>9, <2>10, <2>11,
       <2>12, <2>13, <2>14 DEF TypeOK
<1>10. ListInv'
  <2>1. \/ UNCHANGED <<active, cancelled>> /\ raised' = raised
        \/ UNCHANGED <<active, cancelled>> /\ raised' = raised \cup {"torrent"}
        \/ ~active' /\ (cancelled' \/ raised' \ {"torrent"} # {})
    BY <1>1, <1>3, RaiseIs DEF CheckMetalink, MetalinkRaises, Faults
  <2>2. (pc' \in {"stopped", "failed"} => ~active')
        /\ (Starting' \/ pc' = "installed" => active')
    BY <1>1 DEF CheckMetalink, Accept, Starting
  <2>3. QED
    BY <1>1, <2>1, <2>2, ListKept
<1>11. PathInv'
  BY <1>1, <1>2, <1>3, <1>6, OnwardKeeps
<1>12. CdInv'
  BY <1>1, <1>2, <1>3, <1>6, OnwardKeeps
<1>13. MirrorInv'
  BY <1>1, <1>2, <1>3, <1>6, OnwardKeeps
<1>14. CacheInv'
  <2>1. \A p \in Local : file'[p] \in {file[p], None}
    BY <1>1 DEF CheckMetalink
  <2>2. \A p \in Paths : \/ listing'[p] = listing[p]
                         \/ file[p] # None /\ listing'[p] = Listed(p)
    BY <1>1 DEF CheckMetalink
  <2>3. QED
    BY <1>1, <2>1, <2>2, CacheKept
<1>15. ListingInv'
  <2>1. for = "download_iso" => Downloading
    BY <1>2 DEF CheckFor, Downloading
  <2>2. for = "download_iso" /\ active' /\ listing'["saved"] \in Readable =>
          (~check_arch' => Arch[distro'] = listing'["saved"].arch)
    BY <1>1, <1>3, <1>6, <2>1 DEF ListingInv, input, check_arch
  <2>3. pc' # "discard"
    BY <1>5 DEF Accept
  <2>4. QED
    BY <1>1, <1>2, <1>3, <1>6, <2>2, <2>3, OnwardCaches
<1>16. DistroInv'
  <2>1. CASE pc' = "md5"
    BY <1>1, <1>2, <1>3, <1>5, <2>1 DEF DistroInv, input, check_arch, Starting,
       Accept
  <2>2. CASE pc' # "md5"
    <3>1. Accept("no metalink") \/ Accept("no hash")
      BY <1>5, <2>2
    <3>2. pc' \in {"copy", "extract_kernel"}
      BY <3>1 DEF Accept
    <3>3. QED
      BY <3>2 DEF DistroInv, Starting
  <2>3. QED
    BY <2>1, <2>2
<1>17. RejectedInv'
  <2>1. UNCHANGED <<rejected, input>> /\ (check_arch => distro' = distro \/ rejected = {})
        /\ (Starting' => Starting) /\ (pc' = "copy" => target' \notin rejected)
    BY <1>1, <1>3, <1>5, <1>7, <1>6 DEF Starting, Accept
  <2>2. \A p \in rejected : file'[p] = file[p]
    BY <1>1 DEF CheckMetalink
  <2>3. \A d \in Distros : metalink[d] = "hash" => metalink'[d] = "hash"
    BY <1>4
  <2>4. QED
    BY <1>1, <2>1, <2>2, <2>3, RejectedKept
<1>18. AcceptedInv'
  <2>1. active /\ ~check_arch /\ file[target] \in Readable /\ metalink[distro] # "hash" =>
          Is64(file[target].arch) = Is64(Arch[distro])
    BY <1>1, <1>2 DEF DistroInv
  <2>2. ASSUME NEW why \in {"no metalink", "no hash"}, Accept(why),
               active' => active /\ metalink'[distro] # "hash",
               metalink[distro] # "hash"
        PROVE  AcceptedInv'
    BY <1>1, <1>2, <1>3, <2>1, <2>2, AcceptKeeps
  <2>3. CASE pc' = "md5"
    BY <2>3 DEF AcceptedInv
  <2>4. QED
    BY <1>5, <2>2, <2>3
<1>19. QED
  BY <1>9, <1>10, <1>11, <1>12, <1>13, <1>14, <1>15, <1>16, <1>17, <1>18 DEF
     IInv

\* check_iso: the md5.
LEMMA CheckMd5Keeps ==
  ASSUME IInv, CheckMd5
  PROVE  IInv'
<1>1. TypeOK /\ ListInv /\ PathInv /\ CdInv /\ MirrorInv /\ CacheInv /\ ListingInv
      /\ DistroInv /\ RejectedInv /\ AcceptedInv
  BY DEF IInv
<1>2. pc = "md5" /\ Checking /\ distro \in Distros /\ ~skipMd5 /\ metalink[distro] = "hash"
  BY <1>1 DEF CheckMd5, Checking, DistroInv, TypeOK
<1>3. UNCHANGED <<file, listing, input, distro, isoDistro, cdPath, cdDistro, metalink,
                  left, target, for, active, cancelled, raised>>
  BY DEF CheckMd5
<1>4. \/ Accept("none") /\ Md5Is(file[target], distro) /\ rejected' = rejected
      \/ Reject /\ rejected' = rejected
      \/ /\ Reject /\ rejected' = rejected \cup ({target} \cap Local)
         /\ ~Md5Is(file[target], distro)
  BY DEF CheckMd5
<1>5. Onward /\ (active' => active)
  BY <1>1, <1>2, <1>3, <1>4, OnwardIs
<1>7. pc' \notin {"metalink", "md5"} /\ ~Starting'
  BY <1>1, <1>2, <1>4, RejectKeeps DEF Accept, Starting
<1>8. TypeOK'
  <2>1. file' \in [Paths -> Images \cup {None}]
    BY <1>1 DEF CheckMd5, TypeOK
  <2>2. listing' \in [Paths -> Images \cup {NoAnswer, Unasked}]
    BY <1>1 DEF CheckMd5, TypeOK
  <2>3. arch' \in CpuArch /\ skipMd5' \in BOOLEAN
    BY <1>1 DEF CheckMd5, input, TypeOK
  <2>4. distro' \in Distros \cup {None} /\ isoDistro' \in Distros \cup {None}
    BY <1>1 DEF CheckMd5, TypeOK
  <2>5. cdDistro' \in Distros \cup {None}
    BY <1>1 DEF CheckMd5, TypeOK
  <2>6. isoPath' \in Paths \cup {None} /\ cdPath' \in {"cd", None}
    BY <1>1 DEF CheckMd5, Accept, Reject, TypeOK, Paths, Installed
  <2>7. metalink' \in [Distros -> {"none", "hash", "no hash"}]
    BY <1>1 DEF CheckMd5, TypeOK
  <2>8. hashed' \subseteq Local /\ rejected' \subseteq Local
    BY <1>1 DEF CheckMd5, Remembered, TypeOK, Installed, CheckFor, Checking,
       PathInv, Callers
  <2>9. left' \in 0..Tries
    BY <1>1 DEF CheckMd5, TypeOK
  <2>10. active' \in BOOLEAN /\ cancelled' \in BOOLEAN
    BY <1>1 DEF CheckMd5, TypeOK
  <2>11. target' \in Paths \cup {None} /\ for' \in Callers \cup {None}
    BY <1>1 DEF CheckMd5, TypeOK
  <2>12. pc' \in Steps \cup Terminal
    BY <1>1 DEF CheckMd5, Accept, Reject, Steps, Callers, PathInv, Checking
  <2>13. raised' \subseteq Faults
    BY <1>1 DEF CheckMd5, TypeOK
  <2>14. excuse' \in Excuses
    BY <1>1 DEF CheckMd5, Accept, Reject, TypeOK, Excuses
  <2>15. QED
    BY <2>1, <2>2, <2>3, <2>4, <2>5, <2>6, <2>7, <2>8, <2>9, <2>10, <2>11,
       <2>12, <2>13, <2>14 DEF TypeOK
<1>9. ListInv'
  <2>1. \/ UNCHANGED <<active, cancelled>> /\ raised' = raised
        \/ UNCHANGED <<active, cancelled>> /\ raised' = raised \cup {"torrent"}
        \/ ~active' /\ (cancelled' \/ raised' \ {"torrent"} # {})
    BY <1>1 DEF CheckMd5
  <2>2. (pc' \in {"stopped", "failed"} => ~active')
        /\ (Starting' \/ pc' = "installed" => active')
    BY <1>1 DEF CheckMd5, Accept, Reject, Starting, PathInv, Checking, Callers
  <2>3. QED
    BY <1>1, <2>1, <2>2, ListKept
<1>10. PathInv'
  BY <1>1, <1>2, <1>3, <1>5, OnwardKeeps
<1>11. CdInv'
  BY <1>1, <1>2, <1>3, <1>5, OnwardKeeps
<1>12. MirrorInv'
  BY <1>1, <1>2, <1>3, <1>5, OnwardKeeps
<1>13. CacheInv'
  <2>1. \A p \in Local : file'[p] \in {file[p], None}
    BY <1>1 DEF CheckMd5
  <2>2. \A p \in Paths : \/ listing'[p] = listing[p]
                         \/ file[p] # None /\ listing'[p] = Listed(p)
    BY <1>1 DEF CheckMd5
  <2>3. QED
    BY <1>1, <2>1, <2>2, CacheKept
<1>14. ListingInv'
  <2>1. for = "download_iso" => Downloading
    BY <1>2 DEF CheckFor, Downloading
  <2>2. for = "download_iso" /\ active' /\ listing'["saved"] \in Readable =>
          /\ ~check_arch' => Arch[distro'] = listing'["saved"].arch
          /\ metalink'[distro'] = "hash" /\ ~skipMd5'
    BY <1>1, <1>2, <1>3, <1>5, <2>1 DEF ListingInv, input, check_arch
  <2>3. QED
    BY <1>1, <1>2, <1>3, <1>5, <2>2, OnwardCaches
<1>15. DistroInv'
  BY <1>2, <1>3, <1>7, IsolistAssumption DEF DistroInv
<1>16. RejectedInv'
  <2>1. \A d \in Distros :
          target \in Local /\ (IF check_arch THEN d = distro ELSE Arch[d] = file[target].arch) =>
            d = distro
    BY <1>1, <1>2, IsolistAssumption DEF DistroInv
  <2>2. \A p \in rejected' : p \in rejected \/ (p = target /\ p \in Local /\ ~Md5Is(file[p], distro))
    BY <1>4
  <2>3. ASSUME NEW p \in rejected'
        PROVE  /\ ~skipMd5 /\ file[p] \in Readable
               /\ \A d \in Distros :
                    (IF check_arch THEN d = distro ELSE Arch[d] = file[p].arch) =>
                      metalink[d] = "hash" /\ ~Md5Is(file[p], d)
    <3>1. CASE p \in rejected
      BY <1>1, <3>1 DEF RejectedInv
    <3>2. CASE p = target /\ p \in Local /\ ~Md5Is(file[p], distro)
      BY <1>1, <1>2, <2>1, <3>2 DEF DistroInv
    <3>3. QED
      BY <2>2, <3>1, <3>2
  <2>4. target \in rejected => ~Md5Is(file[target], distro)
    BY <1>1, <1>2 DEF RejectedInv, DistroInv, TypeOK
  <2>5. pc' = "copy" => target \notin rejected'
    BY <1>1, <1>2, <1>4, <2>4, RejectKeeps
  <2>6. QED
    BY <1>3, <1>7, <2>3, <2>5 DEF RejectedInv, RejectedStaysOut, input,
       check_arch
<1>17. AcceptedInv'
  <2>1. Md5Is(file[target], distro) => Is64(file[target].arch) = Is64(Arch[distro])
    BY DEF Md5Is
  <2>2. CASE Accept("none") /\ Md5Is(file[target], distro)
    BY <1>1, <1>2, <1>3, <2>1, <2>2, AcceptKeeps
  <2>3. CASE Reject
    BY <1>1, <1>2, <2>3, RejectKeeps
  <2>4. QED
    BY <1>4, <2>2, <2>3
<1>18. QED
  BY <1>8, <1>9, <1>10, <1>11, <1>12, <1>13, <1>14, <1>15, <1>16, <1>17 DEF
     IInv

\* get_prespecified_iso.
LEMMA GetPrespecifiedIsoKeeps ==
  ASSUME IInv, GetPrespecifiedIso
  PROVE  IInv'
<1>1. TypeOK /\ ListInv /\ PathInv /\ CdInv /\ MirrorInv /\ CacheInv /\ ListingInv
      /\ DistroInv /\ RejectedInv /\ AcceptedInv
  BY DEF IInv
<1>2. TypeOK'
  <2>1. file' \in [Paths -> Images \cup {None}]
    BY <1>1 DEF GetPrespecifiedIso, TypeOK
  <2>2. listing' \in [Paths -> Images \cup {NoAnswer, Unasked}]
    BY <1>1 DEF GetPrespecifiedIso, TypeOK
  <2>3. arch' \in CpuArch /\ skipMd5' \in BOOLEAN
    BY <1>1 DEF GetPrespecifiedIso, input, TypeOK
  <2>4. distro' \in Distros \cup {None} /\ isoDistro' \in Distros \cup {None}
    BY <1>1 DEF GetPrespecifiedIso, TypeOK
  <2>5. cdDistro' \in Distros \cup {None}
    BY <1>1 DEF GetPrespecifiedIso, TypeOK
  <2>6. isoPath' \in Paths \cup {None} /\ cdPath' \in {"cd", None}
    BY <1>1 DEF GetPrespecifiedIso, TypeOK
  <2>7. metalink' \in [Distros -> {"none", "hash", "no hash"}]
    BY <1>1 DEF GetPrespecifiedIso, TypeOK
  <2>8. hashed' \subseteq Local /\ rejected' \subseteq Local
    BY <1>1 DEF GetPrespecifiedIso, TypeOK
  <2>9. left' \in 0..Tries
    BY <1>1 DEF GetPrespecifiedIso, TypeOK
  <2>10. active' \in BOOLEAN /\ cancelled' \in BOOLEAN
    BY <1>1 DEF GetPrespecifiedIso, TypeOK
  <2>11. target' \in Paths \cup {None} /\ for' \in Callers \cup {None}
    BY <1>1 DEF GetPrespecifiedIso, Check, TypeOK, Callers
  <2>12. pc' \in Steps \cup Terminal
    BY <1>1 DEF GetPrespecifiedIso, Check, Steps
  <2>13. raised' \subseteq Faults
    BY <1>1 DEF GetPrespecifiedIso, TypeOK
  <2>14. excuse' \in Excuses
    BY <1>1 DEF GetPrespecifiedIso, TypeOK
  <2>15. QED
    BY <2>1, <2>2, <2>3, <2>4, <2>5, <2>6, <2>7, <2>8, <2>9, <2>10, <2>11,
       <2>12, <2>13, <2>14 DEF TypeOK
<1>3. ListInv'
  <2>1. \/ UNCHANGED <<active, cancelled>> /\ raised' = raised
        \/ UNCHANGED <<active, cancelled>> /\ raised' = raised \cup {"torrent"}
        \/ ~active' /\ (cancelled' \/ raised' \ {"torrent"} # {})
    BY <1>1 DEF GetPrespecifiedIso
  <2>2. (pc' \in {"stopped", "failed"} => ~active')
        /\ (Starting' \/ pc' = "installed" => active')
    BY <1>1 DEF GetPrespecifiedIso, Check, Starting
  <2>3. QED
    BY <1>1, <2>1, <2>2, ListKept
<1>4. PathInv'
  BY <1>1 DEF GetPrespecifiedIso, Exists, Check, PathInv, CheckFor, Checking,
     Callers
<1>5. CdInv'
  BY <1>1 DEF GetPrespecifiedIso, Check, CdInv, CheckFor, Checking
<1>6. MirrorInv'
  BY <1>1 DEF GetPrespecifiedIso, Check, MirrorInv, Downloading, CheckFor,
     Checking
<1>7. CacheInv'
  <2>1. \A p \in Local : file'[p] \in {file[p], None}
    BY <1>1 DEF GetPrespecifiedIso
  <2>2. \A p \in Paths : \/ listing'[p] = listing[p]
                         \/ file[p] # None /\ listing'[p] = Listed(p)
    BY <1>1 DEF GetPrespecifiedIso
  <2>3. QED
    BY <1>1, <2>1, <2>2, CacheKept
<1>8. ListingInv'
  BY <1>1, MarkerAssumption DEF GetPrespecifiedIso, ListingInv, Downloading,
     CheckFor, Checking, Terminal
<1>9. DistroInv'
  BY <1>1 DEF GetPrespecifiedIso, Check, DistroInv, Starting, Terminal
<1>10. RejectedInv'
  <2>1. UNCHANGED <<rejected, input>> /\ (check_arch => distro' = distro \/ rejected = {})
        /\ (Starting' => Starting) /\ (pc' = "copy" => target' \notin rejected)
    BY <1>1 DEF GetPrespecifiedIso, Check, Starting
  <2>2. \A p \in rejected : file'[p] = file[p]
    BY <1>1 DEF GetPrespecifiedIso
  <2>3. \A d \in Distros : metalink[d] = "hash" => metalink'[d] = "hash"
    BY <1>1 DEF GetPrespecifiedIso
  <2>4. QED
    BY <1>1, <2>1, <2>2, <2>3, RejectedKept
<1>11. AcceptedInv'
  BY <1>1 DEF GetPrespecifiedIso, Check, AcceptedInv
<1>12. QED
  BY <1>2, <1>3, <1>4, <1>5, <1>6, <1>7, <1>8, <1>9, <1>10, <1>11 DEF IInv

\* copy_iso.
LEMMA CopyIsoKeeps ==
  ASSUME IInv, CopyIso
  PROVE  IInv'
<1>1. TypeOK /\ ListInv /\ PathInv /\ CdInv /\ MirrorInv /\ CacheInv /\ ListingInv
      /\ DistroInv /\ RejectedInv /\ AcceptedInv
  BY DEF IInv
<1>2. target \in Local /\ target \in Paths
  BY <1>1 DEF CopyIso, PathInv, Paths
<1>3. Copied(target)
  BY <1>1, <1>2, CopyFromIs DEF CopyIso, Faults
<1>4. TypeOK'
  <2>1. file' \in [Paths -> Images \cup {None}]
    BY <1>3 DEF Copied
  <2>2. listing' \in [Paths -> Images \cup {NoAnswer, Unasked}]
    BY <1>1, <1>2, <1>3 DEF CopyIso, TypeOK
  <2>3. arch' \in CpuArch /\ skipMd5' \in BOOLEAN
    BY <1>1, <1>2, <1>3 DEF CopyIso, input, TypeOK
  <2>4. distro' \in Distros \cup {None} /\ isoDistro' \in Distros \cup {None}
    BY <1>1, <1>2, <1>3 DEF CopyIso, TypeOK
  <2>5. cdDistro' \in Distros \cup {None}
    BY <1>1, <1>2, <1>3 DEF CopyIso, TypeOK
  <2>6. isoPath' \in Paths \cup {None} /\ cdPath' \in {"cd", None}
    BY <1>1, <1>2, <1>3 DEF CopyIso, Paths, Installed
  <2>7. metalink' \in [Distros -> {"none", "hash", "no hash"}]
    BY <1>1, <1>2, <1>3 DEF CopyIso, TypeOK
  <2>8. hashed' \subseteq Local /\ rejected' \subseteq Local
    BY <1>1, <1>2, <1>3 DEF CopyIso, TypeOK
  <2>9. left' \in 0..Tries
    BY <1>1, <1>2, <1>3 DEF CopyIso, TypeOK
  <2>10. active' \in BOOLEAN /\ cancelled' \in BOOLEAN
    BY <1>3 DEF Copied
  <2>11. target' \in Paths \cup {None} /\ for' \in Callers \cup {None}
    BY <1>1, <1>2, <1>3 DEF CopyIso, TypeOK
  <2>12. pc' \in Steps \cup Terminal
    BY <1>1, <1>2, <1>3 DEF CopyIso, Steps
  <2>13. raised' \subseteq Faults
    BY <1>3 DEF Copied
  <2>14. excuse' \in Excuses
    BY <1>1, <1>2, <1>3 DEF CopyIso, TypeOK
  <2>15. QED
    BY <2>1, <2>2, <2>3, <2>4, <2>5, <2>6, <2>7, <2>8, <2>9, <2>10, <2>11,
       <2>12, <2>13, <2>14 DEF TypeOK
<1>5. ListInv'
  <2>1. \/ UNCHANGED <<active, cancelled>> /\ raised' = raised
        \/ UNCHANGED <<active, cancelled>> /\ raised' = raised \cup {"torrent"}
        \/ ~active' /\ (cancelled' \/ raised' \ {"torrent"} # {})
    BY <1>3 DEF Copied
  <2>2. (pc' \in {"stopped", "failed"} => ~active')
        /\ (Starting' \/ pc' = "installed" => active')
    BY <1>1, <1>2, <1>3 DEF CopyIso, Starting
  <2>3. QED
    BY <1>1, <2>1, <2>2, ListKept
<1>6. PathInv'
  BY <1>1, MarkerAssumption, <1>2, <1>3 DEF CopyIso, PathInv, Starting,
     CheckFor, Checking, Paths, Installed
<1>7. CdInv'
  BY <1>1, <1>2, <1>3 DEF CopyIso, PathInv, CdInv, CheckFor
<1>8. MirrorInv'
  BY <1>1, <1>2, <1>3 DEF CopyIso, PathInv, MirrorInv, CheckFor
<1>9. CacheInv'
  <2>1. \A p \in Local : file'[p] \in {file[p], None}
    BY <1>2, <1>3 DEF Copied, Local, Paths
  <2>2. \A p \in Paths : \/ listing'[p] = listing[p]
                         \/ file[p] # None /\ listing'[p] = Listed(p)
    BY <1>1, <1>2, <1>3 DEF CopyIso
  <2>3. QED
    BY <1>1, <2>1, <2>2, CacheKept
<1>10. ListingInv'
  BY <1>1 DEF CopyIso, ListingInv, Starting, Downloading, CheckFor, Checking
<1>11. DistroInv'
  BY <1>1, <1>2, <1>3 DEF CopyIso, DistroInv, Starting
<1>12. RejectedInv'
  <2>1. UNCHANGED <<rejected, input>> /\ (check_arch => distro' = distro \/ rejected = {})
        /\ (Starting' => Starting) /\ (pc' = "copy" => target' \notin rejected)
    BY <1>1, <1>2, <1>3 DEF CopyIso, Starting
  <2>2. \A p \in rejected : file'[p] = file[p]
    <3>1. rejected \subseteq Local \ {target}
      BY <1>1 DEF CopyIso, TypeOK, RejectedInv, RejectedStaysOut
    <3>2. Local \subseteq Paths \ {"installation.iso"}
      BY LocalPaths
    <3>3. QED
      BY <1>3, <3>1, <3>2 DEF Copied
  <2>3. \A d \in Distros : metalink[d] = "hash" => metalink'[d] = "hash"
    BY <1>1 DEF CopyIso
  <2>4. QED
    BY <1>1, <2>1, <2>2, <2>3, RejectedKept
<1>13. AcceptedInv'
  <2>1. pc = "copy" /\ pc' = "extract_kernel" /\ cdPath' = None /\ isoPath' = "installation.iso"
        /\ UNCHANGED <<input, distro, metalink, excuse>>
    BY DEF CopyIso
  <2>2. active' => active /\ file'[isoPath'] = file[target] /\ Medium' = file[target]
    BY <1>3, <2>1 DEF Copied, Medium
  <2>3. active' /\ distro' # None => Vouched(file[isoPath])' /\ InLine(Medium)'
    BY <1>1, <2>1, <2>2 DEF AcceptedInv, Vouched, InLine, input, check_arch
  <2>4. QED
    BY <2>1, <2>3 DEF AcceptedInv
<1>14. QED
  BY <1>4, <1>5, <1>6, <1>7, <1>8, <1>9, <1>10, <1>11, <1>12, <1>13 DEF IInv

\* use_cd, up to its check.
LEMMA UseCdKeeps ==
  ASSUME IInv, UseCd
  PROVE  IInv'
<1>1. TypeOK /\ ListInv /\ PathInv /\ CdInv /\ MirrorInv /\ CacheInv /\ ListingInv
      /\ DistroInv /\ RejectedInv /\ AcceptedInv
  BY DEF IInv
<1>2. "cd" \in Paths /\ "cd" \notin Local /\ "installation.iso" \notin Local
  BY DEF Paths, Local
<1>3. \/ /\ Copied("cd") /\ isoPath' = "installation.iso" /\ cdPath' = "cd"
         /\ Check("installation.iso", "use_cd")
      \/ /\ Fail("no distro") /\ UNCHANGED <<file, isoPath, cdPath, target, for, cancelled>>
      \/ /\ pc' = "use_iso"
         /\ UNCHANGED <<file, isoPath, cdPath, target, for, active, cancelled, raised>>
  BY <1>1, <1>2, CopyFromIs DEF UseCd, Faults
<1>4. TypeOK'
  <2>1. file' \in [Paths -> Images \cup {None}]
    BY <1>1, <1>3 DEF Copied, TypeOK
  <2>2. listing' \in [Paths -> Images \cup {NoAnswer, Unasked}]
    BY <1>1, <1>2, <1>3 DEF UseCd, TypeOK
  <2>3. arch' \in CpuArch /\ skipMd5' \in BOOLEAN
    BY <1>1, <1>2, <1>3 DEF UseCd, input, TypeOK
  <2>4. distro' \in Distros \cup {None} /\ isoDistro' \in Distros \cup {None}
    BY <1>1, <1>2, <1>3 DEF UseCd, TypeOK
  <2>5. cdDistro' \in Distros \cup {None}
    BY <1>1, <1>2, <1>3 DEF UseCd, TypeOK
  <2>6. isoPath' \in Paths \cup {None} /\ cdPath' \in {"cd", None}
    BY <1>1, <1>2, <1>3 DEF UseCd, TypeOK, Paths, Installed
  <2>7. metalink' \in [Distros -> {"none", "hash", "no hash"}]
    BY <1>1, <1>2, <1>3 DEF UseCd, TypeOK
  <2>8. hashed' \subseteq Local /\ rejected' \subseteq Local
    BY <1>1, <1>2, <1>3 DEF UseCd, TypeOK
  <2>9. left' \in 0..Tries
    BY <1>1, <1>2, <1>3 DEF UseCd, TypeOK
  <2>10. active' \in BOOLEAN /\ cancelled' \in BOOLEAN
    BY <1>1, <1>3 DEF Copied, TypeOK, Fail, Raise
  <2>11. target' \in Paths \cup {None} /\ for' \in Callers \cup {None}
    BY <1>1, <1>2, <1>3 DEF UseCd, Check, TypeOK, Paths, Installed, Callers
  <2>12. pc' \in Steps \cup Terminal
    BY <1>1, <1>2, <1>3 DEF UseCd, Fail, Check, Steps, Terminal
  <2>13. raised' \subseteq Faults
    BY <1>1, <1>3, RaiseIs DEF Copied, TypeOK, Fail, Faults
  <2>14. excuse' \in Excuses
    BY <1>1, <1>2, <1>3 DEF UseCd, TypeOK
  <2>15. QED
    BY <2>1, <2>2, <2>3, <2>4, <2>5, <2>6, <2>7, <2>8, <2>9, <2>10, <2>11,
       <2>12, <2>13, <2>14 DEF TypeOK
<1>5. ListInv'
  <2>1. \/ UNCHANGED <<active, cancelled>> /\ raised' = raised
        \/ UNCHANGED <<active, cancelled>> /\ raised' = raised \cup {"torrent"}
        \/ ~active' /\ (cancelled' \/ raised' \ {"torrent"} # {})
    BY <1>1, <1>3, RaiseIs DEF Copied, Fail, Faults
  <2>2. (pc' \in {"stopped", "failed"} => ~active')
        /\ (Starting' \/ pc' = "installed" => active')
    BY <1>1, <1>2, <1>3 DEF UseCd, Fail, Check, Starting, Raise
  <2>3. QED
    BY <1>1, <2>1, <2>2, ListKept
<1>6. PathInv'
  BY <1>1, <1>2, <1>3 DEF UseCd, Fail, Check, PathInv, Starting, CheckFor,
     Checking, Callers
<1>7. CdInv'
  <2>1. pc = "use_cd"
    BY DEF UseCd
  <2>2. CASE Copied("cd") /\ isoPath' = "installation.iso" /\ cdPath' = "cd"
             /\ Check("installation.iso", "use_cd")
    BY <2>2 DEF Copied, CdInv
  <2>3. CASE pc' \in {"use_iso", "failed"}
    BY <2>3 DEF CdInv, CheckFor, Checking
  <2>4. QED
    BY <1>3, <2>2, <2>3 DEF Fail
<1>8. MirrorInv'
  BY <1>1, <1>2, <1>3 DEF UseCd, Fail, Check, MirrorInv, Downloading, CheckFor,
     Checking
<1>9. CacheInv'
  <2>1. \A p \in Local : file'[p] \in {file[p], None}
    BY <1>2, <1>3 DEF Copied, Paths
  <2>2. \A p \in Paths : \/ listing'[p] = listing[p]
                         \/ file[p] # None /\ listing'[p] = Listed(p)
    BY <1>1, <1>2, <1>3 DEF UseCd
  <2>3. QED
    BY <1>1, <2>1, <2>2, CacheKept
<1>10. ListingInv'
  <2>1. pc = "use_cd" /\ listing' = listing
    BY DEF UseCd
  <2>2. pc' \in {"use_iso", "failed"} \/ (pc' = "validate" /\ for' = "use_cd")
    BY <1>3 DEF Fail, Check
  <2>3. QED
    BY <1>1, <2>1, <2>2 DEF ListingInv, Downloading, CheckFor, Checking,
       Terminal
<1>11. DistroInv'
  BY <1>1, <1>2, <1>3 DEF UseCd, KnownCd, Fail, Check, DistroInv, Starting,
     Terminal
<1>12. RejectedInv'
  <2>1. UNCHANGED <<rejected, input>> /\ (check_arch => distro' = distro \/ rejected = {})
        /\ (Starting' => Starting) /\ (pc' = "copy" => target' \notin rejected)
    BY <1>1, <1>2, <1>3 DEF UseCd, Fail, Check, Starting
  <2>2. \A p \in rejected : file'[p] = file[p]
    <3>1. rejected \subseteq Paths \ {"cd", "installation.iso"}
      BY <1>1, LocalPaths DEF TypeOK
    <3>2. QED
      BY <1>3, <3>1 DEF Copied
  <2>3. \A d \in Distros : metalink[d] = "hash" => metalink'[d] = "hash"
    BY <1>1 DEF UseCd
  <2>4. QED
    BY <1>1, <2>1, <2>2, <2>3, RejectedKept
<1>13. AcceptedInv'
  BY <1>1, <1>2, <1>3 DEF UseCd, Fail, Check, AcceptedInv
<1>14. QED
  BY <1>4, <1>5, <1>6, <1>7, <1>8, <1>9, <1>10, <1>11, <1>12, <1>13 DEF IInv

\* use_cd, after a check that failed.
LEMMA CdRejectedKeeps ==
  ASSUME IInv, CdRejected
  PROVE  IInv'
<1>1. TypeOK /\ ListInv /\ PathInv /\ CdInv /\ MirrorInv /\ CacheInv /\ ListingInv
      /\ DistroInv /\ RejectedInv /\ AcceptedInv
  BY DEF IInv
<1>2. TypeOK'
  <2>1. file' \in [Paths -> Images \cup {None}]
    BY <1>1 DEF CdRejected, TypeOK
  <2>2. listing' \in [Paths -> Images \cup {NoAnswer, Unasked}]
    BY <1>1 DEF CdRejected, TypeOK
  <2>3. arch' \in CpuArch /\ skipMd5' \in BOOLEAN
    BY <1>1 DEF CdRejected, input, TypeOK
  <2>4. distro' \in Distros \cup {None} /\ isoDistro' \in Distros \cup {None}
    BY <1>1 DEF CdRejected, TypeOK
  <2>5. cdDistro' \in Distros \cup {None}
    BY <1>1 DEF CdRejected, TypeOK
  <2>6. isoPath' \in Paths \cup {None} /\ cdPath' \in {"cd", None}
    BY <1>1 DEF CdRejected, TypeOK
  <2>7. metalink' \in [Distros -> {"none", "hash", "no hash"}]
    BY <1>1 DEF CdRejected, TypeOK
  <2>8. hashed' \subseteq Local /\ rejected' \subseteq Local
    BY <1>1 DEF CdRejected, TypeOK
  <2>9. left' \in 0..Tries
    BY <1>1 DEF CdRejected, TypeOK
  <2>10. active' \in BOOLEAN /\ cancelled' \in BOOLEAN
    BY <1>1, RaiseIs DEF CdRejected, Fail, TypeOK, Faults
  <2>11. target' \in Paths \cup {None} /\ for' \in Callers \cup {None}
    BY <1>1 DEF CdRejected, TypeOK
  <2>12. pc' \in Steps \cup Terminal
    BY <1>1 DEF CdRejected, Fail, Steps, Terminal
  <2>13. raised' \subseteq Faults
    BY <1>1, RaiseIs DEF CdRejected, Fail, TypeOK, Faults
  <2>14. excuse' \in Excuses
    BY <1>1 DEF CdRejected, TypeOK, Excuses
  <2>15. QED
    BY <2>1, <2>2, <2>3, <2>4, <2>5, <2>6, <2>7, <2>8, <2>9, <2>10, <2>11,
       <2>12, <2>13, <2>14 DEF TypeOK
<1>3. ListInv'
  <2>1. \/ UNCHANGED <<active, cancelled>> /\ raised' = raised
        \/ UNCHANGED <<active, cancelled>> /\ raised' = raised \cup {"torrent"}
        \/ ~active' /\ (cancelled' \/ raised' \ {"torrent"} # {})
    BY <1>1, RaiseIs DEF CdRejected, Fail, Faults
  <2>2. (pc' \in {"stopped", "failed"} => ~active')
        /\ (Starting' \/ pc' = "installed" => active')
    BY <1>1 DEF CdRejected, Fail, Starting, Raise
  <2>3. QED
    BY <1>1, <2>1, <2>2, ListKept
<1>4. PathInv'
  <2>1. "installation.iso" # None
    BY LocalPaths, MarkerAssumption
  <2>2. QED
    BY <1>1, <2>1 DEF CdRejected, Fail, PathInv, CdInv, Starting, CheckFor,
       Checking
<1>5. CdInv'
  BY <1>1 DEF CdRejected, Fail, CdInv, CheckFor, Checking
<1>6. MirrorInv'
  BY <1>1 DEF CdRejected, Fail, MirrorInv, Downloading, CheckFor, Checking
<1>7. CacheInv'
  <2>1. \A p \in Local : file'[p] \in {file[p], None}
    BY <1>1 DEF CdRejected
  <2>2. \A p \in Paths : \/ listing'[p] = listing[p]
                         \/ file[p] # None /\ listing'[p] = Listed(p)
    BY <1>1 DEF CdRejected
  <2>3. QED
    BY <1>1, <2>1, <2>2, CacheKept
<1>8. ListingInv'
  BY <1>1 DEF CdRejected, Fail, ListingInv, Starting, Downloading, CheckFor,
     Checking, Terminal
<1>9. DistroInv'
  <2>1. UNCHANGED <<distro, input>>
    BY DEF CdRejected
  <2>2. active' => active
    BY DEF CdRejected, Fail, Raise
  <2>3. pc \in {"excuse", "clear", "fetch", "discard"}
        /\ pc' \in {"extract_kernel", "use_iso", "clear", "fetch", "validate", "failed"}
    BY DEF CdRejected, Fail
  <2>4. QED
    BY <1>1, <2>1, <2>2, <2>3, DistroKept
<1>10. RejectedInv'
  <2>1. UNCHANGED <<rejected, input>> /\ (check_arch => distro' = distro \/ rejected = {})
        /\ (Starting' => Starting) /\ (pc' = "copy" => target' \notin rejected)
    BY <1>1 DEF CdRejected, Fail, Starting
  <2>2. \A p \in rejected : file'[p] = file[p]
    BY <1>1 DEF CdRejected
  <2>3. \A d \in Distros : metalink[d] = "hash" => metalink'[d] = "hash"
    BY <1>1 DEF CdRejected
  <2>4. QED
    BY <1>1, <2>1, <2>2, <2>3, RejectedKept
<1>11. AcceptedInv'
  BY <1>1, MarkerAssumption DEF CdRejected, Fail, CdInv, AcceptedInv, Vouched,
     InLine, Paths
<1>12. QED
  BY <1>2, <1>3, <1>4, <1>5, <1>6, <1>7, <1>8, <1>9, <1>10, <1>11 DEF IInv

\* use_iso.
LEMMA UseIsoKeeps ==
  ASSUME IInv, UseIso
  PROVE  IInv'
<1>1. TypeOK /\ ListInv /\ PathInv /\ CdInv /\ MirrorInv /\ CacheInv /\ ListingInv
      /\ DistroInv /\ RejectedInv /\ AcceptedInv
  BY DEF IInv
<1>2. TypeOK'
  <2>1. file' \in [Paths -> Images \cup {None}]
    BY <1>1 DEF UseIso, TypeOK
  <2>2. listing' \in [Paths -> Images \cup {NoAnswer, Unasked}]
    <3>1. listing' = listing
          \/ listing' = [p \in Paths |-> IF p \in Local THEN Heard(p)[p] ELSE listing[p]]
      BY DEF UseIso
    <3>2. \A p \in Paths : Heard(p)[p] \in Images \cup {NoAnswer, Unasked}
                          /\ listing[p] \in Images \cup {NoAnswer, Unasked}
      BY <1>1, HeardIs DEF TypeOK
    <3>3. QED
      BY <1>1, <3>1, <3>2 DEF TypeOK
  <2>3. arch' \in CpuArch /\ skipMd5' \in BOOLEAN
    BY <1>1 DEF UseIso, input, TypeOK
  <2>4. distro' \in Distros \cup {None} /\ isoDistro' \in Distros \cup {None}
    BY <1>1 DEF UseIso, media, TypeOK
  <2>5. cdDistro' \in Distros \cup {None}
    BY <1>1 DEF UseIso, media, TypeOK
  <2>6. isoPath' \in Paths \cup {None} /\ cdPath' \in {"cd", None}
    BY <1>1 DEF UseIso, media, TypeOK
  <2>7. metalink' \in [Distros -> {"none", "hash", "no hash"}]
    BY <1>1 DEF UseIso, TypeOK
  <2>8. hashed' \subseteq Local /\ rejected' \subseteq Local
    BY <1>1 DEF UseIso, TypeOK
  <2>9. left' \in 0..Tries
    BY <1>1 DEF UseIso, TypeOK
  <2>10. active' \in BOOLEAN /\ cancelled' \in BOOLEAN
    BY <1>1, RaiseIs DEF UseIso, Fail, TypeOK, Faults
  <2>11. target' \in Paths \cup {None} /\ for' \in Callers \cup {None}
    BY <1>1 DEF UseIso, Check, TypeOK, Paths, Callers
  <2>12. pc' \in Steps \cup Terminal
    BY <1>1 DEF UseIso, Check, Fail, Steps, Terminal
  <2>13. raised' \subseteq Faults
    BY <1>1, RaiseIs DEF UseIso, Fail, TypeOK, Faults
  <2>14. excuse' \in Excuses
    BY <1>1 DEF UseIso, TypeOK
  <2>15. QED
    BY <2>1, <2>2, <2>3, <2>4, <2>5, <2>6, <2>7, <2>8, <2>9, <2>10, <2>11,
       <2>12, <2>13, <2>14 DEF TypeOK
<1>3. ListInv'
  <2>1. \/ UNCHANGED <<active, cancelled>> /\ raised' = raised
        \/ UNCHANGED <<active, cancelled>> /\ raised' = raised \cup {"torrent"}
        \/ ~active' /\ (cancelled' \/ raised' \ {"torrent"} # {})
    BY <1>1, RaiseIs DEF UseIso, Fail, Faults
  <2>2. (pc' \in {"stopped", "failed"} => ~active')
        /\ (Starting' \/ pc' = "installed" => active')
    BY <1>1 DEF UseIso, Check, Fail, Starting, Raise
  <2>3. QED
    BY <1>1, <2>1, <2>2, ListKept
<1>4. PathInv'
  BY <1>1 DEF UseIso, Exists, Check, Fail, media, PathInv, CheckFor, Checking,
     Callers
<1>5. CdInv'
  BY <1>1 DEF UseIso, Check, Fail, CdInv, CheckFor, Checking
<1>6. MirrorInv'
  BY <1>1 DEF UseIso, Check, Fail, MirrorInv, Downloading, CheckFor, Checking
<1>7. CacheInv'
  <2>1. \A p \in Local : file'[p] \in {file[p], None}
    BY <1>1 DEF UseIso
  <2>2. \A p \in Paths : \/ listing'[p] = listing[p]
                         \/ file[p] # None /\ listing'[p] = Listed(p)
    BY <1>1, HeardIs DEF UseIso
  <2>3. QED
    BY <1>1, <2>1, <2>2, CacheKept
<1>8. ListingInv'
  <2>1. pc = "use_iso" /\ listing'["saved"] = listing["saved"]
    BY LocalPaths DEF UseIso
  <2>2. pc' \in {"failed", "download_iso"} \/ (pc' = "validate" /\ for' = "use_iso")
    BY DEF UseIso, Fail, Check
  <2>3. QED
    BY <1>1, <2>1, <2>2 DEF ListingInv, Starting, Downloading, CheckFor,
       Checking, Terminal
<1>9. DistroInv'
  BY <1>1 DEF UseIso, KnownIso, Check, Fail, DistroInv, Starting, Terminal
<1>10. RejectedInv'
  <2>1. UNCHANGED <<rejected, input>> /\ (check_arch => distro' = distro \/ rejected = {})
        /\ (Starting' => Starting) /\ (pc' = "copy" => target' \notin rejected)
    BY <1>1 DEF UseIso, Check, Fail, Starting
  <2>2. \A p \in rejected : file'[p] = file[p]
    BY <1>1 DEF UseIso
  <2>3. \A d \in Distros : metalink[d] = "hash" => metalink'[d] = "hash"
    BY <1>1 DEF UseIso
  <2>4. QED
    BY <1>1, <2>1, <2>2, <2>3, RejectedKept
<1>11. AcceptedInv'
  BY <1>1 DEF UseIso, Check, Fail, AcceptedInv
<1>12. QED
  BY <1>2, <1>3, <1>4, <1>5, <1>6, <1>7, <1>8, <1>9, <1>10, <1>11 DEF IInv

\* download_iso, up to its loop.
LEMMA DownloadKeeps ==
  ASSUME IInv, Download
  PROVE  IInv'
<1>1. TypeOK /\ ListInv /\ PathInv /\ CdInv /\ MirrorInv /\ CacheInv /\ ListingInv
      /\ DistroInv /\ RejectedInv /\ AcceptedInv
  BY DEF IInv
<1>2. TypeOK'
  <2>1. file' \in [Paths -> Images \cup {None}]
    BY <1>1 DEF Download, TypeOK
  <2>2. listing' \in [Paths -> Images \cup {NoAnswer, Unasked}]
    BY <1>1 DEF Download, TypeOK
  <2>3. arch' \in CpuArch /\ skipMd5' \in BOOLEAN
    BY <1>1 DEF Download, input, TypeOK
  <2>4. distro' \in Distros \cup {None} /\ isoDistro' \in Distros \cup {None}
    BY <1>1 DEF Download, TypeOK
  <2>5. cdDistro' \in Distros \cup {None}
    BY <1>1 DEF Download, TypeOK
  <2>6. isoPath' \in Paths \cup {None} /\ cdPath' \in {"cd", None}
    BY <1>1 DEF Download, TypeOK
  <2>7. metalink' \in [Distros -> {"none", "hash", "no hash"}]
    <3>1. distro \in Distros \/ metalink' = metalink
      BY <1>1 DEF Download, TypeOK
    <3>2. metalink' = metalink \/ \E m \in Metalinks : metalink' = [metalink EXCEPT ![distro] = m]
      BY DEF Download, MetalinkRaises
    <3>3. QED
      BY <1>1, <3>1, <3>2, MetalinksAre DEF TypeOK
  <2>8. hashed' \subseteq Local /\ rejected' \subseteq Local
    BY <1>1 DEF Download, TypeOK
  <2>9. left' \in 0..Tries
    BY <1>1 DEF Download, TypeOK
  <2>10. active' \in BOOLEAN /\ cancelled' \in BOOLEAN
    BY <1>1, RaiseIs DEF Download, MetalinkRaises, Fail, TypeOK, Faults
  <2>11. target' \in Paths \cup {None} /\ for' \in Callers \cup {None}
    BY <1>1 DEF Download, TypeOK
  <2>12. pc' \in Steps \cup Terminal
    BY <1>1 DEF Download, Fail, Steps, Terminal
  <2>13. raised' \subseteq Faults
    BY <1>1, RaiseIs DEF Download, MetalinkRaises, Fail, TypeOK, Faults
  <2>14. excuse' \in Excuses
    BY <1>1 DEF Download, TypeOK
  <2>15. QED
    BY <2>1, <2>2, <2>3, <2>4, <2>5, <2>6, <2>7, <2>8, <2>9, <2>10, <2>11,
       <2>12, <2>13, <2>14 DEF TypeOK
<1>3. ListInv'
  <2>1. \/ UNCHANGED <<active, cancelled>> /\ raised' = raised
        \/ UNCHANGED <<active, cancelled>> /\ raised' = raised \cup {"torrent"}
        \/ ~active' /\ (cancelled' \/ raised' \ {"torrent"} # {})
    BY <1>1, RaiseIs DEF Download, MetalinkRaises, Fail, Faults
  <2>2. (pc' \in {"stopped", "failed"} => ~active')
        /\ (Starting' \/ pc' = "installed" => active')
    BY <1>1 DEF Download, MetalinkRaises, Fail, Starting, Raise
  <2>3. QED
    BY <1>1, <2>1, <2>2, ListKept
<1>4. PathInv'
  BY <1>1 DEF Download, Fail, PathInv, Starting, CheckFor, Checking
<1>5. CdInv'
  BY <1>1 DEF Download, Fail, CdInv, CheckFor, Checking
<1>6. MirrorInv'
  BY <1>1 DEF Download, Fail, MirrorInv, CheckFor, Checking
<1>7. CacheInv'
  <2>1. \A p \in Local : file'[p] \in {file[p], None}
    BY <1>1 DEF Download
  <2>2. \A p \in Paths : \/ listing'[p] = listing[p]
                         \/ file[p] # None /\ listing'[p] = Listed(p)
    BY <1>1 DEF Download
  <2>3. QED
    BY <1>1, <2>1, <2>2, CacheKept
<1>8. ListingInv'
  BY <1>1, MarkerAssumption DEF Download, Fail, ListingInv, Starting,
     Downloading, CheckFor, Checking, Terminal
<1>9. DistroInv'
  BY <1>1 DEF Download, Fail, DistroInv, Starting, Terminal
<1>10. RejectedInv'
  <2>1. UNCHANGED <<rejected, input>> /\ (check_arch => distro' = distro \/ rejected = {})
        /\ (Starting' => Starting) /\ (pc' = "copy" => target' \notin rejected)
    BY <1>1 DEF Download, Fail, Starting
  <2>2. \A p \in rejected : file'[p] = file[p]
    BY <1>1 DEF Download
  <2>3. \A d \in Distros : metalink[d] = "hash" => metalink'[d] = "hash"
    <3>1. distro \in Distros \/ metalink' = metalink
      BY <1>1 DEF Download, TypeOK
    <3>2. metalink' = metalink \/ \E m \in Metalinks : metalink' = [metalink EXCEPT ![distro] = m]
      BY DEF Download, MetalinkRaises
    <3>3. QED
      BY <1>1, <3>1, <3>2, MetalinksAre DEF TypeOK
  <2>4. QED
    BY <1>1, <2>1, <2>2, <2>3, RejectedKept
<1>11. AcceptedInv'
  BY <1>1 DEF Download, Fail, AcceptedInv
<1>12. QED
  BY <1>2, <1>3, <1>4, <1>5, <1>6, <1>7, <1>8, <1>9, <1>10, <1>11 DEF IInv

\* download_iso: the head of the loop.
LEMMA ClearKeeps ==
  ASSUME IInv, Clear
  PROVE  IInv'
<1>1. TypeOK /\ ListInv /\ PathInv /\ CdInv /\ MirrorInv /\ CacheInv /\ ListingInv
      /\ DistroInv /\ RejectedInv /\ AcceptedInv
  BY DEF IInv
<1>2. file' \in [Paths -> Images \cup {None}] /\ \A p \in Paths \ {"saved"} : file'[p] = file[p]
  <2>1. file' = file \/ file' = [file EXCEPT !["saved"] = None]
    BY DEF Clear
  <2>2. QED
    BY <1>1, <2>1, FileTyped DEF TypeOK
<1>3. TypeOK'
  <2>1. file' \in [Paths -> Images \cup {None}]
    BY <1>2
  <2>2. listing' \in [Paths -> Images \cup {NoAnswer, Unasked}]
    BY <1>1, <1>2 DEF Clear, TypeOK
  <2>3. arch' \in CpuArch /\ skipMd5' \in BOOLEAN
    BY <1>1, <1>2 DEF Clear, input, TypeOK
  <2>4. distro' \in Distros \cup {None} /\ isoDistro' \in Distros \cup {None}
    BY <1>1, <1>2 DEF Clear, media, TypeOK
  <2>5. cdDistro' \in Distros \cup {None}
    BY <1>1, <1>2 DEF Clear, media, TypeOK
  <2>6. isoPath' \in Paths \cup {None} /\ cdPath' \in {"cd", None}
    BY <1>1, <1>2 DEF Clear, media, TypeOK
  <2>7. metalink' \in [Distros -> {"none", "hash", "no hash"}]
    BY <1>1, <1>2 DEF Clear, TypeOK
  <2>8. hashed' \subseteq Local /\ rejected' \subseteq Local
    BY <1>1, <1>2 DEF Clear, TypeOK
  <2>9. left' \in 0..Tries
    BY <1>1, LeftTyped DEF Clear, NextMirror, TypeOK
  <2>10. active' \in BOOLEAN /\ cancelled' \in BOOLEAN
    BY <1>1, <1>2, RaiseIs DEF Clear, Fail, TypeOK, Faults
  <2>11. target' \in Paths \cup {None} /\ for' \in Callers \cup {None}
    BY <1>1, <1>2 DEF Clear, TypeOK
  <2>12. pc' \in Steps \cup Terminal
    BY <1>1, <1>2 DEF Clear, Fail, NextMirror, Steps, Terminal
  <2>13. raised' \subseteq Faults
    BY <1>1, <1>2, RaiseIs DEF Clear, Fail, TypeOK, Faults
  <2>14. excuse' \in Excuses
    BY <1>1, <1>2 DEF Clear, TypeOK
  <2>15. QED
    BY <2>1, <2>2, <2>3, <2>4, <2>5, <2>6, <2>7, <2>8, <2>9, <2>10, <2>11,
       <2>12, <2>13, <2>14 DEF TypeOK
<1>4. ListInv'
  <2>1. \/ UNCHANGED <<active, cancelled>> /\ raised' = raised
        \/ UNCHANGED <<active, cancelled>> /\ raised' = raised \cup {"torrent"}
        \/ ~active' /\ (cancelled' \/ raised' \ {"torrent"} # {})
    BY <1>1, <1>2, RaiseIs DEF Clear, Fail, Faults
  <2>2. (pc' \in {"stopped", "failed"} => ~active')
        /\ (Starting' \/ pc' = "installed" => active')
    BY <1>1, <1>2 DEF Clear, Fail, NextMirror, Starting, Raise
  <2>3. QED
    BY <1>1, <2>1, <2>2, ListKept
<1>5. PathInv'
  BY <1>1, <1>2 DEF Clear, Fail, NextMirror, PathInv, Starting, CheckFor,
     Checking
<1>6. CdInv'
  BY <1>1, <1>2 DEF Clear, Fail, NextMirror, CdInv, CheckFor, Checking
<1>7. MirrorInv'
  BY <1>1, <1>2 DEF Clear, Fail, NextMirror, media, MirrorInv, Downloading,
     CheckFor, Checking
<1>8. CacheInv'
  <2>1. \A p \in Local : file'[p] \in {file[p], None}
    BY <1>2 DEF Local, Paths
  <2>2. \A p \in Paths : \/ listing'[p] = listing[p]
                         \/ file[p] # None /\ listing'[p] = Listed(p)
    BY <1>1, <1>2 DEF Clear
  <2>3. QED
    BY <1>1, <2>1, <2>2, CacheKept
<1>9. ListingInv'
  <2>1. UNCHANGED <<listing, distro, metalink, input>>
    BY DEF Clear
  <2>2. pc = "clear" /\ ((pc' \in {"clear", "fetch"} /\ active' = active) \/ pc' = "failed")
    BY DEF Clear, Fail, NextMirror
  <2>3. QED
    BY <1>1, <2>1, <2>2 DEF ListingInv, Starting, Downloading, CheckFor,
       Checking, Terminal, input, check_arch
<1>10. DistroInv'
  <2>1. UNCHANGED <<distro, input>>
    BY DEF Clear
  <2>2. active' => active
    BY DEF Clear, Fail, Raise
  <2>3. pc \in {"excuse", "clear", "fetch", "discard"}
        /\ pc' \in {"extract_kernel", "use_iso", "clear", "fetch", "validate", "failed"}
    BY DEF Clear, Fail, NextMirror
  <2>4. QED
    BY <1>1, <2>1, <2>2, <2>3, DistroKept
<1>11. RejectedInv'
  <2>1. UNCHANGED <<rejected, input>> /\ (check_arch => distro' = distro \/ rejected = {})
        /\ (Starting' => Starting) /\ (pc' = "copy" => target' \notin rejected)
    BY <1>1, <1>2 DEF Clear, Fail, NextMirror, Starting
  <2>2. \A p \in rejected : file'[p] = file[p]
    BY <1>1, <1>2 DEF Clear, TypeOK, Paths, Local
  <2>3. \A d \in Distros : metalink[d] = "hash" => metalink'[d] = "hash"
    BY <1>1 DEF Clear
  <2>4. QED
    BY <1>1, <2>1, <2>2, <2>3, RejectedKept
<1>12. AcceptedInv'
  BY <1>1, <1>2 DEF Clear, Fail, NextMirror, AcceptedInv
<1>13. QED
  BY <1>3, <1>4, <1>5, <1>6, <1>7, <1>8, <1>9, <1>10, <1>11, <1>12 DEF IInv

\* download_iso: one mirror.
LEMMA FetchKeeps ==
  ASSUME IInv, Fetch
  PROVE  IInv'
<1>1. TypeOK /\ ListInv /\ PathInv /\ CdInv /\ MirrorInv /\ CacheInv /\ ListingInv
      /\ DistroInv /\ RejectedInv /\ AcceptedInv
  BY DEF IInv
<1>2. \E i \in Images \cup {None} : file' = [file EXCEPT !["saved"] = i]
  <2>1. file = [file EXCEPT !["saved"] = file["saved"]] /\ file["saved"] \in Images \cup {None}
    BY <1>1 DEF TypeOK, Paths, Installed
  <2>2. Partial \subseteq Images \cup {None}
    BY <2>1 DEF Partial, Images
  <2>3. QED
    BY <2>1, <2>2 DEF Fetch
<1>3. file' \in [Paths -> Images \cup {None}] /\ \A p \in Paths \ {"saved"} : file'[p] = file[p]
  BY <1>1, <1>2, FileTyped
<1>4. TypeOK'
  <2>1. file' \in [Paths -> Images \cup {None}]
    BY <1>3
  <2>2. listing' \in [Paths -> Images \cup {NoAnswer, Unasked}]
    BY <1>1, <1>3 DEF Fetch, TypeOK
  <2>3. arch' \in CpuArch /\ skipMd5' \in BOOLEAN
    BY <1>1, <1>3 DEF Fetch, input, TypeOK
  <2>4. distro' \in Distros \cup {None} /\ isoDistro' \in Distros \cup {None}
    BY <1>1, <1>3 DEF Fetch, media, TypeOK
  <2>5. cdDistro' \in Distros \cup {None}
    BY <1>1, <1>3 DEF Fetch, media, TypeOK
  <2>6. isoPath' \in Paths \cup {None} /\ cdPath' \in {"cd", None}
    BY <1>1, <1>3 DEF Fetch, media, TypeOK
  <2>7. metalink' \in [Distros -> {"none", "hash", "no hash"}]
    BY <1>1, <1>3 DEF Fetch, TypeOK
  <2>8. hashed' \subseteq Local /\ rejected' \subseteq Local
    BY <1>1, <1>3 DEF Fetch, TypeOK
  <2>9. left' \in 0..Tries
    BY <1>1, LeftTyped DEF Fetch, NextMirror, TypeOK, MirrorInv
  <2>10. active' \in BOOLEAN /\ cancelled' \in BOOLEAN
    BY <1>1, <1>3, RaiseIs DEF Fetch, TypeOK, Faults
  <2>11. target' \in Paths \cup {None} /\ for' \in Callers \cup {None}
    BY <1>1, <1>3 DEF Fetch, Check, TypeOK, Paths, Installed, Callers
  <2>12. pc' \in Steps \cup Terminal
    BY <1>1, <1>3 DEF Fetch, NextMirror, Check, Steps
  <2>13. raised' \subseteq Faults
    BY <1>1, <1>3, RaiseIs DEF Fetch, TypeOK, Faults
  <2>14. excuse' \in Excuses
    BY <1>1, <1>3 DEF Fetch, TypeOK
  <2>15. QED
    BY <2>1, <2>2, <2>3, <2>4, <2>5, <2>6, <2>7, <2>8, <2>9, <2>10, <2>11,
       <2>12, <2>13, <2>14 DEF TypeOK
<1>5. ListInv'
  <2>1. \/ UNCHANGED <<active, cancelled>> /\ raised' = raised
        \/ UNCHANGED <<active, cancelled>> /\ raised' = raised \cup {"torrent"}
        \/ ~active' /\ (cancelled' \/ raised' \ {"torrent"} # {})
    BY <1>1, <1>3, RaiseIs DEF Fetch, Faults
  <2>2. (pc' \in {"stopped", "failed"} => ~active')
        /\ (Starting' \/ pc' = "installed" => active')
    BY <1>1, <1>3 DEF Fetch, NextMirror, Check, Starting
  <2>3. QED
    BY <1>1, <2>1, <2>2, ListKept
<1>6. PathInv'
  BY <1>1, <1>3 DEF Fetch, NextMirror, Check, PathInv, Starting, CheckFor,
     Checking, Callers
<1>7. CdInv'
  BY <1>1, <1>3 DEF Fetch, NextMirror, Check, CdInv, CheckFor, Checking
<1>8. MirrorInv'
  <2>1. pc = "fetch" /\ cdPath' = cdPath
    BY DEF Fetch, media
  <2>2. pc' = "clear" \/ (Check("saved", "download_iso") /\ left' = left)
    BY DEF Fetch, NextMirror
  <2>3. QED
    BY <1>1, <2>1, <2>2 DEF MirrorInv, Downloading, Check, CheckFor, Checking
<1>9. CacheInv'
  <2>1. \A p \in Local : file'[p] \in {file[p], None}
    BY <1>3 DEF Local, Paths
  <2>2. \A p \in Paths : \/ listing'[p] = listing[p]
                         \/ file[p] # None /\ listing'[p] = Listed(p)
    BY <1>1, <1>3 DEF Fetch
  <2>3. QED
    BY <1>1, <2>1, <2>2, CacheKept
<1>10. ListingInv'
  <2>1. UNCHANGED <<listing, distro, metalink, input>> /\ (active' => active)
    BY DEF Fetch
  <2>2. pc = "fetch" /\ (pc' = "clear" \/ (CheckFor("download_iso")' /\ pc' = "validate"))
    BY DEF Fetch, NextMirror, Check, CheckFor, Checking
  <2>3. QED
    BY <1>1, <2>1, <2>2 DEF ListingInv, Starting, Downloading, CheckFor,
       Checking, Terminal, input, check_arch
<1>11. DistroInv'
  <2>1. UNCHANGED <<distro, input>>
    BY DEF Fetch
  <2>2. active' => active
    BY DEF Fetch
  <2>3. pc \in {"excuse", "clear", "fetch", "discard"}
        /\ pc' \in {"extract_kernel", "use_iso", "clear", "fetch", "validate", "failed"}
    BY DEF Fetch, NextMirror, Check
  <2>4. QED
    BY <1>1, <2>1, <2>2, <2>3, DistroKept
<1>12. RejectedInv'
  <2>1. UNCHANGED <<rejected, input>> /\ (check_arch => distro' = distro \/ rejected = {})
        /\ (Starting' => Starting) /\ (pc' = "copy" => target' \notin rejected)
    BY <1>1, <1>3 DEF Fetch, NextMirror, Check, Starting
  <2>2. \A p \in rejected : file'[p] = file[p]
    BY <1>1, <1>3 DEF Fetch, TypeOK, Paths, Local
  <2>3. \A d \in Distros : metalink[d] = "hash" => metalink'[d] = "hash"
    BY <1>1 DEF Fetch
  <2>4. QED
    BY <1>1, <2>1, <2>2, <2>3, RejectedKept
<1>13. AcceptedInv'
  BY <1>1, <1>3 DEF Fetch, NextMirror, Check, AcceptedInv
<1>14. QED
  BY <1>4, <1>5, <1>6, <1>7, <1>8, <1>9, <1>10, <1>11, <1>12, <1>13 DEF IInv

\* download_iso: a download that was rejected.
LEMMA DiscardKeeps ==
  ASSUME IInv, Discard
  PROVE  IInv'
<1>1. TypeOK /\ ListInv /\ PathInv /\ CdInv /\ MirrorInv /\ CacheInv /\ ListingInv
      /\ DistroInv /\ RejectedInv /\ AcceptedInv
  BY DEF IInv
<1>2. file' \in [Paths -> Images \cup {None}] /\ \A p \in Paths \ {"saved"} : file'[p] = file[p]
  <2>1. file' = file \/ file' = [file EXCEPT !["saved"] = None]
    BY DEF Discard
  <2>2. QED
    BY <1>1, <2>1, FileTyped DEF TypeOK
<1>3. TypeOK'
  <2>1. file' \in [Paths -> Images \cup {None}]
    BY <1>2
  <2>2. listing' \in [Paths -> Images \cup {NoAnswer, Unasked}]
    BY <1>1, <1>2 DEF Discard, TypeOK
  <2>3. arch' \in CpuArch /\ skipMd5' \in BOOLEAN
    BY <1>1, <1>2 DEF Discard, input, TypeOK
  <2>4. distro' \in Distros \cup {None} /\ isoDistro' \in Distros \cup {None}
    BY <1>1, <1>2 DEF Discard, media, TypeOK
  <2>5. cdDistro' \in Distros \cup {None}
    BY <1>1, <1>2 DEF Discard, media, TypeOK
  <2>6. isoPath' \in Paths \cup {None} /\ cdPath' \in {"cd", None}
    BY <1>1, <1>2 DEF Discard, media, TypeOK
  <2>7. metalink' \in [Distros -> {"none", "hash", "no hash"}]
    BY <1>1, <1>2 DEF Discard, TypeOK
  <2>8. hashed' \subseteq Local /\ rejected' \subseteq Local
    BY <1>1, <1>2 DEF Discard, TypeOK
  <2>9. left' \in 0..Tries
    BY <1>1, LeftTyped DEF Discard, NextMirror, TypeOK, MirrorInv
  <2>10. active' \in BOOLEAN /\ cancelled' \in BOOLEAN
    BY <1>1, <1>2, RaiseIs DEF Discard, Fail, TypeOK, Faults
  <2>11. target' \in Paths \cup {None} /\ for' \in Callers \cup {None}
    BY <1>1, <1>2 DEF Discard, TypeOK
  <2>12. pc' \in Steps \cup Terminal
    BY <1>1, <1>2 DEF Discard, Fail, NextMirror, Steps, Terminal
  <2>13. raised' \subseteq Faults
    BY <1>1, <1>2, RaiseIs DEF Discard, Fail, TypeOK, Faults
  <2>14. excuse' \in Excuses
    BY <1>1, <1>2 DEF Discard, TypeOK
  <2>15. QED
    BY <2>1, <2>2, <2>3, <2>4, <2>5, <2>6, <2>7, <2>8, <2>9, <2>10, <2>11,
       <2>12, <2>13, <2>14 DEF TypeOK
<1>4. ListInv'
  <2>1. \/ UNCHANGED <<active, cancelled>> /\ raised' = raised
        \/ UNCHANGED <<active, cancelled>> /\ raised' = raised \cup {"torrent"}
        \/ ~active' /\ (cancelled' \/ raised' \ {"torrent"} # {})
    BY <1>1, <1>2, RaiseIs DEF Discard, Fail, Faults
  <2>2. (pc' \in {"stopped", "failed"} => ~active')
        /\ (Starting' \/ pc' = "installed" => active')
    BY <1>1, <1>2 DEF Discard, Fail, NextMirror, Starting, Raise
  <2>3. QED
    BY <1>1, <2>1, <2>2, ListKept
<1>5. PathInv'
  BY <1>1, <1>2 DEF Discard, Fail, NextMirror, PathInv, Starting, CheckFor,
     Checking
<1>6. CdInv'
  BY <1>1, <1>2 DEF Discard, Fail, NextMirror, CdInv, CheckFor, Checking
<1>7. MirrorInv'
  BY <1>1, MarkerAssumption, <1>2 DEF Discard, NextMirror, media, MirrorInv,
     Downloading, CheckFor, Checking
<1>8. CacheInv'
  <2>1. \A p \in Local : file'[p] \in {file[p], None}
    BY <1>2 DEF Local, Paths
  <2>2. \A p \in Paths : \/ listing'[p] = listing[p]
                         \/ file[p] # None /\ listing'[p] = Listed(p)
    BY <1>1, <1>2 DEF Discard
  <2>3. QED
    BY <1>1, <2>1, <2>2, CacheKept
<1>9. ListingInv'
  <2>1. UNCHANGED <<listing, distro, metalink, input>> /\ (active' => active)
    BY DEF Discard, Fail, Raise
  <2>2. pc = "discard" /\ pc' \in {"failed", "clear"}
    BY DEF Discard, Fail, NextMirror
  <2>3. QED
    BY <1>1, <2>1, <2>2 DEF ListingInv, Starting, Downloading, CheckFor,
       Checking, Terminal, input, check_arch
<1>10. DistroInv'
  <2>1. UNCHANGED <<distro, input>>
    BY DEF Discard
  <2>2. active' => active
    BY DEF Discard, Fail, Raise
  <2>3. pc \in {"excuse", "clear", "fetch", "discard"}
        /\ pc' \in {"extract_kernel", "use_iso", "clear", "fetch", "validate", "failed"}
    BY DEF Discard, Fail, NextMirror
  <2>4. QED
    BY <1>1, <2>1, <2>2, <2>3, DistroKept
<1>11. RejectedInv'
  <2>1. UNCHANGED <<rejected, input>> /\ (check_arch => distro' = distro \/ rejected = {})
        /\ (Starting' => Starting) /\ (pc' = "copy" => target' \notin rejected)
    BY <1>1, <1>2 DEF Discard, Fail, NextMirror, Starting
  <2>2. \A p \in rejected : file'[p] = file[p]
    BY <1>1, <1>2 DEF Discard, TypeOK, Paths, Local
  <2>3. \A d \in Distros : metalink[d] = "hash" => metalink'[d] = "hash"
    BY <1>1 DEF Discard
  <2>4. QED
    BY <1>1, <2>1, <2>2, <2>3, RejectedKept
<1>12. AcceptedInv'
  BY <1>1, <1>2 DEF Discard, Fail, NextMirror, AcceptedInv
<1>13. QED
  BY <1>3, <1>4, <1>5, <1>6, <1>7, <1>8, <1>9, <1>10, <1>11, <1>12 DEF IInv

\* The next task.
LEMMA ExtractKernelKeeps ==
  ASSUME IInv, ExtractKernel
  PROVE  IInv'
<1>1. TypeOK /\ ListInv /\ PathInv /\ CdInv /\ MirrorInv /\ CacheInv /\ ListingInv
      /\ DistroInv /\ RejectedInv /\ AcceptedInv
  BY DEF IInv
<1>2. TypeOK'
  <2>1. file' \in [Paths -> Images \cup {None}]
    BY <1>1 DEF ExtractKernel, TypeOK
  <2>2. listing' \in [Paths -> Images \cup {NoAnswer, Unasked}]
    BY <1>1 DEF ExtractKernel, TypeOK
  <2>3. arch' \in CpuArch /\ skipMd5' \in BOOLEAN
    BY <1>1 DEF ExtractKernel, input, TypeOK
  <2>4. distro' \in Distros \cup {None} /\ isoDistro' \in Distros \cup {None}
    BY <1>1 DEF ExtractKernel, media, TypeOK
  <2>5. cdDistro' \in Distros \cup {None}
    BY <1>1 DEF ExtractKernel, media, TypeOK
  <2>6. isoPath' \in Paths \cup {None} /\ cdPath' \in {"cd", None}
    BY <1>1 DEF ExtractKernel, media, TypeOK
  <2>7. metalink' \in [Distros -> {"none", "hash", "no hash"}]
    BY <1>1 DEF ExtractKernel, TypeOK
  <2>8. hashed' \subseteq Local /\ rejected' \subseteq Local
    BY <1>1 DEF ExtractKernel, TypeOK
  <2>9. left' \in 0..Tries
    BY <1>1 DEF ExtractKernel, TypeOK
  <2>10. active' \in BOOLEAN /\ cancelled' \in BOOLEAN
    BY <1>1, RaiseIs DEF ExtractKernel, Fail, TypeOK, Faults
  <2>11. target' \in Paths \cup {None} /\ for' \in Callers \cup {None}
    BY <1>1 DEF ExtractKernel, TypeOK
  <2>12. pc' \in Steps \cup Terminal
    BY <1>1 DEF ExtractKernel, Fail, Terminal
  <2>13. raised' \subseteq Faults
    BY <1>1, RaiseIs DEF ExtractKernel, Fail, TypeOK, Faults
  <2>14. excuse' \in Excuses
    BY <1>1 DEF ExtractKernel, TypeOK
  <2>15. QED
    BY <2>1, <2>2, <2>3, <2>4, <2>5, <2>6, <2>7, <2>8, <2>9, <2>10, <2>11,
       <2>12, <2>13, <2>14 DEF TypeOK
<1>3. ListInv'
  <2>1. \/ UNCHANGED <<active, cancelled>> /\ raised' = raised
        \/ UNCHANGED <<active, cancelled>> /\ raised' = raised \cup {"torrent"}
        \/ ~active' /\ (cancelled' \/ raised' \ {"torrent"} # {})
    BY <1>1, RaiseIs DEF ExtractKernel, Fail, Faults
  <2>2. (pc' \in {"stopped", "failed"} => ~active')
        /\ (Starting' \/ pc' = "installed" => active')
    BY <1>1 DEF ExtractKernel, Fail, Starting, Raise
  <2>3. QED
    BY <1>1, <2>1, <2>2, ListKept
<1>4. PathInv'
  BY <1>1 DEF ExtractKernel, Fail, PathInv, Starting, CheckFor, Checking
<1>5. CdInv'
  BY <1>1 DEF ExtractKernel, Fail, CdInv, CheckFor, Checking
<1>6. MirrorInv'
  BY <1>1 DEF ExtractKernel, Fail, MirrorInv, Downloading, CheckFor, Checking
<1>7. CacheInv'
  <2>1. \A p \in Local : file'[p] \in {file[p], None}
    BY <1>1 DEF ExtractKernel
  <2>2. \A p \in Paths : \/ listing'[p] = listing[p]
                         \/ file[p] # None /\ listing'[p] = Listed(p)
    BY <1>1 DEF ExtractKernel
  <2>3. QED
    BY <1>1, <2>1, <2>2, CacheKept
<1>8. ListingInv'
  BY <1>1 DEF ExtractKernel, Fail, ListingInv, Starting, Downloading, CheckFor,
     Checking, Terminal
<1>9. DistroInv'
  BY <1>1 DEF ExtractKernel, Fail, DistroInv, Starting, Terminal
<1>10. RejectedInv'
  <2>1. UNCHANGED <<rejected, input>> /\ (check_arch => distro' = distro \/ rejected = {})
        /\ (Starting' => Starting) /\ (pc' = "copy" => target' \notin rejected)
    BY <1>1 DEF ExtractKernel, Fail, Starting
  <2>2. \A p \in rejected : file'[p] = file[p]
    BY <1>1 DEF ExtractKernel
  <2>3. \A d \in Distros : metalink[d] = "hash" => metalink'[d] = "hash"
    BY <1>1 DEF ExtractKernel
  <2>4. QED
    BY <1>1, <2>1, <2>2, <2>3, RejectedKept
<1>11. AcceptedInv'
  <2>1. pc = "extract_kernel" /\ UNCHANGED <<file, input, distro, media, metalink, excuse>>
    BY DEF ExtractKernel
  <2>2. CASE pc' = "installed"
    <3>1. active /\ distro # None /\ Medium \notin {None, Garbage}
      BY <2>1, <2>2 DEF ExtractKernel, Fail
    <3>2. Medium \in Readable
      <4>1. cdPath # None => cdPath = "cd"
        BY <1>1 DEF TypeOK
      <4>2. isoPath \in Paths
        BY <1>1, <2>1 DEF TypeOK, PathInv
      <4>3. Medium \in Images \cup {None}
        BY <1>1, <4>1, <4>2, LocalPaths DEF Medium, TypeOK
      <4>4. QED
        BY <3>1, <4>3 DEF Images
    <3>3. QED
      BY <1>1, <2>1, <2>2, <3>1, <3>2 DEF AcceptedInv, Vouched, InLine, Medium,
         input, media, check_arch
  <2>3. CASE pc' \in {"stopped", "failed"}
    BY <2>3 DEF AcceptedInv
  <2>4. QED
    BY <2>2, <2>3 DEF ExtractKernel, Fail
<1>12. QED
  BY <1>2, <1>3, <1>4, <1>5, <1>6, <1>7, <1>8, <1>9, <1>10, <1>11 DEF IInv

\* The user.
LEMMA CancelKeeps ==
  ASSUME IInv, Cancel
  PROVE  IInv'
<1>1. TypeOK /\ ListInv /\ PathInv /\ CdInv /\ MirrorInv /\ CacheInv /\ ListingInv
      /\ DistroInv /\ RejectedInv /\ AcceptedInv
  BY DEF IInv
<1>2. TypeOK'
  <2>1. file' \in [Paths -> Images \cup {None}]
    BY <1>1 DEF Cancel, TypeOK
  <2>2. listing' \in [Paths -> Images \cup {NoAnswer, Unasked}]
    BY <1>1 DEF Cancel, TypeOK
  <2>3. arch' \in CpuArch /\ skipMd5' \in BOOLEAN
    BY <1>1 DEF Cancel, input, TypeOK
  <2>4. distro' \in Distros \cup {None} /\ isoDistro' \in Distros \cup {None}
    BY <1>1 DEF Cancel, media, TypeOK
  <2>5. cdDistro' \in Distros \cup {None}
    BY <1>1 DEF Cancel, media, TypeOK
  <2>6. isoPath' \in Paths \cup {None} /\ cdPath' \in {"cd", None}
    BY <1>1 DEF Cancel, media, TypeOK
  <2>7. metalink' \in [Distros -> {"none", "hash", "no hash"}]
    BY <1>1 DEF Cancel, TypeOK
  <2>8. hashed' \subseteq Local /\ rejected' \subseteq Local
    BY <1>1 DEF Cancel, TypeOK
  <2>9. left' \in 0..Tries
    BY <1>1 DEF Cancel, TypeOK
  <2>10. active' \in BOOLEAN /\ cancelled' \in BOOLEAN
    BY <1>1 DEF Cancel
  <2>11. target' \in Paths \cup {None} /\ for' \in Callers \cup {None}
    BY <1>1 DEF Cancel, TypeOK
  <2>12. pc' \in Steps \cup Terminal
    BY <1>1 DEF Cancel, TypeOK
  <2>13. raised' \subseteq Faults
    BY <1>1 DEF Cancel, TypeOK
  <2>14. excuse' \in Excuses
    BY <1>1 DEF Cancel, TypeOK
  <2>15. QED
    BY <2>1, <2>2, <2>3, <2>4, <2>5, <2>6, <2>7, <2>8, <2>9, <2>10, <2>11,
       <2>12, <2>13, <2>14 DEF TypeOK
<1>3. ListInv'
  <2>1. \/ UNCHANGED <<active, cancelled>> /\ raised' = raised
        \/ UNCHANGED <<active, cancelled>> /\ raised' = raised \cup {"torrent"}
        \/ ~active' /\ (cancelled' \/ raised' \ {"torrent"} # {})
    BY <1>1 DEF Cancel
  <2>2. (pc' \in {"stopped", "failed"} => ~active')
        /\ (Starting' \/ pc' = "installed" => active')
    BY <1>1 DEF Cancel, Starting, Terminal
  <2>3. QED
    BY <1>1, <2>1, <2>2, ListKept
<1>4. PathInv'
  BY <1>1 DEF Cancel, media, PathInv, Starting, CheckFor, Checking
<1>5. CdInv'
  BY <1>1 DEF Cancel, media, CdInv, CheckFor, Checking
<1>6. MirrorInv'
  BY <1>1 DEF Cancel, media, MirrorInv, Downloading, CheckFor, Checking
<1>7. CacheInv'
  <2>1. \A p \in Local : file'[p] \in {file[p], None}
    BY <1>1 DEF Cancel
  <2>2. \A p \in Paths : \/ listing'[p] = listing[p]
                         \/ file[p] # None /\ listing'[p] = Listed(p)
    BY <1>1 DEF Cancel
  <2>3. QED
    BY <1>1, <2>1, <2>2, CacheKept
<1>8. ListingInv'
  BY <1>1 DEF Cancel, ListingInv, Starting, Downloading, CheckFor, Checking
<1>9. DistroInv'
  BY <1>1 DEF Cancel, input, DistroInv, Starting, check_arch
<1>10. RejectedInv'
  <2>1. UNCHANGED <<rejected, input>> /\ (check_arch => distro' = distro \/ rejected = {})
        /\ (Starting' => Starting) /\ (pc' = "copy" => target' \notin rejected)
    BY <1>1 DEF Cancel, Starting, RejectedInv, RejectedStaysOut
  <2>2. \A p \in rejected : file'[p] = file[p]
    BY <1>1 DEF Cancel
  <2>3. \A d \in Distros : metalink[d] = "hash" => metalink'[d] = "hash"
    BY <1>1 DEF Cancel
  <2>4. QED
    BY <1>1, <2>1, <2>2, <2>3, RejectedKept
<1>11. AcceptedInv'
  BY <1>1 DEF Cancel, input, media, AcceptedInv, Vouched, InLine, Medium,
     check_arch, Excuses
<1>12. QED
  BY <1>2, <1>3, <1>4, <1>5, <1>6, <1>7, <1>8, <1>9, <1>10, <1>11 DEF IInv

-----------------------------------------------------------------------------
(* The theorems.                                                           *)

LEMMA InitHolds ==
  ASSUME Init
  PROVE  IInv
<1>1. pc = "find_any_iso" /\ active /\ ~cancelled /\ raised = {} /\ rejected = {}
      /\ isoPath = None /\ left = 0
  BY DEF Init
<1>2. TypeOK
  <2>1. file \in [Paths -> Images \cup {None}]
    <3>1. PICK f \in [Local \cup {"cd"} -> Images \cup {None}] :
            file = [p \in Paths |-> IF p \in Installed THEN None ELSE f[p]]
      BY DEF Init
    <3>2. \A p \in Paths : p \in Installed \/ p \in Local \cup {"cd"}
      BY DEF Paths
    <3>3. QED
      BY <3>1, <3>2
  <2>2. listing \in [Paths -> Images \cup {NoAnswer, Unasked}]
    BY DEF Init
  <2>3. metalink \in [Distros -> {"none", "hash", "no hash"}]
    BY DEF Init
  <2>4. left \in 0 .. Tries
    BY <1>1, IsolistAssumption DEF Tries
  <2>5. QED
    BY <2>1, <2>2, <2>3, <2>4 DEF Init, TypeOK, Steps, Excuses
<1>3. Starting /\ ~Checking /\ ~Downloading /\ (\A f : ~CheckFor(f)) /\ pc \notin Terminal
  BY <1>1 DEF Starting, Checking, Downloading, CheckFor, Terminal
<1>4. ListInv /\ PathInv /\ CdInv /\ MirrorInv
  BY <1>1, <1>3 DEF ListInv, PathInv, CdInv, MirrorInv
<1>5. CacheInv /\ ListingInv
  BY <1>3, MarkerAssumption, LocalPaths DEF Init, CacheInv, ListingInv
<1>6. DistroInv
  BY <1>1, <1>3 DEF Init, DistroInv
<1>7. RejectedInv /\ AcceptedInv
  BY <1>1, <1>3 DEF RejectedInv, RejectedStaysOut, AcceptedInv
<1>8. QED
  BY <1>2, <1>4, <1>5, <1>6, <1>7 DEF IInv

LEMMA StutterKeeps ==
  ASSUME IInv, UNCHANGED vars
  PROVE  IInv'
<1>1. /\ UNCHANGED <<file, listing, arch, skipMd5, distro, isoPath, isoDistro, cdPath>>
      /\ UNCHANGED <<cdDistro, metalink, hashed, active, left, target, for, pc>>
      /\ UNCHANGED <<cancelled, raised, excuse, rejected>>
  BY DEF vars, input, media
<1>2. TypeOK' /\ ListInv'
  BY <1>1 DEF IInv, TypeOK, ListInv, Starting
<1>3. PathInv' /\ CdInv' /\ MirrorInv'
  BY <1>1 DEF IInv, PathInv, CdInv, MirrorInv, Starting, Checking, CheckFor,
     Downloading
<1>4. CacheInv' /\ ListingInv' /\ DistroInv'
  BY <1>1 DEF IInv, CacheInv, Answer, ListingInv, DistroInv, Starting,
     Checking, CheckFor, Downloading, check_arch
<1>5. RejectedInv' /\ AcceptedInv'
  BY <1>1 DEF IInv, RejectedInv, RejectedStaysOut, AcceptedInv, Vouched,
     InLine, Medium, Starting, check_arch
<1>6. QED
  BY <1>2, <1>3, <1>4, <1>5 DEF IInv

LEMMA StepKeeps ==
  ASSUME IInv, [Next]_vars
  PROVE  IInv'
BY StutterKeeps, FindAnyIsoKeeps, FindAnyCdKeeps, SettingsKeeps, ValidateKeeps,
   CheckMetalinkKeeps, CheckMd5Keeps, GetPrespecifiedIsoKeeps, CopyIsoKeeps,
   UseCdKeeps, CdRejectedKeeps, UseIsoKeeps, DownloadKeeps, ClearKeeps,
   FetchKeeps, DiscardKeeps, ExtractKernelKeeps, CancelKeeps DEF Next, Work

THEOREM Invariance == Spec => []IInv
BY InitHolds, StepKeeps, PTL DEF Spec

(* What is copied and installed is the right medium: get_iso (check_iso,    *)
(* copy_iso, use_cd, download_iso) hands extract_kernel only what has the   *)
(* md5 of the metalink or one of the excuses the code knows, the distro is  *)
(* in line with it, and a local ISO once rejected is not copied later.      *)
THEOREM MediumIsRight == Spec => []RightMedium
<1>1. IInv => RightMedium
  <2> SUFFICES ASSUME IInv PROVE RightMedium
    OBVIOUS
  <2>1. TypeOK /\ RejectedStaysOut
    BY DEF IInv, RejectedInv
  <2>2. pc = "installed" =>
          Medium \in Readable /\ Vouched(file[isoPath]) /\ InLine(Medium)
    BY DEF IInv, AcceptedInv
  <2>3. excuse \in Excuses
    BY <2>1 DEF TypeOK
  <2>4. InstalledIsVerified
    BY <2>2, <2>3 DEF InstalledIsVerified, Vouched, Excuses
  <2>5. DistroFollowsMedium
    BY <2>2 DEF DistroFollowsMedium, InLine
  <2>6. QED
    BY <2>1, <2>4, <2>5 DEF RightMedium
<1>2. QED
  BY <1>1, Invariance, PTL

(* The task list stops only for the user or for an exception that is shown, *)
(* and an installation goes on only if nothing but a torrent has failed.    *)
THEOREM NoStopIsSilent == Spec => []NoSilentStop
<1>1. IInv => NoSilentStop
  BY DEF IInv, ListInv, NoSilentStop
<1>2. QED
  BY <1>1, Invariance, PTL

\* What a step does to the files: nothing, a CD is changed, one is copied, or
\* the download is written or deleted.
LEMMA FileSteps ==
  ASSUME IInv, Next
  PROVE  \/ file' = file
         \/ active /\ \A p \in Paths \ {"cd"} : file'[p] = file[p]
         \/ \E p \in Paths : Copied(p)
         \/ /\ active \/ file'["saved"] \in {file["saved"], None}
            /\ \A p \in Paths \ {"saved"} : file'[p] = file[p]
<1>1. TypeOK /\ PathInv /\ ListInv
  BY DEF IInv
<1>2. CASE Settings
  <2>1. active
    BY <1>1, <1>2 DEF Settings, ListInv, Starting
  <2>2. PICK c : file' = [file EXCEPT !["cd"] = c]
    BY <1>2 DEF Settings
  <2>3. QED
    BY <1>1, <2>1, <2>2
<1>3. CASE CopyIso
  <2>1. target \in Paths /\ CopyFrom(target, "copy iso")
    BY <1>1, <1>3, LocalPaths DEF CopyIso, PathInv
  <2>2. Copied(target)
    BY <1>1, <2>1, CopyFromIs DEF Faults
  <2>3. QED
    BY <2>1, <2>2
<1>4. CASE UseCd
  <2>1. CopyFrom("cd", "copy cd") \/ file' = file
    BY <1>4 DEF UseCd
  <2>2. Copied("cd") \/ file' = file
    BY <1>1, <2>1, CopyFromIs, LocalPaths DEF Faults
  <2>3. QED
    BY <2>2, LocalPaths
<1>5. CASE Clear \/ Discard
  <2>1. file' = file \/ file' = [file EXCEPT !["saved"] = None]
    BY <1>5 DEF Clear, Discard
  <2>2. QED
    BY <1>1, <2>1, FileTyped
<1>6. CASE Fetch
  <2>1. file' = file \/ (active /\ \E i : file' = [file EXCEPT !["saved"] = i])
    BY <1>6 DEF Fetch
  <2>2. QED
    BY <1>1, <2>1 DEF TypeOK
<1>7. CASE FindAnyIso \/ FindAnyCd \/ GetPrespecifiedIso \/ CdRejected \/ UseIso \/ Validate
           \/ CheckMetalink \/ CheckMd5 \/ Download \/ ExtractKernel \/ Cancel
  BY <1>7 DEF FindAnyIso, FindAnyCd, GetPrespecifiedIso, CdRejected, UseIso,
     Validate, CheckMetalink, CheckMd5, Download, ExtractKernel, Cancel
<1>8. QED
  BY <1>2, <1>3, <1>4, <1>5, <1>6, <1>7 DEF Next, Work

(* Once the list is inactive (the user cancelled, or a part failed) get_iso *)
(* runs on to its end but writes no file: at most it deletes the download.  *)
THEOREM NothingWrittenAfterCancel == Spec => CancelledWritesNothing
<1>1. IInv /\ [Next]_vars => [~active => \A p \in Paths : file'[p] \in {file[p], None}]_vars
  <2> SUFFICES ASSUME IInv, Next, ~active, NEW p \in Paths
               PROVE  file'[p] \in {file[p], None}
    OBVIOUS
  <2>1. \A q \in Paths : Copied(q) => file' = file
    BY DEF Copied
  <2>2. QED
    BY <2>1, FileSteps
<1>2. QED
  BY <1>1, Invariance, PTL DEF Spec, CancelledWritesNothing
=============================================================================
