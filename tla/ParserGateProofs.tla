--------------------------- MODULE ParserGateProofs ---------------------------
(***************************************************************************)
(* Whatever the script was killed at and whatever was done by hand, the    *)
(* program imports the pinned library, whole, or none.                     *)
(***************************************************************************)
EXTENDS ParserGate, TLAPS

(* ------------------------------ the invariant ---------------------------- *)
Full == {<<f, "pinned">> : f \in Files}
Copied(k) == {f \in Embedded : \E j \in 1..k : Writes[j] = In("copy", f)}
Noticed(k) == {f \in Embedded : \E j \in 1..k : Writes[j] = In("third_party", f)}
Pinned(g, D) == D \subseteq DOMAIN g /\ \A f \in D : g[f] = "pinned"

(* What the script has done so far, while it runs.                           *)
Progress ==
    /\ script \in {"idle", "remove", "copy", "write", "check"}
    /\ script \in {"idle", "remove", "copy"} => written = 0
    /\ script = "write" => written \in 0..7
    /\ script = "check" => written = 8
CopyInv == script = "copy" => DOMAIN package \subseteq Modules
WriteInv ==
    script \in {"write", "check"} =>
        /\ DOMAIN package = Modules \cup Copied(written)
        /\ Pinned(notices, Noticed(written))
        /\ written >= 7 => listed = Full
Clean == script \in {"copy", "write", "check"} =>
             /\ links = {} /\ Pinned(package, DOMAIN package)
             /\ embedded = IF script = "check" THEN Full ELSE NoManifest

(* The manifest in the copy lists everything, or lacks a module.             *)
Short(manifest) == Modules \ {entry[1] : entry \in manifest} # {}
ManifestInv == embedded = Full \/ (embedded \subseteq Full /\ Short(embedded))

PackageInv == /\ package = [f \in DOMAIN package |-> package[f]]
              /\ DOMAIN package \subseteq Files /\ links \subseteq DOMAIN package

GateInv == Progress /\ CopyInv /\ WriteInv /\ Clean /\ ManifestInv /\ PackageInv

(* --------------------------------- helpers ------------------------------- *)
LEMMA WritesAre ==
    /\ Len(Writes) = 8
    /\ Writes[1] = In("copy", "license")
    /\ Writes[2] = In("third_party", "license")
    /\ Writes[3] = In("third_party", "metadata")
    /\ Writes[4] = In("third_party", "provenance")
    /\ Writes[5] = In("copy", "metadata")
    /\ Writes[6] = In("copy", "provenance")
    /\ Writes[7] = In("third_party", "m")
    /\ Writes[8] = In("copy", "m")
BY DEF Writes

(* Writing a file leaves the others as they were.                            *)
LEMMA PutFile ==
    ASSUME NEW f, NEW what, Put(f, what)
    PROVE  /\ DOMAIN package' = DOMAIN package \cup {f}
           /\ package' = [g \in DOMAIN package' |-> package'[g]]
           /\ package'[f] = what
           /\ \A g \in DOMAIN package : g # f => package'[g] = package[g]
BY DEF Put, With

(* A copy without any file missing from a complete manifest is the library.  *)
LEMMA WholeCopy ==
    ASSUME PackageInv, DOMAIN package = Files, Pinned(package, Files)
    PROVE  package = [f \in Files |-> "pinned"] /\ ManifestText = Full
<1>1. package = [f \in Files |-> "pinned"]
  BY DEF PackageInv, Pinned
<1> QED BY <1>1 DEF ManifestText, Full

(* A list that is not there lacks a module, for there is one.                *)
LEMMA NothingIsShort == NoManifest \subseteq Full /\ Short(NoManifest)
BY ModulesAssumption DEF NoManifest, Short, Full

(* One more write brings one more file.                                      *)
LEMMA OneMore ==
    ASSUME NEW k \in 0..7
    PROVE  /\ Copied(k + 1) = Copied(k) \cup {f \in Embedded : Writes[k + 1] = In("copy", f)}
           /\ Noticed(k + 1) = Noticed(k) \cup {f \in Embedded : Writes[k + 1] = In("third_party", f)}
<1>1. \A j : j \in 1..(k + 1) <=> (j \in 1..k \/ j = k + 1)
  OBVIOUS
<1> QED BY <1>1 DEF Copied, Noticed

LEMMA AllCopied ==
    /\ Copied(0) = {} /\ Noticed(0) = {}
    /\ Copied(6) = Embedded /\ Copied(7) = Embedded /\ Copied(8) = Embedded
    /\ Noticed(8) = Embedded
<1>1. Copied(0) = {} /\ Noticed(0) = {}
  BY DEF Copied, Noticed
<1>2. 1 \in 1..6 /\ 5 \in 1..6 /\ 6 \in 1..6 /\ 1 \in 1..7 /\ 5 \in 1..7 /\ 6 \in 1..7
      /\ \A j \in 1..6 : j \in 1..8
  OBVIOUS
<1>3. \A f \in Embedded : f = "license" \/ f = "metadata" \/ f = "provenance"
  BY DEF Embedded
<1> QED BY <1>1, <1>2, <1>3, WritesAre DEF Copied, Noticed

(* ---------------------------------- steps -------------------------------- *)
LEMMA GateInit == Init => GateInv
<1> SUFFICES ASSUME Init PROVE GateInv
  OBVIOUS
<1>1. Progress /\ CopyInv /\ WriteInv /\ Clean
  BY DEF Init, Progress, CopyInv, WriteInv, Clean
<1>2. ManifestInv
  BY NothingIsShort DEF Init, ManifestInv
<1>3. PackageInv
  BY DEF Init, PackageInv
<1> QED BY <1>1, <1>2, <1>3 DEF GateInv

LEMMA RemoveKeeps == GateInv /\ Remove => GateInv'
<1> SUFFICES ASSUME GateInv, Remove PROVE GateInv'
  OBVIOUS
<1> USE DEF GateInv, Remove, notes
<1>1. CASE \E f \in DOMAIN package :
             /\ package' = Restrict(package, DOMAIN package \ {f})
             /\ links' = links \ {f}
             /\ UNCHANGED <<embedded, script>>
  <2>1. Progress' /\ CopyInv' /\ WriteInv' /\ Clean'
    BY <1>1 DEF Progress, CopyInv, WriteInv, Clean
  <2>2. ManifestInv'
    BY <1>1 DEF ManifestInv, Short
  <2>3. PackageInv'
    BY <1>1 DEF PackageInv, Restrict
  <2> QED BY <2>1, <2>2, <2>3
<1>2. CASE embedded' = NoManifest /\ UNCHANGED <<package, links, script>>
  <2>1. Progress' /\ CopyInv' /\ WriteInv' /\ Clean' /\ PackageInv'
    BY <1>2 DEF Progress, CopyInv, WriteInv, Clean, PackageInv
  <2>2. ManifestInv'
    BY <1>2, NothingIsShort DEF ManifestInv, Short
  <2> QED BY <2>1, <2>2
<1>3. CASE /\ DOMAIN package = {} /\ embedded = NoManifest
           /\ script' = "copy" /\ UNCHANGED copy
  <2>1. links = {}
    BY <1>3 DEF PackageInv
  <2> QED BY <1>3, <2>1 DEF Progress, CopyInv, WriteInv, Clean, ManifestInv, Short, PackageInv, Pinned, copy
<1> QED BY <1>1, <1>2, <1>3

LEMMA CopyModuleKeeps == GateInv /\ CopyModule => GateInv'
<1> SUFFICES ASSUME GateInv, CopyModule PROVE GateInv'
  OBVIOUS
<1> USE DEF GateInv, CopyModule, notes
<1>1. CASE \E f \in Modules \ DOMAIN package : Put(f, "pinned") /\ UNCHANGED script
  <2>1. PICK f \in Modules : Put(f, "pinned") /\ UNCHANGED script
    BY <1>1
  <2>2. /\ DOMAIN package' = DOMAIN package \cup {f}
        /\ package' = [g \in DOMAIN package' |-> package'[g]]
        /\ package'[f] = "pinned"
        /\ \A g \in DOMAIN package : g # f => package'[g] = package[g]
    BY <2>1, PutFile
  <2>3. Progress' /\ CopyInv' /\ WriteInv' /\ ManifestInv' /\ PackageInv'
    BY <2>1, <2>2 DEF Progress, CopyInv, WriteInv, ManifestInv, Short, PackageInv, Files
  <2>4. Clean'
    BY <2>1, <2>2 DEF Clean, Pinned
  <2> QED BY <2>3, <2>4
<1>2. CASE Modules \subseteq DOMAIN package /\ script' = "write" /\ UNCHANGED package
  <2>1. Progress' /\ CopyInv' /\ ManifestInv' /\ PackageInv' /\ Clean'
    BY <1>2 DEF Progress, CopyInv, ManifestInv, Short, PackageInv, Clean, Pinned
  <2>2. written' = 0 /\ DOMAIN package' = Modules
    BY <1>2 DEF Progress, CopyInv
  <2>3. WriteInv'
    BY <1>2, <2>2, AllCopied DEF WriteInv, Pinned
  <2> QED BY <2>1, <2>3
<1> QED BY <1>1, <1>2

(* When it comes to the manifests the copy is whole.                         *)
LEMMA CopyIsWhole ==
    ASSUME GateInv, script = "write", written \in {6, 7}
    PROVE  ManifestText = Full
<1>1. DOMAIN package = Files /\ Pinned(package, Files)
  BY AllCopied DEF GateInv, WriteInv, Clean, Files
<1> QED BY <1>1, WholeCopy DEF GateInv

LEMMA WriteKeeps == GateInv /\ Write => GateInv'
<1> SUFFICES ASSUME GateInv, Write PROVE GateInv'
  OBVIOUS
<1> DEFINE w == Writes[written + 1]
<1>1. /\ script = "write" /\ written \in 0..7 /\ written' = written + 1
      /\ script' = IF written' = 8 THEN "check" ELSE "write"
      /\ links' = links /\ Writing(w, IF w.file = "m" THEN ManifestText ELSE "pinned")
  BY WritesAre DEF Write, GateInv, Progress
<1>2. Progress' /\ CopyInv'
  BY <1>1 DEF Progress, CopyInv
<1>3. /\ Copied(written') = Copied(written) \cup {f \in Embedded : w = In("copy", f)}
      /\ Noticed(written') = Noticed(written) \cup {f \in Embedded : w = In("third_party", f)}
  BY <1>1, OneMore
<1>4. CASE \E f \in Embedded : w = In("copy", f)
  <2>1. PICK f \in Embedded : w = In("copy", f)
    BY <1>4
  <2>2. f # "m" /\ w.file = f /\ w.place = "copy" /\ written' \in 1..6
    <3>1. f # "m" /\ w.file = f /\ w.place = "copy"
      BY <2>1 DEF In, Embedded
    <3>2. w.place = "third_party" \/ w.file = "m" \/ written \in 0..5
      BY <1>1, WritesAre DEF In
    <3> QED BY <1>1, <3>1, <3>2
  <2>3. Put(f, "pinned") /\ UNCHANGED <<embedded, notices, listed>>
    BY <1>1, <2>2 DEF Writing, notes
  <2>4. /\ Copied(written') = Copied(written) \cup {f} /\ Noticed(written') = Noticed(written)
    BY <1>3, <2>1 DEF In
  <2>5. /\ DOMAIN package' = DOMAIN package \cup {f}
        /\ package' = [g \in DOMAIN package' |-> package'[g]]
        /\ package'[f] = "pinned"
        /\ \A g \in DOMAIN package : g # f => package'[g] = package[g]
    BY <2>3, PutFile
  <2>6. WriteInv'
    BY <1>1, <2>2, <2>3, <2>4, <2>5 DEF GateInv, WriteInv, Pinned
  <2>7. Clean' /\ ManifestInv' /\ PackageInv'
    BY <1>1, <2>2, <2>3, <2>5 DEF GateInv, Clean, ManifestInv, Short, PackageInv, Pinned, Files
  <2> QED BY <1>2, <2>6, <2>7 DEF GateInv
<1>5. CASE \E f \in Embedded : w = In("third_party", f)
  <2>1. PICK f \in Embedded : w = In("third_party", f)
    BY <1>5
  <2>2. f # "m" /\ w.file = f /\ w.place # "copy" /\ written' \in 1..6
    <3>1. f # "m" /\ w.file = f /\ w.place # "copy"
      BY <2>1 DEF In, Embedded
    <3>2. w.place = "copy" \/ w.file = "m" \/ written \in 0..5
      BY <1>1, WritesAre DEF In
    <3> QED BY <1>1, <3>1, <3>2
  <2>3. notices' = With(notices, f, "pinned") /\ UNCHANGED <<package, embedded, listed>>
    BY <1>1, <2>2 DEF Writing
  <2>4. /\ Copied(written') = Copied(written) /\ Noticed(written') = Noticed(written) \cup {f}
    BY <1>3, <2>1 DEF In
  <2>5. Pinned(notices', Noticed(written'))
    BY <1>1, <2>3, <2>4 DEF GateInv, WriteInv, Pinned, With
  <2>6. WriteInv'
    BY <1>1, <2>2, <2>3, <2>4, <2>5 DEF GateInv, WriteInv
  <2>7. Clean' /\ ManifestInv' /\ PackageInv'
    BY <1>1, <2>2, <2>3 DEF GateInv, Clean, ManifestInv, Short, PackageInv, Pinned
  <2> QED BY <1>2, <2>6, <2>7 DEF GateInv
<1>6. CASE w.file = "m"
  <2>1. written \in {6, 7} /\ w = In(IF written = 6 THEN "third_party" ELSE "copy", "m")
    BY <1>1, <1>6, WritesAre DEF In
  <2>2. ManifestText = Full
    BY <1>1, <2>1, CopyIsWhole
  <2>3. /\ UNCHANGED <<package, notices>>
        /\ written = 6 => listed' = Full /\ embedded' = embedded
        /\ written = 7 => embedded' = Full /\ listed' = listed
    BY <1>1, <2>1, <2>2 DEF Writing, In, notes
  <2>4. Copied(written') = Copied(written) /\ Noticed(written') = Noticed(written)
    BY <1>3, <2>1 DEF In, Embedded
  <2>5. WriteInv'
    BY <1>1, <2>1, <2>3, <2>4 DEF GateInv, WriteInv, Pinned
  <2>6. Clean'
    BY <1>1, <2>1, <2>3 DEF GateInv, Clean, Pinned
  <2>7. ManifestInv' /\ PackageInv'
    BY <1>1, <2>1, <2>3 DEF GateInv, ManifestInv, Short, PackageInv
  <2> QED BY <1>2, <2>5, <2>6, <2>7 DEF GateInv
<1>7. w.file = "m" \/ \E f \in Embedded : w = In("copy", f) \/ w = In("third_party", f)
  BY <1>1, WritesAre DEF In, Embedded
<1> QED BY <1>4, <1>5, <1>6, <1>7

LEMMA CrashKeeps == GateInv /\ Crash => GateInv'
<1> SUFFICES ASSUME GateInv, Crash PROVE GateInv'
  OBVIOUS
<1>1. /\ script' = "idle" /\ written' = 0 /\ links' = links
      /\ script \in {"remove", "copy", "write"}
  BY DEF Crash
<1>2. Progress' /\ CopyInv' /\ WriteInv' /\ Clean'
  BY <1>1 DEF Progress, CopyInv, WriteInv, Clean
<1>3. CASE UNCHANGED <<package, embedded, notes>>
  BY <1>1, <1>2, <1>3 DEF GateInv, ManifestInv, Short, PackageInv
<1>4. CASE \E f \in Files : Put(f, "torn") /\ embedded' = embedded
  <2>1. PICK f \in Files : Put(f, "torn") /\ embedded' = embedded
    BY <1>4
  <2>2. /\ DOMAIN package' = DOMAIN package \cup {f}
        /\ package' = [g \in DOMAIN package' |-> package'[g]]
    BY <2>1, PutFile
  <2>3. PackageInv' /\ ManifestInv'
    BY <1>1, <2>1, <2>2 DEF GateInv, PackageInv, ManifestInv, Short
  <2> QED BY <1>2, <2>3 DEF GateInv
<1>5. CASE /\ script = "write"
           /\ LET w == Writes[written + 1]
              IN  IF w.file = "m"
                  THEN \E part \in SUBSET ManifestText : CutShort(part) /\ Writing(w, part)
                  ELSE Writing(w, "torn")
  <2> DEFINE w == Writes[written + 1]
  <2>1. written \in 0..7
    BY <1>5 DEF GateInv, Progress
  <2>2. CASE w.file = "m"
    <3>1. PICK part \in SUBSET ManifestText : CutShort(part) /\ Writing(w, part)
      BY <1>5, <2>2
    <3>2. ManifestText = Full
      <4>1. written \in {6, 7}
        BY <2>1, <2>2, WritesAre DEF In
      <4> QED BY <1>5, <4>1, CopyIsWhole
    <3>3. package' = package /\ (embedded' = embedded \/ embedded' = part)
      BY <2>2, <3>1 DEF Writing
    <3>4. ManifestInv'
      BY <3>1, <3>2, <3>3 DEF GateInv, ManifestInv, Short, CutShort
    <3> QED BY <1>1, <1>2, <3>3, <3>4 DEF GateInv, PackageInv
  <2>3. CASE w.file # "m"
    <3>1. Writing(w, "torn") /\ w.file \in Files
      BY <1>5, <2>1, <2>3, WritesAre DEF In, Files, Embedded
    <3>2. CASE w.place = "copy"
      BY <1>4, <2>3, <3>1, <3>2 DEF Writing
    <3>3. CASE w.place # "copy"
      <4>1. package' = package /\ embedded' = embedded
        BY <2>3, <3>1, <3>3 DEF Writing
      <4> QED BY <1>1, <1>2, <4>1 DEF GateInv, ManifestInv, Short, PackageInv
    <3> QED BY <3>2, <3>3
  <2> QED BY <2>2, <2>3
<1> QED BY <1>3, <1>4, <1>5 DEF Crash, Files

LEMMA EditKeeps == GateInv /\ Edit => GateInv'
<1> SUFFICES ASSUME GateInv, Edit PROVE GateInv'
  OBVIOUS
<1>1. script = "idle" /\ script' = "idle" /\ written' = written /\ embedded' = embedded
  BY DEF Edit
<1>2. Progress' /\ CopyInv' /\ WriteInv' /\ Clean' /\ ManifestInv'
  BY <1>1 DEF GateInv, Progress, CopyInv, WriteInv, Clean, ManifestInv, Short
<1>3. PackageInv'
  <2>1. CASE \E f \in Files : Put(f, "edited") /\ UNCHANGED <<links, notices>>
    <3>1. PICK f \in Files : Put(f, "edited") /\ links' = links
      BY <2>1
    <3>2. /\ DOMAIN package' = DOMAIN package \cup {f}
          /\ package' = [g \in DOMAIN package' |-> package'[g]]
      BY <3>1, PutFile
    <3> QED BY <3>1, <3>2 DEF GateInv, PackageInv
  <2>2. CASE \E f \in DOMAIN package : /\ package' = Restrict(package, DOMAIN package \ {f})
                                       /\ links' = links \ {f} /\ UNCHANGED notices
    BY <2>2 DEF GateInv, PackageInv, Restrict
  <2>3. CASE \E f \in DOMAIN package :
                links' = links \cup {f} /\ UNCHANGED <<package, notices>>
    BY <2>3 DEF GateInv, PackageInv
  <2>4. CASE UNCHANGED <<package, links>>
    BY <2>4 DEF GateInv, PackageInv
  <2> QED BY <2>1, <2>2, <2>3, <2>4 DEF Edit
<1> QED BY <1>2, <1>3 DEF GateInv

LEMMA StepsKeep == GateInv /\ [Next]_vars => GateInv'
<1> SUFFICES ASSUME GateInv, [Next]_vars PROVE GateInv'
  OBVIOUS
<1>1. CASE StartVendor
  BY <1>1 DEF StartVendor, copy, notes, GateInv, Progress, CopyInv, WriteInv, Clean, ManifestInv,
              Short, PackageInv
<1>2. CASE Check
  BY <1>2 DEF Check, copy, notes, GateInv, Progress, CopyInv, WriteInv, Clean, ManifestInv,
              Short, PackageInv
<1>3. CASE UNCHANGED vars
  BY <1>3 DEF vars, copy, notes, GateInv, Progress, CopyInv, WriteInv, Clean, ManifestInv,
              Short, PackageInv, Pinned
<1> QED BY <1>1, <1>2, <1>3, RemoveKeeps, CopyModuleKeeps, WriteKeeps, CrashKeeps, EditKeeps
        DEF Next

(* -------------------------------- theorems ------------------------------- *)
(* What passes for available is the library that was vendored.               *)
THEOREM AvailableIsPinnedHolds == Spec => []AvailableIsPinned
<1>1. GateInv => AvailableIsPinned
  <2> SUFFICES ASSUME GateInv, Available PROVE package = [f \in Files |-> "pinned"]
    BY DEF AvailableIsPinned
  <2>1. \A f \in DOMAIN package : <<f, package[f]>> \in embedded
    BY DEF Available, Valid, ManifestText
  <2>2. embedded = Full
    <3>1. \A f \in Modules : \E entry \in embedded : entry[1] = f
      <4>1. TAKE f \in Modules
      <4>2. <<f, package[f]>> \in embedded
        BY <2>1 DEF Available
      <4> QED BY <4>2
    <3> QED BY <3>1 DEF GateInv, ManifestInv, Short
  <2>3. DOMAIN package = Files
    <3>1. ASSUME NEW f \in Files PROVE f \in DOMAIN package
      <4>1. <<f, "pinned">> \in embedded
        BY <2>2 DEF Full
      <4>2. <<f, "pinned">>[1] \in DOMAIN package
        BY <4>1 DEF Available, Valid
      <4> QED BY <4>2
    <3> QED BY <3>1 DEF GateInv, PackageInv
  <2>4. Pinned(package, Files)
    <3>1. ASSUME NEW f \in Files PROVE package[f] = "pinned"
      BY <2>1, <2>2, <2>3 DEF Full
    <3> QED BY <2>3, <3>1 DEF Pinned
  <2> QED BY <2>3, <2>4, WholeCopy DEF GateInv
<1> QED BY <1>1, GateInit, StepsKeep, PTL DEF Spec

(* A vendoring that comes to its end has repaired whatever it found.         *)
THEOREM VendoringRepairsHolds == Spec => []VendoringRepairs
<1>1. GateInv => VendoringRepairs
  <2> SUFFICES ASSUME GateInv, script = "check" PROVE CheckPasses /\ Available
    BY DEF VendoringRepairs
  <2>1. written = 8 /\ links = {} /\ listed = Full /\ embedded = Full
    BY DEF GateInv, Progress, WriteInv, Clean
  <2>2. DOMAIN package = Files /\ Pinned(package, Files) /\ Pinned(notices, Embedded)
    BY <2>1, AllCopied DEF GateInv, WriteInv, Clean, Files
  <2>3. ManifestText = Full
    BY <2>2, WholeCopy DEF GateInv
  <2>4. Full # NoManifest
    BY ModulesAssumption DEF Full, Files, NoManifest
  <2>5. CheckPasses
    BY <2>1, <2>2, <2>3, <2>4 DEF CheckPasses, Same, Pinned, Files, Embedded
  <2>6. Available
    BY <2>1, <2>2, <2>3, <2>4 DEF Available, Valid, Full, Files
  <2> QED BY <2>5, <2>6
<1> QED BY <1>1, GateInit, StepsKeep, PTL DEF Spec

(* A scan and a command with the same settings come to the same verdict, and *)
(* the command stops where it alone refuses.                                 *)
THEOREM ScanForetellsHolds == Spec => []ScanForetells
<1>1. ScanForetells
  <2> SUFFICES ASSUME NEW command \in Commands, NEW s \in Settings, s.env = "empty" => s.option # "none"
               PROVE  IF RefusesLab(command, s) \/ RefusesUses(command, s)
                      THEN GateExit(command, s) # 0
                      ELSE GateExit(command, s) = ScanExit(s)
    BY DEF ScanForetells
  <2> DEFINE b == CommandBackend(s)
  <2>1. CASE RefusesLab(command, s) \/ RefusesUses(command, s)
    BY <2>1 DEF GateExit, Exit
  <2>2. CASE ~(RefusesLab(command, s) \/ RefusesUses(command, s))
    <3>1. ScanBackend(s) = b
      BY DEF ScanBackend, CommandBackend, Settings, Backends
    <3>0. Exit(AllAccepted(Authority(b)) /\ ~RefusesUses(command, s))
             = Exit(AllAccepted(Authority(b)))
      BY <2>2 DEF Exit
    <3>2. CASE b \notin Backends
      BY <2>2, <3>1, <3>2 DEF ScanExit, GateExit, Backends
    <3>3. CASE b = "lab"
      BY <2>2, <3>1, <3>0, <3>3 DEF ScanExit, GateExit, Authority, Backends
    <3>4. CASE b = "stable"
      BY <2>2, <3>1, <3>0, <3>4 DEF ScanExit, GateExit, Authority, Backends
    <3>5. CASE b = "compare"
      BY <2>2, <3>1, <3>0, <3>5 DEF ScanExit, ScanCompareExit, GateExit, Authority, Backends
    <3> QED BY <2>2, <3>2, <3>3, <3>4, <3>5 DEF Backends
  <2> QED BY <2>1, <2>2
<1> QED BY <1>1, PTL DEF Spec
===============================================================================
