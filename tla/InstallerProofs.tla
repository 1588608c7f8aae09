-------------------------- MODULE InstallerProofs ---------------------------
(***************************************************************************)
(* Proofs about Installer and the live system it runs in: types, what the  *)
(* live system has booted from, what an installation and its search for a  *)
(* source leave, and what it takes to keep the system from starting, for   *)
(* any number of devices, failed commands and attempts.                    *)
(***************************************************************************)
EXTENDS Installer, FiniteSetTheorems, TLAPS

-----------------------------------------------------------------------------
(***************************************************************************)
(* The live system.                                                        *)
(***************************************************************************)

\* From the moment a root is chosen the script knows how it is mounted, and it is
\* never what a failed copy has left.
RootInv ==
    /\ livePc = "copy" => mode = "copy"
    /\ livePc = "overlay" => mode = "overlay"
    /\ livePc \in {"move", "repo", "release", "switch", "booted"} =>
           newRoot.how = mode /\ newRoot.holds # "part"
    /\ livePc = "booted" => newRoot.holds = "live"
    /\ repoMode = "tmpfs" <=> repo = "tmpfs"
    /\ newRoot = [how |-> newRoot.how, holds |-> newRoot.holds]

LEMMA LiveFaults ==
    ASSUME LiveTypeOK, NEW T, Succeeds(T) \/ Fails(T)
    PROVE  faults' \in 0..MaxFaults /\ faults' >= faults
  BY LiveAssumption DEF LiveTypeOK, Succeeds, Fails

\* The outcome of a step on the counter.
LEMMA LiveCounter ==
    ASSUME LiveTypeOK, LiveNext PROVE faults' \in 0..MaxFaults /\ faults' >= faults
  <1>1. faults' = faults \/ \E T \in SUBSET Tools : Succeeds(T) \/ Fails(T)
    <2>1. CASE Stage \/ Move \/ Switch
      BY <2>1 DEF Stage, Move, Switch
    <2>2. CASE SkipDevice \/ TakeDevice \/ NoDevice \/ Choose
      <3>1. /\ {"mkdir", "mount"} \subseteq Tools /\ {"mkdir", "mount", "umount"} \subseteq Tools
            /\ {"umount"} \subseteq Tools /\ {"mount"} \subseteq Tools /\ {"cat"} \subseteq Tools
        BY DEF Tools
      <3>2. CASE SkipDevice \/ TakeDevice
        BY <3>1, <3>2 DEF SkipDevice, TakeDevice
      <3>3. CASE NoDevice \/ Choose
        BY <3>1, <3>3 DEF NoDevice, Choose
      <3>4. QED
        BY <2>2, <3>2, <3>3
    <2>3. CASE MountSfs
      <3>1. {"mount"} \subseteq Tools
        BY DEF Tools
      <3>2. QED
        BY <2>3, <3>1 DEF MountSfs
    <2>4. CASE CopyRoot \/ CopyRootFails \/ ProvideRepo \/ ProvideRepoFails
      <3>1. {"mkdir", "mount", "cp"} \subseteq Tools
        BY DEF Tools
      <3>2. QED
        BY <2>4, <3>1 DEF CopyRoot, CopyRootFails, ProvideRepo, ProvideRepoFails
    <2>5. CASE OverlayRoot \/ OverlayRootFails
      <3>1. {"mkdir", "mount"} \subseteq Tools
        BY DEF Tools
      <3>2. QED
        BY <2>5, <3>1 DEF OverlayRoot, OverlayRootFails
    <2>6. CASE Release
      <3>1. {"umount"} \subseteq Tools
        BY DEF Tools
      <3>2. QED
        BY <2>6, <3>1 DEF Release
    <2>7. QED
      BY <2>1, <2>2, <2>3, <2>4, <2>5, <2>6 DEF LiveNext
  <1>2. QED
    BY <1>1, LiveFaults DEF LiveTypeOK

LEMMA LiveType == ASSUME LiveTypeOK, LiveNext PROVE LiveTypeOK'
  <1>0. faults' \in 0..MaxFaults
    BY LiveCounter
  <1>1. CASE Stage
    <2>1. livePc' \in {"search", "shell", "panic", "aborted"} /\ staged' \subseteq Tools
      BY <1>1 DEF Stage
    <2>2. QED
      BY <1>0, <1>1, <2>1 DEF Stage, LiveTypeOK
  <1>2. CASE SkipDevice
    <2>1. probe \in Devices /\ probe' \in 1..(NumDevices + 1)
      BY <1>2, LiveAssumption DEF SkipDevice, LiveTypeOK, Devices
    <2>2. cdrom' = cdrom \/ cdrom' = cdrom \cup {probe}
      BY <1>2 DEF SkipDevice
    <2>3. cdrom' \subseteq Devices
      BY <2>1, <2>2 DEF LiveTypeOK
    <2>4. QED
      BY <1>0, <1>2, <2>1, <2>3 DEF SkipDevice, LiveTypeOK, machine
  <1>3. CASE TakeDevice
    BY <1>0, <1>3, LiveAssumption DEF TakeDevice, LiveTypeOK, machine, Devices
  <1>4. CASE NoDevice
    BY <1>0, <1>4 DEF NoDevice, LiveTypeOK, machine
  <1>5. CASE MountSfs
    <2>1. ro' \in Kinds \cup {Nothing}
      BY <1>5 DEF MountSfs, LiveTypeOK, Kinds
    <2>2. QED
      BY <1>0, <1>5, <2>1 DEF MountSfs, LiveTypeOK, machine
  <1>6. CASE Choose
    <2>1. mode' \in {"copy", "overlay"} /\ livePc' = mode'
      BY <1>6 DEF Choose, Chosen, Choice, LiveTypeOK
    <2>2. QED
      BY <1>0, <1>6, <2>1 DEF Choose, LiveTypeOK, machine
  <1>7. CASE CopyRoot \/ CopyRootFails
    <2>1. newRoot' \in [how : {"none", "copy", "overlay"}, holds : Kinds \cup {Nothing, "part"}]
      BY <1>7 DEF CopyRoot, CopyRootFails, LiveTypeOK
    <2>2. QED
      BY <1>0, <1>7, <2>1 DEF CopyRoot, CopyRootFails, LiveTypeOK, machine
  <1>8. CASE OverlayRoot
    <2>1. newRoot' \in [how : {"none", "copy", "overlay"}, holds : Kinds \cup {Nothing, "part"}]
      BY <1>8 DEF OverlayRoot, LiveTypeOK
    <2>2. QED
      BY <1>0, <1>8, <2>1 DEF OverlayRoot, LiveTypeOK, machine
  <1>9. CASE OverlayRootFails \/ Move
    BY <1>0, <1>9 DEF OverlayRootFails, Move, LiveTypeOK, machine
  <1>10. CASE ProvideRepo \/ ProvideRepoFails
    BY <1>0, <1>10 DEF ProvideRepo, ProvideRepoFails, LiveTypeOK, machine
  <1>11. CASE Release
    <2>1. ro' \in Kinds \cup {Nothing} /\ cdrom' \subseteq Devices
      BY <1>11 DEF Release, LiveTypeOK
    <2>2. QED
      BY <1>0, <1>11, <2>1 DEF Release, LiveTypeOK, machine
  <1>12. CASE Switch
    <2>1. livePc' \in {"booted", "panic"}
      BY <1>12 DEF Switch
    <2>2. QED
      BY <1>0, <1>12, <2>1 DEF Switch, LiveTypeOK, machine
  <1>13. QED
    BY <1>1, <1>2, <1>3, <1>4, <1>5, <1>6, <1>7, <1>8, <1>9, <1>10, <1>11, <1>12 DEF LiveNext

LEMMA RootStep == ASSUME LiveTypeOK, RootInv, LiveNext PROVE RootInv'
  <1>1. CASE Stage \/ SkipDevice \/ TakeDevice \/ NoDevice \/ MountSfs
    <2>1. UNCHANGED <<mode, newRoot, repo, repoMode>>
          /\ livePc' \notin {"copy", "overlay", "move", "repo", "release", "switch", "booted"}
      <3>1. CASE Stage
        BY <3>1 DEF Stage
      <3>2. CASE SkipDevice
        BY <3>2 DEF SkipDevice
      <3>3. CASE TakeDevice \/ NoDevice \/ MountSfs
        BY <3>3 DEF TakeDevice, NoDevice, MountSfs
      <3>4. QED
        BY <1>1, <3>1, <3>2, <3>3
    <2>2. QED
      BY <2>1 DEF RootInv
  <1>2. CASE Choose
    <2>1. UNCHANGED <<newRoot, repo, repoMode>> /\ livePc' = mode'
          /\ mode' \in {"copy", "overlay"}
      BY <1>2 DEF Choose, Chosen, Choice, LiveTypeOK
    <2>2. QED
      BY <2>1 DEF RootInv
  <1>3. CASE CopyRoot \/ OverlayRoot
    <2>1. /\ UNCHANGED <<mode, repo, repoMode>> /\ livePc' = "move"
          /\ newRoot' = [how |-> mode, holds |-> ro]
      BY <1>3 DEF CopyRoot, OverlayRoot, RootInv
    <2>2. ro # "part"
      BY DEF LiveTypeOK, Kinds, Nothing
    <2>3. QED
      BY <2>1, <2>2 DEF RootInv
  <1>4. CASE CopyRootFails
    <2>1. newRoot' = [how |-> newRoot'.how, holds |-> newRoot'.holds]
      BY <1>4 DEF CopyRootFails, RootInv
    <2>2. QED
      BY <1>4, <2>1 DEF CopyRootFails, RootInv
  <1>5. CASE OverlayRootFails \/ Move \/ Release
    BY <1>5 DEF OverlayRootFails, Move, Release, RootInv
  <1>6. CASE ProvideRepo \/ ProvideRepoFails
    BY <1>6 DEF ProvideRepo, ProvideRepoFails, RootInv
  <1>7. CASE Switch
    <2>1. livePc' = "panic" \/ (livePc' = "booted" /\ newRoot.holds = "live")
      BY <1>7 DEF Switch, RootInv
    <2>2. QED
      BY <1>7, <2>1 DEF Switch, RootInv
  <1>8. QED
    BY <1>1, <1>2, <1>3, <1>4, <1>5, <1>6, <1>7 DEF LiveNext

-----------------------------------------------------------------------------
(***************************************************************************)
(* The installer.                                                          *)
(***************************************************************************)
Places == {"absent", "empty", "old", "part", "live", "running"}
Entries == [medium : Devices, root : Kinds \cup {Nothing}]

InstallerType ==
    /\ instPc \in {"idle", "format", "mount", "search", "copy", "configure", "grub",
                   "succeeded", "failed"}
    /\ config \in Configs
    /\ attempts \in 0..MaxAttempts
    /\ held \in 0..NumDevices
    /\ lost \subseteq Entries
    /\ todo \subseteq Devices
    /\ source \in {"none", "live", "running"}
    /\ next \in 1..(Len(Paths) + 1)
    /\ place \in [Dirs -> Places]
    /\ traces \subseteq Traces /\ warned \subseteq Traces \cup Dirs
    /\ stuck \in BOOLEAN /\ formatted \in BOOLEAN

\* Only a copy holds a medium, and each mount that was left and is not another system's
\* has cost a failure of its own.
Astray == {m \in lost : m.root # "otherSfs"}

MountInv ==
    /\ instPc # "copy" => held = 0
    /\ IsFiniteSet(Astray) /\ Cardinality(Astray) <= faults

\* What is on a target that this attempt has formatted: nothing until the copies,
\* but for /boot where the EFI partition is mounted, and then one copy after another.
Untouched(p) == place[p] = "absent" \/ (p = "boot" /\ config.uefi)
Filled(p)    == \/ place[p] = source
                \/ (p = "boot" /\ config.uefi)
                \/ (p \in warned /\ place[p] = "absent")

CleanInv ==
    /\ instPc \in {"copy", "configure", "grub", "succeeded"} => source \in {"live", "running"}
    /\ instPc \in {"mount", "search"} => next = 1
    /\ instPc = "format" => next = 1 /\ ~formatted
    /\ instPc \in {"format", "mount", "search"} => warned = {}
    /\ instPc = "copy" => warned \subseteq Dirs
    /\ formatted =>
        /\ instPc \in {"mount", "search"} => traces = {} /\ \A p \in Dirs : Untouched(p)
        /\ instPc = "copy" =>
            /\ \A i \in 1..(next - 1) : Filled(Paths[i])
            /\ \A i \in next..3 : Untouched(Paths[i])
            /\ traces \subseteq CleanedTraces \cup {"modes"}
            /\ "modes" \in traces <=> place["etc"] = "running"
        /\ instPc \in {"configure", "grub", "succeeded"} =>
            /\ \A p \in Dirs : Filled(p)
            /\ traces = (warned \cap {"marker", "installer"})
                         \cup IF place["etc"] = "running" THEN {"modes"} ELSE {}

LEMMA PathFacts ==
    /\ Len(Paths) = 3 /\ Dirs = {"etc", "usr", "boot"}
    /\ \A i \in 1..3 : Paths[i] \in Dirs
    /\ \A p \in Dirs : \E i \in 1..3 : Paths[i] = p
    /\ \A i, j \in 1..3 : Paths[i] = Paths[j] => i = j
  <1>1. Len(Paths) = 3 /\ DOMAIN Paths = {1, 2, 3} /\ 1..3 = {1, 2, 3}
        /\ Paths[1] = "etc" /\ Paths[2] = "usr" /\ Paths[3] = "boot"
    BY DEF Paths
  <1>2. Dirs = {"etc", "usr", "boot"}
    BY <1>1 DEF Dirs
  <1>3. QED
    BY <1>1, <1>2

LEMMA BroughtIsCleaned ==
    /\ \A p : Brought(p) \subseteq CleanedTraces \cup {"modes"} /\ Brought(p) \subseteq Traces
    /\ \A p : "modes" \in Brought(p) <=> p = "etc" /\ source = "running"
  BY DEF Brought, CleanedTraces, Traces

\* Failures are counted within their bound.
LEMMA StrikesCount ==
    ASSUME LiveTypeOK, NEW n \in Nat, Strikes(n)
    PROVE  faults' \in 0..MaxFaults /\ faults' = faults + n /\ faults \in Nat
  BY LiveAssumption DEF LiveTypeOK, Strikes

\* One more mount that is left.
LEMMA LeftCosts ==
    ASSUME LiveTypeOK, MountInv, NEW d, NEW root, Left(d, root), faults' \in Nat,
           faults' >= faults, root = "otherSfs" \/ faults' >= faults + 1
    PROVE  IsFiniteSet(Astray') /\ Cardinality(Astray') <= faults'
  <1> DEFINE e == [medium |-> d, root |-> root]
  <1>0. faults \in Nat /\ IsFiniteSet(Astray) /\ Cardinality(Astray) <= faults
    BY DEF LiveTypeOK, MountInv
  <1>1. Cardinality(Astray) \in Nat
    BY <1>0, FS_CardinalityType
  <1>2. lost' = lost \cup {e} /\ e.root = root
    BY DEF Left
  <1>3. Astray' = Astray \/ (Astray' = Astray \cup {e} /\ root # "otherSfs")
    BY <1>2 DEF Astray
  <1>4. IsFiniteSet(Astray \cup {e}) /\ Cardinality(Astray \cup {e}) <= Cardinality(Astray) + 1
    BY <1>0, <1>1, FS_AddElement
  <1>5. Cardinality(Astray \cup {e}) \in Nat
    BY <1>4, FS_CardinalityType
  <1>6. CASE Astray' = Astray
    BY <1>0, <1>1, <1>6
  <1>7. CASE Astray' = Astray \cup {e} /\ root # "otherSfs"
    BY <1>0, <1>1, <1>4, <1>5, <1>7
  <1>8. QED
    BY <1>3, <1>6, <1>7

LEMMA NothingLeft ==
    ASSUME LiveTypeOK, MountInv, UNCHANGED lost, faults' \in Nat, faults' >= faults
    PROVE  IsFiniteSet(Astray') /\ Cardinality(Astray') <= faults'
  <1>1. Astray' = Astray /\ faults \in Nat
    BY DEF Astray, LiveTypeOK
  <1>2. Cardinality(Astray) \in Nat
    BY FS_CardinalityType DEF MountInv
  <1>3. QED
    BY <1>1, <1>2 DEF MountInv

LEMMA LeftTypes ==
    ASSUME InstallerType, NEW d \in Devices, NEW root \in Kinds \cup {Nothing}, Left(d, root)
    PROVE  lost' \subseteq Entries
  BY DEF InstallerType, Left, Entries

\* The end of a copy unmounts what the search had found, or leaves it at a price.
LEMMA ReleasedFacts ==
    ASSUME InstallTypeOK, MountInv, NEW n \in Nat, Released(n)
    PROVE  /\ held' = 0 /\ lost' \subseteq Entries
           /\ faults' \in 0..MaxFaults /\ faults' >= faults
           /\ IsFiniteSet(Astray') /\ Cardinality(Astray') <= faults'
  <1>0. LiveTypeOK /\ faults \in Nat /\ InstallerType
    BY DEF InstallTypeOK, LiveTypeOK, InstallerType, Places, Entries
  <1>1. CASE Strikes(n) /\ UNCHANGED lost
    <2>1. faults' \in 0..MaxFaults /\ faults' = faults + n
      BY <1>0, <1>1, StrikesCount
    <2>2. faults' \in Nat /\ faults' >= faults
      BY <1>0, <2>1
    <2>3. IsFiniteSet(Astray') /\ Cardinality(Astray') <= faults'
      BY <1>0, <1>1, <2>2, NothingLeft
    <2>4. held' = 0
      BY DEF Released
    <2>5. QED
      BY <1>0, <1>1, <2>1, <2>2, <2>3, <2>4 DEF InstallerType
  <1>2. CASE held # 0 /\ Strikes(n + 1) /\ \E root \in {"live", Nothing} : Left(held, root)
    <2>1. n + 1 \in Nat
      OBVIOUS
    <2>2. faults' \in 0..MaxFaults /\ faults' = faults + (n + 1)
      BY <1>0, <1>2, <2>1, StrikesCount
    <2>3. faults' \in Nat /\ faults' >= faults + 1 /\ faults' >= faults
      BY <1>0, <2>2
    <2>4. PICK root \in {"live", Nothing} : Left(held, root)
      BY <1>2
    <2>5. IsFiniteSet(Astray') /\ Cardinality(Astray') <= faults'
      BY <1>0, <2>3, <2>4, LeftCosts
    <2>6. held \in Devices /\ root \in Kinds \cup {Nothing}
      BY <1>0, <1>2, LiveAssumption DEF InstallerType, Devices, Kinds
    <2>7. lost' \subseteq Entries
      BY <1>0, <2>4, <2>6, LeftTypes
    <2>8. held' = 0
      BY DEF Released
    <2>9. QED
      BY <2>2, <2>3, <2>5, <2>7, <2>8
  <1>3. QED
    BY <1>1, <1>2 DEF Released

\* What a probe does to the mounts.
LEMMA ProbeFacts ==
    ASSUME InstallTypeOK, MountInv, Probe
    PROVE  /\ held' \in 0..NumDevices /\ lost' \subseteq Entries /\ todo' \subseteq Devices
           /\ \/ UNCHANGED <<source, instPc>>
              \/ source' = "live" /\ instPc' = "copy"
           /\ faults' \in 0..MaxFaults /\ faults' >= faults
           /\ MountInv'
  <1>0. /\ LiveTypeOK /\ faults \in Nat /\ InstallerType /\ instPc = "search" /\ held = 0
        /\ held \in 0..NumDevices /\ lost \subseteq Entries /\ todo \subseteq Devices
        /\ faults \in 0..MaxFaults
    BY DEF InstallTypeOK, LiveTypeOK, InstallerType, Places, Entries, Probe, MountInv
  <1>1. PICK d \in todo :
           /\ ProbeFails(d) \/ ProbePlain(d) \/ ProbeOther(d) \/ ProbeFound(d)
           /\ todo' = IF instPc' = "copy" THEN {} ELSE todo \ {d}
    BY DEF Probe
  <1>2. d \in Devices /\ todo' \subseteq Devices
    BY <1>0, <1>1
  <1>3. ASSUME UNCHANGED <<held, lost>>, UNCHANGED <<source, instPc>>
               \/ (source' = "live" /\ instPc' = "copy"),
               faults' \in 0..MaxFaults, faults' >= faults
        PROVE  MountInv'
    <2>1. faults' \in Nat
      BY <1>3, LiveAssumption
    <2>2. IsFiniteSet(Astray') /\ Cardinality(Astray') <= faults'
      BY <1>0, <1>3, <2>1, NothingLeft
    <2>3. QED
      BY <1>0, <1>3, <2>2 DEF MountInv
  <1>4. CASE ProbeFails(d)
    <2>1. UNCHANGED <<held, lost, source, instPc>> /\ (faults' = faults \/ Strikes(1))
      BY <1>4 DEF ProbeFails, mounts
    <2>2. faults' \in 0..MaxFaults /\ faults' >= faults
      BY <1>0, <2>1, StrikesCount
    <2>3. MountInv'
      BY <1>3, <2>1, <2>2
    <2>4. QED
      BY <1>0, <1>2, <2>1, <2>2, <2>3
  <1>5. CASE ProbePlain(d)
    <2>1. PICK refused \in {0, 1} :
            /\ \/ Strikes(refused) /\ UNCHANGED lost
               \/ Strikes(refused + 1) /\ Left(d, Nothing)
            /\ UNCHANGED <<held, source, instPc>>
      BY <1>5 DEF ProbePlain
    <2>2. CASE Strikes(refused) /\ UNCHANGED lost
      <3>1. faults' \in 0..MaxFaults /\ faults' = faults + refused
        BY <1>0, <2>2, StrikesCount
      <3>2. faults' >= faults
        BY <1>0, <3>1
      <3>3. MountInv'
        BY <1>3, <2>1, <2>2, <3>1, <3>2
      <3>4. QED
        BY <1>0, <1>2, <2>1, <2>2, <3>1, <3>2, <3>3
    <2>3. CASE Strikes(refused + 1) /\ Left(d, Nothing)
      <3>1. refused + 1 \in Nat
        OBVIOUS
      <3>2. faults' \in 0..MaxFaults /\ faults' = faults + (refused + 1)
        BY <1>0, <2>3, <3>1, StrikesCount
      <3>3. faults' \in Nat /\ faults' >= faults + 1 /\ faults' >= faults
        BY <1>0, <3>2
      <3>4. IsFiniteSet(Astray') /\ Cardinality(Astray') <= faults'
        BY <1>0, <2>3, <3>3, LeftCosts
      <3>5. lost' \subseteq Entries
        BY <1>0, <1>2, <2>3, LeftTypes
      <3>6. MountInv'
        BY <1>0, <2>1, <3>4 DEF MountInv
      <3>7. QED
        BY <1>0, <1>2, <2>1, <3>2, <3>3, <3>5, <3>6
    <2>4. QED
      BY <2>1, <2>2, <2>3
  <1>6. CASE ProbeOther(d)
    <2>1. Left(d, "otherSfs") /\ UNCHANGED <<faults, held, source, instPc>>
      BY <1>6 DEF ProbeOther
    <2>2. faults' \in Nat /\ faults' >= faults
      BY <1>0, <2>1
    <2>3. IsFiniteSet(Astray') /\ Cardinality(Astray') <= faults'
      BY <1>0, <2>1, <2>2, LeftCosts
    <2>4. lost' \subseteq Entries
      BY <1>0, <1>2, <2>1, LeftTypes DEF Kinds
    <2>5. MountInv'
      BY <1>0, <2>1, <2>3 DEF MountInv
    <2>6. QED
      BY <1>0, <1>2, <2>1, <2>2, <2>4, <2>5
  <1>7. CASE ProbeFound(d)
    <2>1. held' = d /\ source' = "live" /\ instPc' = "copy" /\ UNCHANGED <<faults, lost>>
      BY <1>7 DEF ProbeFound
    <2>2. IsFiniteSet(Astray') /\ Cardinality(Astray') <= faults'
      BY <1>0, <2>1, NothingLeft
    <2>3. held' \in 0..NumDevices
      BY <1>2, <2>1, LiveAssumption DEF Devices
    <2>4. MountInv'
      BY <2>1, <2>2 DEF MountInv
    <2>5. QED
      BY <1>0, <1>2, <2>1, <2>3, <2>4
  <1>8. QED
    BY <1>1, <1>4, <1>5, <1>6, <1>7

\* What a copy or an edit does that does not end.
LEMMA InterruptedFacts ==
    ASSUME InstallerType, instPc = "copy", Interrupted
    PROVE  place' \in [Dirs -> Places] /\ traces' \subseteq Traces /\ UNCHANGED warned
  <1>1. /\ UNCHANGED warned
        /\ place' = place \/ place' = [place EXCEPT ![Paths[next]] = "part"]
        /\ \/ traces' \subseteq traces
           \/ \E some \in SUBSET Brought(Paths[next]) : traces' = traces \cup some
    BY DEF Interrupted, target
  <1>2. place' \in [Dirs -> Places]
    BY <1>1 DEF InstallerType, Places
  <1>3. traces' \subseteq Traces
    BY <1>1, BroughtIsCleaned DEF InstallerType
  <1>4. QED
    BY <1>1, <1>2, <1>3

\* A kill leaves what is mounted, at the price of itself.
LEMMA KilledFacts ==
    ASSUME InstallTypeOK, MountInv, Killed
    PROVE  /\ held' = 0 /\ lost' \subseteq Entries
           /\ faults' \in 0..MaxFaults /\ faults' >= faults
           /\ IsFiniteSet(Astray') /\ Cardinality(Astray') <= faults'
           /\ place' \in [Dirs -> Places] /\ traces' \subseteq Traces /\ UNCHANGED warned
  <1>0. LiveTypeOK /\ faults \in Nat /\ InstallerType
    BY DEF InstallTypeOK, LiveTypeOK, InstallerType, Places, Entries
  <1>1. Strikes(1)
    BY DEF Killed
  <1>2. faults' \in 0..MaxFaults /\ faults' = faults + 1
    BY <1>0, <1>1, StrikesCount
  <1>3. faults' \in Nat /\ faults' >= faults /\ faults' >= faults + 1
    BY <1>0, <1>2
  <1>4. \/ UNCHANGED lost
        \/ \E d \in Devices, root \in Kinds \cup {Nothing} : Left(d, root)
    <2>1. held # 0 => held \in Devices
      BY <1>0, LiveAssumption DEF InstallerType, Devices
    <2>2. todo \subseteq Devices /\ "live" \in Kinds /\ "otherSfs" \in Kinds
      BY <1>0 DEF InstallerType, Kinds
    <2>3. CASE instPc = "search" /\ \E d \in todo : kind[d] # "blank"
                 /\ \E root \in {Nothing} \cup ({kind[d]} \cap {"otherSfs", "live"}) : Left(d, root)
      BY <2>2, <2>3
    <2>4. CASE held = 0 /\ UNCHANGED lost
      BY <2>4
    <2>5. CASE held # 0 /\ Left(held, "live")
      BY <2>1, <2>2, <2>5
    <2>6. QED
      BY <2>3, <2>4, <2>5 DEF Killed
  <1>5. /\ lost' \subseteq Entries
        /\ IsFiniteSet(Astray') /\ Cardinality(Astray') <= faults'
    <2>1. CASE UNCHANGED lost
      BY <1>0, <1>3, <2>1, NothingLeft DEF InstallerType
    <2>2. CASE \E d \in Devices, root \in Kinds \cup {Nothing} : Left(d, root)
      BY <1>0, <1>3, <2>2, LeftCosts, LeftTypes
    <2>3. QED
      BY <1>4, <2>1, <2>2
  <1>6. place' \in [Dirs -> Places] /\ traces' \subseteq Traces /\ UNCHANGED warned
    <2>1. CASE instPc = "copy"
      BY <1>0, <2>1, InterruptedFacts DEF Killed
    <2>2. CASE instPc # "copy"
      <3>1. place' \in {place, EfiMountPoint} /\ UNCHANGED <<traces, warned>>
        BY <2>2 DEF Killed
      <3>2. EfiMountPoint \in [Dirs -> Places]
        BY <1>0 DEF InstallerType, EfiMountPoint, Places
      <3>3. QED
        BY <1>0, <3>1, <3>2 DEF InstallerType
    <2>3. QED
      BY <2>1, <2>2
  <1>7. held' = 0
    BY DEF Killed
  <1>8. QED
    BY <1>2, <1>3, <1>5, <1>6, <1>7

\* The steps of the installer, which leave the live system alone but for the media
\* and the counter.
InstallStep == Eject \/ Begin \/ Format \/ MountTarget \/ Probe \/ FallBack
               \/ CopyPath \/ CopyFails \/ Edit \/ Configure \/ InstallGrub \/ StepFails \/ Killed

\* What the traces and the removals that failed amount to in number.
LEMMA KeptCount ==
    ASSUME NEW kept \in SUBSET (traces \cap {"marker", "installer"}) PROVE Cardinality(kept) \in Nat
  <1>1. IsFiniteSet({"marker", "installer"})
    <2>1. IsFiniteSet({"marker"})
      BY FS_Singleton
    <2>2. IsFiniteSet({"marker"} \cup {"installer"})
      BY <2>1, FS_AddElement
    <2>3. {"marker"} \cup {"installer"} = {"marker", "installer"}
      OBVIOUS
    <2>4. QED
      BY <2>2, <2>3
  <1>2. IsFiniteSet(kept)
    BY <1>1, FS_Subset
  <1>3. QED
    BY <1>2, FS_CardinalityType

LEMMA EditFacts ==
    ASSUME InstallTypeOK, MountInv, Edit
    PROVE  /\ held' = 0 /\ lost' \subseteq Entries
           /\ faults' \in 0..MaxFaults /\ faults' >= faults
           /\ IsFiniteSet(Astray') /\ Cardinality(Astray') <= faults'
           /\ \E kept \in SUBSET (traces \cap {"marker", "installer"}) :
                  traces' = traces \ (CleanedTraces \ kept) /\ warned' = warned \cup kept
  <1>1. PICK kept \in SUBSET (traces \cap {"marker", "installer"}) :
           /\ traces' = traces \ (CleanedTraces \ kept)
           /\ warned' = warned \cup kept
           /\ Released(Cardinality(kept))
    BY DEF Edit
  <1>2. Cardinality(kept) \in Nat
    BY KeptCount
  <1>3. QED
    BY <1>1, <1>2, ReleasedFacts

LEMMA LiveLeftAlone ==
    ASSUME InstallTypeOK, MountInv, InstallStep
    PROVE  /\ UNCHANGED <<staged, request, roomyVm, livePc, probe, cdrom, ro, mode, newRoot,
                          repo, repoMode>>
           /\ kind' \in [Devices -> Kinds] /\ faults' \in 0..MaxFaults /\ faults' >= faults
  <1>0. kind \in [Devices -> Kinds] /\ faults \in 0..MaxFaults /\ faults \in Nat /\ LiveTypeOK
    BY DEF InstallTypeOK, LiveTypeOK
  <1>1. CASE Eject
    BY <1>0, <1>1 DEF Eject, Kinds
  <1>2. CASE Begin \/ Format \/ MountTarget \/ FallBack \/ Configure \/ InstallGrub
    <2>1. UNCHANGED liveVars
      BY <1>2 DEF Begin, Format, MountTarget, FallBack, Configure, InstallGrub
    <2>2. QED
      BY <1>0, <2>1 DEF liveVars, machine
  <1>3. CASE Probe
    BY <1>0, <1>3, ProbeFacts DEF Probe, machine
  <1>4. CASE CopyPath \/ StepFails
    <2>1. faults' = faults \/ Strikes(1)
      BY <1>4 DEF CopyPath, StepFails
    <2>2. faults' \in 0..MaxFaults /\ faults' >= faults
      BY <1>0, <2>1, StrikesCount
    <2>3. QED
      BY <1>0, <1>4, <2>2 DEF CopyPath, StepFails, machine
  <1>5. CASE CopyFails
    BY <1>0, <1>5, ReleasedFacts DEF CopyFails, machine
  <1>6. CASE Edit
    BY <1>0, <1>6, EditFacts DEF Edit, machine
  <1>7. CASE Killed
    BY <1>0, <1>7, KilledFacts DEF Killed, machine
  <1>8. QED
    BY <1>1, <1>2, <1>3, <1>4, <1>5, <1>6, <1>7 DEF InstallStep

LEMMA InstallerTypeStep ==
    ASSUME InstallTypeOK, MountInv, CleanInv, InstallStep PROVE InstallerType'
  <1>0. InstallerType
    BY DEF InstallTypeOK, InstallerType, Places, Entries
  <1>e. EfiMountPoint \in [Dirs -> Places]
    BY <1>0 DEF InstallerType, EfiMountPoint, Places
  <1>1. CASE Eject \/ Configure \/ FallBack
    BY <1>0, <1>1 DEF Eject, Configure, FallBack, instVars, mounts, target, InstallerType
  <1>2. CASE Begin
    <2>1. place' \in [Dirs -> Places]
      BY <1>0, <1>2 DEF Begin, InstallerType, Places
    <2>2. config' \in Configs /\ attempts' \in 0..MaxAttempts
      BY <1>0, <1>2, AttemptAssumption DEF Begin, InstallerType
    <2>3. next' \in 1..(Len(Paths) + 1)
      BY <1>2, PathFacts DEF Begin
    <2>4. QED
      BY <1>0, <1>2, <2>1, <2>2, <2>3 DEF Begin, mounts, InstallerType
  <1>3. CASE Format
    <2>1. place' \in [Dirs -> Places] /\ traces' \subseteq Traces /\ formatted' \in BOOLEAN
      BY <1>0, <1>3 DEF Format, InstallerType, Places
    <2>2. QED
      BY <1>0, <1>3, <2>1 DEF Format, mounts, InstallerType
  <1>4. CASE MountTarget
    BY <1>0, <1>4, <1>e DEF MountTarget, mounts, InstallerType
  <1>5. CASE Probe
    BY <1>0, <1>5, ProbeFacts DEF Probe, target, InstallerType
  <1>6. CASE CopyPath
    <2>1. next \in 1..3 /\ next' \in 1..4 /\ Paths[next] \in Dirs
      BY <1>0, <1>6, PathFacts DEF CopyPath, InstallerType
    <2>2. source \in {"live", "running"}
      BY <1>6 DEF CopyPath, CleanInv
    <2>3. place' \in [Dirs -> Places]
      <3>1. place' = place \/ place' = [place EXCEPT ![Paths[next]] = source]
        BY <1>6 DEF CopyPath, target
      <3>2. place \in [Dirs -> Places]
        BY <1>0 DEF InstallerType
      <3>3. QED
        BY <2>2, <3>1, <3>2 DEF Places
    <2>4. traces' \subseteq Traces /\ warned' \subseteq Traces \cup Dirs
      <3>1. traces' = traces \/ traces' = traces \cup Brought(Paths[next])
        BY <1>6 DEF CopyPath, target
      <3>2. warned' = warned \/ warned' = warned \cup {Paths[next]}
        BY <1>6 DEF CopyPath, target
      <3>3. QED
        BY <1>0, <2>1, <3>1, <3>2, BroughtIsCleaned DEF InstallerType
    <2>5. QED
      BY <1>0, <1>6, <2>1, <2>3, <2>4, PathFacts DEF CopyPath, mounts, InstallerType
  <1>7. CASE CopyFails
    <2>1. place' \in [Dirs -> Places] /\ traces' \subseteq Traces /\ UNCHANGED warned
      BY <1>0, <1>7, InterruptedFacts DEF CopyFails
    <2>2. held' = 0 /\ lost' \subseteq Entries
      BY <1>7, ReleasedFacts DEF CopyFails
    <2>3. held' \in 0..NumDevices
      BY <2>2, LiveAssumption
    <2>4. QED
      BY <1>0, <1>7, <2>1, <2>2, <2>3 DEF CopyFails, InstallerType
  <1>8. CASE Edit
    <2>1. held' = 0 /\ lost' \subseteq Entries /\ held' \in 0..NumDevices
      BY <1>8, EditFacts, LiveAssumption
    <2>2. traces' \subseteq Traces /\ warned' \subseteq Traces \cup Dirs
      BY <1>0, <1>8, EditFacts DEF InstallerType
    <2>3. QED
      BY <1>0, <1>8, <2>1, <2>2 DEF Edit, InstallerType
  <1>9. CASE InstallGrub
    BY <1>0, <1>9 DEF InstallGrub, mounts, target, InstallerType
  <1>10. CASE StepFails
    <2>1. place' \in {place, EfiMountPoint}
      BY <1>10 DEF StepFails
    <2>2. place' \in [Dirs -> Places]
      BY <1>0, <1>e, <2>1 DEF InstallerType
    <2>3. QED
      BY <1>0, <1>10, <2>2 DEF StepFails, mounts, InstallerType
  <1>11. CASE Killed
    <2>1. held' \in 0..NumDevices
      BY <1>11, KilledFacts, LiveAssumption
    <2>2. stuck' \in BOOLEAN
      BY <1>0, <1>11 DEF Killed, InstallerType
    <2>3. QED
      BY <1>0, <1>11, <2>1, <2>2, KilledFacts DEF Killed, InstallerType
  <1>12. QED
    BY <1>1, <1>2, <1>3, <1>4, <1>5, <1>6, <1>7, <1>8, <1>9, <1>10, <1>11 DEF InstallStep

LEMMA MountStep == ASSUME InstallTypeOK, MountInv, InstallStep PROVE MountInv'
  <1>0. LiveTypeOK /\ faults' \in Nat /\ faults' >= faults
    BY LiveLeftAlone, LiveAssumption DEF InstallTypeOK
  <1>1. CASE Eject \/ Begin \/ Format \/ MountTarget \/ FallBack \/ CopyPath \/ Configure
             \/ InstallGrub \/ StepFails
    <2>1. UNCHANGED <<held, lost>> /\ (instPc' # "copy" => instPc # "copy" \/ held = 0)
      BY <1>1 DEF Eject, Begin, Format, MountTarget, FallBack, CopyPath, Configure,
         InstallGrub, StepFails, instVars, mounts
    <2>2. IsFiniteSet(Astray') /\ Cardinality(Astray') <= faults'
      BY <1>0, <2>1, NothingLeft
    <2>3. QED
      BY <2>1, <2>2 DEF MountInv
  <1>2. CASE Probe
    BY <1>2, ProbeFacts
  <1>3. CASE CopyFails
    BY <1>3, ReleasedFacts DEF CopyFails, MountInv
  <1>4. CASE Edit
    BY <1>4, EditFacts DEF MountInv
  <1>5. CASE Killed
    BY <1>5, KilledFacts DEF MountInv
  <1>6. QED
    BY <1>1, <1>2, <1>3, <1>4, <1>5 DEF InstallStep

LEMMA CleanStep ==
    ASSUME InstallTypeOK, MountInv, CleanInv, InstallStep PROVE CleanInv'
  <1>0. InstallerType
    BY DEF InstallTypeOK, InstallerType, Places, Entries
  <1>1. CASE Eject
    BY <1>1 DEF Eject, instVars, target, CleanInv, Untouched, Filled, CleanedTraces
  <1>2. CASE Begin
    BY <1>2 DEF Begin, CleanInv
  <1>3. CASE Format
    <2>1. /\ instPc = "format" /\ next' = next /\ next = 1 /\ instPc' = "mount" /\ ~formatted
          /\ warned' = {}
      BY <1>3 DEF Format, CleanInv
    <2>2. formatted' => traces' = {} /\ \A p \in Dirs : place'[p] = "absent"
      BY <1>3, <2>1 DEF Format
    <2>3. QED
      BY <2>1, <2>2 DEF CleanInv, Untouched
  <1>4. CASE MountTarget
    <2>1. \A p \in Dirs : Untouched(p) => Untouched(p)'
      BY <1>0, <1>4 DEF MountTarget, EfiMountPoint, Untouched, InstallerType
    <2>2. QED
      BY <1>4, <2>1 DEF MountTarget, CleanInv
  <1>5. CASE Probe \/ FallBack
    <2>1. /\ UNCHANGED <<config, next, place, traces, warned, formatted>> /\ instPc = "search"
          /\ \/ instPc' = instPc
             \/ source' \in {"live", "running"} /\ instPc' = "copy"
      BY <1>5, ProbeFacts DEF Probe, FallBack, target
    <2>2. \A i \in 1..3 : Paths[i] \in Dirs
      BY PathFacts
    <2>3. place["etc"] # "running" \/ ~formatted
      BY <2>1, PathFacts DEF CleanInv, Untouched
    <2>4. QED
      BY <2>1, <2>2, <2>3 DEF CleanInv, Untouched, Filled
  <1>6. CASE CopyPath
    <2>1. /\ next \in 1..3 /\ next' = next + 1 /\ instPc = "copy" /\ Paths[next] \in Dirs
          /\ UNCHANGED <<instPc, config, source, formatted>>
      BY <1>0, <1>6, PathFacts DEF CopyPath, InstallerType
    <2>w. warned' = warned \/ warned' = warned \cup {Paths[next]}
      BY <1>6 DEF CopyPath, target
    <2>x. warned' \subseteq Dirs /\ warned \subseteq warned' /\ source \in {"live", "running"}
      BY <2>1, <2>w DEF CleanInv
    <2>2. SUFFICES ASSUME formatted
                   PROVE  /\ \A i \in 1..next : Filled(Paths[i])'
                          /\ \A i \in (next + 1)..3 : Untouched(Paths[i])'
                          /\ traces' \subseteq CleanedTraces \cup {"modes"}
                          /\ "modes" \in traces' <=> place'["etc"] = "running"
      BY <2>1, <2>x DEF CleanInv, CleanedTraces
    <2>3. /\ \A i \in 1..(next - 1) : Filled(Paths[i])
          /\ \A i \in next..3 : Untouched(Paths[i])
          /\ traces \subseteq CleanedTraces \cup {"modes"}
          /\ "modes" \in traces <=> place["etc"] = "running"
      BY <2>1, <2>2 DEF CleanInv
    <2>a. PICK n \in 1..3 : n = next
      BY <2>1
    <2>p. place \in [Dirs -> Places] /\ Untouched(Paths[n]) /\ Paths[n] \in Dirs
      BY <1>0, <2>1, <2>3, <2>a DEF InstallerType
    <2>o. \/ /\ place[Paths[n]] = "absent" /\ place' = [place EXCEPT ![Paths[n]] = source]
             /\ traces' = traces \cup Brought(Paths[n])
          \/ place[Paths[n]] # "absent" /\ UNCHANGED <<place, traces>>
          \/ Paths[n] \in warned' /\ UNCHANGED <<place, traces>>
      BY <1>6, <2>a DEF CopyPath, target
    <2>4. Filled(Paths[n])'
      BY <2>1, <2>a, <2>p, <2>o DEF Filled, Untouched
    <2>5. \A i \in 1..3 : i # next => place'[Paths[i]] = place[Paths[i]]
      BY <2>1, <2>a, <2>o, <2>p, PathFacts
    <2>6. ASSUME NEW i \in 1..next PROVE Filled(Paths[i])'
      <3>1. CASE i = n
        BY <2>4, <3>1
      <3>2. CASE i # n
        <4>1. i \in 1..(next - 1) /\ i \in 1..3
          BY <2>1, <2>a, <3>2
        <4>2. Filled(Paths[i]) /\ place'[Paths[i]] = place[Paths[i]]
          BY <2>3, <2>5, <2>a, <3>2, <4>1
        <4>3. QED
          BY <2>1, <2>x, <4>2 DEF Filled
      <3>3. QED
        BY <3>1, <3>2
    <2>7. \A i \in (next + 1)..3 : Untouched(Paths[i])'
      BY <2>1, <2>3, <2>5 DEF Untouched
    <2>8. traces' \subseteq CleanedTraces \cup {"modes"}
      BY <2>3, <2>o, BroughtIsCleaned
    <2>9. "modes" \in traces' <=> place'["etc"] = "running"
      <3>1. "etc" \in Dirs
        BY PathFacts
      <3>2. CASE Paths[n] = "etc"
        BY <2>3, <2>o, <2>p, <2>x, <3>1, <3>2, BroughtIsCleaned
      <3>3. CASE Paths[n] # "etc"
        BY <2>3, <2>o, <2>p, <3>1, <3>3, BroughtIsCleaned
      <3>4. QED
        BY <3>2, <3>3
    <2>10. QED
      BY <2>6, <2>7, <2>8, <2>9
  <1>7. CASE CopyFails \/ StepFails \/ Killed
    BY <1>7 DEF CopyFails, StepFails, Killed, CleanInv
  <1>8. CASE Edit
    <2>1. /\ next = 4 /\ instPc = "copy" /\ instPc' = "configure"
          /\ UNCHANGED <<config, source, formatted, place>>
      BY <1>0, <1>8, PathFacts DEF Edit, InstallerType
    <2>2. PICK kept \in SUBSET (traces \cap {"marker", "installer"}) :
                  traces' = traces \ (CleanedTraces \ kept) /\ warned' = warned \cup kept
      BY <1>8, EditFacts
    <2>3. /\ source \in {"live", "running"} /\ warned \cap {"marker", "installer"} = {}
      BY <2>1, PathFacts DEF CleanInv
    <2>4. SUFFICES ASSUME formatted
                   PROVE  /\ \A p \in Dirs : Filled(p)'
                          /\ traces' = (warned' \cap {"marker", "installer"})
                                       \cup IF place["etc"] = "running" THEN {"modes"} ELSE {}
      BY <2>1, <2>3 DEF CleanInv
    <2>5. /\ \A i \in 1..3 : Filled(Paths[i])
          /\ traces \subseteq CleanedTraces \cup {"modes"}
          /\ "modes" \in traces <=> place["etc"] = "running"
      BY <2>1, <2>4 DEF CleanInv
    <2>6. \A p \in Dirs : Filled(p)'
      BY <2>1, <2>2, <2>5, PathFacts DEF Filled
    <2>7. warned' \cap {"marker", "installer"} = kept
      BY <2>2, <2>3
    <2>8. traces' = kept \cup (traces \cap {"modes"})
      BY <2>2, <2>5 DEF CleanedTraces
    <2>9. QED
      BY <2>5, <2>6, <2>7, <2>8
  <1>9. CASE Configure \/ InstallGrub
    <2>1. /\ UNCHANGED <<config, source, next, place, traces, warned, formatted>>
          /\ instPc \in {"configure", "grub"} /\ instPc' \in {"grub", "succeeded"}
      BY <1>9 DEF Configure, InstallGrub, target
    <2>2. QED
      BY <2>1 DEF CleanInv, Filled
  <1>10. QED
    BY <1>1, <1>2, <1>3, <1>4, <1>5, <1>6, <1>7, <1>8, <1>9 DEF InstallStep

-----------------------------------------------------------------------------
(***************************************************************************)
(* The inductive invariant, and the theorems.                              *)
(***************************************************************************)
Inv == InstallTypeOK /\ RootInv /\ MountInv /\ CleanInv

LEMMA InvInit == Init => Inv
  <1> SUFFICES ASSUME Init PROVE Inv
    OBVIOUS
  <1>1. LiveTypeOK
    BY LiveAssumption DEF Init, LiveInitial, LiveTypeOK, Devices
  <1>2. place \in [Dirs -> {"absent", "empty", "old", "part", "live", "running"}]
    BY DEF Init
  <1>a. 1 \in 1..(Len(Paths) + 1) /\ 0 \in 0..MaxAttempts
    BY PathFacts, AttemptAssumption
  <1>3. InstallTypeOK
    <2>1. held \in 0..NumDevices /\ config \in Configs
      BY LiveAssumption DEF Init, Configs, Unasked
    <2>2. QED
      BY <1>1, <1>2, <1>a, <2>1 DEF Init, InstallTypeOK
  <1>4. RootInv
    BY DEF Init, LiveInitial, RootInv
  <1>5. MountInv /\ CleanInv
    <2>1. Astray = {} /\ faults = 0
      BY DEF Init, LiveInitial, Astray
    <2>2. QED
      BY <2>1, FS_EmptySet DEF Init, MountInv, CleanInv
  <1>6. QED
    BY <1>3, <1>4, <1>5 DEF Inv

LEMMA InvStep == Inv /\ [Next]_vars => Inv'
  <1> SUFFICES ASSUME Inv, [Next]_vars PROVE Inv'
    OBVIOUS
  <1>0. InstallTypeOK /\ LiveTypeOK /\ RootInv /\ MountInv /\ CleanInv
    BY DEF Inv, InstallTypeOK
  <1>1. CASE LiveNext /\ UNCHANGED instVars
    <2>1. LiveTypeOK' /\ RootInv'
      BY <1>0, <1>1, LiveType, RootStep
    <2>2. InstallTypeOK'
      BY <1>0, <1>1, <2>1 DEF InstallTypeOK, instVars, mounts, target
    <2>3. CleanInv'
      BY <1>0, <1>1 DEF instVars, target, CleanInv, Untouched, Filled, CleanedTraces
    <2>4. MountInv'
      <3>1. faults' \in Nat /\ faults' >= faults /\ UNCHANGED <<held, lost, instPc>>
        BY <1>0, <1>1, LiveCounter, LiveAssumption DEF instVars, mounts
      <3>2. QED
        BY <1>0, <3>1, NothingLeft DEF MountInv
    <2>5. QED
      BY <2>1, <2>2, <2>3, <2>4 DEF Inv
  <1>2. CASE InstallStep
    <2>1. LiveTypeOK' /\ RootInv'
      BY <1>0, <1>2, LiveLeftAlone DEF LiveTypeOK, RootInv
    <2>2. InstallTypeOK'
      BY <1>0, <1>2, <2>1, InstallerTypeStep DEF InstallTypeOK, InstallerType, Places, Entries
    <2>3. MountInv' /\ CleanInv'
      BY <1>0, <1>2, MountStep, CleanStep
    <2>4. QED
      BY <2>1, <2>2, <2>3 DEF Inv
  <1>3. CASE UNCHANGED vars
    BY <1>0, <1>3 DEF vars, liveVars, machine, instVars, mounts, target, Inv, InstallTypeOK,
                      LiveTypeOK, RootInv, MountInv, Astray, CleanInv, Untouched, Filled,
                      CleanedTraces
  <1>4. QED
    BY <1>1, <1>2, <1>3 DEF Next, InstallStep

LEMMA InvAlways == Spec => []Inv
  BY InvInit, InvStep, PTL DEF Spec

\* Types hold for any number of devices, attempts and failures.
THEOREM InstallTypeCorrect == Spec => []InstallTypeOK
  <1>1. Inv => InstallTypeOK
    BY DEF Inv
  <1>2. QED
    BY <1>1, InvAlways, PTL

\* /init never leaves for a root it has copied in part, and the mode files it writes
\* tell what it has mounted, whatever failed and fell back before.
THEOREM BootedAlwaysAsRecorded == Spec => []BootedAsRecorded
  <1>1. Inv => BootedAsRecorded
    BY DEF Inv, RootInv, BootedAsRecorded
  <1>2. QED
    BY <1>1, InvAlways, PTL

\* perform_install reports success on a file system it has made only with one whole
\* copy of one source on it, but for what the log names and /boot beside an EFI partition;
\* the mode files of the live session are there exactly with an /etc of the running system.
THEOREM FormattedInstallAlwaysClean == Spec => []FormattedInstallIsClean
  <1>1. Inv => FormattedInstallIsClean
    BY DEF Inv, CleanInv, Filled, FormattedInstallIsClean, Succeeded
  <1>2. QED
    BY <1>1, InvAlways, PTL

\* Outside of the copy no medium is held, and one that was left and is not of another
\* system has cost an unmount that failed or a kill.
THEOREM SearchAlwaysReleases == Spec => []SearchReleases
  <1>1. Inv => SearchReleases
    BY DEF Inv, MountInv, Astray, SearchReleases
  <1>2. QED
    BY <1>1, InvAlways, PTL

-----------------------------------------------------------------------------
(***************************************************************************)
(* What it takes to keep a live system from starting.                      *)
(***************************************************************************)

\* The live medium is still ahead of the search.
Ahead == \E d \in Devices : d >= probe /\ kind[d] = "live" /\ \A e \in 1..(d - 1) : ~HasSfs(e)

\* As long as no command has failed, the script has hold of the live system, and the
\* fallback from copy to overlay has cost one failure already.
SurviveInv ==
    /\ livePc \in {"stage", "search", "mountSfs", "choose"} => mode = "unset"
    /\ livePc = "stage" => probe = 1
    /\ staged = Tools /\ Medium =>
        /\ livePc = "search" => faults >= 1 \/ Ahead
        /\ livePc = "mountSfs" => faults >= 1 \/ kind[probe] = "live"
        /\ livePc \in {"choose", "copy", "overlay"} => faults >= 1 \/ ro = "live"
        /\ livePc = "overlay" /\ Chosen = "copy" => faults >= 1
        /\ livePc \in {"move", "repo", "release", "switch"} =>
               faults >= 1 \/ newRoot.holds = "live"
        /\ livePc = "shell" => faults >= IF mode # "unset" /\ Chosen = "copy" THEN 2 ELSE 1
        /\ livePc = "panic" => faults >= 1

\* With every tool staged a command that fails is counted.
LEMMA FailsCounted ==
    ASSUME LiveTypeOK, staged = Tools, NEW T \in SUBSET Tools
    PROVE  /\ Succeeds(T) => faults' = faults
           /\ Fails(T) => faults' = faults + 1
  BY DEF Succeeds, Fails

\* The sets of programs that the commands of the script need.
LEMMA ToolSets ==
    /\ {"mount"} \in SUBSET Tools /\ {"umount"} \in SUBSET Tools /\ {"cat"} \in SUBSET Tools
    /\ {"mkdir", "mount"} \in SUBSET Tools
    /\ {"mkdir", "mount", "umount"} \in SUBSET Tools
    /\ {"mkdir", "mount", "cp"} \in SUBSET Tools
    /\ "switch_root" \in Tools /\ "bash" \in Tools
  BY DEF Tools

\* The search for the medium: a device is passed by only when it is not the live one,
\* or when a command has failed.
LEMMA SearchSurvives ==
    ASSUME LiveTypeOK, SurviveInv, SkipDevice \/ TakeDevice \/ NoDevice
    PROVE  SurviveInv'
  <1>0. /\ faults \in Nat /\ probe \in Nat /\ NumDevices \in Nat /\ mode = "unset"
        /\ livePc = "search" /\ mode' = mode
    BY LiveAssumption DEF LiveTypeOK, SurviveInv, SkipDevice, TakeDevice, NoDevice
  <1>1. UNCHANGED <<staged, kind, request, roomyVm>> /\ (Medium' <=> Medium)
    BY DEF SkipDevice, TakeDevice, NoDevice, machine, Medium, HasSfs
  <1>2. CASE ~(staged = Tools /\ Medium)
    <2>1. livePc' \in {"search", "mountSfs", "shell"}
      BY <1>0 DEF SkipDevice, TakeDevice, NoDevice
    <2>2. QED
      BY <1>0, <1>1, <1>2, <2>1 DEF SurviveInv
  <1>3. CASE staged = Tools /\ Medium
    <2>1. CASE SkipDevice
      <3>1. livePc' = "search" /\ probe' = probe + 1
        BY <1>0, <2>1 DEF SkipDevice
      <3>2. faults' >= 1 \/ (faults' = faults /\ kind[probe] # "live")
        BY <1>0, <1>3, <2>1, FailsCounted, ToolSets DEF SkipDevice
      <3>3. faults' >= 1 \/ Ahead'
        <4>1. CASE faults' = faults /\ kind[probe] # "live"
          <5>1. faults >= 1 \/ Ahead
            BY <1>0, <1>3 DEF SurviveInv
          <5>2. ASSUME Ahead PROVE Ahead'
            <6>1. PICK d \in Devices : d >= probe /\ kind[d] = "live"
                                       /\ \A e \in 1..(d - 1) : ~HasSfs(e)
              BY <5>2 DEF Ahead
            <6>2. d \in Nat /\ d # probe
              BY <4>1, <6>1 DEF Devices
            <6>3. d >= probe + 1
              BY <1>0, <6>1, <6>2
            <6>4. QED
              BY <1>1, <3>1, <6>1, <6>3 DEF Ahead, HasSfs
          <5>3. QED
            BY <4>1, <5>1, <5>2
        <4>2. QED
          BY <3>2, <4>1
      <3>4. QED
        BY <1>0, <3>1, <3>3 DEF SurviveInv
    <2>2. CASE TakeDevice
      <3>1. /\ livePc' = "mountSfs" /\ probe' = probe /\ probe \in Devices /\ HasSfs(probe)
            /\ faults' = faults
        BY <1>0, <1>3, <2>2, FailsCounted, ToolSets DEF TakeDevice, Devices, LiveTypeOK
      <3>2. ASSUME Ahead PROVE kind[probe] = "live"
        <4>1. PICK d \in Devices : d >= probe /\ kind[d] = "live"
                                   /\ \A e \in 1..(d - 1) : ~HasSfs(e)
          BY <3>2 DEF Ahead
        <4>2. d = probe
          BY <1>0, <3>1, <4>1 DEF Devices
        <4>3. QED
          BY <4>1, <4>2
      <3>3. faults' >= 1 \/ kind'[probe'] = "live"
        BY <1>0, <1>1, <1>3, <3>1, <3>2 DEF SurviveInv
      <3>4. QED
        BY <1>0, <3>1, <3>3 DEF SurviveInv
    <2>3. CASE NoDevice
      <3>1. livePc' = "shell" /\ (faults' = faults + 1 \/ (faults' = faults /\ probe > NumDevices))
        BY <1>3, <2>3, FailsCounted, ToolSets DEF NoDevice
      <3>2. probe > NumDevices => ~Ahead
        BY <1>0 DEF Ahead, Devices
      <3>3. faults' >= 1
        BY <1>0, <1>3, <3>1, <3>2 DEF SurviveInv
      <3>4. QED
        BY <1>0, <3>1, <3>3 DEF SurviveInv
    <2>4. QED
      BY <2>1, <2>2, <2>3
  <1>4. QED
    BY <1>2, <1>3

\* What the commands after the search cost, with every tool staged.
LEMMA LiveCosts ==
    ASSUME LiveTypeOK, staged = Tools
    PROVE  /\ MountSfs => faults' >= 1 \/ kind[probe] # "live" \/ ro' = "live"
           /\ CopyRootFails => faults' >= 1
           /\ OverlayRootFails => faults' = faults + 1
           /\ MountSfs \/ CopyRoot \/ OverlayRoot \/ ProvideRepo \/ ProvideRepoFails \/ Release
                  => faults' >= faults
  <1>0. faults \in Nat
    BY DEF LiveTypeOK
  <1>1. MountSfs => faults' >= 1 \/ kind[probe] # "live" \/ ro' = "live"
    BY <1>0, FailsCounted, ToolSets DEF MountSfs
  <1>2. CopyRootFails => faults' >= 1
    BY <1>0, FailsCounted, ToolSets DEF CopyRootFails
  <1>3. OverlayRootFails => faults' = faults + 1
    BY FailsCounted, ToolSets DEF OverlayRootFails
  <1>4. MountSfs \/ CopyRoot \/ OverlayRoot \/ ProvideRepo \/ ProvideRepoFails \/ Release
            => faults' >= faults
    BY <1>0, FailsCounted, ToolSets
    DEF MountSfs, CopyRoot, OverlayRoot, ProvideRepo, ProvideRepoFails, Release
  <1>5. QED
    BY <1>1, <1>2, <1>3, <1>4

\* The rest of the script.
LEMMA ScriptSurvives ==
    ASSUME LiveTypeOK, SurviveInv, LiveNext, ~(SkipDevice \/ TakeDevice \/ NoDevice)
    PROVE  SurviveInv'
  <1>0. faults \in Nat /\ NumDevices \in Nat
    BY LiveAssumption DEF LiveTypeOK
  <1>1. CASE Stage
    <2>1. UNCHANGED <<kind, probe, mode, faults>> /\ probe = 1 /\ mode = "unset"
          /\ livePc' \in {"search", "shell", "panic", "aborted"}
          /\ (staged' = Tools => livePc' \in {"search", "aborted"})
      BY <1>1, ToolSets DEF Stage, SurviveInv
    <2>2. Medium' => Ahead'
      BY <2>1 DEF Medium, Ahead, HasSfs, Devices
    <2>3. QED
      BY <2>1, <2>2 DEF SurviveInv
  <1>2. CASE ~Stage
    <2>1. /\ UNCHANGED <<staged, kind, request, roomyVm>> /\ Chosen' = Chosen
          /\ (Medium' <=> Medium) /\ livePc \notin {"stage", "search"}
          /\ livePc' \notin {"stage", "search"}
      <3>1. UNCHANGED machine /\ livePc \notin {"stage", "search"}
        BY <1>2 DEF LiveNext, MountSfs, Choose, CopyRoot, CopyRootFails, OverlayRoot,
           OverlayRootFails, Move, ProvideRepo, ProvideRepoFails, Release, Switch
      <3>2. livePc' \notin {"stage", "search"}
        BY <1>2 DEF LiveNext, MountSfs, Choose, Chosen, Choice, CopyRoot, CopyRootFails,
           OverlayRoot, OverlayRootFails, Move, ProvideRepo, ProvideRepoFails, Release, Switch,
           LiveTypeOK
      <3>3. QED
        BY <3>1, <3>2 DEF machine, Chosen, Choice, Medium, HasSfs
    <2>m. livePc' \in {"mountSfs", "choose"} => mode' = "unset"
      BY <1>2, <2>1 DEF LiveNext, MountSfs, Choose, Chosen, Choice, CopyRoot, CopyRootFails,
         OverlayRoot, OverlayRootFails, Move, ProvideRepo, ProvideRepoFails, Release, Switch,
         LiveTypeOK, SurviveInv
    <2>2. CASE ~(staged = Tools /\ Medium)
      BY <2>1, <2>2, <2>m DEF SurviveInv
    <2>3. CASE staged = Tools /\ Medium
      <3>1. CASE MountSfs
        <4>1. livePc = "mountSfs" /\ livePc' = "choose"
          BY <3>1 DEF MountSfs
        <4>2. faults >= 1 \/ kind[probe] = "live"
          BY <2>3, <4>1 DEF SurviveInv
        <4>3. faults' >= faults /\ faults' \in Nat
              /\ (faults' >= 1 \/ kind[probe] # "live" \/ ro' = "live")
          BY <2>3, <3>1, LiveCosts, LiveCounter
        <4>4. faults' >= 1 \/ ro' = "live"
          BY <1>0, <4>2, <4>3
        <4>5. QED
          BY <2>1, <2>m, <4>1, <4>4 DEF SurviveInv
      <3>2. CASE Choose
        <4>1. UNCHANGED <<ro, newRoot>> /\ livePc = "choose" /\ livePc' = mode'
              /\ mode' \in {"copy", "overlay"}
          BY <3>2 DEF Choose, Chosen, Choice, LiveTypeOK
        <4>2. (faults' = faults /\ mode' = Chosen) \/ faults' = faults + 1
          BY <2>3, <3>2, FailsCounted, ToolSets DEF Choose
        <4>3. faults >= 1 \/ ro = "live"
          BY <2>3, <4>1 DEF SurviveInv
        <4>4. (faults' >= 1 \/ ro' = "live") /\ (mode' = "overlay" /\ Chosen = "copy" => faults' >= 1)
          BY <1>0, <4>1, <4>2, <4>3
        <4>5. QED
          BY <2>1, <4>1, <4>4 DEF SurviveInv
      <3>3. CASE CopyRoot \/ OverlayRoot
        <4>1. livePc' = "move" /\ newRoot'.holds = ro /\ faults' >= faults
          BY <2>3, <3>3, LiveCosts DEF CopyRoot, OverlayRoot
        <4>2. faults >= 1 \/ ro = "live"
          BY <2>3, <3>3 DEF CopyRoot, OverlayRoot, SurviveInv
        <4>3. faults' \in Nat
          BY LiveCounter
        <4>4. QED
          BY <1>0, <2>1, <4>1, <4>2, <4>3 DEF SurviveInv
      <3>4. CASE CopyRootFails
        BY <2>1, <2>3, <3>4, LiveCosts DEF CopyRootFails, SurviveInv
      <3>5. CASE OverlayRootFails
        <4>1. /\ livePc = "overlay" /\ livePc' = "shell"
              /\ faults' = faults + 1
          BY <2>3, <3>5, LiveCosts DEF OverlayRootFails
        <4>2. Chosen = "copy" => faults >= 1
          BY <2>3, <4>1 DEF SurviveInv
        <4>3. QED
          BY <1>0, <2>1, <4>1, <4>2 DEF SurviveInv
      <3>6. CASE Move \/ ProvideRepo \/ ProvideRepoFails \/ Release
        <4>1. /\ livePc \in {"move", "repo", "release"} /\ UNCHANGED newRoot
              /\ livePc' \in {"repo", "release", "switch"}
              /\ faults' = faults \/ faults' >= faults
          BY <2>3, <3>6, LiveCosts DEF Move, ProvideRepo, ProvideRepoFails, Release
        <4>2. faults' \in Nat
          BY LiveCounter
        <4>3. QED
          BY <1>0, <2>1, <2>3, <4>1, <4>2 DEF SurviveInv
      <3>7. CASE Switch
        <4>1. /\ livePc = "switch" /\ UNCHANGED faults
              /\ livePc' = "booted" \/ (livePc' = "panic" /\ newRoot.holds # "live")
          BY <2>3, <3>7, ToolSets DEF Switch
        <4>2. QED
          BY <2>1, <2>3, <4>1 DEF SurviveInv
      <3>8. QED
        BY <1>2, <3>1, <3>2, <3>3, <3>4, <3>5, <3>6, <3>7 DEF LiveNext
    <2>4. QED
      BY <2>2, <2>3
  <1>3. QED
    BY <1>1, <1>2

\* The installer takes a medium away only from a system that has started.
LEMMA InstallSurvives ==
    ASSUME Inv, SurviveInv, InstallStep
    PROVE  SurviveInv'
  <1>0. InstallTypeOK /\ MountInv /\ faults \in Nat /\ faults' \in Nat
    BY LiveLeftAlone DEF Inv, InstallTypeOK, LiveTypeOK
  <1>1. UNCHANGED <<staged, request, roomyVm, livePc, probe, mode, ro, newRoot>>
    BY <1>0, LiveLeftAlone
  <1>2. CASE Eject
    BY <1>1, <1>2 DEF Eject, SurviveInv
  <1>3. CASE ~Eject
    <2>1. UNCHANGED kind
      BY <1>3 DEF InstallStep, Begin, Format, MountTarget, Probe, FallBack, CopyPath, CopyFails,
         Edit, Configure, InstallGrub, StepFails, Killed, liveVars, machine
    <2>3. /\ Medium' <=> Medium
          /\ Ahead' <=> Ahead
          /\ Chosen' = Chosen
      BY <1>1, <2>1 DEF Medium, Ahead, HasSfs, Chosen, Choice
    <2>4. faults' >= faults
      BY <1>0, LiveLeftAlone
    <2>5. QED
      BY <1>0, <1>1, <2>1, <2>3, <2>4 DEF SurviveInv
  <1>4. QED
    BY <1>2, <1>3

\* "Could not find boot media", "Could not prepare a writable live root"
\* (builder.py:7399, 7444): with all tools staged and the live medium ahead of any other
\* that has a root.sfs, /init ends in the rescue shell or in a panic only after a command
\* has failed, and after two where a copy of the root was tried first, for any number of
\* devices and failures.
THEOREM BootAlwaysSurvives == Spec => []BootSurvives
  <1>1. Init => SurviveInv
    BY DEF Init, LiveInitial, SurviveInv, Tools
  <1>2. Inv /\ SurviveInv /\ [Next]_vars => SurviveInv'
    <2> SUFFICES ASSUME Inv, SurviveInv, [Next]_vars PROVE SurviveInv'
      OBVIOUS
    <2>1. CASE LiveNext /\ UNCHANGED instVars
      BY <2>1, SearchSurvives, ScriptSurvives DEF Inv, InstallTypeOK
    <2>2. CASE InstallStep
      BY <2>2, InstallSurvives
    <2>3. CASE UNCHANGED vars
      BY <2>3 DEF vars, liveVars, machine, SurviveInv, Ahead, Medium, HasSfs, Chosen,
         Choice
    <2>4. QED
      BY <2>1, <2>2, <2>3 DEF Next, InstallStep
  <1>3. SurviveInv => BootSurvives
    BY DEF SurviveInv, BootSurvives
  <1>4. QED
    BY <1>1, <1>2, <1>3, InvAlways, PTL DEF Spec

=============================================================================
