--------------------------- MODULE BuildRunProofs ---------------------------
(***************************************************************************)
(* Proofs about BuildRun: types, and that a run that reports success has   *)
(* built what it was asked for in order, and has an image of its own, for  *)
(* any ports, dependencies, requests and number of disturbances.           *)
(***************************************************************************)
EXTENDS BuildRun, FiniteSetTheorems, TLAPS

(***************************************************************************)
(* Types.                                                                  *)
(***************************************************************************)

\* An order of the ports that are needed is a sequence of ports, no longer than all.
LEMMA OrderType ==
    ASSUME NEW S \in SUBSET Ports, NEW o \in Orders(S)
    PROVE  /\ o \in Seq(Ports) /\ Len(o) \in Nat /\ Len(o) <= Cardinality(Ports)
           /\ DOMAIN o = 1..Len(o)
           /\ \A i \in 1..Len(o) : Needs[o[i]] \subseteq {o[j] : j \in 1..(i - 1)}
  <1> DEFINE n == Cardinality(Closure(S))
  <1>1. Closure(S) \subseteq Ports
    BY DEF Closure
  <1>2. n \in Nat /\ n <= Cardinality(Ports)
    BY <1>1, FS_Subset, FS_CardinalityType, BuildAssumption
  <1>3. o \in [1..n -> Closure(S)]
    BY DEF Orders
  <1> HIDE DEF n
  <1>4. o \in Seq(Ports) /\ Len(o) = n
    BY <1>1, <1>2, <1>3
  <1>5. \A i \in DOMAIN o : Needs[o[i]] \subseteq {o[j] : j \in 1..(i - 1)}
    BY DEF Orders
  <1>6. QED
    BY <1>2, <1>3, <1>4, <1>5

\* What the loop over the ports can be at.
PlaceInv == /\ pc = "script" => next <= Len(order)
            /\ pc \notin {"ports", "script", "done"} \cup Packaging => order = <<>> /\ next = 1

\* Parts of the type invariant: what is on disk, and what a process that has ended
\* knows.
DiskType ==
    /\ sysroot \in [Ports -> Levels] /\ kernel \in Boots /\ seeded \in BOOLEAN
    /\ final \in Ages /\ isodir \in IsoDirs /\ iso \in Files /\ link \in {"none", "mine", "old"}

EnvType == source \in Kernels \cup {"none"} /\ faults \in 0..MaxFaults

LocalType ==
    /\ pc \in {"idle", "ports", "script", "done"} \cup Preparing \cup Packaging \cup Cleaning
    /\ request \subseteq Ports
    /\ forced \subseteq request
    /\ order \in Seq(Ports) /\ Len(order) <= Cardinality(Ports)
    /\ next \in 1..(Len(order) + 1)
    /\ synced \in Kernels \cup {"none", "failed"}

LEMMA TypeParts == BuildTypeOK <=> DiskType /\ EnvType /\ LocalType
  BY DEF BuildTypeOK, DiskType, EnvType, LocalType

LEMMA ExitType == ASSUME Exit PROVE LocalType'
  <1>1. Cardinality(Ports) \in Nat
    BY FS_CardinalityType, BuildAssumption
  <1>2. <<>> \in Seq(Ports) /\ Len(<<>>) = 0 /\ 1 \in 1..(Len(<<>>) + 1)
    OBVIOUS
  <1>3. QED
    BY <1>1, <1>2 DEF Exit, LocalType

LEMMA FaultType == ASSUME EnvType, Fault PROVE EnvType'
  BY BuildAssumption DEF EnvType, Fault

\* The port at hand is a port.
LEMMA AtType == ASSUME BuildTypeOK, next <= Len(order) PROVE At \in Ports
  BY DEF BuildTypeOK, At

\* Steps that leave the disk as it is.
LEMMA DiskSame ==
    ASSUME DiskType, UNCHANGED disk
    PROVE  DiskType'
  BY DEF DiskType, disk, images

\* What is left of the sysroot and of isodir is of their types.
LEMMA PartOfSysrootType ==
    ASSUME DiskType, PartOfSysroot
    PROVE  sysroot' \in [Ports -> Levels] /\ kernel' \in Boots /\ seeded' \in BOOLEAN
  BY DEF PartOfSysroot, DiskType, Boots

LEMMA PartOfIsodirType == ASSUME DiskType, PartOfIsodir PROVE isodir' \in IsoDirs
  <1>1. isodir.root \in Ages /\ isodir.initrd \in Ages /\ isodir.kernel \in Boots
    BY DEF DiskType, IsoDirs
  <1>2. "none" \in Ages /\ "none" \in Boots
    BY DEF Ages, Boots
  <1>3. QED
    BY <1>1, <1>2 DEF PartOfIsodir, IsoDirs

\* Steps that write to a part of it.
LEMMA DiskStep ==
    ASSUME BuildTypeOK, PlaceInv, [Next]_vars
    PROVE  DiskType'
  <1>0. DiskType
    BY TypeParts
  <1> USE DEF images
  <1>1. CASE \E asked \in Requests, force \in BOOLEAN : Start(asked, force)
    <2>1. final' \in Ages /\ isodir' \in IsoDirs
      BY <1>0, <1>1 DEF Start, Older, DiskType, Ages, IsoDirs
    <2>2. iso' \in Files
      BY <1>0, <1>1 DEF Start, DiskType, Files
    <2>3. link' \in {"none", "mine", "old"} /\ UNCHANGED <<sysroot, kernel, seeded>>
      BY <1>0, <1>1 DEF Start, Older, DiskType
    <2>4. QED
      BY <1>0, <2>1, <2>2, <2>3 DEF DiskType
  <1>2. CASE PrepareResumed \/ PrepareReset
    BY <1>0, <1>2 DEF PrepareResumed, PrepareReset, Seeding, DiskType, Boots, Levels, Listed
  <1>3. CASE SyncKernel \/ SyncKernelFails \/ StopsInKernel
    <2>1. source \in Boots /\ "cut" \in Boots
      BY DEF BuildTypeOK, Boots
    <2>2. kernel' \in Boots /\ UNCHANGED <<sysroot, seeded, images>>
      BY <1>0, <1>3, <2>1 DEF SyncKernel, SyncKernelFails, StopsInKernel, DiskType
    <2>3. QED
      BY <1>0, <2>2 DEF DiskType
  <1>4. CASE ScriptSucceeds \/ ScriptSpoils \/ ScriptFails
    <2>1. sysroot' \in [Ports -> Levels]
      BY <1>0, <1>4 DEF ScriptSucceeds, ScriptSpoils, ScriptFails, Verified, Leftovers, Torn,
                        DiskType, Levels, Listed
    <2>2. UNCHANGED <<kernel, seeded, images>>
      BY <1>4 DEF ScriptSucceeds, ScriptSpoils, ScriptFails, Verified
    <2>3. QED
      BY <1>0, <2>1, <2>2 DEF DiskType
  <1>5. CASE Assemble \/ CleanFinal
    BY <1>0, <1>5 DEF Assemble, CleanFinal, DiskType, Ages
  <1>6. CASE Squash \/ SquashFails \/ Initramfs \/ PackFails \/ CopyKernel \/ CleanIsodir
    <2>1. isodir' \in IsoDirs
      BY <1>0, <1>6 DEF Squash, SquashFails, Initramfs, PackFails, CopyKernel, CleanIsodir,
                        DiskType, IsoDirs, Ages, Empty, Boots
    <2>2. UNCHANGED <<sysroot, kernel, seeded, final, iso, link>>
      BY <1>6 DEF Squash, SquashFails, Initramfs, PackFails, CopyKernel, CleanIsodir
    <2>3. QED
      BY <1>0, <2>1, <2>2 DEF DiskType
  <1>7. CASE Mkrescue \/ MkrescueFails \/ CleanIsos
    <2>1. iso' \in Files
      BY <1>0, <1>7 DEF Mkrescue, MkrescueFails, WriteNew, WriteOver, CleanIsos, DiskType, Files,
                        NoFiles
    <2>2. link' \in {"none", "mine", "old"}
      BY <1>0, <1>7 DEF Mkrescue, MkrescueFails, WriteNew, WriteOver, CleanIsos, DiskType
    <2>3. UNCHANGED <<sysroot, kernel, seeded, final, isodir>>
      BY <1>7 DEF Mkrescue, MkrescueFails, CleanIsos
    <2>4. QED
      BY <1>0, <2>1, <2>2, <2>3 DEF DiskType
  <1>8. CASE Unlink \/ Link \/ CleanLink
    BY <1>0, <1>8 DEF Unlink, Link, CleanLink, DiskType
  <1>9. CASE CleanSysroot \/ StopsInSysroot
    <2>1. /\ sysroot' \in [Ports -> Levels] /\ kernel' \in Boots /\ seeded' \in BOOLEAN
      BY <1>0, <1>9, PartOfSysrootType DEF CleanSysroot, StopsInSysroot, DiskType, Levels, Boots
    <2>2. UNCHANGED images
      BY <1>9 DEF CleanSysroot, StopsInSysroot
    <2>3. QED
      BY <1>0, <2>1, <2>2 DEF DiskType
  <1>10. CASE StopsInImages
    <2>1. final' \in Ages
      BY <1>0, <1>10 DEF StopsInImages, DiskType, Ages
    <2>2. isodir' \in IsoDirs
      BY <1>0, <1>10, PartOfIsodirType DEF StopsInImages, DiskType, IsoDirs, Boots
    <2>3. iso' \in Files
      BY <1>0, <1>10 DEF StopsInImages, DiskType, Files
    <2>4. UNCHANGED <<sysroot, kernel, seeded, link>>
      BY <1>10 DEF StopsInImages
    <2>5. QED
      BY <1>0, <2>1, <2>2, <2>3, <2>4 DEF DiskType
  <1>11. CASE EditManifests
    BY <1>0, <1>11 DEF EditManifests, DiskType
  <1>12. CASE \/ PrepareReady \/ Helpers \/ SyncKernelMissing \/ Resolve \/ Skip \/ RunScript
             \/ PortsDone \/ VerifyPasses \/ VerifyFails \/ Finish \/ CleanStart \/ Stops
             \/ CompileKernel \/ UNCHANGED vars
    <2>1. UNCHANGED disk
      BY <1>12 DEF PrepareReady, Helpers, SyncKernelMissing, Resolve, Skip, RunScript, PortsDone,
                   VerifyPasses, VerifyFails, Finish, CleanStart, Stops, CompileKernel, vars
    <2>2. QED
      BY <1>0, <2>1, DiskSame
  <1>13. CASE CleanFails
    <2>1. CASE PartOfSysroot /\ UNCHANGED images
      <3>1. sysroot' \in [Ports -> Levels] /\ kernel' \in Boots /\ seeded' \in BOOLEAN
        BY <1>0, <2>1, PartOfSysrootType
      <3>2. QED
        BY <1>0, <2>1, <3>1 DEF DiskType
    <2>2. CASE final' \in {"none", "cut"} /\ UNCHANGED <<sysroot, kernel, seeded, isodir, iso, link>>
      BY <1>0, <2>2 DEF DiskType, Ages
    <2>3. CASE PartOfIsodir /\ UNCHANGED <<sysroot, kernel, seeded, final, iso, link>>
      <3>1. isodir' \in IsoDirs
        BY <1>0, <2>3, PartOfIsodirType
      <3>2. QED
        BY <1>0, <2>3, <3>1 DEF DiskType
    <2>4. QED
      BY <1>13, <2>1, <2>2, <2>3 DEF CleanFails
  <1>14. QED
    BY <1>1, <1>2, <1>3, <1>4, <1>5, <1>6, <1>7, <1>8, <1>9, <1>10, <1>11, <1>12, <1>13
       DEF Next, Builder, Disturbance

\* The environment.
LEMMA EnvStep ==
    ASSUME BuildTypeOK, [Next]_vars
    PROVE  EnvType'
  <1>0. EnvType
    BY TypeParts
  <1>1. CASE UNCHANGED env
    BY <1>0, <1>1 DEF EnvType, env
  <1>2. CASE Fault
    BY <1>0, <1>2, FaultType
  <1>3. CASE CompileKernel
    BY <1>0, <1>3, BuildAssumption DEF CompileKernel, EnvType
  <1>4. UNCHANGED env \/ Fault \/ CompileKernel
    BY DEF Next, Builder, Disturbance, Start, PrepareReady, PrepareResumed, PrepareReset, Helpers,
           SyncKernel, SyncKernelMissing, SyncKernelFails, Resolve, Skip, RunScript,
           ScriptSucceeds, ScriptSpoils, ScriptFails, PortsDone, Assemble, VerifyPasses,
           VerifyFails, Squash, SquashFails, Initramfs, PackFails, CopyKernel, Mkrescue,
           MkrescueFails, Unlink, Link, Finish, CleanStart, CleanFails, CleanSysroot, CleanFinal,
           CleanIsodir, CleanLink, CleanIsos, Stops, StopsInSysroot, StopsInKernel,
           StopsInImages, EditManifests, vars
  <1>5. QED
    BY <1>1, <1>2, <1>3, <1>4

\* What a process that goes on from one place to the next keeps.
LEMMA LocalSame ==
    ASSUME LocalType, PlaceInv, UNCHANGED <<request, forced, order, next>>,
           synced' \in Kernels \cup {"none", "failed"},
           pc' \in Preparing \cup Packaging \cup Cleaning \cup {"idle", "done"},
           pc' \in Packaging \cup {"done"}
              \/ pc \notin {"ports", "script", "done"} \cup Packaging
    PROVE  LocalType' /\ PlaceInv'
  BY DEF LocalType, PlaceInv, Preparing, Packaging, Cleaning

\* What the process knows, and where it is.
LEMMA LocalStep ==
    ASSUME BuildTypeOK, PlaceInv, [Next]_vars
    PROVE  LocalType' /\ PlaceInv'
  <1>0. LocalType
    BY TypeParts
  <1>1. CASE Exit
    <2>1. PlaceInv'
      BY <1>1 DEF Exit, PlaceInv
    <2>2. QED
      BY <1>1, <2>1, ExitType
  <1>2. CASE \E asked \in Requests, force \in BOOLEAN : Start(asked, force)
    <2>1. PICK asked \in Requests, force \in BOOLEAN : Start(asked, force)
      BY <1>2
    <2>2. asked \subseteq Ports
      BY BuildAssumption
    <2>3. /\ pc = "idle" /\ pc' = "prepare" /\ request' = asked /\ forced' \subseteq asked
          /\ UNCHANGED <<order, next, synced>>
      BY <2>1 DEF Start, Step
    <2>4. QED
      BY <1>0, <2>2, <2>3 DEF LocalType, PlaceInv, Preparing, Packaging
  <1>3. CASE Resolve
    <2>1. PICK o \in Orders(request) : order' = o
      BY <1>3 DEF Resolve
    <2>2. /\ o \in Seq(Ports) /\ Len(o) \in Nat /\ Len(o) <= Cardinality(Ports)
      BY <1>0, <2>1, OrderType DEF LocalType
    <2>3. /\ pc = "resolve" /\ pc' = "ports" /\ next = 1
          /\ UNCHANGED <<request, forced, next, synced>>
      BY <1>3 DEF Resolve, Step, PlaceInv, Packaging
    <2>4. QED
      BY <1>0, <2>1, <2>2, <2>3 DEF LocalType, PlaceInv
  <1>4. CASE NextPort /\ next <= Len(order)
    BY <1>0, <1>4 DEF NextPort, LocalType, PlaceInv
  <1>5. CASE RunScript
    BY <1>0, <1>5 DEF RunScript, Step, local, LocalType, PlaceInv
  <1>6. CASE \/ PrepareReady \/ PrepareResumed \/ PrepareReset \/ Helpers \/ SyncKernel
            \/ SyncKernelMissing \/ SyncKernelFails \/ CleanStart \/ CleanFails \/ CleanSysroot
            \/ CleanFinal \/ CleanIsodir \/ CleanLink \/ CleanIsos
    <2>1. /\ UNCHANGED <<request, forced, order, next>>
          /\ synced' \in Kernels \cup {"none", "failed"}
      BY <1>0, <1>6 DEF PrepareReady, PrepareResumed, PrepareReset, Helpers, SyncKernel,
             SyncKernelMissing, SyncKernelFails, CleanStart, CleanFails, CleanSysroot, CleanFinal,
             CleanIsodir, CleanLink, CleanIsos, local, LocalType, BuildTypeOK
    <2>2. /\ pc \notin {"ports", "script", "done"} \cup Packaging
          /\ pc' \in Preparing \cup Cleaning \cup {"idle"}
      BY <1>6 DEF PrepareReady, PrepareResumed, PrepareReset, Helpers, SyncKernel,
             SyncKernelMissing, SyncKernelFails, CleanStart, CleanFails, CleanSysroot, CleanFinal,
             CleanIsodir, CleanLink, CleanIsos, Step, Preparing, Packaging, Cleaning
    <2>3. QED
      BY <1>0, <2>1, <2>2, LocalSame
  <1>7. CASE \/ PortsDone \/ Assemble \/ VerifyPasses \/ Squash \/ Initramfs \/ PackFails
            \/ CopyKernel \/ Mkrescue \/ Unlink \/ Link
    <2>1. UNCHANGED <<request, forced, order, next, synced>>
      BY <1>7 DEF PortsDone, Assemble, VerifyPasses, Squash, Initramfs, PackFails, CopyKernel,
             Mkrescue, Unlink, Link, local
    <2>2. pc' \in Packaging \cup {"done"}
      BY <1>7 DEF PortsDone, Assemble, VerifyPasses, Squash, Initramfs, PackFails, CopyKernel,
             Mkrescue, Unlink, Link, Step, Packaging
    <2>3. synced' \in Kernels \cup {"none", "failed"}
      BY <1>0, <2>1 DEF LocalType
    <2>4. QED
      BY <1>0, <2>1, <2>2, <2>3, LocalSame
  <1>8. CASE UNCHANGED <<pc, local>>
    BY <1>0, <1>8 DEF local, LocalType, PlaceInv
  <1>9. CASE Skip \/ ScriptSucceeds \/ ScriptSpoils
    <2>1. next <= Len(order)
      BY <1>9 DEF Skip, ScriptSucceeds, ScriptSpoils, PlaceInv
    <2>2. NextPort \/ Exit
      BY <1>9 DEF Skip, ScriptSucceeds, ScriptSpoils, Verified
    <2>3. QED
      BY <1>1, <1>4, <2>1, <2>2
  <1>10. \/ Exit \/ UNCHANGED <<pc, local>>
         \/ \E asked \in Requests, force \in BOOLEAN : Start(asked, force)
         \/ PrepareReady \/ PrepareResumed \/ PrepareReset \/ Helpers \/ SyncKernel
         \/ SyncKernelMissing \/ SyncKernelFails \/ CleanStart \/ CleanFails \/ CleanSysroot
         \/ CleanFinal \/ CleanIsodir \/ CleanLink \/ CleanIsos \/ Resolve \/ Skip \/ RunScript
         \/ ScriptSucceeds \/ ScriptSpoils \/ PortsDone \/ Assemble \/ VerifyPasses \/ Squash
         \/ Initramfs \/ PackFails \/ CopyKernel \/ Mkrescue \/ Unlink \/ Link
    BY DEF Next, Builder, Disturbance, VerifyFails, Finish, ScriptFails, SquashFails,
           MkrescueFails, Stops, StopsInSysroot, StopsInKernel, StopsInImages, CompileKernel,
           EditManifests, vars
  <1>11. QED
    BY <1>1, <1>2, <1>3, <1>5, <1>6, <1>7, <1>8, <1>9, <1>10

LEMMA TypeStep ==
    ASSUME BuildTypeOK, PlaceInv, [Next]_vars
    PROVE  BuildTypeOK' /\ PlaceInv'
  <1>1. DiskType' /\ EnvType' /\ LocalType' /\ PlaceInv'
    BY DiskStep, EnvStep, LocalStep
  <1>2. QED
    BY <1>1 DEF BuildTypeOK, DiskType, EnvType, LocalType

(***************************************************************************)
(* The ports.                                                              *)
(***************************************************************************)

Ordered(o) == \A i \in 1..Len(o) : Needs[o[i]] \subseteq {o[j] : j \in 1..(i - 1)}
BuiltUpTo(s, o, n) == \A i \in 1..(n - 1) : s[o[i]] \in Listed
Complete(s) == \A p \in Ports : ~ClosureIssues(s, p)

\* The order has each port after what it needs; the ports before the one at hand
\* are built; from the verification on the image is closed.
PortsInv ==
    /\ pc \in {"ports", "script", "done"} \cup Packaging =>
           Ordered(order) /\ BuiltUpTo(sysroot, order, next)
    /\ pc \in {"done"} \cup Packaging => next = Len(order) + 1
    /\ pc \in {"done"} \cup (Packaging \ {"assemble", "verify"}) => Complete(sysroot)

\* Outside of the loop over the ports and the packaging there is nothing to show.
LEMMA PortsElsewhere ==
    ASSUME pc' \in {"idle"} \cup Preparing \cup Cleaning
    PROVE  PortsInv'
  BY DEF PortsInv, Preparing, Cleaning, Packaging

\* A port that has been verified is built, and so are those before it.
LEMMA VerifiedStep ==
    ASSUME BuildTypeOK, PlaceInv, PortsInv, pc = "script", NEW level \in Levels, Verified(level)
    PROVE  PortsInv'
  <1>1. At \in Ports /\ next <= Len(order) /\ next \in Nat /\ Len(order) \in Nat /\ next >= 1
    BY AtType DEF PlaceInv, BuildTypeOK
  <1>2. CASE Exit
    BY <1>2, PortsElsewhere DEF Exit
  <1>3. CASE level \in Listed /\ NextPort
    <2>1. sysroot' = [sysroot EXCEPT ![At] = level]
      BY DEF Verified
    <2>2. \A p \in Ports : IsBuilt(p) => sysroot'[p] \in Listed
      BY <1>1, <1>3, <2>1 DEF IsBuilt, BuildTypeOK
    <2>3. sysroot'[At] \in Listed
      BY <1>1, <1>3, <2>1 DEF BuildTypeOK
    <2>4. /\ pc' = "ports" /\ next' = next + 1 /\ order' = order
      BY <1>3 DEF NextPort
    <2>5. \A i \in 1..Len(order) : order[i] \in Ports
      BY DEF BuildTypeOK
    <2>6. ASSUME NEW i \in 1..(next' - 1)
          PROVE  sysroot'[order[i]] \in Listed
      <3>1. CASE i = next
        BY <2>3, <3>1 DEF At
      <3>2. CASE i # next
        <4>1. i \in 1..(next - 1) /\ i \in 1..Len(order)
          BY <1>1, <2>4, <2>6, <3>2
        <4>2. IsBuilt(order[i])
          BY <4>1 DEF PortsInv, BuiltUpTo, IsBuilt
        <4>3. QED
          BY <2>2, <2>5, <4>1, <4>2
      <3>3. QED
        BY <3>1, <3>2
    <2>7. QED
      BY <2>4, <2>6 DEF PortsInv, BuiltUpTo, Packaging
  <1>4. QED
    BY <1>2, <1>3 DEF Verified

LEMMA PortsStep ==
    ASSUME BuildTypeOK, PlaceInv, PortsInv, [Next]_vars
    PROVE  PortsInv'
  <1>1. CASE pc' \in {"idle"} \cup Preparing \cup Cleaning
    BY <1>1, PortsElsewhere
  <1>2. CASE Resolve
    <2>1. PICK o \in Orders(request) : order' = o
      BY <1>2 DEF Resolve
    <2>2. \A i \in 1..Len(o) : Needs[o[i]] \subseteq {o[j] : j \in 1..(i - 1)}
      BY <2>1, OrderType DEF BuildTypeOK
    <2>3. pc' = "ports" /\ next' = 1
      BY <1>2 DEF Resolve, Step, PlaceInv, Packaging
    <2>4. Ordered(o)
      BY <2>2 DEF Ordered
    <2>5. \A i \in 1..(next' - 1) : FALSE
      BY <2>3
    <2>6. BuiltUpTo(sysroot', order', next')
      BY <2>5 DEF BuiltUpTo
    <2>7. Ordered(order')
      BY <2>1, <2>4
    <2>8. QED
      BY <2>3, <2>6, <2>7 DEF PortsInv, Packaging
  <1>3. CASE Skip
    <2>1. /\ pc = "ports" /\ pc' = "ports" /\ next' = next + 1 /\ IsBuilt(order[next])
          /\ UNCHANGED <<order, sysroot>>
      BY <1>3 DEF Skip, NextPort, At, disk
    <2>2. next \in Nat
      BY DEF BuildTypeOK
    <2>3. \A i \in 1..(next' - 1) : i \in 1..(next - 1) \/ i = next
      BY <2>1, <2>2
    <2>4. BuiltUpTo(sysroot', order', next')
      BY <2>1, <2>3 DEF PortsInv, BuiltUpTo, IsBuilt
    <2>5. QED
      BY <2>1, <2>4 DEF PortsInv, Packaging
  <1>4. CASE RunScript
    BY <1>4 DEF RunScript, Step, disk, local, PortsInv, Packaging
  <1>5. CASE ScriptSucceeds \/ ScriptSpoils
    BY <1>5, VerifiedStep DEF ScriptSucceeds, ScriptSpoils, Levels, Listed
  <1>6. CASE PortsDone
    <2>1. next = Len(order) + 1
      BY <1>6 DEF PortsDone, BuildTypeOK
    <2>2. QED
      BY <1>6, <2>1 DEF PortsDone, Step, disk, local, PortsInv, Packaging
  <1>7. CASE VerifyPasses
    BY <1>7 DEF VerifyPasses, Step, Sound, Complete, disk, local, PortsInv, Packaging
  <1>8. CASE \/ Assemble \/ Squash \/ Initramfs \/ PackFails \/ CopyKernel \/ Mkrescue
            \/ Unlink \/ Link
    <2>1. UNCHANGED <<sysroot, order, next>>
      BY <1>8 DEF Assemble, Squash, Initramfs, PackFails, CopyKernel, Mkrescue, Unlink, Link, local
    <2>2. \/ pc = "assemble" /\ pc' = "verify"
          \/ pc \in Packaging \ {"assemble", "verify"} /\ pc' \in {"done"} \cup Packaging
      BY <1>8 DEF Assemble, Squash, Initramfs, PackFails, CopyKernel, Mkrescue, Unlink, Link,
                  Step, Packaging
    <2>3. QED
      BY <2>1, <2>2 DEF PortsInv, Packaging
  <1>9. CASE UNCHANGED <<pc, sysroot, order, next>>
    BY <1>9 DEF PortsInv
  <1>10. \/ pc' \in {"idle"} \cup Preparing \cup Cleaning
         \/ UNCHANGED <<pc, sysroot, order, next>>
         \/ Resolve \/ Skip \/ RunScript \/ ScriptSucceeds \/ ScriptSpoils \/ PortsDone
         \/ Assemble \/ VerifyPasses \/ Squash \/ Initramfs \/ PackFails \/ CopyKernel
         \/ Mkrescue \/ Unlink \/ Link
    <2>1. CASE \E asked \in Requests, force \in BOOLEAN : Start(asked, force)
      BY <2>1 DEF Start, Step, Preparing
    <2>2. CASE Builder
      BY <2>2 DEF Builder, PrepareReady, PrepareResumed, PrepareReset, Helpers,
             SyncKernel, SyncKernelMissing, VerifyFails, Finish, CleanSysroot, CleanFinal,
             CleanIsodir, CleanLink, CleanIsos, Exit, Step, Preparing, Cleaning
    <2>3. CASE Disturbance
      BY <2>3 DEF Disturbance, SyncKernelFails, ScriptFails, SquashFails, MkrescueFails,
             CleanStart, CleanFails, Stops, StopsInSysroot, StopsInKernel, StopsInImages,
             CompileKernel, EditManifests, Exit, Step, disk, local, Preparing, Cleaning
    <2>4. CASE UNCHANGED vars
      BY <2>4 DEF vars, disk, local
    <2>5. QED
      BY <2>1, <2>2, <2>3, <2>4 DEF Next
  <1>11. QED
    BY <1>1, <1>2, <1>3, <1>4, <1>5, <1>6, <1>7, <1>8, <1>9, <1>10

(***************************************************************************)
(* The image.                                                              *)
(***************************************************************************)
Squashed == {"initramfs", "kernel", "mkrescue", "unlink", "link", "done"}
Packed   == Squashed \ {"initramfs"}
Kernelled == Packed \ {"kernel"}

\* What this run has made so far is its own, and the kernel is the one it copied.
ImageInv ==
    /\ pc \in {"resolve", "ports", "script", "done"} \cup Packaging =>
           synced = "failed" \/ kernel = synced
    /\ pc \in {"verify", "squash"} \cup Squashed => final = "mine"
    /\ pc \in Squashed => isodir.root = "mine"
    /\ pc \in Packed => isodir.initrd \in {"mine", "cut"}
    /\ pc \in Kernelled => isodir.kernel = kernel
    /\ pc \in {"unlink", "link", "done"} => iso["mine"] = "whole"
    /\ pc = "done" => link = "mine"

LEMMA ImageElsewhere ==
    ASSUME pc' \in {"idle", "prepare", "helpers", "sync"} \cup Cleaning
    PROVE  ImageInv'
  BY DEF ImageInv, Squashed, Packed, Kernelled, Packaging, Cleaning

LEMMA ImageStep ==
    ASSUME BuildTypeOK, ImageInv, [Next]_vars
    PROVE  ImageInv'
  <1> USE DEF Squashed, Packed, Kernelled, Packaging
  <1>1. CASE pc' \in {"idle", "prepare", "helpers", "sync"} \cup Cleaning
    BY <1>1, ImageElsewhere
  <1>2. CASE SyncKernel \/ SyncKernelMissing \/ SyncKernelFails
    BY <1>2 DEF SyncKernel, SyncKernelMissing, SyncKernelFails, Step, ImageInv
  <1>3. CASE /\ pc \in {"resolve", "ports", "script"} /\ pc' \in {"ports", "script", "assemble"}
             /\ UNCHANGED <<kernel, synced>>
    BY <1>3 DEF ImageInv
  <1>4. CASE UNCHANGED <<pc, kernel, synced, final, isodir, iso, link>>
    BY <1>4 DEF ImageInv
  <1>5. CASE Assemble \/ VerifyPasses
    BY <1>5 DEF Assemble, VerifyPasses, Step, disk, images, local, ImageInv
  <1>6. CASE Squash
    BY <1>6 DEF Squash, Step, local, ImageInv, BuildTypeOK, IsoDirs
  <1>7. CASE Initramfs \/ PackFails
    BY <1>7 DEF Initramfs, PackFails, Step, local, ImageInv, BuildTypeOK, IsoDirs
  <1>8. CASE CopyKernel
    BY <1>8 DEF CopyKernel, Step, local, ImageInv, BuildTypeOK, IsoDirs
  <1>9. CASE Mkrescue
    BY <1>9 DEF Mkrescue, WriteNew, WriteOver, Step, local, ImageInv, BuildTypeOK, Files
  <1>10. CASE Unlink \/ Link
    BY <1>10 DEF Unlink, Link, Step, local, ImageInv
  <1>11. CASE \E asked \in Requests, force \in BOOLEAN : Start(asked, force)
    BY <1>1, <1>11 DEF Start, Step
  <1>12. CASE Builder
    <2>1. CASE Resolve \/ Skip \/ RunScript \/ ScriptSucceeds \/ PortsDone
      BY <1>1, <1>3, <2>1 DEF Resolve, Skip, RunScript, ScriptSucceeds, PortsDone, Verified,
             NextPort, Exit, Step, disk, local
    <2>2. CASE \/ PrepareReady \/ PrepareResumed \/ PrepareReset \/ Helpers \/ VerifyFails \/ Finish
              \/ CleanSysroot \/ CleanFinal \/ CleanIsodir \/ CleanLink \/ CleanIsos
      BY <1>1, <2>2 DEF PrepareReady, PrepareResumed, PrepareReset, Helpers, VerifyFails, Finish,
             CleanSysroot, CleanFinal, CleanIsodir, CleanLink, CleanIsos, Exit, Step, Cleaning
    <2>3. QED
      BY <1>2, <1>5, <1>6, <1>7, <1>8, <1>9, <1>10, <1>12, <2>1, <2>2 DEF Builder
  <1>13. CASE Disturbance
    <2>1. CASE ScriptSpoils
      BY <1>1, <1>3, <2>1 DEF ScriptSpoils, Verified, NextPort, Exit
    <2>2. CASE CompileKernel \/ EditManifests
      BY <1>4, <2>2 DEF CompileKernel, EditManifests, disk, images, local
    <2>3. CASE \/ ScriptFails \/ SquashFails \/ MkrescueFails \/ CleanStart \/ CleanFails
              \/ Stops \/ StopsInSysroot \/ StopsInKernel \/ StopsInImages
      BY <1>1, <2>3 DEF ScriptFails, SquashFails, MkrescueFails, CleanStart, CleanFails, Stops,
             StopsInSysroot, StopsInKernel, StopsInImages, Exit, Step, Cleaning
    <2>4. QED
      BY <1>2, <1>7, <1>13, <2>1, <2>2, <2>3 DEF Disturbance
  <1>14. CASE UNCHANGED vars
    BY <1>4, <1>14 DEF vars, disk, images, local
  <1>15. QED
    BY <1>11, <1>12, <1>13, <1>14 DEF Next

\* GeminiOS.iso leads to a whole image, or to one that was written over; until an
\* image is made it does not lead to it.
LinkInv ==
    /\ LinkIsWhole
    /\ pc \in ({"ports", "script"} \cup Preparing \cup Packaging) \ {"unlink"} => link # "mine"
    /\ pc = "cleanIsos" => link = "none"

LEMMA LinkStep ==
    ASSUME BuildTypeOK, ImageInv, LinkInv, [Next]_vars
    PROVE  LinkInv'
  <1> USE DEF Preparing, Packaging, Cleaning
  <1>1. CASE \E asked \in Requests, force \in BOOLEAN : Start(asked, force)
    BY <1>1 DEF Start, Step, Older, LinkInv, LinkIsWhole, BuildTypeOK, Files
  <1>2. CASE /\ pc \notin {"idle", "unlink", "done"} \cup Cleaning /\ pc' # "cleanIsos"
             /\ UNCHANGED <<link, iso>>
    BY <1>2 DEF LinkInv, LinkIsWhole, BuildTypeOK
  <1>3. CASE /\ pc \in {"idle", "done"} \cup Cleaning /\ UNCHANGED <<link, iso>>
             /\ pc' \in {"idle"} \cup (Cleaning \ {"cleanIsos"})
    BY <1>3 DEF LinkInv, LinkIsWhole
  <1>4. CASE Mkrescue \/ MkrescueFails
    <2>1. link # "mine" /\ pc' \in {"unlink", "idle"}
      BY <1>4 DEF Mkrescue, MkrescueFails, Step, Exit, LinkInv
    <2>2. CASE \E file \in {"none", "cut", "whole"} : WriteNew(file)
      BY <2>1, <2>2 DEF WriteNew, LinkInv, LinkIsWhole, BuildTypeOK, Files
    <2>3. CASE WriteOver("whole") \/ WriteOver("over")
      BY <2>1, <2>3 DEF WriteOver, LinkInv, LinkIsWhole
    <2>4. QED
      BY <1>4, <2>2, <2>3 DEF Mkrescue, MkrescueFails
  <1>5. CASE Unlink
    BY <1>5 DEF Unlink, Step, LinkInv, LinkIsWhole
  <1>6. CASE Link
    BY <1>6 DEF Link, Step, ImageInv, LinkInv, LinkIsWhole
  <1>7. CASE CleanLink \/ CleanIsos
    BY <1>7 DEF CleanLink, CleanIsos, Step, LinkInv, LinkIsWhole
  <1>8. CASE StopsInImages
    BY <1>8 DEF StopsInImages, Exit, LinkInv, LinkIsWhole
  <1>9. CASE UNCHANGED <<pc, link, iso>>
    BY <1>9 DEF LinkInv, LinkIsWhole
  <1>10. CASE Builder
    <2>1. CASE \/ PrepareReady \/ PrepareResumed \/ PrepareReset \/ Helpers \/ SyncKernel
              \/ SyncKernelMissing \/ Resolve \/ Skip \/ RunScript \/ ScriptSucceeds \/ PortsDone
              \/ Assemble \/ VerifyPasses \/ VerifyFails \/ Squash \/ Initramfs \/ CopyKernel
      BY <1>2, <2>1 DEF PrepareReady, PrepareResumed, PrepareReset, Helpers, SyncKernel,
             SyncKernelMissing, Resolve, Skip, RunScript, ScriptSucceeds, PortsDone, Assemble,
             VerifyPasses, VerifyFails, Squash, Initramfs, CopyKernel, Verified, NextPort,
             Exit, Step, disk, images
    <2>2. CASE Finish \/ CleanSysroot \/ CleanFinal \/ CleanIsodir
      BY <1>3, <2>2 DEF Finish, CleanSysroot, CleanFinal, CleanIsodir, Exit, Step, disk, images
    <2>3. QED
      BY <1>4, <1>5, <1>6, <1>7, <1>10, <2>1, <2>2 DEF Builder
  <1>11. CASE Disturbance
    <2>1. CASE CompileKernel \/ EditManifests
      BY <1>9, <2>1 DEF CompileKernel, EditManifests, disk, images
    <2>2. CASE SyncKernelFails \/ ScriptSpoils \/ ScriptFails \/ SquashFails \/ PackFails
      BY <1>2, <2>2 DEF SyncKernelFails, ScriptSpoils, ScriptFails, SquashFails, PackFails,
             Verified, NextPort, Exit, Step, images
    <2>3. CASE CleanStart \/ CleanFails \/ Stops \/ StopsInSysroot \/ StopsInKernel
      <3>1. UNCHANGED <<link, iso>> /\ pc' \in {"idle"} \cup (Cleaning \ {"cleanIsos"})
        BY <2>3 DEF CleanStart, CleanFails, Stops, StopsInSysroot, StopsInKernel, Exit, Step, disk, images
      <3>2. QED
        BY <3>1 DEF LinkInv, LinkIsWhole
    <2>4. QED
      BY <1>4, <1>8, <1>11, <2>1, <2>2, <2>3 DEF Disturbance
  <1>12. CASE UNCHANGED vars
    BY <1>9, <1>12 DEF vars, disk, images
  <1>13. QED
    BY <1>1, <1>10, <1>11, <1>12 DEF Next

(***************************************************************************)
(* The inductive invariant, and the theorems.                              *)
(***************************************************************************)
BuildInv == BuildTypeOK /\ PlaceInv /\ PortsInv /\ ImageInv /\ LinkInv

LEMMA BuildInvInit == Init => BuildInv
  <1> SUFFICES ASSUME Init PROVE BuildInv
    OBVIOUS
  <1>1. Cardinality(Ports) \in Nat /\ <<>> \in Seq(Ports) /\ Len(<<>>) = 0
    BY FS_CardinalityType, BuildAssumption
  <1>2. BuildTypeOK
    <2>1. sysroot \in [Ports -> Levels] /\ kernel \in Boots /\ final \in Ages
      BY DEF Init, Levels, Listed, Boots, Ages
    <2>2. isodir \in IsoDirs
      BY DEF Init, IsoDirs, Empty, Ages, Boots
    <2>3. iso \in Files
      BY DEF Init, Files, NoFiles
    <2>4. DiskType
      BY <2>1, <2>2, <2>3 DEF Init, DiskType
    <2>5. EnvType
      BY BuildAssumption DEF Init, EnvType
    <2>6. LocalType
      <3>1. request \subseteq Ports /\ forced \subseteq request /\ synced \in Kernels \cup {"none", "failed"}
        BY DEF Init
      <3>2. order \in Seq(Ports) /\ Len(order) <= Cardinality(Ports) /\ next \in 1..(Len(order) + 1)
        BY <1>1, SMTT(30) DEF Init
      <3>3. QED
        BY <3>1, <3>2 DEF Init, LocalType
    <2>7. QED
      BY <2>4, <2>5, <2>6, TypeParts
  <1>3. PlaceInv /\ PortsInv /\ ImageInv /\ LinkInv
    BY DEF Init, PlaceInv, PortsInv, ImageInv, LinkInv, LinkIsWhole, Packaging, Preparing,
           Squashed, Packed, Kernelled
  <1>4. QED
    BY <1>2, <1>3 DEF BuildInv

LEMMA BuildInvAlways == Spec => []BuildInv
  <1>1. BuildInv /\ [Next]_vars => BuildInv'
    BY TypeStep, PortsStep, ImageStep, LinkStep DEF BuildInv
  <1>2. QED
    BY <1>1, BuildInvInit, PTL DEF Spec

\* Types hold for any ports and any number of disturbances.
THEOREM BuildTypeCorrect == Spec => []BuildTypeOK
  <1>1. BuildInv => BuildTypeOK
    BY DEF BuildInv
  <1>2. QED
    BY <1>1, BuildInvAlways, PTL

\* build_package runs a script only where everything the port needs is built, for
\* any table of dependencies.
THEOREM DependenciesAlwaysInPlace == Spec => []DependenciesInPlace
  <1>1. BuildInv => DependenciesInPlace
    <2> SUFFICES ASSUME BuildInv, pc = "script", NEW q \in Needs[At] PROVE IsBuilt(q)
      BY DEF DependenciesInPlace
    <2>1. next \in 1..Len(order) /\ next \in Nat
      BY DEF BuildInv, PlaceInv, BuildTypeOK
    <2>2. PICK j \in 1..(next - 1) : q = order[j]
      BY <2>1 DEF BuildInv, PortsInv, Ordered, At
    <2>3. QED
      BY <2>2 DEF BuildInv, PortsInv, BuiltUpTo, IsBuilt
  <1>2. QED
    BY <1>1, BuildInvAlways, PTL

\* create_iso reports success with an image of one run only, whatever was left in
\* isodir by runs that failed.
THEOREM ImageAlwaysOfOneRun == Spec => []ImageOfOneRun
  <1>1. BuildInv => ImageOfOneRun
    BY DEF BuildInv, ImageInv, ImageOfOneRun, Squashed, Packed, Kernelled
  <1>2. QED
    BY <1>1, BuildInvAlways, PTL

\* main reports success with all that was asked for in place, and a closed image.
THEOREM ImageAlwaysComplete == Spec => []ImageIsComplete
  <1>1. BuildInv => ImageIsComplete
    <2> SUFFICES ASSUME BuildInv, pc = "done"
                 PROVE  /\ \A i \in DOMAIN order : IsBuilt(order[i])
                        /\ \A p \in Ports : ~ClosureIssues(sysroot, p)
      BY DEF ImageIsComplete
    <2>1. DOMAIN order = 1..Len(order) /\ Len(order) \in Nat
      BY DEF BuildInv, BuildTypeOK
    <2>2. next = Len(order) + 1 /\ BuiltUpTo(sysroot, order, next) /\ Complete(sysroot)
      BY DEF BuildInv, PortsInv
    <2>3. QED
      BY <2>1, <2>2 DEF BuiltUpTo, Complete, IsBuilt
  <1>2. QED
    BY <1>1, BuildInvAlways, PTL

\* create_iso and clean_system never leave GeminiOS.iso on a part of an image, unless
\* a run that took the name of the linked one stopped while it wrote over it.
THEOREM LinkAlwaysWhole == Spec => []LinkIsWhole
  <1>1. BuildInv => LinkIsWhole
    BY DEF BuildInv, LinkInv
  <1>2. QED
    BY <1>1, BuildInvAlways, PTL
=============================================================================
