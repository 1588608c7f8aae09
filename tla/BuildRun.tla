------------------------------ MODULE BuildRun ------------------------------
(***************************************************************************)
(* One run of builder.py after another, on a disk that outlives them: main *)
(* prepares the stages, syncs the kernel, builds the ports in order,       *)
(* assembles and verifies the root filesystem, packs the ISO and points    *)
(* GeminiOS.iso at it; or --clean removes it all.  A run may be killed at  *)
(* any point, and nothing but what is on disk tells the next run about it. *)
(*                                                                         *)
(* What prepare_rootfs does to the sysroot is the outcome of module        *)
(* BootstrapStage; the order of the ports is what module BuildOrder        *)
(* promises.  Every port of the repository has a build script and a        *)
(* manifest, so the early returns for a port without one are not taken.    *)
(***************************************************************************)
EXTENDS Naturals, Sequences, FiniteSets

CONSTANTS
    Ports,      \* PACKAGES
    Needs,      \* [port]: PACKAGE_DEPENDENCIES, a set
    Links,      \* [port]: the ports whose libraries its binaries load
    HostTools,  \* ports whose build mode is host-only-tool
    Critical,   \* ports that provide the critical files of the image
    Seeds,      \* ports whose manifest the Debian packages of the stage satisfy
    Kernels,    \* compiled kernel images
    Requests,   \* the sets of ports a developer asks for; Ports is "no argument"
    MaxFaults   \* bound on failures, crashes and changes of the environment

ASSUME BuildAssumption ==
    /\ IsFiniteSet(Ports)
    /\ Needs \in [Ports -> SUBSET Ports]
    /\ Links \in [Ports -> SUBSET Ports]
    /\ HostTools \subseteq Ports /\ Critical \subseteq Ports /\ Seeds \subseteq Ports
    /\ Requests \subseteq (SUBSET Ports \ {{}}) /\ Ports \in Requests
    /\ Kernels \cap {"none", "cut"} = {}
    /\ MaxFaults \in Nat

(***************************************************************************)
(* What the sysroot has of a port.  get_package_verification_issues finds  *)
(* nothing to report from "broken" on: the artifacts of the manifest are   *)
(* there, with binaries that cannot be loaded ("broken"), as leftovers of  *)
(* a script that failed or of an interrupted removal ("leftover"), from    *)
(* the Debian packages ("seeded"), or from its build script ("built").     *)
(***************************************************************************)
Listed == {"broken", "leftover", "seeded", "built"}
Levels == {"none", "some"} \cup Listed

VARIABLES
    \* the disk
    sysroot,    \* [Ports -> Levels]: build_sysroot
    kernel,     \* boot/kernel in build_sysroot
    seeded,     \* both stages are seeded with what the manifests want
    final,      \* rootfs: "none", "cut", of an "old" run or "mine", of this one
    isodir,     \* isodir: [root, initrd, kernel]
    iso,        \* the image files: the one this run writes, the one linked before;
                \* "over" is cut short by a run that took the name of the linked one
    link,       \* GeminiOS.iso: "none", or which of the two it points to
    \* the environment
    source,     \* what resolve_kernel_bzimage_path finds
    faults,
    \* the builder process
    pc, request, forced, order, next,
    synced      \* read by properties only: what sync_kernel copied, or "failed"

images  == <<final, isodir, iso, link>>
disk    == <<sysroot, kernel, seeded, images>>
env     == <<source, faults>>
local   == <<request, forced, order, next, synced>>
vars    == <<disk, env, pc, local>>

Ages    == {"none", "cut", "old", "mine"}
Boots   == Kernels \cup {"none", "cut"}
IsoDirs == [root : Ages, initrd : Ages, kernel : Boots]
Files   == [{"mine", "old"} -> {"none", "cut", "over", "whole"}]
Empty   == [root |-> "none", initrd |-> "none", kernel |-> "none"]
NoFiles == [f \in {"mine", "old"} |-> "none"]

Preparing == {"prepare", "helpers", "sync", "resolve"}
Packaging == {"assemble", "verify", "squash", "initramfs", "kernel", "mkrescue",
              "unlink", "link"}
Cleaning  == {"cleanSysroot", "cleanFinal", "cleanIsodir", "cleanLink", "cleanIsos"}

BuildTypeOK ==
    /\ sysroot \in [Ports -> Levels]
    /\ kernel \in Boots
    /\ seeded \in BOOLEAN
    /\ final \in Ages
    /\ isodir \in IsoDirs
    /\ iso \in Files
    /\ link \in {"none", "mine", "old"}
    /\ source \in Kernels \cup {"none"}
    /\ faults \in 0..MaxFaults
    /\ pc \in {"idle", "ports", "script", "done"} \cup Preparing \cup Packaging \cup Cleaning
    /\ request \subseteq Ports
    /\ forced \subseteq request
    /\ order \in Seq(Ports) /\ Len(order) <= Cardinality(Ports)
    /\ next \in 1..(Len(order) + 1)
    /\ synced \in Kernels \cup {"none", "failed"}

Init ==
    /\ sysroot = [p \in Ports |-> "none"]
    /\ kernel = "none" /\ seeded = FALSE
    /\ final = "none" /\ isodir = Empty /\ iso = NoFiles /\ link = "none"
    /\ source \in Kernels \cup {"none"}
    /\ faults = 0
    /\ pc = "idle"
    /\ request = {} /\ forced = {} /\ order = <<>> /\ next = 1 /\ synced = "none"

-----------------------------------------------------------------------------
Fault == faults < MaxFaults /\ faults' = faults + 1 /\ UNCHANGED source

At == order[next]

\* sys.exit, an exception or a signal: what the process knew is gone.
Exit == pc' = "idle" /\ request' = {} /\ forced' = {} /\ order' = <<>> /\ next' = 1
        /\ synced' = "none"

Step(from, to) == pc = from /\ pc' = to

\* What this run left is old to the next one.
Older(age) == IF age = "mine" THEN "old" ELSE age

Start(asked, force) ==
    /\ Step("idle", "prepare")
    /\ request' = asked
    /\ forced' = IF force THEN asked ELSE {}
    /\ final' = Older(final)
    /\ isodir' = [isodir EXCEPT !.root = Older(@), !.initrd = Older(@)]
    /\ iso' = IF link = "mine" THEN [mine |-> "none", old |-> iso["mine"]]
                               ELSE [iso EXCEPT !["mine"] = "none"]
    /\ link' = Older(link)
    /\ UNCHANGED <<sysroot, kernel, seeded, env, order, next, synced>>

-----------------------------------------------------------------------------
(***************************************************************************)
(* prepare_rootfs and sync_kernel.                                         *)
(***************************************************************************)
PrepareReady ==
    /\ Step("prepare", "helpers") /\ seeded
    /\ UNCHANGED <<disk, env, local>>

\* A plan that extends the recorded one: Debian payload is laid over what ports
\* have installed, or is left as it is where it had been extracted before.
Seeding == {s \in [Ports -> Levels] :
    \A p \in Ports : \/ p \notin Seeds /\ s[p] = sysroot[p]
                     \/ p \in Seeds /\ s[p] = "seeded"
                     \/ p \in Seeds /\ s[p] = sysroot[p] /\ sysroot[p] # "none"}

PrepareResumed ==
    /\ Step("prepare", "helpers") /\ ~seeded
    /\ sysroot' \in Seeding
    /\ seeded' = TRUE
    /\ UNCHANGED <<kernel, images, env, local>>

PrepareReset ==
    /\ Step("prepare", "helpers") /\ ~seeded
    /\ sysroot' = [p \in Ports |-> IF p \in Seeds THEN "seeded" ELSE "none"]
    /\ kernel' = "none"
    /\ seeded' = TRUE
    /\ UNCHANGED <<images, env, local>>

\* prepare_build_system_helpers, and the clean-up of the sysroot that follows.
Helpers ==
    /\ Step("helpers", "sync")
    /\ UNCHANGED <<disk, env, local>>

\* Whether it could copy the kernel, and the zoneinfo after it, is not asked.
SyncKernel ==
    /\ Step("sync", "resolve") /\ source # "none"
    /\ kernel' = source
    /\ synced' = source
    /\ UNCHANGED <<sysroot, seeded, images, env, request, forced, order, next>>

SyncKernelMissing ==
    /\ Step("sync", "resolve") /\ source = "none"
    /\ synced' = "failed"
    /\ UNCHANGED <<disk, env, request, forced, order, next>>

SyncKernelFails ==
    /\ Step("sync", "resolve") /\ source # "none"
    /\ Fault
    /\ kernel' \in {kernel, "cut", source}
    /\ synced' = "failed"
    /\ UNCHANGED <<sysroot, seeded, images, request, forced, order, next>>

-----------------------------------------------------------------------------
(***************************************************************************)
(* The ports, in an order resolve_requested_packages gives (BuildOrder).   *)
(***************************************************************************)
Closed(S)  == \A p \in S : Needs[p] \subseteq S
Closure(S) == {p \in Ports : \A T \in SUBSET Ports : S \subseteq T /\ Closed(T) => p \in T}

Orders(S) == {o \in [1..Cardinality(Closure(S)) -> Closure(S)] :
                 /\ \A i, j \in DOMAIN o : i # j => o[i] # o[j]
                 /\ \A i \in DOMAIN o : Needs[o[i]] \subseteq {o[j] : j \in 1..(i - 1)}}

\* Mutation: a port that has been added is added again.
ResolveTwice ==
    /\ Step("resolve", "ports")
    /\ \E o \in Orders(request) : order' = o \o o
    /\ UNCHANGED <<disk, env, request, forced, next, synced>>

Resolve ==
    /\ Step("resolve", "ports")
    /\ order' \in Orders(request)
    /\ UNCHANGED <<disk, env, request, forced, next, synced>>

\* The libraries the binaries of p load that are missing from sysroot s.
OpenLinks(s, p) ==
    IF s[p] \in {"leftover", "built"} THEN {q \in Links[p] : s[q] \notin Listed} ELSE {}

ClosureIssues(s, p) == s[p] = "broken" \/ OpenLinks(s, p) # {}

\* Mutation: a port whose binaries find no library is built again.
IsBuiltClosed(p) == sysroot[p] \in Listed /\ ~ClosureIssues(sysroot, p)

IsBuilt(p) == sysroot[p] \in Listed

NextPort == pc' = "ports" /\ next' = next + 1 /\ UNCHANGED <<request, forced, order, synced>>

Skip ==
    /\ pc = "ports" /\ next <= Len(order)
    /\ At \notin forced /\ IsBuilt(At)
    /\ NextPort
    /\ UNCHANGED <<disk, env>>

RunScript ==
    /\ next <= Len(order)
    /\ Step("ports", "script")
    /\ At \in forced \/ ~IsBuilt(At)
    /\ UNCHANGED <<disk, env, local>>

\* The script is through, and the artifacts it has installed are verified: a
\* library that is missing counts, except for a host-only tool.
Verified(level) ==
    /\ sysroot' = [sysroot EXCEPT ![At] = level]
    /\ IF level \in Listed /\ (At \in HostTools \/ ~ClosureIssues(sysroot', At))
       THEN NextPort ELSE Exit
    /\ UNCHANGED <<kernel, seeded, images>>

ScriptSucceeds ==
    /\ pc = "script"
    /\ Verified("built")
    /\ UNCHANGED env

\* Exit status 0, with artifacts missing or built against the wrong libraries.
ScriptSpoils ==
    /\ pc = "script"
    /\ Fault
    /\ \E level \in {"some", "broken"} : Verified(level)

\* What a script that failed, or was killed, leaves of its port.
Torn == [sysroot EXCEPT ![At] = "some"]
Leftovers == {sysroot, Torn, [sysroot EXCEPT ![At] = "leftover"]}

\* Mutation: go on with the next port.
ScriptFailsIgnored ==
    /\ pc = "script"
    /\ Fault
    /\ sysroot' \in Leftovers
    /\ NextPort
    /\ UNCHANGED <<kernel, seeded, images>>

ScriptFails ==
    /\ pc = "script"
    /\ Fault
    /\ sysroot' \in Leftovers
    /\ Exit
    /\ UNCHANGED <<kernel, seeded, images>>

-----------------------------------------------------------------------------
(***************************************************************************)
(* finalize_rootfs and create_iso.                                         *)
(***************************************************************************)
PortsDone ==
    /\ Step("ports", "assemble") /\ next > Len(order)
    /\ UNCHANGED <<disk, env, local>>

\* FINAL_ROOTFS_DIR is removed and made again from the stages.
Assemble ==
    /\ Step("assemble", "verify")
    /\ final' = "mine"
    /\ UNCHANGED <<sysroot, kernel, seeded, isodir, iso, link, env, local>>

\* verify_rootfs_integrity: the critical files, boot/kernel among them, and the
\* runtime closure of every binary in the tree, of which ports that were not
\* asked for may have left some.
Sound  == /\ \A p \in Critical : IsBuilt(p)
          /\ kernel # "none"
          /\ \A p \in Ports : ~ClosureIssues(sysroot, p)
Remains == \E p \in Ports : sysroot[p] = "some"

\* Mutation: the critical files only.
VerifyPassesCritical ==
    /\ Step("verify", "squash") /\ \A p \in Critical : IsBuilt(p)
    /\ UNCHANGED <<disk, env, local>>

VerifyPasses ==
    /\ Step("verify", "squash") /\ Sound
    /\ UNCHANGED <<disk, env, local>>

VerifyFails ==
    /\ pc = "verify" /\ (~Sound \/ Remains)
    /\ Exit
    /\ UNCHANGED <<disk, env>>

\* Mutation: isodir is used as it is.
SquashKept ==
    /\ Step("squash", "initramfs")
    /\ isodir' = [isodir EXCEPT !.root = IF @ = "none" THEN "mine" ELSE @]
    /\ UNCHANGED <<sysroot, kernel, seeded, final, iso, link, env, local>>

\* An older root.sfs is removed first.
Squash ==
    /\ Step("squash", "initramfs")
    /\ isodir' = [isodir EXCEPT !.root = "mine"]
    /\ UNCHANGED <<sysroot, kernel, seeded, final, iso, link, env, local>>

SquashFails ==
    /\ pc = "squash"
    /\ Fault
    /\ \E left \in {"none", "cut", "mine"} : isodir' = [isodir EXCEPT !.root = left]
    /\ Exit
    /\ UNCHANGED <<sysroot, kernel, seeded, final, iso, link>>

Initramfs ==
    /\ Step("initramfs", "kernel")
    /\ isodir' = [isodir EXCEPT !.initrd = "mine"]
    /\ UNCHANGED <<sysroot, kernel, seeded, final, iso, link, env, local>>

\* The exit status of cpio and lz4 is not looked at.
PackFails ==
    /\ Step("initramfs", "kernel")
    /\ Fault
    /\ isodir' = [isodir EXCEPT !.initrd = "cut"]
    /\ UNCHANGED <<sysroot, kernel, seeded, final, iso, link, local>>

\* The tree that was verified has a kernel, so there is no fallback here.
CopyKernel ==
    /\ Step("kernel", "mkrescue")
    /\ isodir' = [isodir EXCEPT !.kernel = kernel]
    /\ UNCHANGED <<sysroot, kernel, seeded, final, iso, link, env, local>>

\* The name of the image has the minute in it.  A run that gets here within the
\* minute of the run before writes over the image GeminiOS.iso leads to.
WriteNew(file)  == iso' = [iso EXCEPT !["mine"] = file] /\ UNCHANGED link
WriteOver(file) == link = "old" /\ iso' = [mine |-> file, old |-> "none"] /\ link' = "mine"

\* Mutation: its exit status is not looked at either.
MkrescueIgnored ==
    /\ Step("mkrescue", "unlink")
    /\ \E file \in {"whole", "cut"} : WriteNew(file) \/ WriteOver(file)
    /\ UNCHANGED <<sysroot, kernel, seeded, final, isodir, env, local>>

Mkrescue ==
    /\ Step("mkrescue", "unlink")
    /\ WriteNew("whole") \/ WriteOver("whole")
    /\ UNCHANGED <<sysroot, kernel, seeded, final, isodir, env, local>>

\* Nothing written yet, or a part.
MkrescueFails ==
    /\ pc = "mkrescue"
    /\ Fault
    /\ WriteNew("none") \/ WriteNew("cut") \/ WriteOver("over")
    /\ Exit
    /\ UNCHANGED <<sysroot, kernel, seeded, final, isodir>>

Unlink ==
    /\ Step("unlink", "link")
    /\ link' = "none"
    /\ UNCHANGED <<sysroot, kernel, seeded, final, isodir, iso, env, local>>

Link ==
    /\ Step("link", "done")
    /\ link' = "mine"
    /\ UNCHANGED <<sysroot, kernel, seeded, final, isodir, iso, env, local>>

Finish ==
    /\ pc = "done"
    /\ Exit
    /\ UNCHANGED <<disk, env>>

-----------------------------------------------------------------------------
(***************************************************************************)
(* clean_system, in its order: the trees, the link, the images.            *)
(***************************************************************************)
CleanStart ==
    /\ Step("idle", "cleanSysroot")
    /\ Fault
    /\ UNCHANGED <<disk, local>>

\* What an unfinished removal or extraction in the sysroot may leave of a port.
Remnants(p) ==
    {sysroot[p], "none"}
    \cup (IF sysroot[p] = "none" THEN {} ELSE {"some"})
    \cup (IF sysroot[p] \in Listed THEN {"leftover"} ELSE {})
    \cup (IF p \in Seeds /\ pc = "prepare" THEN {"some", "seeded"} ELSE {})

PartOfSysroot ==
    /\ sysroot' \in {s \in [Ports -> Levels] : \A p \in Ports : s[p] \in Remnants(p)}
    /\ kernel' \in {kernel, "none"}
    /\ seeded' \in {seeded, FALSE}

PartOfIsodir ==
    isodir' \in [root   : {isodir.root, "none"},
                initrd : {isodir.initrd, "none"},
                kernel : {isodir.kernel, "none"}]

CleanSysroot ==
    /\ Step("cleanSysroot", "cleanFinal")
    /\ sysroot' = [p \in Ports |-> "none"]
    /\ kernel' = "none"
    /\ seeded' = FALSE
    /\ UNCHANGED <<images, env, local>>

CleanFinal ==
    /\ Step("cleanFinal", "cleanIsodir")
    /\ final' = "none"
    /\ UNCHANGED <<sysroot, kernel, seeded, isodir, iso, link, env, local>>

CleanIsodir ==
    /\ Step("cleanIsodir", "cleanLink")
    /\ isodir' = Empty
    /\ UNCHANGED <<sysroot, kernel, seeded, final, iso, link, env, local>>

\* rm -rf does not get through; its exit status is not looked at.
CleanFails ==
    /\ Fault
    /\ \/ /\ Step("cleanSysroot", "cleanFinal")
          /\ PartOfSysroot
          /\ UNCHANGED images
       \/ /\ Step("cleanFinal", "cleanIsodir")
          /\ final' = (IF final = "none" THEN "none" ELSE "cut")
          /\ UNCHANGED <<sysroot, kernel, seeded, isodir, iso, link>>
       \/ /\ Step("cleanIsodir", "cleanLink")
          /\ PartOfIsodir
          /\ UNCHANGED <<sysroot, kernel, seeded, final, iso, link>>
    /\ UNCHANGED local

CleanLink ==
    /\ Step("cleanLink", "cleanIsos")
    /\ link' = "none"
    /\ UNCHANGED <<sysroot, kernel, seeded, final, isodir, iso, env, local>>

CleanIsos ==
    /\ Step("cleanIsos", "idle")
    /\ iso' = NoFiles
    /\ UNCHANGED <<sysroot, kernel, seeded, final, isodir, link, env, local>>

-----------------------------------------------------------------------------
(***************************************************************************)
(* Interruptions and the environment.                                      *)
(***************************************************************************)

\* A signal between two steps, a ginit or helper that does not build, a name or
\* script that main refuses, a smoke test that fails, or any exception.
Stops ==
    /\ pc \notin {"idle", "done", "script"}
    /\ Fault
    /\ Exit
    /\ UNCHANGED disk

StopsInSysroot ==
    /\ pc = "cleanSysroot" \/ (pc = "prepare" /\ ~seeded)
    /\ Fault
    /\ PartOfSysroot
    /\ Exit
    /\ UNCHANGED images

StopsInKernel ==
    /\ pc = "sync" /\ source # "none"
    /\ Fault
    /\ kernel' = "cut"
    /\ Exit
    /\ UNCHANGED <<sysroot, seeded, images>>

StopsInImages ==
    /\ Fault
    /\ \/ /\ pc \in {"assemble", "cleanFinal"}
          /\ final' = "cut"
          /\ UNCHANGED <<isodir, iso, link>>
       \/ /\ pc = "cleanIsodir"
          /\ PartOfIsodir
          /\ UNCHANGED <<final, iso, link>>
       \/ /\ pc = "kernel"
          /\ isodir' = [isodir EXCEPT !.kernel = "cut"]
          /\ UNCHANGED <<final, iso, link>>
       \/ /\ pc = "cleanIsos"
          /\ \E m \in {iso["mine"], "none"} : iso' = [mine |-> m, old |-> "none"]
          /\ UNCHANGED <<final, isodir, link>>
    /\ Exit
    /\ UNCHANGED <<sysroot, kernel, seeded>>

\* The developer compiles a kernel, or edits the Debian package manifests.
CompileKernel ==
    /\ faults < MaxFaults /\ faults' = faults + 1
    /\ source' \in Kernels \ {source}
    /\ UNCHANGED <<disk, pc, local>>

EditManifests ==
    /\ pc = "idle" /\ seeded
    /\ Fault
    /\ seeded' = FALSE
    /\ UNCHANGED <<sysroot, kernel, images, pc, local>>

-----------------------------------------------------------------------------
Builder ==
    \/ PrepareReady \/ PrepareResumed \/ PrepareReset \/ Helpers
    \/ SyncKernel \/ SyncKernelMissing \/ Resolve
    \/ Skip \/ RunScript \/ ScriptSucceeds \/ PortsDone
    \/ Assemble \/ VerifyPasses \/ VerifyFails
    \/ Squash \/ Initramfs \/ CopyKernel \/ Mkrescue \/ Unlink \/ Link \/ Finish
    \/ CleanSysroot \/ CleanFinal \/ CleanIsodir \/ CleanLink \/ CleanIsos

Disturbance ==
    \/ SyncKernelFails \/ ScriptSpoils \/ ScriptFails
    \/ SquashFails \/ PackFails \/ MkrescueFails
    \/ CleanStart \/ CleanFails \/ Stops \/ StopsInSysroot \/ StopsInKernel \/ StopsInImages
    \/ CompileKernel \/ EditManifests

Next ==
    \/ \E asked \in Requests, force \in BOOLEAN : Start(asked, force)
    \/ Builder
    \/ Disturbance

Spec == Init /\ [][Next]_vars

\* The process is sequential and waits for nobody; the developer asks for a
\* plain build of everything again and again.
FairSpec == Spec /\ WF_vars(Builder) /\ SF_vars(Start(Ports, FALSE))

-----------------------------------------------------------------------------
(***************************************************************************)
(* Properties.                                                             *)
(***************************************************************************)

\* A build script runs only in a sysroot that has the artifacts of every port it
\* is declared to depend on, whatever earlier runs did to the sysroot and
\* whichever ports are forced (main, build_package).
DependenciesInPlace ==
    pc = "script" => \A q \in Needs[At] : IsBuilt(q)

\* A run that reports success has an image made of its own root file system, of
\* an initramfs of its own (whole, unless packing it failed unnoticed), and of
\* the kernel sync_kernel copied, unless that failed; nothing in it is left over
\* in isodir from a run before (create_iso).
ImageOfOneRun ==
    pc = "done" =>
        /\ final = "mine" /\ isodir.root = "mine"
        /\ isodir.initrd \in {"mine", "cut"}
        /\ synced = "failed" \/ isodir.kernel = synced
        /\ iso["mine"] = "whole" /\ link = "mine"

\* A run that reports success has every port it was asked for in place, and all
\* binaries in the image find the libraries they load (main, create_iso).
ImageIsComplete ==
    pc = "done" =>
        /\ \A i \in DOMAIN order : IsBuilt(order[i])
        /\ \A p \in Ports : ~ClosureIssues(sysroot, p)

\* GeminiOS.iso never points at an image that is missing or cut short, also when
\* a build or a --clean is interrupted anywhere, but for one case: a run that took
\* the name of the linked image, within its minute, and stopped while it wrote
\* over it (create_iso, clean_system, get_geminios_release_info).
LinkIsWhole == link # "none" => iso[link] \in {"whole", "over"}

\* Once the disturbances are over, asking for a build of everything again and
\* again ends with an image: whatever earlier runs left in the sysroot or the
\* image directories does not stop it, unless there is no kernel or a port is
\* there whose binaries cannot be loaded; provided that the stages get seeded, which
\* is Converges of BootstrapStage, with its exceptions.
BuildConverges ==
    []<>(pc = "done" \/ source = "none" \/ \E p \in Ports : sysroot[p] = "broken")
=============================================================================
