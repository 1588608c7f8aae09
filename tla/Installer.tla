----------------------------- MODULE Installer ------------------------------
(***************************************************************************)
(* The installer, perform_install, started in the live system of module    *)
(* LiveInit: it finds the pristine image on a medium or copies the running *)
(* root instead, and may be started again on what an earlier attempt left. *)
(*                                                                         *)
(* A directory of the target is known by what is at its place: nothing, an *)
(* empty directory, what was there before, or a copy of a source.  cp -a   *)
(* of a directory onto one that exists makes the copy inside of it.        *)
(***************************************************************************)
EXTENDS LiveInit

CONSTANT MaxAttempts

ASSUME AttemptAssumption == MaxAttempts \in Nat

\* Three of the ten essential_paths: /boot, which the mount of the EFI partition
\* makes first, /etc, which the installer edits, and /usr for the others.
Paths == <<"etc", "usr", "boot">>
Dirs  == {Paths[i] : i \in DOMAIN Paths}

\* What the live system leaves in a copy of /etc and in /bin/apps: its marker, the
\* accounts of the session, the mode files that its /init has written (builder.py:7464),
\* and the installer.
Traces == {"marker", "accounts", "modes", "installer"}

\* disk: the configuration names the disk, which grub-install needs for BIOS.
Configs ==
    {c \in [format : BOOLEAN, uefi : BOOLEAN, grub : BOOLEAN, disk : BOOLEAN] :
        c.disk => c.grub /\ ~c.uefi}

Unasked == [format |-> TRUE, uefi |-> FALSE, grub |-> TRUE, disk |-> FALSE]

VARIABLES
    instPc, config, attempts,
    held,           \* the device whose image is copied from, in LiveBaseMount; or 0
    lost,           \* mounts that no LiveBaseMount knows of any more: [medium, root]
    todo,           \* devices readdir has not returned yet
    source,         \* "live", another root, or "running" for the fallback
    next,           \* index of the path to copy
    place,          \* [Dirs]: what the target has at the place of the path
    traces,         \* traces of the live system at their places in the target
    warned,         \* what this attempt has skipped or kept, with a warning in the log
    stuck,          \* an unmount of the target has failed
    formatted       \* this attempt has made the target's file system

mounts   == <<held, lost>>
target   == <<place, traces, warned>>
instVars == <<instPc, config, attempts, mounts, todo, source, next, target, stuck, formatted>>
vars == <<liveVars, instVars>>

InstallTypeOK ==
    /\ LiveTypeOK
    /\ instPc \in {"idle", "format", "mount", "search", "copy", "configure", "grub",
                   "succeeded", "failed"}
    /\ config \in Configs
    /\ attempts \in 0..MaxAttempts
    /\ held \in 0..NumDevices
    /\ lost \subseteq [medium : Devices, root : Kinds \cup {Nothing}]
    /\ todo \subseteq Devices
    /\ source \in {"none", "live", "running"}
    /\ next \in 1..(Len(Paths) + 1)
    /\ place \in [Dirs -> {"absent", "empty", "old", "part", "live", "running"}]
    /\ traces \subseteq Traces /\ warned \subseteq Traces \cup Dirs
    /\ stuck \in BOOLEAN /\ formatted \in BOOLEAN

Init ==
    /\ LiveInitial
    /\ instPc = "idle" /\ config = Unasked /\ attempts = 0
    /\ held = 0 /\ lost = {} /\ todo = {}
    /\ source = "none" /\ next = 1
    /\ \E before \in {"absent", "old"} : place = [p \in Dirs |-> before]
    /\ traces = {} /\ warned = {} /\ stuck = FALSE /\ formatted = FALSE

-----------------------------------------------------------------------------
\* n commands fail for no reason of the model, or the program is killed.
Strikes(n) == faults + n <= MaxFaults /\ faults' = faults + n

\* The image that was copied to memory no longer needs its medium.
Eject ==
    /\ livePc = "booted" /\ instPc \in {"idle", "succeeded", "failed"}
    /\ \E d \in Devices \ (cdrom \cup {m.medium : m \in lost}) :
           kind[d] = "live" /\ kind' = [kind EXCEPT ![d] = "blank"]
    /\ UNCHANGED <<staged, request, roomyVm, livePc, probe, cdrom, ro, mode, newRoot,
                   repo, repoMode, faults, instVars>>

Begin ==
    /\ livePc = "booted" /\ instPc \in {"idle", "succeeded", "failed"}
    /\ attempts < MaxAttempts /\ attempts' = attempts + 1
    /\ config' \in Configs
    /\ place' = [p \in Dirs |-> IF place[p] = "absent" THEN "absent"
                                ELSE IF place[p] = "empty" THEN "empty" ELSE "old"]
    /\ formatted' = FALSE /\ todo' = {} /\ next' = 1 /\ source' = "none" /\ warned' = {}
    /\ instPc' = "format"
    /\ UNCHANGED <<liveVars, mounts, traces, stuck>>

\* mkfs refuses a partition that is still mounted.
Format ==
    /\ instPc = "format"
    /\ IF config.format
       THEN /\ ~stuck
            /\ place' = [p \in Dirs |-> "absent"] /\ traces' = {} /\ formatted' = TRUE
       ELSE UNCHANGED <<place, traces, formatted>>
    /\ instPc' = "mount"
    /\ UNCHANGED <<liveVars, config, attempts, mounts, todo, source, next, warned, stuck>>

\* The mount point of the EFI partition is made on the target before the copies.
EfiMountPoint == [place EXCEPT !["boot"] = IF config.uefi /\ @ = "absent" THEN "empty" ELSE @]

MountTarget ==
    /\ instPc = "mount"
    /\ place' = EfiMountPoint
    /\ todo' = Devices
    /\ instPc' = "search"
    /\ UNCHANGED <<liveVars, config, attempts, mounts, source, next, traces, warned, stuck,
                   formatted>>

-----------------------------------------------------------------------------
\* find_pristine_live_source_root.  What it mounts is LiveBaseMount's to unmount, from
\* the device that is found on; a device that is not what it looks for it unmounts
\* itself, and forgets it whether that has worked or not.
Left(d, root) == lost' = lost \cup {[medium |-> d, root |-> root]}

ProbeFails(d) ==
    /\ \/ kind[d] = "blank" /\ UNCHANGED faults
       \/ kind[d] # "blank" /\ Strikes(1)
    /\ UNCHANGED <<mounts, source, instPc>>

\* A medium without root.sfs, or whose root.sfs does not mount.
ProbePlain(d) ==
    /\ kind[d] # "blank"
    /\ LET refused == IF kind[d] \in {"otherSfs", "live"} THEN 1 ELSE 0 IN
           \/ Strikes(refused) /\ UNCHANGED lost
           \/ Strikes(refused + 1) /\ Left(d, Nothing)
    /\ UNCHANGED <<held, source, instPc>>

\* The root of another system is not unmounted, and keeps its medium busy.
ProbeOther(d) ==
    /\ kind[d] = "otherSfs"
    /\ Left(d, "otherSfs")
    /\ UNCHANGED <<faults, held, source, instPc>>

ProbeFound(d) ==
    /\ kind[d] = "live"
    /\ held' = d
    /\ source' = "live" /\ instPc' = "copy"
    /\ UNCHANGED <<faults, lost>>

Probe ==
    /\ instPc = "search"
    /\ \E d \in todo :
           /\ ProbeFails(d) \/ ProbePlain(d) \/ ProbeOther(d) \/ ProbeFound(d)
           /\ todo' = IF instPc' = "copy" THEN {} ELSE todo \ {d}
    /\ UNCHANGED <<machine, livePc, probe, cdrom, ro, mode, newRoot, repo, repoMode,
                   config, attempts, next, target, stuck, formatted>>

FallBack ==
    /\ instPc = "search" /\ todo = {}
    /\ source' = "running" /\ instPc' = "copy"
    /\ UNCHANGED <<liveVars, config, attempts, mounts, todo, next, target, stuck, formatted>>

-----------------------------------------------------------------------------
Brought(p) ==
    CASE p = "etc" -> {"marker"} \cup IF source = "running" THEN {"accounts", "modes"} ELSE {}
      [] p = "usr" -> {"installer"}
      [] OTHER -> {}

\* Mutation: a step of two paths.
CopyPathLoose ==
    /\ instPc = "copy" /\ next <= Len(Paths)
    /\ next' = next + 2
    /\ UNCHANGED <<liveVars, instPc, config, attempts, mounts, todo, source, target, stuck,
                   formatted>>

\* A source that is not there, or cannot be reached, is skipped with a warning.
CopyPath ==
    /\ instPc = "copy" /\ next <= Len(Paths)
    /\ LET p == Paths[next] IN
       \/ /\ place[p] = "absent"
          /\ place' = [place EXCEPT ![p] = source]
          /\ traces' = traces \cup Brought(p)
          /\ UNCHANGED <<warned, faults>>
       \/ place[p] # "absent" /\ UNCHANGED <<target, faults>>
       \/ Strikes(1) /\ warned' = warned \cup {p} /\ UNCHANGED <<place, traces>>
    /\ next' = next + 1
    /\ UNCHANGED <<machine, livePc, probe, cdrom, ro, mode, newRoot, repo, repoMode,
                   instPc, config, attempts, mounts, todo, source, stuck, formatted>>

\* Mutation: the medium first, which the root file system on it keeps busy.
ReleasedMediumFirst(n) ==
    /\ Strikes(n) /\ held' = 0
    /\ IF held = 0 THEN UNCHANGED lost ELSE Left(held, Nothing)

\* LiveBaseMount's destructor, after n commands that have failed: the root, then the
\* medium, which is busy as long as the root is mounted.
Released(n) ==
    /\ held' = 0
    /\ \/ Strikes(n) /\ UNCHANGED lost
       \/ held # 0 /\ Strikes(n + 1) /\ \E root \in {"live", Nothing} : Left(held, root)

\* Mutation: the accounts of the live session are left alone.
RemovedTraces == {"marker", "installer"}

CleanedTraces == {"marker", "installer"} \cup IF source = "running" THEN {"accounts"} ELSE {}

\* What a copy, or the edits that follow the copies, leave when they do not end.
Interrupted ==
    IF next > Len(Paths)
    THEN /\ \E some \in SUBSET CleanedTraces : traces' = traces \ some
         /\ UNCHANGED <<place, warned>>
    ELSE \/ UNCHANGED target
         \/ /\ place[Paths[next]] = "absent"
            /\ place' = [place EXCEPT ![Paths[next]] = "part"]
            /\ \E some \in SUBSET Brought(Paths[next]) : traces' = traces \cup some
            /\ UNCHANGED warned

CopyFails ==
    /\ instPc = "copy"
    /\ Interrupted
    /\ Released(1)
    /\ stuck' \in {stuck, TRUE}
    /\ instPc' = "failed"
    /\ UNCHANGED <<machine, livePc, probe, cdrom, ro, mode, newRoot, repo, repoMode,
                   config, attempts, todo, source, next, formatted>>

\* The marker and the installer may resist their removal: that is only a warning.
Edit ==
    /\ instPc = "copy" /\ next > Len(Paths)
    /\ \E kept \in SUBSET (traces \cap {"marker", "installer"}) :
           /\ traces' = traces \ (CleanedTraces \ kept)
           /\ warned' = warned \cup kept
           /\ Released(Cardinality(kept))
    /\ instPc' = "configure"
    /\ UNCHANGED <<machine, livePc, probe, cdrom, ro, mode, newRoot, repo, repoMode,
                   config, attempts, todo, source, next, place, stuck, formatted>>

\* Swap file, identity, display, accounts, fstab, grub.cfg and SELinux: files of the
\* target that the other steps do not read.
Configure ==
    /\ instPc = "configure"
    /\ instPc' = "grub"
    /\ UNCHANGED <<liveVars, config, attempts, mounts, todo, source, next, target, stuck,
                   formatted>>

\* grub-install is given the disk of the configuration, which only the automatic
\* partitioning asks for.
InstallGrub ==
    /\ instPc = "grub"
    /\ config.grub => config.uefi \/ config.disk
    /\ stuck' \in {stuck, TRUE}
    /\ instPc' = "succeeded"
    /\ UNCHANGED <<liveVars, config, attempts, mounts, todo, source, next, target, formatted>>

StepFails ==
    /\ instPc \in {"format", "mount", "configure", "grub"}
    /\ \/ Strikes(1)
       \/ instPc = "format" /\ config.format /\ stuck /\ UNCHANGED faults
       \/ instPc = "grub" /\ config.grub /\ ~config.uefi /\ ~config.disk /\ UNCHANGED faults
    /\ place' \in {place} \cup IF instPc = "mount" THEN {EfiMountPoint} ELSE {}
    /\ stuck' \in {stuck, TRUE}
    /\ instPc' = "failed"
    /\ UNCHANGED <<machine, livePc, probe, cdrom, ro, mode, newRoot, repo, repoMode,
                   config, attempts, mounts, todo, source, next, traces, warned, formatted>>

\* No destructor and no cleanup_install_state runs.
Killed ==
    /\ instPc \in {"format", "mount", "search", "copy", "configure", "grub"}
    /\ Strikes(1)
    /\ IF instPc = "copy" THEN Interrupted
       ELSE /\ place' \in {place} \cup IF instPc = "mount" THEN {EfiMountPoint} ELSE {}
            /\ UNCHANGED <<traces, warned>>
    /\ \/ held = 0 /\ UNCHANGED lost
       \/ held # 0 /\ Left(held, "live")
       \/ /\ instPc = "search"
          /\ \E d \in todo : kind[d] # "blank"
                 /\ \E root \in {Nothing} \cup ({kind[d]} \cap {"otherSfs", "live"}) : Left(d, root)
    /\ held' = 0
    /\ stuck' \in IF instPc \in {"search", "copy", "configure", "grub"} THEN {TRUE} ELSE {stuck, TRUE}
    /\ instPc' = "failed"
    /\ UNCHANGED <<machine, livePc, probe, cdrom, ro, mode, newRoot, repo, repoMode,
                   config, attempts, todo, source, next, formatted>>

Next ==
    \/ LiveNext /\ UNCHANGED instVars
    \/ Eject \/ Begin \/ Format \/ MountTarget \/ Probe \/ FallBack
    \/ CopyPath \/ CopyFails \/ Edit \/ Configure \/ InstallGrub \/ StepFails \/ Killed

Spec == Init /\ [][Next]_vars

-----------------------------------------------------------------------------
Succeeded == instPc = "succeeded"

\* "Installation completed successfully": an installation on a file system it has
\* made holds one whole copy of one source at each place, pristine or running, whatever
\* media were probed and whatever earlier attempts failed at; but /boot on a machine with
\* an EFI partition, and a path that the log says was skipped.  Of the live session it
\* has what the log says could not be removed, and, exactly if /etc comes from the
\* running system, the two mode files, which nothing removes.
FormattedInstallIsClean ==
    Succeeded /\ formatted =>
        /\ \A p \in Dirs : \/ (place[p] = source)
                            \/ (p = "boot" /\ config.uefi)
                            \/ (p \in warned /\ place[p] = "absent")
        /\ traces = (warned \cap {"marker", "installer"})
                     \cup IF place["etc"] = "running" THEN {"modes"} ELSE {}

\* Outside the copy nothing is held, and what stays mounted is media of other systems
\* and, for each further mount, the trace of an unmount that failed or of an installer
\* that was killed.
SearchReleases ==
    /\ instPc # "copy" => held = 0
    /\ Cardinality({m \in lost : m.root # "otherSfs"}) <= faults

\* "the installer and GRUB config still use /boot/kernel" (README.md:522): what was
\* installed with a boot loader has the kernel its menu names.  Does not hold: see
\* the run install_boots.
InstalledKernelInPlace ==
    Succeeded /\ config.grub => place["boot"] \notin {"absent", "empty"}
=============================================================================
