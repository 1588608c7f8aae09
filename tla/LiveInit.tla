------------------------------ MODULE LiveInit ------------------------------
(***************************************************************************)
(* The start of the live system: create_minimal_initramfs stages a few     *)
(* programs of the final tree and writes /init, a shell script that finds  *)
(* the medium, mounts root.sfs, prepares a writable root and leaves for    *)
(* it.  Every command may fail; what the script checks and what it does    *)
(* not check is what is modelled.                                          *)
(***************************************************************************)
EXTENDS Naturals, Sequences, FiniteSets

CONSTANTS
    NumDevices,     \* /dev/sr* and then /dev/sd*, in the order the shell lists them
    MayLack,        \* the tools that the final tree may lack
    MaxFaults       \* bound on the commands that fail for no reason of the model

Devices == 1..NumDevices

\* What is on a device: no ISO image, one without root.sfs, one whose root.sfs
\* does not mount, one whose root.sfs is something else, the live system.
Kinds == {"blank", "noSfs", "badSfs", "otherSfs", "live"}

\* The staged programs that /init runs or is run by; sh, ls and sleep change nothing
\* that the script looks at.
Tools == {"bash", "cat", "mkdir", "mount", "cp", "umount", "switch_root"}

ASSUME LiveAssumption ==
    NumDevices \in Nat \ {0} /\ MaxFaults \in Nat /\ MayLack \subseteq Tools

VARIABLES
    kind,           \* [Devices]: what the machine has
    staged,         \* the tools in the initramfs
    request,        \* geminios.live_root of the command line
    roomyVm,        \* a virtual machine with the memory for a copy
    livePc, probe,  \* the script, and the device it looks at, or has found
    cdrom, ro,      \* the devices mounted on /mnt/cdrom, one over the other, and /mnt/ro
    mode,           \* SELECTED_ROOT_MODE
    newRoot,        \* what /new_root shows: [how, holds]
    repo,           \* what /new_root/var/repo is: "root" or "tmpfs"
    repoMode,       \* LIVE_PKGSTATE_MODE
    faults

machine  == <<kind, staged, request, roomyVm>>
liveVars == <<machine, livePc, probe, cdrom, ro, mode, newRoot, repo, repoMode, faults>>

Nothing == "nothing"    \* an empty or an absent tree

LiveTypeOK ==
    /\ kind \in [Devices -> Kinds] /\ staged \subseteq Tools
    /\ request \in {"auto", "copy", "overlay"}
    /\ roomyVm \in BOOLEAN
    /\ livePc \in {"stage", "search", "mountSfs", "choose", "copy", "overlay", "move", "repo",
                   "release", "switch", "booted", "shell", "panic", "aborted"}
    /\ probe \in 1..(NumDevices + 1)
    /\ cdrom \subseteq Devices
    /\ ro \in Kinds \cup {Nothing}
    /\ mode \in {"unset", "copy", "overlay"}
    /\ newRoot \in [how : {"none", "copy", "overlay"}, holds : Kinds \cup {Nothing, "part"}]
    /\ repo \in {"root", "tmpfs"} /\ repoMode \in {"rootfs", "tmpfs"}
    /\ faults \in 0..MaxFaults

LiveInitial ==
    /\ kind \in [Devices -> Kinds]
    /\ staged = {}
    /\ request \in {"auto", "copy", "overlay"}
    /\ roomyVm \in BOOLEAN
    /\ livePc = "stage" /\ probe = 1
    /\ cdrom = {} /\ ro = Nothing
    /\ mode = "unset" /\ newRoot = [how |-> "none", holds |-> Nothing]
    /\ repo = "root" /\ repoMode = "rootfs"
    /\ faults = 0

\* A command that can work does; one that cannot fails; any may fail.
Succeeds(tools) == tools \subseteq staged /\ UNCHANGED faults
Fails(tools) ==
    IF tools \subseteq staged THEN faults < MaxFaults /\ faults' = faults + 1
                              ELSE UNCHANGED faults

-----------------------------------------------------------------------------
\* A tool that the final tree lacks is a warning; one that is there and does not
\* run stops the build.  Without bash the kernel cannot execute /init and is left
\* with /bin/sh, if that is there.
Stage ==
    /\ livePc = "stage"
    /\ staged' \in {Tools \ lacking : lacking \in SUBSET MayLack}
    /\ livePc' \in {"aborted"} \cup IF "bash" \in staged' THEN {"search"} ELSE {"shell", "panic"}
    /\ UNCHANGED <<kind, request, roomyVm, probe, cdrom, ro, mode, newRoot, repo,
                   repoMode, faults>>

\* A device without root.sfs stays mounted when umount fails or is missing, and the
\* next one is mounted over it.
SkipDevice ==
    /\ livePc = "search" /\ probe <= NumDevices
    /\ \/ kind[probe] = "blank" /\ UNCHANGED <<faults, cdrom>>
       \/ kind[probe] # "blank" /\ Fails({"mkdir", "mount"}) /\ UNCHANGED cdrom
       \/ kind[probe] = "noSfs" /\ Succeeds({"mkdir", "mount", "umount"}) /\ UNCHANGED cdrom
       \/ /\ kind[probe] = "noSfs" /\ {"mkdir", "mount"} \subseteq staged /\ Fails({"umount"})
          /\ cdrom' = cdrom \cup {probe}
    /\ probe' = probe + 1
    /\ UNCHANGED <<machine, livePc, ro, mode, newRoot, repo, repoMode>>

HasSfs(d) == kind[d] \in {"badSfs", "otherSfs", "live"}

TakeDevice ==
    /\ livePc = "search" /\ probe <= NumDevices
    /\ HasSfs(probe) /\ Succeeds({"mkdir", "mount"})
    /\ cdrom' = cdrom \cup {probe}
    /\ livePc' = "mountSfs"
    /\ UNCHANGED <<machine, probe, ro, mode, newRoot, repo, repoMode>>

\* There is no device either where /dev could not be mounted.
NoDevice ==
    /\ livePc = "search"
    /\ \/ probe > NumDevices /\ UNCHANGED faults
       \/ probe = 1 /\ Fails({"mount"})
    /\ livePc' = "shell"
    /\ UNCHANGED <<machine, probe, cdrom, ro, mode, newRoot, repo, repoMode>>

\* The status of this mount is not looked at.
MountSfs ==
    /\ livePc = "mountSfs"
    /\ \/ /\ kind[probe] \in {"otherSfs", "live"} /\ Succeeds({"mount"})
          /\ ro' = kind[probe]
       \/ kind[probe] \in {"otherSfs", "live"} /\ Fails({"mount"}) /\ UNCHANGED ro
       \/ kind[probe] = "badSfs" /\ UNCHANGED <<ro, faults>>
    /\ livePc' = "choose"
    /\ UNCHANGED <<machine, probe, cdrom, mode, newRoot, repo, repoMode>>

Choice(told, roomy) ==
    IF told # "auto" THEN told ELSE IF roomy THEN "copy" ELSE "overlay"

Chosen == Choice(request, roomyVm)

\* Where the command line or the identity of the machine cannot be read, for want of
\* cat, /proc or /sys, the request counts as "auto" or the machine as a real one.
Choose ==
    /\ livePc = "choose"
    /\ \/ Succeeds({"cat"}) /\ mode' = Chosen
       \/ /\ Fails({"cat"})
          /\ \E told \in {"auto"} \cup IF "cat" \in staged THEN {request} ELSE {},
                roomy \in {roomyVm, FALSE} : mode' = Choice(told, roomy)
    /\ livePc' = mode'
    /\ UNCHANGED <<machine, probe, cdrom, ro, newRoot, repo, repoMode>>

CopyRoot ==
    /\ livePc = "copy" /\ Succeeds({"mkdir", "mount", "cp"})
    /\ newRoot' = [how |-> "copy", holds |-> ro]
    /\ livePc' = "move"
    /\ UNCHANGED <<machine, probe, cdrom, ro, mode, repo, repoMode>>

\* Mutation: after a failed copy the script goes on with what there is.
CopyRootFailsOn ==
    /\ livePc = "copy" /\ Fails({"mkdir", "mount", "cp"})
    /\ newRoot' = [how |-> "copy", holds |-> "part"]
    /\ livePc' = "move"
    /\ UNCHANGED <<machine, probe, cdrom, ro, mode, repo, repoMode>>

\* Mutation: a failed copy ends in the rescue shell.
CopyRootFailsForGood ==
    /\ livePc = "copy" /\ Fails({"mkdir", "mount", "cp"})
    /\ livePc' = "shell"
    /\ UNCHANGED <<machine, probe, cdrom, ro, mode, newRoot, repo, repoMode>>

\* The tmpfs may be refused, or fill up, and be unmounted or not: the overlay is
\* mounted over it.
CopyRootFails ==
    /\ livePc = "copy" /\ Fails({"mkdir", "mount", "cp"})
    /\ newRoot' \in {newRoot, [how |-> "copy", holds |-> "part"]}
    /\ mode' = "overlay"
    /\ livePc' = "overlay"
    /\ UNCHANGED <<machine, probe, cdrom, ro, repo, repoMode>>

OverlayRoot ==
    /\ livePc = "overlay" /\ Succeeds({"mkdir", "mount"})
    /\ newRoot' = [how |-> "overlay", holds |-> ro]
    /\ livePc' = "move"
    /\ UNCHANGED <<machine, probe, cdrom, ro, mode, repo, repoMode>>

OverlayRootFails ==
    /\ livePc = "overlay" /\ Fails({"mkdir", "mount"})
    /\ livePc' = "shell"
    /\ UNCHANGED <<machine, probe, cdrom, ro, mode, newRoot, repo, repoMode>>

\* The moves of /dev, /proc, /sys and /run are not checked.
Move ==
    /\ livePc = "move"
    /\ livePc' = "repo"
    /\ UNCHANGED <<machine, probe, cdrom, ro, mode, newRoot, repo, repoMode, faults>>

ProvideRepo ==
    /\ livePc = "repo" /\ Succeeds({"mkdir", "mount", "cp"})
    /\ repo' = "tmpfs" /\ repoMode' = "tmpfs"
    /\ livePc' = "release"
    /\ UNCHANGED <<machine, probe, cdrom, ro, mode, newRoot>>

ProvideRepoFails ==
    /\ livePc = "repo" /\ Fails({"mkdir", "mount", "cp"})
    /\ livePc' = "release"
    /\ UNCHANGED <<machine, probe, cdrom, ro, mode, newRoot, repo, repoMode>>

\* An overlay holds /mnt/ro, and the loop device holds the medium; the medium is
\* then detached lazily, which frees nothing.
Release ==
    /\ livePc = "release"
    /\ \/ /\ newRoot.how # "overlay" /\ Succeeds({"umount"}) /\ ro' = Nothing
          /\ cdrom' = cdrom \ {probe}
       \/ newRoot.how # "overlay" /\ Fails({"umount"}) /\ UNCHANGED <<ro, cdrom>>
       \/ newRoot.how = "overlay" /\ UNCHANGED <<ro, cdrom, faults>>
    /\ livePc' = "switch"
    /\ UNCHANGED <<machine, probe, mode, newRoot, repo, repoMode>>

\* PID 1 ends when switch_root or the init of the new root cannot be executed; a
\* part of a system may have its init or not.
Switch ==
    /\ livePc = "switch"
    /\ livePc' \in IF "switch_root" \notin staged THEN {"panic"}
                  ELSE CASE newRoot.holds = "live" -> {"booted"}
                         [] newRoot.holds = "part" -> {"booted", "panic"}
                         [] OTHER -> {"panic"}
    /\ UNCHANGED <<machine, probe, cdrom, ro, mode, newRoot, repo, repoMode, faults>>

LiveNext ==
    \/ Stage \/ SkipDevice \/ TakeDevice \/ NoDevice \/ MountSfs \/ Choose
    \/ CopyRoot \/ CopyRootFails \/ OverlayRoot \/ OverlayRootFails \/ Move
    \/ ProvideRepo \/ ProvideRepoFails \/ Release \/ Switch

-----------------------------------------------------------------------------
\* A live system that starts has the whole image as its root, never what a copy
\* that failed has left, and the mode files tell how the root and the package
\* cache are mounted (builder.py:7463), whatever failed and fell back before.
BootedAsRecorded ==
    livePc = "booted" =>
        /\ newRoot = [how |-> mode, holds |-> "live"]
        /\ repoMode = "tmpfs" <=> repo = "tmpfs"

\* "Could not find boot media", "Could not prepare a writable live root"
\* (builder.py:7399, 7444): with all tools staged and the live medium ahead of any
\* other that has a root.sfs, the machine starts; a failed command can cost the
\* start, but for a machine that copies its root it takes two, because the copy
\* falls back to an overlay.
Medium == \E d \in Devices : kind[d] = "live" /\ \A e \in 1..(d - 1) : ~HasSfs(e)

BootSurvives ==
    staged = Tools /\ Medium =>
        /\ livePc = "shell" => faults >= IF mode # "unset" /\ Chosen = "copy" THEN 2 ELSE 1
        /\ livePc = "panic" => faults >= 1
=============================================================================
