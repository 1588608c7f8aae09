---------------------------- MODULE FinalRootfs -----------------------------
(***************************************************************************)
(* How one shared library and the records about it reach the final image:  *)
(* the stages are seeded from the package index, a port is built into the  *)
(* sysroot, and finalize_rootfs assembles the tree, writes the registries  *)
(* of gpkg and the database of dpkg, removes and normalises, and verifies. *)
(*                                                                         *)
(* The library comes from a Debian package, from a port, or from both; the *)
(* package "lib" and a port "tool" are what dpkg may be told of.           *)
(***************************************************************************)
EXTENDS RootfsLayout

CONSTANTS
    LibDirs,        \* directories the build scripts of ports install libraries to
    MaxRelease,     \* releases of the Debian archive
    MaxSteps        \* bound on the builds, the interruptions and the removals

ASSUME RootfsAssumption ==
    LibDirs \subseteq Dirs /\ MaxRelease \in Nat \ {0} /\ MaxSteps \in Nat

Packages == {"lib", "tool"}
Releases == 1..MaxRelease

VARIABLES
    traits,     \* of the library, see Traits
    release,    \* what the server offers
    index,      \* release of the cached package index
    payload,    \* release of the Debian package both stages hold, 0 for none
    stage, sysroot, final,
    built,      \* packages that output/port_versions has a version of
    pc, steps,
    status,     \* var/lib/dpkg/status of final
    registry,   \* base-debian.json of final: [version, files]
    list,       \* the .list file of the Debian package in final
    ownPerl,    \* usr/lib/perl5 of the sysroot has a Perl built from source
    tool,       \* final has the tools of Tool
    strayed     \* read by properties only: a port in the sysroot has installed the
                \* library outside of the two multiarch directories

vars == <<traits, release, index, payload, stage, sysroot, final, built, pc, steps, status,
          registry, list, ownPerl, tool, strayed>>

(***************************************************************************)
(* loadedBy: what needs it; pruned: prune_unused_host_runtime_libs knows   *)
(* its family and no manifest names it in usr/lib/x86_64-linux-gnu;        *)
(* usable: it runs with the libc of the image; at: where the Debian        *)
(* package has it, or "nowhere".                                           *)
(* family: "narrow" and "wide" are libform, libmenu, libncurses, libpanel  *)
(* and their wide siblings, "perl" is libperl, "tools" a package without   *)
(* libraries that has a program the image does without.  All other         *)
(* families are "plain", those of prune_unused_host_runtime_libs too.      *)
(***************************************************************************)
Families == {"plain", "narrow", "wide", "perl", "tools"}
Traits ==
    {t \in [loadedBy : {"nothing", "libraries", "programs"}, pruned : BOOLEAN,
            usable : BOOLEAN, at : {"nowhere", "lib", "canon"}, family : Families] :
        /\ t.pruned => t.family = "plain"
        /\ t.family = "tools" => t.at = "nowhere"}

\* chrt or uclampset, which normalize_util_linux_runtime_layout removes.
Tool  == <<"bin", "chrt">>
Files == Places \cup {Tool}

Absent  == 0
AsBuilt == MaxRelease + 1   \* the version a port was built with

RootfsTypeOK ==
    /\ traits \in Traits
    /\ release \in Releases /\ index \in 0..MaxRelease /\ payload \in 0..MaxRelease
    /\ stage \in Trees /\ sysroot \in Trees /\ final \in Trees
    /\ built \subseteq Packages
    /\ pc \in {"prepare", "build", "assemble", "layout", "sync", "registries", "reconcile",
               "dpkg", "prune", "settle", "verify", "done", "failed"}
    /\ steps \in 0..MaxSteps
    /\ status \in [Packages -> 0..AsBuilt]
    /\ registry \in [version : 0..MaxRelease, files : SUBSET Files]
    /\ list \subseteq Files
    /\ ownPerl \in BOOLEAN /\ (ownPerl => traits.family = "perl")
    /\ tool \in BOOLEAN
    /\ strayed \in BOOLEAN

Bare(merged) == [at |-> [p \in Places |-> None], merged |-> merged, lib64 |-> FALSE]

\* The payload of the runtime package, and of the -dev package beside it.
Debian(d, dev) ==
    {<<d, "v1">>, <<d, "soname">>} \cup IF dev THEN {<<d, "dev">>} ELSE {}
Payload(dev) ==
    IF traits.family = "tools" THEN {Tool}
    ELSE IF traits.at = "nowhere" THEN {} ELSE Debian(traits.at, dev)

Unpacked(t, files) ==
    [t EXCEPT !.at = [p \in Places |->
        IF p \notin files THEN t.at[p]
        ELSE CASE p[2] = "v1" -> File("deb")
               [] p[2] = "soname" -> LinkTo(<<p[1], "v1">>)
               [] OTHER -> LinkTo(<<p[1], "soname">>)]]

Init ==
    /\ traits \in Traits
    /\ release = 1 /\ index = 0 /\ payload = 0
    /\ \E merged \in BOOLEAN :
          /\ traits.at = "lib" => ~merged
          /\ stage = Bare(merged) /\ sysroot = Bare(merged) /\ final = Bare(merged)
    /\ built = {}
    /\ pc = "prepare" /\ steps = 0
    /\ status = [p \in Packages |-> Absent]
    /\ registry = [version |-> 0, files |-> {}] /\ list = {}
    /\ ownPerl = FALSE /\ tool = FALSE /\ strayed = FALSE

\* reconcile_ncurses_runtime_fallbacks; whether the wide library is there and runs with
\* the libc of the tree is left open.
Ncurses(t, wide) ==
    CASE wide /\ traits.family = "narrow" -> Narrow(t)
      [] wide /\ traits.family = "wide"   -> KeepActive(t)
      [] OTHER -> t

\* normalize_perl_runtime_layout
Perl(t, own) == IF own THEN ClearPerl(t) ELSE t

\* What prepare_rootfs and build_package do to the sysroot; the tools of Tool, which go
\* too, are looked at in final only.
Prepared(t, wide, own) == Perl(Ncurses(Normalise(t), wide), own)

Count == steps < MaxSteps /\ steps' = steps + 1

-----------------------------------------------------------------------------
\* The archive moves on.
Publish ==
    /\ release < MaxRelease /\ release' = release + 1
    /\ UNCHANGED <<traits, index, payload, stage, sysroot, final, built, pc, steps, status,
                   registry, list, ownPerl, tool, strayed>>

\* ensure_debian_bootstrap and the rest of prepare_rootfs: the cached index is kept
\* unless an archive it names is gone; stages of another release are made again.
Prepare ==
    /\ pc = "prepare"
    /\ index' \in IF index = 0 THEN {release} ELSE {index, release}
    /\ payload' = index'
    /\ strayed' = (strayed /\ payload' = payload)
    /\ ownPerl' = (ownPerl /\ payload' = payload)
    /\ LET seed(t, dev) == Unpacked(Bare(t.merged), Payload(dev))
       IN  /\ stage' = IF payload' = payload THEN stage ELSE seed(stage, FALSE)
           /\ \E wide \in BOOLEAN :
                 sysroot' = Prepared(IF payload' = payload THEN sysroot ELSE seed(sysroot, TRUE),
                                     wide, ownPerl')
    /\ pc' = "build"
    /\ UNCHANGED <<traits, release, final, built, steps, status, registry, list, tool>>

\* Interrupted: the index may be a new one already, the stages are not.
PrepareStops ==
    /\ pc = "prepare" /\ Count
    /\ index' \in {index, release}
    /\ UNCHANGED <<traits, release, payload, stage, sysroot, final, built, pc, status, registry,
                   list, ownPerl, tool, strayed>>

\* build_package: the script installs the library and its two links, or a Perl beside
\* it; what follows normalises the sysroot, and the verification of a port that loads
\* the library, as all but a Perl do that has no use for libperl, needs it to be found.
Build ==
    /\ pc = "build" /\ Count
    /\ \E d \in LibDirs, v \in Exact :
           LET script == Put(Put(Put(sysroot, <<d, v>>, File("port")),
                                 <<d, "soname">>, LinkTo(<<d, v>>)),
                             <<d, "dev">>, LinkTo(<<d, "soname">>))
           IN  /\ ownPerl' \in {ownPerl, traits.family = "perl"}
               /\ \E wide \in BOOLEAN : sysroot' = Prepared(script, wide, ownPerl')
               /\ strayed' = (strayed \/ d \notin {"lib", "canon"})
    /\ built' \in {built, built \cup {"lib"}, built \cup {"tool"}}
    /\ pc' \in {"build", "failed"}
    /\ Found(sysroot') => pc' = "build"
    /\ ~Found(sysroot') /\ ~ownPerl' => pc' = "failed"
    /\ UNCHANGED <<traits, release, index, payload, stage, final, status, registry, list, tool>>

\* What is not there cannot be needed, but by a Debian package whose library has been
\* removed since.
PortsDone ==
    /\ pc = "build"
    /\ traits.loadedBy # "nothing" => Found(sysroot) \/ ownPerl
    /\ pc' = "assemble"
    /\ UNCHANGED <<traits, release, index, payload, stage, sysroot, final, built, steps, status,
                   registry, list, ownPerl, tool, strayed>>

-----------------------------------------------------------------------------
\* assemble_final_rootfs; populate_dpkg_status has filled the status of the stage.
Assemble ==
    /\ pc = "assemble"
    /\ final' = Repair(Overlay(stage, sysroot))
    /\ status' = [lib |-> IF Payload(FALSE) = {} THEN Absent ELSE payload, tool |-> Absent]
    /\ registry' = [version |-> 0, files |-> {}] /\ list' = {}
    /\ tool' = (traits.family = "tools")
    /\ pc' = "layout"
    /\ UNCHANGED <<traits, release, index, payload, stage, sysroot, built, steps, ownPerl,
                   strayed>>

Layout ==
    /\ pc = "layout"
    /\ final' = UsrMerge(Normalise(final))
    /\ pc' = "sync"
    /\ UNCHANGED <<traits, release, index, payload, stage, sysroot, built, steps, status,
                   registry, list, ownPerl, tool, strayed>>

\* Mutation: the new version is put after the one that is there.
SyncAppends ==
    /\ pc = "sync"
    /\ status' = [p \in Packages |-> IF p \in built THEN status[p] + AsBuilt ELSE status[p]]
    /\ pc' = "registries"
    /\ UNCHANGED <<traits, release, index, payload, stage, sysroot, final, built, steps,
                   registry, list, ownPerl, tool, strayed>>

\* sync_dpkg_status_with_built_versions
Sync ==
    /\ pc = "sync"
    /\ status' = [p \in Packages |-> IF p \in built THEN AsBuilt ELSE status[p]]
    /\ pc' = "registries"
    /\ UNCHANGED <<traits, release, index, payload, stage, sysroot, final, built, steps,
                   registry, list, ownPerl, tool, strayed>>

Has(p) == IF p = Tool THEN tool ELSE Node(final, p) # None

\* What build_base_debian_registry_entries and build_seeded_dpkg_entries find of the
\* package: the files of its archive that are there, whoever put them there.
Present(dev) == {p \in Payload(dev) : Has(p)}

\* write_gpkg_base_debian_registry: the runtime package and the -dev package.
Register ==
    /\ pc = "registries"
    /\ registry' = [version |-> IF Present(TRUE) = {} THEN 0 ELSE index, files |-> Present(TRUE)]
    /\ pc' = "reconcile"
    /\ UNCHANGED <<traits, release, index, payload, stage, sysroot, final, built, steps, status,
                   list, ownPerl, tool, strayed>>

\* load_base_debian_runtime_provider_map: a registered file in the canonical directory
\* that is no link and runs with the staged libc.
Provided == traits.usable /\ <<"canon", "v1">> \in registry.files
            /\ Node(final, <<"canon", "v1">>).is = "file"

\* The four normalisers that finalize_rootfs calls once the registry is written; the
\* multiarch layout follows when one of the first two has changed something.
Reconciles ==
    /\ pc = "reconcile"
    /\ LET turned == IF Provided THEN Reconcile(final, "v1") ELSE final
       IN  \E wide \in BOOLEAN :
              LET told == Ncurses(turned, wide)
                  left == Perl(told, ownPerl)
              IN  final' = IF turned # final \/ told # turned THEN Normalise(left) ELSE left
    /\ tool' = FALSE
    /\ pc' = "dpkg"
    /\ UNCHANGED <<traits, release, index, payload, stage, sysroot, built, steps, status,
                   registry, list, ownPerl, strayed>>

\* Mutation: the version of the newest index is recorded.
SeedNewest ==
    /\ pc = "dpkg"
    /\ status' = [lib |-> IF Present(FALSE) = {} THEN Absent ELSE release, tool |-> Absent]
    /\ list' = Present(FALSE)
    /\ pc' = "prune"
    /\ UNCHANGED <<traits, release, index, payload, stage, sysroot, final, built, steps,
                   registry, ownPerl, tool, strayed>>

\* seed_dpkg_database writes the status anew, of the runtime packages.
Seed ==
    /\ pc = "dpkg"
    /\ status' = [lib |-> IF Present(FALSE) = {} THEN Absent ELSE index, tool |-> Absent]
    /\ list' = Present(FALSE)
    /\ pc' = "prune"
    /\ UNCHANGED <<traits, release, index, payload, stage, sysroot, final, built, steps,
                   registry, ownPerl, tool, strayed>>

\* Mutation: what is needed is not asked.
UnneededAnyway == traits.pruned

\* prune_unused_host_runtime_libs: the needs of programs count, those of libraries do
\* not.
Unneeded == traits.pruned /\ traits.loadedBy # "programs"

Prune ==
    /\ pc = "prune"
    /\ final' = IF Unneeded THEN Drop(final) ELSE final
    /\ pc' = "settle"
    /\ UNCHANGED <<traits, release, index, payload, stage, sysroot, built, steps, status,
                   registry, list, ownPerl, tool, strayed>>

Settle ==
    /\ pc = "settle"
    /\ final' = Normalise(final)
    /\ pc' = "verify"
    /\ UNCHANGED <<traits, release, index, payload, stage, sysroot, built, steps, status,
                   registry, list, ownPerl, tool, strayed>>

Verify ==
    /\ pc = "verify"
    /\ pc' = IF \/ traits.loadedBy # "nothing" /\ ~Found(final)
                \/ ShadowIssues(final)
                \/ Provided /\ ProviderIssues(final, "v1")
             THEN "failed" ELSE "done"
    /\ UNCHANGED <<traits, release, index, payload, stage, sysroot, final, built, steps, status,
                   registry, list, ownPerl, tool, strayed>>

\* The process is killed, or started again: all but the disk is forgotten.
Restart ==
    /\ pc # "prepare" /\ Count
    /\ pc' = "prepare"
    /\ UNCHANGED <<traits, release, index, payload, stage, sysroot, final, built, status,
                   registry, list, ownPerl, tool, strayed>>
Next ==
    \/ Publish \/ Prepare \/ PrepareStops \/ Build \/ PortsDone
    \/ Assemble \/ Layout \/ Sync \/ Register \/ Reconciles \/ Seed \/ Prune \/ Settle
    \/ Verify \/ Restart

Spec == Init /\ [][Next]_vars

-----------------------------------------------------------------------------
Here(t) == \E d \in Dirs, n \in Exact : Node(t, <<d, n>>).is = "file"

\* What the programs of the image load stays where the linker finds it: in the
\* sysroot and, from the layout on, in the final tree, a library that is there is
\* found by its SONAME, when the ports have installed it to the multiarch
\* directories, whatever was normalised, overlaid, relinked and removed in between.
\* Only libperl beside a Perl built from source is not: its names are removed.
LibraryIsFound ==
    ~strayed /\ ~ownPerl =>
        /\ Here(sysroot) => Found(sysroot)
        /\ pc \in {"layout", "sync", "registries", "reconcile", "dpkg", "prune", "settle",
                  "verify", "done"} /\ Here(final) => Found(final)

\* "Prefer shipped Devuan runtime providers over stale source-built siblings"
\* (builder.py:2583): when the verification starts, a registered Debian library that
\* runs with the libc of the image is the only one of its family and its SONAME leads
\* to it.  What comes after undoes it in these ways only: the narrow ncurses
\* libraries give way to the wide ones, all of them; of a wide one whose SONAME is no
\* link nothing else is kept; libperl goes, and a family that is pruned.  A name
\* that is a link by now provides nothing.
ProviderIsAlone ==
    pc \in {"verify", "done"} /\ traits.usable /\ <<"canon", "v1">> \in registry.files =>
        LET soname == Node(final, <<"canon", "soname">>)
            v1     == Node(final, <<"canon", "v1">>)
        IN  \/ v1.is = "file" /\ ~ProviderIssues(final, "v1")
            \/ v1.is \in {"link", "wide"}
            \/ /\ \/ traits.family = "narrow" /\ soname = Wide
                  \/ traits.family = "wide" /\ soname.is = "file"
               /\ \A n \in Exact : Node(final, <<"canon", n>>).is # "file"
            \/ ownPerl
            \/ Unneeded /\ v1.is # "file"

\* verify_rootfs_integrity refuses what finalize_rootfs has made in three cases only: a
\* library that only libraries load was pruned, the stages had no library to find in
\* the multiarch directories, or a Perl built from source has done away with libperl.
OnlyPruningBreaks ==
    [][pc = "verify" /\ pc' = "failed" => \/ Unneeded /\ traits.loadedBy = "libraries"
                                          \/ strayed
                                          \/ ownPerl]_vars

\* The registry is written before the normalisers of Reconciles: of its files they
\* remove the tools, exact versions of ncurses and, beside a Perl built from source,
\* libperl.so.*.
RemovedLater(p) ==
    \/ p = Tool
    \/ traits.family \in {"narrow", "wide"} /\ p[2] \in Exact
    \/ ownPerl /\ p[2] # "dev"

\* The version gpkg and dpkg are told of the Debian package is the version whose
\* files the stages were seeded with, though the archive and the cached index
\* move on.  Unless the family was pruned, every file dpkg is told of is in the image,
\* and every file gpkg is told of but those (builder.py:2262, 2364).
RecordsMatchPayload ==
    pc \in {"prune", "settle", "verify", "done"} =>
        /\ status["lib"] \in {Absent, payload}
        /\ registry.version \in {0, payload}
        /\ ~Unneeded => /\ \A p \in list : Has(p)
                        /\ \A p \in registry.files : Has(p) \/ RemovedLater(p)

\* "Retarget a relative symlink so it still points at the same filesystem entry after
\* relocation", "Relocate top-level /usr/lib libraries into the canonical multiarch
\* directory" (builder.py:4657, 4970): a library is found by its SONAME wherever the
\* port has installed it.  Does not hold: see the run layout_links.
SonameKept == Here(sysroot) => Found(sysroot)

\* "Update dpkg status entries to match actual built package versions on disk"
\* (builder.py:1196).  Does not hold: see the run status_versions.
StatusIsBuilt ==
    pc = "done" => \A p \in built : status[p] = AsBuilt
=============================================================================
