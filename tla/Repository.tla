----------------------------- MODULE Repository -----------------------------
(***************************************************************************)
(* The package repository under export/<arch> and the two tools that       *)
(* publish into it: tools/build_kernel_gpkg.py (an image package and the   *)
(* meta package of its channel) and tools/build_gpkg_package.py with       *)
(* tools/gpkg_version.py (the package manager itself).                     *)
(*                                                                         *)
(* A file is known by its content: 0 when it is absent, the number of the  *)
(* build that made it, or Torn when a copy of it was cut.  The SDK's       *)
(* gpkg_build.py and gpkg_scanrepo.py are external; either may be missing. *)
(***************************************************************************)
EXTENDS Naturals, Sequences, FiniteSets

CONSTANTS
    Releases,       \* kernel releases, numbered in the order of sort -V
    Revisions,      \* commits of the gpkg checkout, in any order
    MaxBuilds,      \* bound on the packages ever built
    MaxFaults       \* bound on failures and deaths of a tool

Trees       == Revisions \X BOOLEAN     \* a checkout: its HEAD, and whether it is dirty
Image(r)    == <<"image", r>>
Meta(r)     == <<"meta", r>>
Gpkg(v)     == <<"gpkg", v>>            \* a version names a tree
KernelPkgs  == {Image(r) : r \in Releases} \cup {Meta(r) : r \in Releases}
GpkgPkgs    == {Gpkg(v) : v \in Trees}
Pkgs        == KernelPkgs \cup GpkgPkgs
Torn        == MaxBuilds + 1
Contents    == 0..Torn

ASSUME RepositoryAssumption ==
    /\ Releases \subseteq Nat /\ IsFiniteSet(Releases)
    /\ MaxBuilds \in Nat /\ MaxFaults \in Nat

VARIABLES
    files,          \* [Pkgs]: what the repository directory holds
    index,          \* [Pkgs]: what Packages.json.zst lists, by content
    readable,       \* Packages.json.zst can be decompressed
    tree,           \* the gpkg checkout
    builds,         \* packages built so far
    pc, job,        \* the tool that runs
    published,      \* history: the versions published whose package no failed run and
                    \* no run for another revision has removed since
    littered,       \* history: removing export/gpkg left something there last time
    cut,            \* history: releases whose image was cut while it was copied, as
                    \* long as no index has been written with that image whole
    faults

histVars == <<published, littered, cut>>
repoVars == <<files, index, readable, tree, builds, pc, job, histVars, faults>>

NoJob == [tool |-> "none", pkgs |-> {}, made |-> 0, scan |-> FALSE]

RepositoryTypeOK ==
    /\ files \in [Pkgs -> Contents] /\ index \in [Pkgs -> Contents]
    /\ readable \in BOOLEAN
    /\ tree \in Trees
    /\ builds \in 0..MaxBuilds
    /\ pc \in {"out", "build", "copyFirst", "copySecond", "empty", "make", "index", "done"}
    /\ job \in [tool : {"none", "kernel", "gpkg"}, pkgs : SUBSET Pkgs,
                made : 0..MaxBuilds, scan : BOOLEAN]
    /\ Cardinality(job.pkgs) <= 2
    /\ published \in SUBSET Trees /\ littered \in BOOLEAN /\ cut \in SUBSET Releases
    /\ faults \in 0..MaxFaults

RepositoryInit ==
    /\ files = [p \in Pkgs |-> 0] /\ index = [p \in Pkgs |-> 0]
    /\ readable = TRUE
    /\ tree \in Trees
    /\ builds = 0
    /\ pc = "out" /\ job = NoJob
    /\ published = {} /\ littered = FALSE /\ cut = {}
    /\ faults = 0

-----------------------------------------------------------------------------
\* build_kernel_gpkg.py.  The meta package depends on the image package in the
\* version they share; sdk says whether the scanner is there.
KernelStart ==
    /\ pc = "out" /\ builds < MaxBuilds
    /\ \E r \in Releases, skipMeta \in BOOLEAN, sdk \in BOOLEAN :
           job' = [tool |-> "kernel", made |-> 0, scan |-> sdk,
                   pkgs |-> {Image(r)} \cup IF skipMeta THEN {} ELSE {Meta(r)}]
    /\ pc' = "build"
    /\ UNCHANGED <<files, index, readable, tree, builds, histVars, faults>>

\* Both archives are built, outside the repository, before either is copied.
KernelBuild ==
    /\ pc = "build"
    /\ builds' = builds + 1
    /\ job' = [job EXCEPT !.made = builds + 1]
    /\ pc' = "copyFirst"
    /\ UNCHANGED <<files, index, readable, tree, histVars, faults>>

\* Mutation: the meta package is published first.
PublishOrderMeta == <<"meta", "image">>

PublishOrder == <<"image", "meta">>

Turn(i) == {p \in job.pkgs : p[1] = PublishOrder[i]}

Copy(i) ==
    /\ files' = [p \in Pkgs |-> IF p \in Turn(i) THEN job.made ELSE files[p]]
    /\ UNCHANGED <<index, readable, tree, builds, job, histVars, faults>>

CopyFirst  == pc = "copyFirst" /\ pc' = "copySecond" /\ Copy(1)
CopySecond == pc = "copySecond" /\ pc' = "index" /\ Copy(2)

CopyDies ==
    /\ pc \in {"copyFirst", "copySecond"}
    /\ faults < MaxFaults /\ faults' = faults + 1
    /\ \E p \in Turn(IF pc = "copyFirst" THEN 1 ELSE 2) :
           /\ files' = [files EXCEPT ![p] = Torn]
           /\ cut' = cut \cup {r \in Releases : Image(r) = p}
    /\ pc' = "out" /\ job' = NoJob
    /\ UNCHANGED <<index, readable, tree, builds, published, littered>>

-----------------------------------------------------------------------------
\* gpkg_version.py: an exported package of this revision gives its version,
\* clean or not, the greatest one when there are two (".dirty" is a suffix);
\* otherwise the version is made from the checkout.
Exported == {v \in Trees : v[1] = tree[1] /\ files[Gpkg(v)] # 0}

\* Mutation: what is exported is not looked at.
VersionDeterministic == tree

DefaultVersion ==
    IF Exported = {} THEN tree
    ELSE IF <<tree[1], TRUE>> \in Exported THEN <<tree[1], TRUE>> ELSE <<tree[1], FALSE>>

\* build_gpkg_package.py: the version is chosen before export/gpkg is emptied.
GpkgStart ==
    /\ pc = "out" /\ builds < MaxBuilds
    /\ job' = [tool |-> "gpkg", made |-> 0, scan |-> TRUE, pkgs |-> {Gpkg(DefaultVersion)}]
    /\ pc' = "empty"
    /\ UNCHANGED <<files, index, readable, tree, builds, histVars, faults>>

\* rmtree(ignore_errors = True): what cannot be removed stays, and the run goes on.
Empty ==
    /\ pc = "empty"
    /\ \E rest \in SUBSET {p \in GpkgPkgs : files[p] # 0} :
           /\ files' = [p \in Pkgs |-> IF p \in GpkgPkgs \ rest THEN 0 ELSE files[p]]
           /\ published' = {v \in published : Gpkg(v) \in rest \/ v[1] = tree[1]}
           /\ littered' = (rest # {})
           /\ rest # {} => faults < MaxFaults
           /\ faults' = IF rest = {} THEN faults ELSE faults + 1
    /\ pc' = "make"
    /\ UNCHANGED <<index, readable, tree, builds, job, cut>>

Make ==
    /\ pc = "make"
    /\ builds' = builds + 1
    /\ job' = [job EXCEPT !.made = builds + 1]
    /\ files' = [p \in Pkgs |-> IF p \in job.pkgs THEN builds + 1 ELSE files[p]]
    /\ pc' = "index"
    /\ UNCHANGED <<index, readable, tree, histVars, faults>>

-----------------------------------------------------------------------------
\* The scanner lists the whole directory, but may pass over an archive that is cut.
\* Without it build_kernel_gpkg.py writes an index of the packages it has just
\* built, in place of the old one.
Cuts == {p \in Pkgs : files[p] = Torn}

Listed(skipped) ==
    {p \in Pkgs \ skipped : files[p] # 0 /\ (job.scan \/ p \in job.pkgs)}

\* Mutation: the packages just built are added to the index as it was.
IndexAdding ==
    \E skipped \in SUBSET Cuts :
        index' = [p \in Pkgs |-> IF p \in Listed(skipped) THEN files[p] ELSE index[p]]

IndexWritten ==
    \E skipped \in SUBSET Cuts :
        index' = [p \in Pkgs |-> IF p \in Listed(skipped) THEN files[p] ELSE 0]

WriteIndex ==
    /\ pc = "index"
    /\ IndexWritten
    /\ readable' = TRUE
    /\ pc' = "done"
    /\ published' = published \cup {v \in Trees : Gpkg(v) \in job.pkgs}
    /\ cut' = {r \in cut : files[Image(r)] = Torn}
    /\ UNCHANGED <<files, tree, builds, job, littered, faults>>

Finish ==
    /\ pc = "done"
    /\ pc' = "out" /\ job' = NoJob
    /\ UNCHANGED <<files, index, readable, tree, builds, histVars, faults>>

\* A step raises, as it does when the SDK is missing or one of its tools fails,
\* or the process is killed, which may leave half of a compressed index.
Fail ==
    /\ pc \in {"build", "copyFirst", "copySecond", "empty", "make", "index"}
    /\ faults < MaxFaults /\ faults' = faults + 1
    /\ readable' \in IF pc = "index" THEN {readable, FALSE} ELSE {readable}
    /\ published' = {v \in published : files[Gpkg(v)] # 0}
    /\ pc' = "out" /\ job' = NoJob
    /\ UNCHANGED <<files, index, tree, builds, littered, cut>>

\* The developer commits, checks out or edits between two runs of the tools.
Edit ==
    /\ pc = "out"
    /\ tree' \in Trees \ {tree}
    /\ UNCHANGED <<files, index, readable, builds, pc, job, histVars, faults>>

RepositoryNext ==
    \/ KernelStart \/ KernelBuild \/ CopyFirst \/ CopySecond \/ CopyDies
    \/ GpkgStart \/ Empty \/ Make
    \/ WriteIndex \/ Finish \/ Fail \/ Edit

-----------------------------------------------------------------------------
\* "refresh repository metadata" (build_kernel_gpkg.py:335): when a tool has
\* succeeded, the index can be read, lists what the tool has just built, lists
\* nothing that is absent or has another content, and lists one gpkg at most unless
\* export/gpkg could not be emptied, whatever runs failed before and left.
PublishedIndexTrue ==
    pc = "done" =>
        /\ readable
        /\ \A p \in Pkgs : index[p] # 0 => index[p] = files[p]
        /\ \A p \in job.pkgs : index[p] = job.made
        /\ ~littered => Cardinality({p \in GpkgPkgs : index[p] # 0}) <= 1

\* "depends": [versioned = package_version] (build_kernel_gpkg.py:136): whenever the
\* index offers a channel package, it offers its image with it, and whole, whatever
\* publication died and whichever tool scanned the rest; but not for a release whose
\* own image was cut in a copy, until an index is written with that image whole.
MetaHasItsImage ==
    \A r \in Releases :
        index[Meta(r)] # 0 => index[Image(r)] \in 1..MaxBuilds \/ r \in cut

\* "Resolve the canonical GeminiOS gpkg package version"
\* (tools/gpkg_version.py:128): however often a revision is published, and from
\* however edited a tree, it has one version for as long as its package stays in
\* the export: until a run for another revision removes it, or a run that fails.
VersionIsCanonical == \A v, w \in published : v[1] = w[1] => v = w
=============================================================================
