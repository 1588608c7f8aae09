-------------------------- MODULE KernelBootProofs --------------------------
(***************************************************************************)
(* Proofs about Repository and KernelBoot: types, what the repository      *)
(* offers after any number of publications that succeeded or failed, and   *)
(* where /boot/kernel leads after any order of installs and removals.      *)
(***************************************************************************)
EXTENDS KernelBoot, FiniteSetTheorems, WellFoundedInduction, TLAPS

(***************************************************************************)
(* The names of packages.                                                  *)
(***************************************************************************)

\* Kinds of packages are told apart by the first part of their names, and names
\* of one kind by the second.
LEMMA Names ==
    /\ \A r \in Releases : Image(r)[1] = "image" /\ Meta(r)[1] = "meta"
    /\ \A v \in Trees : Gpkg(v)[1] = "gpkg"
    /\ \A r, s \in Releases : Image(r) = Image(s) \/ Meta(r) = Meta(s) => r = s
    /\ \A v, w \in Trees : Gpkg(v) = Gpkg(w) => v = w
    /\ \A p \in GpkgPkgs : p[1] = "gpkg"
    /\ \A p \in KernelPkgs : p[1] \in {"image", "meta"}
    /\ \A r \in Releases : Image(r) \in Pkgs /\ Meta(r) \in Pkgs
    /\ \A v \in Trees : Gpkg(v) \in GpkgPkgs /\ Gpkg(v) \in Pkgs
  BY DEF Image, Meta, Gpkg, GpkgPkgs, KernelPkgs, Pkgs

\* A job is for no more than two packages.
LEMMA SmallSets ==
    /\ \A x : Cardinality({x}) = 1
    /\ \A x, y : Cardinality({x, y}) <= 2
    /\ Cardinality({}) = 0
  <1>1. \A x : Cardinality({x}) = 1 /\ IsFiniteSet({x})
    BY FS_Singleton
  <1>2. ASSUME NEW x, NEW y
        PROVE  Cardinality({x, y}) <= 2
    <2> DEFINE S == {x}
    <2>0. IsFiniteSet(S) /\ Cardinality(S) = 1
      BY <1>1
    <2> HIDE DEF S
    <2>1. Cardinality(S \cup {y}) = IF y \in S THEN Cardinality(S) ELSE Cardinality(S) + 1
      BY <2>0, FS_AddElement
    <2>2. S \cup {y} = {x, y}
      BY DEF S
    <2>3. QED
      BY <2>0, <2>1, <2>2
  <1>3. QED
    BY <1>1, <1>2, FS_EmptySet

(***************************************************************************)
(* The greatest release.                                                   *)
(***************************************************************************)
Greatest(S, m) == m \in S /\ \A q \in S : q <= m

\* Every non-empty finite set of numbers has a greatest element: of the sets that
\* have none take one without a proper subset of the kind, and remove a number.
LEMMA GreatestExists ==
    ASSUME NEW S \in SUBSET Nat, IsFiniteSet(S), S # {}
    PROVE  \E m \in S : Greatest(S, m)
  <1> DEFINE Bad == {T \in FiniteSubsetsOf(S) : T # {} /\ ~ \E m \in T : Greatest(T, m)}
  <1>1. SUFFICES ASSUME Bad # {} PROVE FALSE
    BY DEF FiniteSubsetsOf
  <1>2. PICK T \in Bad : \A U \in Bad : <<U, T>> \notin StrictSubsetOrdering(S)
    <2>1. IsWellFoundedOn(StrictSubsetOrdering(S), FiniteSubsetsOf(S))
      BY FS_StrictSubsetOrderingWellFounded
    <2>2. Bad \subseteq FiniteSubsetsOf(S)
      OBVIOUS
    <2> HIDE DEF Bad
    <2>3. QED
      BY <1>1, <2>1, <2>2, WFMin
  <1>3. PICK x : x \in T
    OBVIOUS
  <1> DEFINE U == T \ {x}
  <1>4. U \in FiniteSubsetsOf(S)
    BY FS_Subset DEF FiniteSubsetsOf
  <1>5. <<U, T>> \in StrictSubsetOrdering(S)
    BY <1>3 DEF StrictSubsetOrdering, FiniteSubsetsOf
  <1>6. U \notin Bad
    BY <1>2, <1>5
  <1>7. CASE U = {}
    <2>1. T \subseteq Nat /\ T = {x}
      BY <1>3, <1>7 DEF FiniteSubsetsOf
    <2>2. Greatest(T, x)
      BY <2>1 DEF Greatest
    <2>3. QED
      BY <1>3, <2>2
  <1>8. CASE U # {}
    <2>1. PICK m \in U : Greatest(U, m)
      BY <1>4, <1>6, <1>8
    <2>2. T \subseteq Nat
      BY DEF FiniteSubsetsOf
    <2>3. Greatest(T, m) \/ Greatest(T, x)
      BY <1>3, <2>1, <2>2 DEF Greatest
    <2>4. QED
      BY <1>3, <2>1, <2>3
  <1>9. QED
    BY <1>7, <1>8

(***************************************************************************)
(* Types.                                                                  *)
(***************************************************************************)
Jobs == [tool : {"none", "kernel", "gpkg"}, pkgs : SUBSET Pkgs,
         made : 0..MaxBuilds, scan : BOOLEAN]

\* No job is a job, and small.
LEMMA NoJobType == NoJob \in Jobs /\ Cardinality(NoJob.pkgs) <= 2
  BY SmallSets, RepositoryAssumption DEF NoJob, Jobs

\* A job with a build of its own is still a job, and as small.
LEMMA MadeType ==
    ASSUME job \in Jobs, Cardinality(job.pkgs) <= 2, NEW n \in 0..MaxBuilds
    PROVE  /\ [job EXCEPT !.made = n] \in Jobs
           /\ Cardinality([job EXCEPT !.made = n].pkgs) <= 2
           /\ [job EXCEPT !.made = n].pkgs = job.pkgs
           /\ [job EXCEPT !.made = n].tool = job.tool
           /\ [job EXCEPT !.made = n].made = n
           /\ [job EXCEPT !.made = n].scan = job.scan
  BY DEF Jobs

\* The version that is chosen is a version of the revision checked out.
LEMMA VersionType ==
    ASSUME tree \in Trees PROVE DefaultVersion \in Trees /\ DefaultVersion[1] = tree[1]
  BY DEF DefaultVersion, Exported, Trees

\* And an exported one if there is one.
LEMMA VersionExported ==
    ASSUME tree \in Trees, Exported # {}
    PROVE  DefaultVersion \in Exported
  <1>1. PICK v \in Trees : v \in Exported /\ v[1] = tree[1]
    BY DEF Exported
  <1>2. PICK a \in Revisions, b \in BOOLEAN : v = <<a, b>>
    BY DEF Trees
  <1>3. v = <<tree[1], TRUE>> \/ v = <<tree[1], FALSE>>
    BY <1>1, <1>2
  <1>4. QED
    BY <1>1, <1>3 DEF DefaultVersion

\* The start of build_kernel_gpkg.py makes a job.
LEMMA KernelStartJob ==
    ASSUME RepositoryTypeOK, KernelStart
    PROVE  /\ job' \in Jobs /\ Cardinality(job'.pkgs) <= 2
           /\ job'.tool = "kernel"
           /\ \E r \in Releases : job'.pkgs \in {{Image(r)}, {Image(r), Meta(r)}}
  <1>1. PICK r \in Releases, skipMeta \in BOOLEAN, sdk \in BOOLEAN :
            job' = [tool |-> "kernel", made |-> 0, scan |-> sdk,
                    pkgs |-> {Image(r)} \cup IF skipMeta THEN {} ELSE {Meta(r)}]
    BY DEF KernelStart
  <1>2. job'.pkgs \in {{Image(r)}, {Image(r), Meta(r)}}
    BY <1>1
  <1>3. job'.pkgs \subseteq Pkgs
    BY <1>2, Names
  <1>4. Cardinality(job'.pkgs) <= 2
    <2>1. Cardinality({Image(r)}) <= 2 /\ Cardinality({Image(r), Meta(r)}) <= 2
      BY SmallSets
    <2>2. QED
      BY <1>2, <2>1
  <1>5. 0 \in 0..MaxBuilds
    BY RepositoryAssumption
  <1>6. job' \in Jobs
    BY <1>1, <1>3, <1>5 DEF Jobs
  <1>7. QED
    BY <1>1, <1>2, <1>4, <1>6

\* The start of build_gpkg_package.py does, too.
LEMMA GpkgStartJob ==
    ASSUME RepositoryTypeOK, GpkgStart
    PROVE  /\ job' \in Jobs /\ Cardinality(job'.pkgs) <= 2
           /\ job'.tool = "gpkg" /\ job'.pkgs = {Gpkg(DefaultVersion)}
  <1>1. DefaultVersion \in Trees
    BY VersionType DEF RepositoryTypeOK
  <1>2. {Gpkg(DefaultVersion)} \subseteq Pkgs
    BY <1>1, Names
  <1>3. Cardinality({Gpkg(DefaultVersion)}) <= 2
    BY SmallSets
  <1>4. 0 \in 0..MaxBuilds
    BY RepositoryAssumption
  <1>5. QED
    BY <1>2, <1>3, <1>4 DEF GpkgStart, Jobs

\* What is in the tree of files after a copy.
LEMMA CopyType ==
    ASSUME RepositoryTypeOK, NEW i \in {1, 2}, Copy(i)
    PROVE  files' \in [Pkgs -> Contents]
  <1>1. job.made \in Contents
    BY RepositoryAssumption DEF RepositoryTypeOK, Contents, Torn
  <1>2. QED
    BY <1>1 DEF Copy, RepositoryTypeOK

LEMMA RepositoryTypeInit == RepositoryInit => RepositoryTypeOK
  <1>1. 0 \in Contents /\ 0 \in 0..MaxBuilds /\ 0 \in 0..MaxFaults
    BY RepositoryAssumption DEF Contents, Torn
  <1>2. QED
    <2> SUFFICES ASSUME RepositoryInit PROVE RepositoryTypeOK
      OBVIOUS
    <2>1. job \in Jobs /\ Cardinality(job.pkgs) <= 2
      BY NoJobType DEF RepositoryInit
    <2>2. published \in SUBSET Trees /\ cut \in SUBSET Releases
      BY DEF RepositoryInit
    <2>3. QED
      BY <1>1, <2>1, <2>2 DEF RepositoryInit, RepositoryTypeOK, Jobs

(***************************************************************************)
(* The inductive invariant of the repository.                              *)
(***************************************************************************)

\* What a tool works at fits the place it has got to.
JobInv ==
    /\ pc \in {"build", "copyFirst", "copySecond"} => job.tool = "kernel"
    /\ pc \in {"empty", "make"} => job.tool = "gpkg"
    /\ pc = "out" <=> job.tool = "none"
    /\ pc \in {"build", "empty", "make"} => builds < MaxBuilds
    /\ pc \in {"copyFirst", "copySecond", "index", "done"} => job.made # 0
    /\ job.tool = "kernel" =>
           \E r \in Releases : job.pkgs \in {{Image(r)}, {Image(r), Meta(r)}}
    /\ job.tool = "gpkg" => \E v \in Trees : job.pkgs = {Gpkg(v)}

\* What is published of the running job so far, which image a meta package in the
\* directory belongs to, that the directory has one gpkg at most if it was emptied,
\* and which images in it are cut.
FilesInv ==
    /\ pc = "copySecond" => \A p \in job.pkgs : p[1] = "image" => files[p] = job.made
    /\ pc \in {"index", "done"} => \A p \in job.pkgs : files[p] = job.made
    /\ \A r \in Releases : files[Meta(r)] # 0 => files[Image(r)] # 0
    /\ ~littered => \A p, q \in GpkgPkgs : files[p] # 0 /\ files[q] # 0 => p = q
    /\ pc = "make" /\ ~littered => \A p \in GpkgPkgs : files[p] = 0
    /\ \A r \in Releases : files[Image(r)] = Torn => r \in cut

\* The directory has one version of a revision at most, and a run for the revision
\* keeps it; a version published is there, or is the one that is being made again.
VersionInv ==
    /\ \A v, w \in Trees : files[Gpkg(v)] # 0 /\ files[Gpkg(w)] # 0 /\ v[1] = w[1] => v = w
    /\ job.tool = "gpkg" => \A w \in Trees : Gpkg(w) \in job.pkgs =>
           /\ w[1] = tree[1]
           /\ \A v \in Trees : files[Gpkg(v)] # 0 /\ v[1] = w[1] => v = w
    /\ \A v \in published :
           files[Gpkg(v)] # 0 \/ (job.tool = "gpkg" /\ pc = "make" /\ Gpkg(v) \in job.pkgs)

RepositoryInv ==
    /\ RepositoryTypeOK /\ JobInv /\ FilesInv /\ VersionInv
    /\ MetaHasItsImage /\ PublishedIndexTrue

\* Every step of the tools and of the developer keeps the types.
LEMMA RepositoryTypeStep ==
    ASSUME RepositoryTypeOK, JobInv, [RepositoryNext]_repoVars
    PROVE  RepositoryTypeOK'
  <1> USE RepositoryAssumption
  <1>1. CASE KernelStart
    <2>1. job' \in Jobs /\ Cardinality(job'.pkgs) <= 2
      BY <1>1, KernelStartJob
    <2>2. QED
      BY <1>1, <2>1 DEF KernelStart, RepositoryTypeOK, Jobs, histVars
  <1>2. CASE KernelBuild \/ Make
    <2>1. builds + 1 \in 0..MaxBuilds /\ builds + 1 \in Contents
      BY <1>2 DEF KernelBuild, Make, JobInv, RepositoryTypeOK, Contents, Torn
    <2>2. job' \in Jobs /\ Cardinality(job'.pkgs) <= 2
      BY <1>2, <2>1, MadeType DEF KernelBuild, Make, RepositoryTypeOK, Jobs
    <2>3. files' \in [Pkgs -> Contents]
      BY <1>2, <2>1 DEF KernelBuild, Make, RepositoryTypeOK
    <2>4. QED
      BY <1>2, <2>1, <2>2, <2>3 DEF KernelBuild, Make, RepositoryTypeOK, Jobs, histVars
  <1>3. CASE CopyFirst \/ CopySecond
    <2>1. files' \in [Pkgs -> Contents]
      BY <1>3, CopyType DEF CopyFirst, CopySecond
    <2>2. QED
      BY <1>3, <2>1 DEF CopyFirst, CopySecond, Copy, RepositoryTypeOK, histVars
  <1>4. CASE CopyDies \/ Fail
    <2>1. job' \in Jobs /\ Cardinality(job'.pkgs) <= 2
      BY <1>4, NoJobType DEF CopyDies, Fail
    <2>2. Torn \in Contents
      BY DEF Torn, Contents
    <2>3. files' \in [Pkgs -> Contents]
      BY <1>4, <2>2 DEF CopyDies, Fail, RepositoryTypeOK
    <2>8. faults < MaxFaults /\ faults' = faults + 1 /\ pc' = "out"
      BY <1>4, Zenon DEF CopyDies, Fail
    <2>4. faults' \in 0..MaxFaults /\ pc' = "out"
      BY <2>8 DEF RepositoryTypeOK
    <2>7. readable' \in BOOLEAN /\ published' \subseteq published /\ cut' \subseteq Releases
      BY <1>4 DEF CopyDies, Fail, RepositoryTypeOK
    <2>5. UNCHANGED <<index, tree, builds, littered>>
      BY <1>4 DEF CopyDies, Fail
    <2>6. QED
      BY <2>1, <2>3, <2>4, <2>5, <2>7 DEF RepositoryTypeOK, Jobs
  <1>5. CASE GpkgStart
    <2>1. job' \in Jobs /\ Cardinality(job'.pkgs) <= 2
      BY <1>5, GpkgStartJob
    <2>2. QED
      BY <1>5, <2>1 DEF GpkgStart, RepositoryTypeOK, Jobs, histVars
  <1>6. CASE Empty
    <2>1. PICK rest \in SUBSET {p \in GpkgPkgs : files[p] # 0} :
              /\ files' = [p \in Pkgs |-> IF p \in GpkgPkgs \ rest THEN 0 ELSE files[p]]
              /\ published' = {v \in published : Gpkg(v) \in rest \/ v[1] = tree[1]}
              /\ littered' = (rest # {})
              /\ rest # {} => faults < MaxFaults
              /\ faults' = IF rest = {} THEN faults ELSE faults + 1
      BY <1>6, Zenon DEF Empty
    <2>2. files' \in [Pkgs -> Contents]
      BY <2>1 DEF RepositoryTypeOK, Contents, Torn
    <2>3. published' \in SUBSET Trees /\ littered' \in BOOLEAN
      BY <2>1 DEF RepositoryTypeOK
    <2>4. faults' \in 0..MaxFaults
      BY <2>1 DEF RepositoryTypeOK
    <2>5. pc' = "make" /\ UNCHANGED <<index, readable, tree, builds, job, cut>>
      BY <1>6 DEF Empty
    <2>6. QED
      BY <2>2, <2>3, <2>4, <2>5 DEF RepositoryTypeOK
  <1>7. CASE WriteIndex
    <2>1. index' \in [Pkgs -> Contents]
      BY <1>7 DEF WriteIndex, IndexWritten, RepositoryTypeOK, Contents, Torn
    <2>2. published' \in SUBSET Trees /\ cut' \in SUBSET Releases
      BY <1>7 DEF WriteIndex, RepositoryTypeOK
    <2>3. QED
      BY <1>7, <2>1, <2>2 DEF WriteIndex, RepositoryTypeOK
  <1>8. CASE Finish
    BY <1>8, NoJobType DEF Finish, RepositoryTypeOK, Jobs, histVars
  <1>9. CASE Edit
    BY <1>9 DEF Edit, RepositoryTypeOK, histVars
  <1>10. CASE UNCHANGED repoVars
    BY <1>10 DEF repoVars, RepositoryTypeOK, histVars
  <1>11. QED
    BY <1>1, <1>2, <1>3, <1>4, <1>5, <1>6, <1>7, <1>8, <1>9, <1>10 DEF RepositoryNext

\* And what a tool works at fits its place.
LEMMA JobStep ==
    ASSUME RepositoryTypeOK, JobInv, [RepositoryNext]_repoVars
    PROVE  JobInv'
  <1> USE RepositoryAssumption
  <1>1. CASE KernelStart
    BY <1>1, KernelStartJob DEF KernelStart, JobInv
  <1>2. CASE KernelBuild \/ Make
    <2>1. job' = [job EXCEPT !.made = builds + 1] /\ builds + 1 \in 0..MaxBuilds
      BY <1>2 DEF KernelBuild, Make, JobInv, RepositoryTypeOK
    <2>2. job'.tool = job.tool /\ job'.pkgs = job.pkgs /\ job'.made = builds + 1
      BY <2>1, MadeType DEF RepositoryTypeOK, Jobs
    <2>3. builds + 1 # 0
      BY DEF RepositoryTypeOK
    <2>4. QED
      BY <1>2, <2>2, <2>3 DEF KernelBuild, Make, JobInv
  <1>3. CASE CopyFirst \/ CopySecond
    BY <1>3 DEF CopyFirst, CopySecond, Copy, JobInv
  <1>4. CASE CopyDies \/ Fail \/ Finish
    <2>1. pc' = "out" /\ job' = NoJob
      BY <1>4 DEF CopyDies, Fail, Finish
    <2>2. job'.tool = "none"
      BY <2>1 DEF NoJob
    <2>3. QED
      BY <2>1, <2>2 DEF JobInv
  <1>5. CASE GpkgStart
    BY <1>5, GpkgStartJob, VersionType DEF GpkgStart, JobInv, RepositoryTypeOK
  <1>6. CASE Empty \/ WriteIndex \/ Edit
    BY <1>6 DEF Empty, WriteIndex, Edit, JobInv
  <1>7. CASE UNCHANGED repoVars
    BY <1>7 DEF repoVars, JobInv
  <1>8. QED
    BY <1>1, <1>2, <1>3, <1>4, <1>5, <1>6, <1>7 DEF RepositoryNext

\* The job of a kernel tool is for kernel packages only.
LEMMA KernelJob ==
    ASSUME RepositoryTypeOK, JobInv, job.tool = "kernel"
    PROVE  \A v \in Trees : Gpkg(v) \notin job.pkgs
  BY Names DEF JobInv

\* A copy into the directory touches the kernel packages of the job only.
LEMMA CopyKeepsGpkg ==
    ASSUME RepositoryTypeOK, JobInv, CopyFirst \/ CopySecond \/ CopyDies
    PROVE  \A v \in Trees : files'[Gpkg(v)] = files[Gpkg(v)]
  <1>1. \A v \in Trees : Gpkg(v) \notin job.pkgs /\ Gpkg(v) \in Pkgs
    BY KernelJob, Names DEF CopyFirst, CopySecond, CopyDies, JobInv
  <1>2. CASE CopyFirst \/ CopySecond
    BY <1>1, <1>2 DEF CopyFirst, CopySecond, Copy, Turn, RepositoryTypeOK
  <1>3. CASE CopyDies
    <2>1. PICK p \in Turn(IF pc = "copyFirst" THEN 1 ELSE 2) : files' = [files EXCEPT ![p] = Torn]
      BY <1>3 DEF CopyDies
    <2>2. p \in job.pkgs
      BY <2>1 DEF Turn
    <2>3. QED
      BY <1>1, <2>1, <2>2 DEF RepositoryTypeOK
  <1>4. QED
    BY <1>2, <1>3

\* What emptying export/gpkg leaves.
LEMMA EmptyLeaves ==
    ASSUME RepositoryTypeOK, Empty
    PROVE  /\ \A v \in Trees : files'[Gpkg(v)] \in {0, files[Gpkg(v)]}
           /\ ~littered' => \A v \in Trees : files'[Gpkg(v)] = 0
           /\ \A r \in Releases : files'[Image(r)] = files[Image(r)]
           /\ \A r \in Releases : files'[Meta(r)] = files[Meta(r)]
           /\ published' \subseteq published
           /\ \A v \in published' : files'[Gpkg(v)] # 0 \/ v[1] = tree[1]
           /\ pc = "empty" /\ pc' = "make" /\ UNCHANGED <<tree, job, cut>>
  <1>1. PICK rest \in SUBSET {p \in GpkgPkgs : files[p] # 0} :
            /\ files' = [p \in Pkgs |-> IF p \in GpkgPkgs \ rest THEN 0 ELSE files[p]]
            /\ published' = {v \in published : Gpkg(v) \in rest \/ v[1] = tree[1]}
            /\ littered' = (rest # {})
    BY Zenon DEF Empty
  <1>2. \A v \in Trees : files'[Gpkg(v)] = IF Gpkg(v) \in rest THEN files[Gpkg(v)] ELSE 0
    BY <1>1, Names
  <1>3. \A r \in Releases : files'[Image(r)] = files[Image(r)] /\ files'[Meta(r)] = files[Meta(r)]
    BY <1>1, Names
  <1>4. \A v \in published' : files'[Gpkg(v)] # 0 \/ v[1] = tree[1]
    BY <1>1, <1>2 DEF RepositoryTypeOK
  <1>5. pc = "empty" /\ pc' = "make" /\ UNCHANGED <<tree, job, cut>>
    BY DEF Empty
  <1>6. QED
    BY <1>1, <1>2, <1>3, <1>4, <1>5

\* What making gpkg leaves.
LEMMA MakeLeaves ==
    ASSUME RepositoryTypeOK, JobInv, Make, NEW v \in Trees, job.pkgs = {Gpkg(v)}
    PROVE  /\ files'[Gpkg(v)] = builds + 1 /\ builds + 1 # 0
           /\ \A w \in Trees : w # v => files'[Gpkg(w)] = files[Gpkg(w)]
           /\ \A r \in Releases : files'[Image(r)] = files[Image(r)]
           /\ \A r \in Releases : files'[Meta(r)] = files[Meta(r)]
           /\ pc = "make" /\ pc' = "index" /\ UNCHANGED <<tree, histVars>>
           /\ job'.pkgs = job.pkgs /\ job'.tool = "gpkg" /\ job'.made = builds + 1
  <1>1. files' = [files EXCEPT ![Gpkg(v)] = builds + 1]
    BY Names DEF Make, RepositoryTypeOK
  <1>2. \A r \in Releases : files'[Image(r)] = files[Image(r)] /\ files'[Meta(r)] = files[Meta(r)]
    BY <1>1, Names DEF RepositoryTypeOK
  <1>3. \A w \in Trees : w # v => files'[Gpkg(w)] = files[Gpkg(w)]
    BY <1>1, Names DEF RepositoryTypeOK
  <1>4. files'[Gpkg(v)] = builds + 1 /\ builds + 1 # 0
    BY <1>1, Names DEF RepositoryTypeOK
  <1>5. pc = "make" /\ pc' = "index" /\ UNCHANGED <<tree, histVars>>
    BY DEF Make
  <1>6. job'.pkgs = job.pkgs /\ job'.tool = job.tool /\ job'.made = builds + 1
    BY DEF Make, RepositoryTypeOK
  <1>7. job.tool = "gpkg"
    BY <1>5 DEF JobInv
  <1>8. QED
    BY <1>2, <1>3, <1>4, <1>5, <1>6, <1>7

\* What the directory holds of the running job.
LEMMA FilesStep ==
    ASSUME RepositoryTypeOK, JobInv, FilesInv, [RepositoryNext]_repoVars
    PROVE  FilesInv'
  <1> USE RepositoryAssumption
  <1>1. CASE KernelStart \/ GpkgStart \/ Finish \/ Edit \/ Fail
    BY <1>1 DEF KernelStart, GpkgStart, Finish, Edit, Fail, FilesInv, histVars
  <1>2. CASE UNCHANGED repoVars
    BY <1>2 DEF repoVars, FilesInv, histVars
  <1>3. CASE KernelBuild
    BY <1>3 DEF KernelBuild, FilesInv, histVars
  <1>10. CASE WriteIndex
    BY <1>10 DEF WriteIndex, FilesInv
  <1>4. CASE CopyFirst
    <2>1. PICK r \in Releases : job.pkgs \in {{Image(r)}, {Image(r), Meta(r)}}
      BY <1>4 DEF CopyFirst, JobInv
    <2>2. Turn(1) = {Image(r)}
      BY <2>1, Names DEF Turn, PublishOrder
    <2>3. files' = [files EXCEPT ![Image(r)] = job.made]
      BY <1>4, <2>2, Names DEF CopyFirst, Copy, RepositoryTypeOK
    <2>4. job.made # 0 /\ job' = job /\ pc' = "copySecond" /\ UNCHANGED histVars
      BY <1>4 DEF CopyFirst, Copy, JobInv
    <2>5. \A p \in job'.pkgs : p[1] = "image" => files'[p] = job'.made
      BY <2>1, <2>3, <2>4, Names DEF RepositoryTypeOK
    <2>6. \A s \in Releases : files'[Meta(s)] # 0 => files'[Image(s)] # 0
      BY <2>3, <2>4, Names DEF RepositoryTypeOK, FilesInv
    <2>7. \A p \in GpkgPkgs : files'[p] = files[p]
      BY <2>3, Names DEF RepositoryTypeOK
    <2>9. \A s \in Releases : files'[Image(s)] = Torn => s \in cut
      <3>1. job.made # Torn
        BY DEF RepositoryTypeOK, Torn
      <3>2. QED
        BY <2>3, <3>1, Names DEF RepositoryTypeOK, FilesInv
    <2>8. QED
      BY <2>4, <2>5, <2>6, <2>7, <2>9 DEF FilesInv, histVars
  <1>5. CASE CopySecond
    <2>1. PICK r \in Releases : job.pkgs \in {{Image(r)}, {Image(r), Meta(r)}}
      BY <1>5 DEF CopySecond, JobInv
    <2>2. Turn(2) = job.pkgs \ {Image(r)}
      BY <2>1, Names DEF Turn, PublishOrder
    <2>3. /\ job.made # 0 /\ job' = job /\ pc' = "index" /\ UNCHANGED histVars
          /\ files' = [p \in Pkgs |-> IF p \in Turn(2) THEN job.made ELSE files[p]]
      BY <1>5 DEF CopySecond, Copy, JobInv
    <2>4. files[Image(r)] = job.made
      BY <1>5, <2>1, Names DEF CopySecond, FilesInv
    <2>5. \A p \in job.pkgs : files'[p] = job.made
      BY <2>1, <2>2, <2>3, <2>4, Names
    <2>9. \A s \in Releases : files'[Image(s)] = files[Image(s)]
      BY <2>1, <2>2, <2>3, Names
    <2>6. \A s \in Releases : files'[Meta(s)] # 0 => files'[Image(s)] # 0
      <3>2. \A s \in Releases : s # r => files'[Meta(s)] = files[Meta(s)]
        BY <2>1, <2>2, <2>3, Names
      <3>3. QED
        BY <2>3, <2>4, <2>9, <3>2 DEF FilesInv
    <2>7. \A p \in GpkgPkgs : files'[p] = files[p]
      BY <2>1, <2>2, <2>3, Names DEF Pkgs
    <2>8. QED
      BY <2>3, <2>5, <2>6, <2>7, <2>9 DEF FilesInv, histVars
  <1>6. CASE CopyDies
    <2>1. PICK r \in Releases : job.pkgs \in {{Image(r)}, {Image(r), Meta(r)}}
      BY <1>6 DEF CopyDies, JobInv
    <2>2. PICK p \in Turn(IF pc = "copyFirst" THEN 1 ELSE 2) :
              /\ files' = [files EXCEPT ![p] = Torn]
              /\ cut' = cut \cup {s \in Releases : Image(s) = p}
      BY <1>6 DEF CopyDies
    <2>3. Torn # 0 /\ pc' = "out" /\ littered' = littered
      BY <1>6 DEF CopyDies, Torn
    <2>4. p \in job.pkgs /\ p \in {Image(r), Meta(r)}
      BY <2>1, <2>2 DEF Turn
    <2>5. p = Meta(r) => pc = "copySecond" /\ files[Image(r)] # 0
      <3>1. CASE pc = "copyFirst"
        BY <2>2, <3>1, Names DEF Turn, PublishOrder
      <3>2. CASE pc = "copySecond"
        BY <2>1, <3>2, Names DEF FilesInv, JobInv
      <3>3. QED
        BY <1>6, <3>1, <3>2 DEF CopyDies
    <2>6. \A s \in Releases : files'[Meta(s)] # 0 => files'[Image(s)] # 0
      BY <2>2, <2>3, <2>4, <2>5, Names DEF RepositoryTypeOK, FilesInv
    <2>7. \A q \in GpkgPkgs : files'[q] = files[q]
      BY <2>2, <2>4, Names DEF RepositoryTypeOK, Pkgs
    <2>9. \A s \in Releases : files'[Image(s)] = Torn => s \in cut'
      BY <2>2, Names DEF RepositoryTypeOK, FilesInv
    <2>8. QED
      BY <2>3, <2>6, <2>7, <2>9 DEF FilesInv
  <1>7. CASE Empty
    <2>1. ~littered' => \A p \in GpkgPkgs : files'[p] = 0
      BY <1>7, EmptyLeaves DEF GpkgPkgs
    <2>2. \A r \in Releases : files'[Meta(r)] = files[Meta(r)] /\ files'[Image(r)] = files[Image(r)]
      BY <1>7, EmptyLeaves
    <2>3. pc' = "make" /\ cut' = cut
      BY <1>7, EmptyLeaves
    <2>4. QED
      BY <2>1, <2>2, <2>3 DEF FilesInv
  <1>8. CASE Make
    <2>1. PICK v \in Trees : job.pkgs = {Gpkg(v)}
      BY <1>8 DEF Make, JobInv
    <2>2. job'.pkgs = job.pkgs /\ job'.made = builds + 1 /\ pc = "make" /\ pc' = "index"
      BY <1>8, <2>1, MakeLeaves
    <2>3. littered' = littered /\ cut' = cut
      BY <1>8, <2>1, MakeLeaves DEF histVars
    <2>4. ~littered => \A p \in GpkgPkgs \ {Gpkg(v)} : files'[p] = 0
      <3>1. ~littered => \A w \in Trees : w # v => files'[Gpkg(w)] = 0
        BY <1>8, <2>1, <2>2, MakeLeaves, Names DEF FilesInv
      <3>2. QED
        BY <3>1 DEF GpkgPkgs
    <2>5. \A r \in Releases : files'[Meta(r)] = files[Meta(r)] /\ files'[Image(r)] = files[Image(r)]
      BY <1>8, <2>1, MakeLeaves
    <2>6. files'[Gpkg(v)] = builds + 1
      BY <1>8, <2>1, MakeLeaves
    <2>7. QED
      BY <2>1, <2>2, <2>3, <2>4, <2>5, <2>6 DEF FilesInv
  <1>9. QED
    BY <1>1, <1>2, <1>3, <1>4, <1>5, <1>6, <1>7, <1>8, <1>10 DEF RepositoryNext

\* One revision keeps its version.
LEMMA VersionStep ==
    ASSUME RepositoryTypeOK, JobInv, FilesInv, VersionInv, [RepositoryNext]_repoVars
    PROVE  VersionInv'
  <1> USE RepositoryAssumption
  <1>1. CASE UNCHANGED repoVars
    BY <1>1 DEF repoVars, histVars, VersionInv
  <1>2. CASE KernelStart
    <2>1. job'.tool = "kernel" /\ UNCHANGED <<files, published>>
      BY <1>2, KernelStartJob DEF KernelStart, histVars
    <2>2. job.tool = "none"
      BY <1>2 DEF KernelStart, JobInv
    <2>3. QED
      BY <2>1, <2>2 DEF VersionInv
  <1>3. CASE KernelBuild
    <2>1. job'.tool = "kernel" /\ job.tool = "kernel" /\ UNCHANGED <<files, published>>
      BY <1>3 DEF KernelBuild, JobInv, RepositoryTypeOK, histVars
    <2>2. QED
      BY <2>1 DEF VersionInv
  <1>4. CASE CopyFirst \/ CopySecond \/ CopyDies
    <2>1. job.tool = "kernel" /\ job'.tool # "gpkg" /\ published' = published
      BY <1>4 DEF CopyFirst, CopySecond, CopyDies, Copy, JobInv, NoJob, histVars
    <2>2. \A v \in Trees : files'[Gpkg(v)] = files[Gpkg(v)]
      BY <1>4, CopyKeepsGpkg
    <2>3. published \subseteq Trees
      BY DEF RepositoryTypeOK
    <2>4. QED
      BY <2>1, <2>2, <2>3 DEF VersionInv
  <1>5. CASE GpkgStart
    <2>1. /\ job'.pkgs = {Gpkg(DefaultVersion)} /\ job.tool = "none"
          /\ pc' = "empty" /\ UNCHANGED <<files, published, tree>>
      BY <1>5, GpkgStartJob DEF GpkgStart, JobInv, histVars
    <2>2. DefaultVersion \in Trees /\ DefaultVersion[1] = tree[1] /\ tree \in Trees
      BY VersionType DEF RepositoryTypeOK
    <2>3. ASSUME NEW v \in Trees, files[Gpkg(v)] # 0, v[1] = tree[1]
          PROVE  v = DefaultVersion
      <3>1. v \in Exported
        BY <2>3 DEF Exported
      <3>2. DefaultVersion \in Exported
        BY <2>2, <3>1, VersionExported
      <3>3. QED
        BY <2>3, <3>2 DEF Exported, VersionInv
    <2>4. \A w \in Trees : Gpkg(w) \in job'.pkgs => w = DefaultVersion
      BY <2>1, <2>2, Names
    <2>5. \A v \in published : files[Gpkg(v)] # 0
      BY <2>1 DEF VersionInv
    <2>6. QED
      BY <2>1, <2>2, <2>3, <2>4, <2>5 DEF VersionInv
  <1>6. CASE Empty
    <2>1. /\ pc = "empty" /\ pc' = "make" /\ job.tool = "gpkg" /\ UNCHANGED <<tree, job>>
          /\ published' \subseteq published /\ published \subseteq Trees
      BY <1>6, EmptyLeaves DEF JobInv, RepositoryTypeOK
    <2>2. \A v \in Trees : files'[Gpkg(v)] # 0 => files[Gpkg(v)] # 0
      BY <1>6, EmptyLeaves
    <2>3. ASSUME NEW v \in published', files'[Gpkg(v)] = 0
          PROVE  Gpkg(v) \in job.pkgs
      <3>1. PICK u \in Trees : job.pkgs = {Gpkg(u)}
        BY <2>1 DEF JobInv
      <3>2. v[1] = tree[1] /\ u[1] = tree[1]
        BY <1>6, <2>1, <2>3, <3>1, EmptyLeaves DEF VersionInv
      <3>3. files[Gpkg(v)] # 0
        BY <2>1 DEF VersionInv
      <3>4. v = u
        BY <2>1, <3>1, <3>2, <3>3 DEF VersionInv
      <3>5. QED
        BY <3>1, <3>4
    <2>4. QED
      BY <2>1, <2>2, <2>3 DEF VersionInv
  <1>7. CASE Make
    <2>1. PICK u \in Trees : job.pkgs = {Gpkg(u)}
      BY <1>7 DEF Make, JobInv
    <2>2. /\ pc = "make" /\ pc' = "index" /\ job'.tool = "gpkg" /\ job'.pkgs = job.pkgs
          /\ UNCHANGED <<tree, published>>
      BY <1>7, <2>1, MakeLeaves DEF histVars
    <2>3. job.tool = "gpkg"
      BY <2>2 DEF JobInv
    <2>4. /\ files'[Gpkg(u)] # 0
          /\ \A w \in Trees : w # u => files'[Gpkg(w)] = files[Gpkg(w)]
      BY <1>7, <2>1, MakeLeaves
    <2>5. \A w \in Trees : Gpkg(w) \in job.pkgs => w = u
      BY <2>1, Names
    <2>6. u[1] = tree[1] /\ \A v \in Trees : files[Gpkg(v)] # 0 /\ v[1] = u[1] => v = u
      BY <2>1, <2>3 DEF VersionInv
    <2>7. \A v \in published : files'[Gpkg(v)] # 0
      BY <2>3, <2>4, <2>5 DEF VersionInv, RepositoryTypeOK
    <2>8. ASSUME NEW v \in Trees, NEW w \in Trees, files'[Gpkg(v)] # 0, files'[Gpkg(w)] # 0,
                 v[1] = w[1]
          PROVE  v = w
      <3>1. CASE v = u \/ w = u
        BY <2>4, <2>6, <2>8, <3>1
      <3>2. CASE v # u /\ w # u
        BY <2>4, <2>8, <3>2 DEF VersionInv
      <3>3. QED
        BY <3>1, <3>2
    <2>9. \A v \in Trees : files'[Gpkg(v)] # 0 /\ v[1] = u[1] => v = u
      BY <2>4, <2>8
    <2>10. QED
      BY <2>2, <2>5, <2>6, <2>7, <2>8, <2>9 DEF VersionInv
  <1>8. CASE WriteIndex
    <2>1. /\ pc = "index" /\ pc' = "done" /\ UNCHANGED <<files, job, tree>>
          /\ published' = published \cup {v \in Trees : Gpkg(v) \in job.pkgs}
      BY <1>8 DEF WriteIndex
    <2>2. \A p \in job.pkgs : files[p] # 0
      BY <2>1 DEF FilesInv, JobInv
    <2>3. \A v \in published' : files[Gpkg(v)] # 0
      BY <2>1, <2>2 DEF VersionInv
    <2>4. QED
      BY <2>1, <2>3 DEF VersionInv
  <1>9. CASE Finish
    <2>1. pc = "done" /\ job'.tool = "none" /\ UNCHANGED <<files, published>>
      BY <1>9 DEF Finish, NoJob, histVars
    <2>2. QED
      BY <2>1 DEF VersionInv
  <1>10. CASE Fail
    <2>1. job'.tool = "none" /\ files' = files /\ published' = {v \in published : files[Gpkg(v)] # 0}
      BY <1>10 DEF Fail, NoJob
    <2>2. QED
      BY <2>1 DEF VersionInv
  <1>11. CASE Edit
    <2>1. pc = "out" /\ pc' = pc /\ UNCHANGED <<files, job, published>>
      BY <1>11 DEF Edit, histVars
    <2>2. job.tool = "none"
      BY <2>1 DEF JobInv
    <2>3. QED
      BY <2>1, <2>2 DEF VersionInv
  <1>12. QED
    BY <1>1, <1>2, <1>3, <1>4, <1>5, <1>6, <1>7, <1>8, <1>9, <1>10, <1>11 DEF RepositoryNext

\* What the index lists when it has just been written.
LEMMA IndexStep ==
    ASSUME RepositoryTypeOK, JobInv, FilesInv, MetaHasItsImage, PublishedIndexTrue,
           [RepositoryNext]_repoVars
    PROVE  MetaHasItsImage' /\ PublishedIndexTrue'
  <1> USE RepositoryAssumption
  <1>1. CASE WriteIndex
    <2>0. PICK skipped \in SUBSET Cuts :
              index' = [p \in Pkgs |-> IF p \in Listed(skipped) THEN files[p] ELSE 0]
      BY <1>1 DEF WriteIndex, IndexWritten
    <2>1. /\ pc = "index" /\ readable' /\ job' = job /\ files' = files /\ littered' = littered
          /\ index' = [p \in Pkgs |-> IF p \in Listed(skipped) THEN files[p] ELSE 0]
          /\ cut' = {r \in cut : files[Image(r)] = Torn}
      BY <1>1, <2>0 DEF WriteIndex
    <2>2. \A p \in job.pkgs : p \in Listed(skipped)
      BY <2>1 DEF Listed, Cuts, Torn, FilesInv, JobInv, RepositoryTypeOK
    <2>3. \A p \in Pkgs : index'[p] # 0 => index'[p] = files'[p]
      BY <2>1
    <2>4. \A p \in job'.pkgs : index'[p] = job'.made
      BY <2>1, <2>2 DEF FilesInv, RepositoryTypeOK
    <2>5. ASSUME ~littered'
          PROVE  Cardinality({p \in GpkgPkgs : index'[p] # 0}) <= 1
      <3> DEFINE S == {p \in GpkgPkgs : index'[p] # 0}
      <3>1. \A p, q \in S : p = q
        BY <2>1, <2>5 DEF FilesInv, Pkgs
      <3>2. S = {} \/ \E p \in S : S = {p}
        BY <3>1
      <3> HIDE DEF S
      <3>3. Cardinality(S) <= 1
        <4>1. CASE S = {}
          BY <4>1, SmallSets
        <4>2. CASE \E p \in S : S = {p}
          <5>1. PICK p \in S : S = {p}
            BY <4>2
          <5>2. Cardinality({p}) = 1
            BY SmallSets
          <5>3. Cardinality(S) = 1
            BY <5>1, <5>2
          <5>4. QED
            BY <5>3
        <4>3. QED
          BY <3>2, <4>1, <4>2
      <3>4. QED
        BY <3>3 DEF S
    <2>6. ASSUME NEW r \in Releases, index'[Meta(r)] # 0
          PROVE  index'[Image(r)] \in 1..MaxBuilds \/ r \in cut'
      <3>1. Meta(r) \in Listed(skipped) /\ files[Meta(r)] # 0
        BY <2>1, <2>6, Names
      <3>2. files[Image(r)] # 0
        BY <3>1 DEF FilesInv
      <3>3. job.scan \/ Image(r) \in job.pkgs
        <4>1. CASE job.tool = "kernel"
          BY <3>1, <4>1, Names DEF Listed, JobInv
        <4>2. CASE job.tool # "kernel"
          <5>1. job.pkgs = {} \/ \E v \in Trees : job.pkgs = {Gpkg(v)}
            BY <4>2, <2>1 DEF JobInv, RepositoryTypeOK
          <5>2. Meta(r) \notin job.pkgs
            BY <5>1, Names
          <5>3. QED
            BY <3>1, <5>2 DEF Listed
        <4>3. QED
          BY <4>1, <4>2
      <3>4. CASE files[Image(r)] = Torn
        BY <2>1, <3>4 DEF FilesInv
      <3>5. CASE files[Image(r)] # Torn
        <4>1. files[Image(r)] \in 1..MaxBuilds
          BY <3>2, <3>5, Names DEF RepositoryTypeOK, Contents, Torn
        <4>2. Image(r) \in Listed(skipped)
          BY <3>2, <3>3, <3>5, Names DEF Listed, Cuts
        <4>3. QED
          BY <2>1, <4>1, <4>2, Names
      <3>6. QED
        BY <3>4, <3>5
    <2>7. QED
      BY <2>1, <2>3, <2>4, <2>5, <2>6 DEF MetaHasItsImage, PublishedIndexTrue
  <1>2. CASE UNCHANGED repoVars
    BY <1>2 DEF repoVars, histVars, MetaHasItsImage, PublishedIndexTrue
  <1>3. CASE RepositoryNext /\ ~WriteIndex
    <2>1. index' = index /\ pc' # "done" /\ cut \subseteq cut'
      BY <1>3 DEF RepositoryNext, KernelStart, KernelBuild, CopyFirst, CopySecond, Copy, CopyDies,
                  GpkgStart, Empty, Make, Finish, Fail, Edit, histVars
    <2>2. QED
      BY <2>1 DEF MetaHasItsImage, PublishedIndexTrue
  <1>4. QED
    BY <1>1, <1>2, <1>3

LEMMA RepositoryInvInit == RepositoryInit => RepositoryInv
  <1> SUFFICES ASSUME RepositoryInit PROVE RepositoryInv
    OBVIOUS
  <1>1. RepositoryTypeOK
    BY RepositoryTypeInit
  <1>2. JobInv
    BY DEF RepositoryInit, JobInv, NoJob
  <1>3. FilesInv
    BY Names, RepositoryAssumption DEF RepositoryInit, FilesInv, Pkgs, Torn
  <1>4. VersionInv /\ MetaHasItsImage /\ PublishedIndexTrue
    BY Names DEF RepositoryInit, VersionInv, MetaHasItsImage, PublishedIndexTrue, NoJob
  <1>5. QED
    BY <1>1, <1>2, <1>3, <1>4 DEF RepositoryInv

LEMMA RepositoryInvStep == RepositoryInv /\ [RepositoryNext]_repoVars => RepositoryInv'
  BY RepositoryTypeStep, JobStep, FilesStep, VersionStep, IndexStep DEF RepositoryInv

\* What is published is there or being made, and so has one version of a revision.
LEMMA VersionUnique ==
    ASSUME RepositoryTypeOK, JobInv, VersionInv
    PROVE  VersionIsCanonical
  <1> SUFFICES ASSUME NEW v \in published, NEW w \in published, v[1] = w[1]
               PROVE  v = w
    BY DEF VersionIsCanonical
  <1>1. v \in Trees /\ w \in Trees
    BY DEF RepositoryTypeOK
  <1>2. CASE files[Gpkg(v)] # 0 /\ files[Gpkg(w)] # 0
    BY <1>1, <1>2 DEF VersionInv
  <1>3. CASE files[Gpkg(v)] = 0
    <2>1. job.tool = "gpkg" /\ Gpkg(v) \in job.pkgs
      BY <1>3 DEF VersionInv
    <2>2. CASE files[Gpkg(w)] # 0
      BY <1>1, <2>1, <2>2 DEF VersionInv
    <2>3. CASE files[Gpkg(w)] = 0
      BY <1>1, <2>1, <2>3, Names DEF VersionInv, JobInv
    <2>4. QED
      BY <2>2, <2>3
  <1>4. CASE files[Gpkg(w)] = 0
    <2>1. job.tool = "gpkg" /\ Gpkg(w) \in job.pkgs
      BY <1>4 DEF VersionInv
    <2>2. QED
      BY <1>1, <1>3, <2>1 DEF VersionInv
  <1>5. QED
    BY <1>2, <1>3, <1>4

(***************************************************************************)
(* The machine that installs from the repository.                          *)
(***************************************************************************)

\* gpkg is between two scripts, or about to run one of a kernel whose files are
\* there (postinst) or gone (postrm); the link depends on no other missing file.
LinkInv ==
    /\ step.script = "postinst" => step.release \in kernels
    /\ step.script = "postrm" => step.release \notin kernels
    /\ ~hanging =>
        CASE step.script = "none" ->
                 \/ kernels = {} /\ link = <<"gone">>
                 \/ link = <<"shipped">>
                 \/ \E r \in kernels : Linked(r)
          [] step.script = "postinst" ->
                 \/ link = <<"gone">>
                 \/ link = <<"shipped">>
                 \/ \E r \in kernels : Linked(r)
          [] step.script = "postrm" ->
                 \/ link = <<"shipped">>
                 \/ Linked(step.release)
                 \/ \E r \in kernels : Linked(r)

KernelBootInv == RepositoryInv /\ BootTypeOK /\ LinkInv

\* The shipped kernel, no kernel, and the kernel of a release are three things.
LEMMA Links ==
    /\ <<"shipped">> # <<"gone">>
    /\ \A r \in Releases : <<"kernel", r>> # <<"gone">> /\ <<"kernel", r>> # <<"shipped">>
    /\ \A r, q \in Releases : <<"kernel", r>> = <<"kernel", q>> => r = q
  OBVIOUS

\* sort -V finds a kernel when there is one.
LEMMA BestType ==
    ASSUME kernels \subseteq Releases
    PROVE  \/ kernels = {} /\ Best = <<"gone">>
           \/ \E r \in kernels : Best = <<"kernel", r>>
  <1>1. CASE kernels = {}
    BY <1>1 DEF Best
  <1>2. CASE kernels # {}
    <2>1. IsFiniteSet(kernels) /\ kernels \in SUBSET Nat
      BY FS_Subset, RepositoryAssumption
    <2>2. \E r \in kernels : \A q \in kernels : q <= r
      BY <1>2, <2>1, GreatestExists DEF Greatest
    <2>3. QED
      BY <1>2, <2>2 DEF Best
  <1>3. QED
    BY <1>1, <1>2

LEMMA BootTypeStep ==
    ASSUME KernelBootInv, [Next]_vars
    PROVE  BootTypeOK'
  <1>1. CASE RepositoryNext /\ UNCHANGED bootVars
    BY <1>1, RepositoryTypeStep DEF bootVars, BootTypeOK, KernelBootInv, RepositoryInv
  <1>2. CASE UNCHANGED vars
    BY <1>2 DEF vars, repoVars, histVars, bootVars, BootTypeOK, RepositoryTypeOK, KernelBootInv
  <1>3. ASSUME NEW r \in Releases, Unpack(r) \/ Remove(r)
        PROVE  BootTypeOK'
    BY <1>3 DEF Unpack, Remove, repoVars, histVars, BootTypeOK, RepositoryTypeOK, KernelBootInv
  <1>4. CASE PostInst
    <2>1. step.release \in Releases
      BY <1>4 DEF PostInst, BootTypeOK, KernelBootInv, Idle
    <2>2. link' \in {<<"kernel", q>> : q \in Releases}
      BY <1>4, <2>1 DEF PostInst
    <2>3. hanging' \in BOOLEAN /\ step' = Idle /\ UNCHANGED <<repoVars, kernels>>
      BY <1>4 DEF PostInst
    <2>4. RepositoryTypeOK'
      BY <2>3 DEF repoVars, histVars, RepositoryTypeOK, BootTypeOK, KernelBootInv
    <2>5. QED
      BY <2>2, <2>3, <2>4 DEF BootTypeOK, KernelBootInv
  <1>5. CASE PostRm
    <2>1. link' \in {<<"shipped">>, <<"gone">>} \cup {<<"kernel", q>> : q \in Releases}
      BY <1>5, BestType DEF PostRm, BootTypeOK, KernelBootInv
    <2>2. QED
      BY <1>5, <2>1 DEF PostRm, repoVars, histVars, BootTypeOK, RepositoryTypeOK, KernelBootInv, Idle
  <1>6. CASE PowerLoss
    <2>1. faults' \in 0..MaxFaults
      BY <1>6, RepositoryAssumption DEF PowerLoss, BootTypeOK, RepositoryTypeOK, KernelBootInv
    <2>2. hanging' \in BOOLEAN
      BY <1>6 DEF PowerLoss, BootTypeOK, KernelBootInv
    <2>3. UNCHANGED <<files, index, readable, tree, builds, pc, job, histVars,
                      kernels, link>> /\ step' = Idle
      BY <1>6 DEF PowerLoss
    <2>4. QED
      BY <2>1, <2>2, <2>3 DEF BootTypeOK, RepositoryTypeOK, KernelBootInv, Idle, histVars
  <1>7. QED
    BY <1>1, <1>2, <1>3, <1>4, <1>5, <1>6 DEF Next

LEMMA LinkStep ==
    ASSUME KernelBootInv, [Next]_vars
    PROVE  LinkInv'
  <1>1. CASE UNCHANGED bootVars
    BY <1>1 DEF bootVars, KernelBootInv, LinkInv, Linked
  <1>2. ASSUME NEW r \in Releases, Unpack(r)
        PROVE  LinkInv'
    BY <1>2 DEF Unpack, Idle, KernelBootInv, LinkInv, Linked
  <1>3. ASSUME NEW r \in Releases, Remove(r)
        PROVE  LinkInv'
    BY <1>3 DEF Remove, Idle, KernelBootInv, LinkInv, Linked
  <1>4. CASE PostInst
    BY <1>4 DEF PostInst, Idle, KernelBootInv, LinkInv, Linked
  <1>5. CASE PostRm
    <2>1. kernels \subseteq Releases
      BY DEF KernelBootInv, BootTypeOK
    <2>2. step' = Idle /\ UNCHANGED <<kernels, hanging>>
      BY <1>5 DEF PostRm
    <2>3. CASE Linked(step.release)
      BY <1>5, <2>1, <2>2, <2>3, BestType DEF PostRm, LinkInv, Linked, Idle
    <2>4. CASE ~Linked(step.release)
      BY <1>5, <2>2, <2>4 DEF PostRm, KernelBootInv, LinkInv, Linked, Idle
    <2>5. QED
      BY <2>3, <2>4
  <1>6. CASE PowerLoss
    <2>1. step' = Idle /\ UNCHANGED <<kernels, link>> /\ step.script \in {"postinst", "postrm"}
      BY <1>6 DEF PowerLoss, KernelBootInv, BootTypeOK
    <2>2. ~hanging' => /\ ~hanging
                       /\ step.script = "postrm" => ~Linked(step.release)
                       /\ step.script = "postinst" => link # <<"gone">>
      BY <1>6 DEF PowerLoss
    <2>3. QED
      BY <2>1, <2>2 DEF KernelBootInv, LinkInv, Linked, Idle
  <1>7. QED
    BY <1>1, <1>2, <1>3, <1>4, <1>5, <1>6 DEF Next, vars

\* A step of the machine leaves the repository as it is, but for the count of faults.
LEMMA MachineStep ==
    ASSUME KernelBootInv, BootTypeOK',
           UNCHANGED <<files, index, readable, tree, builds, pc, job, histVars>>
    PROVE  RepositoryInv'
  <1>1. RepositoryTypeOK'
    BY DEF BootTypeOK
  <1>2. JobInv' /\ FilesInv' /\ VersionInv' /\ MetaHasItsImage' /\ PublishedIndexTrue'
    BY DEF KernelBootInv, RepositoryInv, JobInv, FilesInv, VersionInv, MetaHasItsImage,
           PublishedIndexTrue, histVars
  <1>3. QED
    BY <1>1, <1>2 DEF RepositoryInv

LEMMA KernelBootInvInit == Init => KernelBootInv
  <1> SUFFICES ASSUME Init PROVE KernelBootInv
    OBVIOUS
  <1>1. RepositoryInv
    BY RepositoryInvInit DEF Init
  <1>2. BootTypeOK
    BY <1>1 DEF Init, BootTypeOK, RepositoryInv, Idle
  <1>3. LinkInv
    BY DEF Init, LinkInv, Idle
  <1>4. QED
    BY <1>1, <1>2, <1>3 DEF KernelBootInv

LEMMA KernelBootInvStep == KernelBootInv /\ [Next]_vars => KernelBootInv'
  <1> SUFFICES ASSUME KernelBootInv, [Next]_vars PROVE KernelBootInv'
    OBVIOUS
  <1>1. BootTypeOK' /\ LinkInv'
    BY BootTypeStep, LinkStep
  <1>2. CASE RepositoryNext
    BY <1>1, <1>2, RepositoryInvStep DEF KernelBootInv
  <1>3. CASE ~RepositoryNext
    <2>1. UNCHANGED <<files, index, readable, tree, builds, pc, job, histVars>>
      BY <1>3 DEF Next, Unpack, Remove, PostInst, PostRm, PowerLoss, vars, repoVars
    <2>2. QED
      BY <1>1, <2>1, MachineStep DEF KernelBootInv
  <1>4. QED
    BY <1>2, <1>3

LEMMA KernelBootInvAlways == Spec => []KernelBootInv
  BY KernelBootInvInit, KernelBootInvStep, PTL DEF Spec

(***************************************************************************)
(* Theorems.                                                               *)
(***************************************************************************)

\* Types hold for any releases, revisions and numbers of builds and faults.
THEOREM BootTypeCorrect == Spec => []BootTypeOK
  <1>1. KernelBootInv => BootTypeOK
    BY DEF KernelBootInv
  <1>2. QED
    BY <1>1, KernelBootInvAlways, PTL

\* The index that write_repo_index or the scanner has just written is true of the
\* directory, whatever publications failed before it, for any number of releases
\* and builds.
THEOREM IndexAlwaysTrue == Spec => []PublishedIndexTrue
  <1>1. KernelBootInv => PublishedIndexTrue
    BY DEF KernelBootInv, RepositoryInv
  <1>2. QED
    BY <1>1, KernelBootInvAlways, PTL

\* publish_packages_to_export never offers a channel without its whole image but
\* for a release whose image was cut and not yet published again, for any number of
\* releases, builds and failures.
THEOREM MetaAlwaysHasItsImage == Spec => []MetaHasItsImage
  <1>1. KernelBootInv => MetaHasItsImage
    BY DEF KernelBootInv, RepositoryInv
  <1>2. QED
    BY <1>1, KernelBootInvAlways, PTL

\* postinst and postrm keep /boot/kernel on a kernel that is there, for any finite
\* set of releases in any order of installs and removals.
THEOREM BootLinkAlwaysResolves == Spec => []BootLinkResolves
  <1>1. KernelBootInv => BootLinkResolves
    BY DEF KernelBootInv, LinkInv, BootLinkResolves, Idle
  <1>2. QED
    BY <1>1, KernelBootInvAlways, PTL

\* default_gpkg_package_version gives a revision one version for as long as its
\* package is exported, for any revisions.
THEOREM VersionAlwaysCanonical == Spec => []VersionIsCanonical
  <1>1. KernelBootInv => VersionIsCanonical
    BY VersionUnique DEF KernelBootInv, RepositoryInv
  <1>2. QED
    BY <1>1, KernelBootInvAlways, PTL
=============================================================================
