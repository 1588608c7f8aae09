----------------------------- MODULE DepClosure -----------------------------
(***************************************************************************)
(* builder.py: from the two package manifests and the package index to the *)
(* package lists of the two stages, and the policy that refuses systemd    *)
(* and Debian kernels (resolve_bootstrap_requested_packages,               *)
(* resolve_bootstrap_dependency_closure, enforce_forbidden_systemd_        *)
(* dependency_policy).  The extraction closure follows the first           *)
(* alternative of a dependency, the policy the first one it may have.      *)
(*                                                                         *)
(* A worklist is the set of names in it: popping a name again has no       *)
(* effect.  A manifest entry is the set of names it matches.               *)
(***************************************************************************)
EXTENDS Naturals, Sequences

CONSTANTS
    Names,          \* names of Debian packages, also of packages that do not exist
    Indexes,        \* what Packages may say: [packages in it -> their dependency groups]
    Entries,        \* manifest entries, each a set of names
    Manifests,      \* pairs of manifests: [runtime, toolchain], each a set of entries
    Excluded,       \* BOOTSTRAP_EXCLUDED_PACKAGE_PATTERNS
    Forbidden       \* SYSTEMD_ and KERNEL_FORBIDDEN_PACKAGE_PATTERNS

Stages == {"runtime", "sysroot"}

ASSUME ClosureAssumption ==
    /\ \A i \in Indexes :
           /\ DOMAIN i \subseteq Names
           /\ i \in [DOMAIN i -> SUBSET Seq(Names)]
           /\ \A p \in DOMAIN i : <<>> \notin i[p]
    /\ Entries \subseteq SUBSET Names
    /\ Manifests \subseteq [runtime : SUBSET Entries, toolchain : SUBSET Entries]

VARIABLES
    index, manifests,
    pc,             \* what is being computed, or "unknownEntry", "refused", "planned"
    seed,           \* [runtime, toolchain]: runtime_seed and toolchain_seed
    closure,        \* [Stages]: runtime_packages and build_sysroot_packages
    queue, resolved, issues

vars == <<index, manifests, pc, seed, closure, queue, resolved, issues>>

Work  == {"resolve", "runtime", "sysroot", "checkRuntime", "checkSysroot"}
Final == {"unknownEntry", "refused", "planned"}

ClosureTypeOK ==
    /\ DOMAIN index \subseteq Names
    /\ index \in [DOMAIN index -> SUBSET Seq(Names)]
    /\ manifests \in Manifests
    /\ pc \in Work \cup Final
    /\ seed \in [{"runtime", "toolchain"} -> SUBSET DOMAIN index]
    /\ closure \in [Stages -> SUBSET DOMAIN index]
    /\ queue \subseteq DOMAIN index
    /\ resolved \subseteq DOMAIN index
    /\ issues \in BOOLEAN

Init ==
    /\ index \in Indexes
    /\ manifests \in Manifests
    /\ pc = "resolve"
    /\ seed = [m \in {"runtime", "toolchain"} |-> {}]
    /\ closure = [s \in Stages |-> {}]
    /\ queue = {} /\ resolved = {}
    /\ issues = FALSE

-----------------------------------------------------------------------------
Available == DOMAIN index

\* Manifest entries to packages; excluded ones are passed over.
Seed(m) == ((UNION m) \cap Available) \ Excluded

ResolveRequests ==
    /\ pc = "resolve"
    /\ IF \E e \in manifests.runtime \cup manifests.toolchain : e \cap Available = {}
       THEN pc' = "unknownEntry" /\ UNCHANGED <<seed, queue>>
       ELSE /\ seed' = [runtime |-> Seed(manifests.runtime),
                        toolchain |-> Seed(manifests.toolchain)]
            /\ queue' = seed'["runtime"]
            /\ pc' = "runtime"
    /\ UNCHANGED <<index, manifests, closure, resolved, issues>>

\* normalize_dependency_name: the first alternative of each group.
Followed(p) == {g[1] : g \in index[p]}

\* Mutation: the package stays in the worklist.
ExtendAgain(p) ==
    /\ pc \in Stages /\ p \in queue
    /\ IF p \in resolved \/ p \notin Available \/ p \in Excluded
       THEN UNCHANGED <<queue, resolved>>
       ELSE /\ resolved' = resolved \cup {p}
            /\ queue' = queue \cup
                   ((Followed(p) \cap Available) \ (resolved' \cup Excluded))
    /\ UNCHANGED <<index, manifests, pc, seed, closure, issues>>

\* Mutation: the dependencies replace the worklist.
ExtendOverwriting(p) ==
    /\ pc \in Stages /\ p \in queue
    /\ resolved' = resolved \cup {p}
    /\ queue' = (Followed(p) \cap Available) \ (resolved' \cup Excluded)
    /\ UNCHANGED <<index, manifests, pc, seed, closure, issues>>

\* One iteration of resolve_bootstrap_dependency_closure.
Extend(p) ==
    /\ pc \in Stages /\ p \in queue
    /\ IF p \in resolved \/ p \notin Available \/ p \in Excluded
       THEN /\ queue' = queue \ {p}
            /\ UNCHANGED resolved
       ELSE /\ resolved' = resolved \cup {p}
            /\ queue' = (queue \ {p}) \cup
                   ((Followed(p) \cap Available) \ (resolved' \cup Excluded))
    /\ UNCHANGED <<index, manifests, pc, seed, closure, issues>>

\* Mutation: the sysroot is closed over the toolchain manifest alone.
SysrootSeedToolchain == seed["toolchain"]

SysrootSeed == seed["runtime"] \cup seed["toolchain"]

\* Mutation: the policy looks at what was requested.
PolicyRequestSeed(s, c) == seed["runtime"]

\* What the policy is applied to.
PolicyRequest(s, c) == c[s]

\* The worklist is empty: to the next closure, or to the policy.
Extended ==
    /\ pc \in Stages /\ queue = {}
    /\ closure' = [closure EXCEPT ![pc] = resolved]
    /\ IF pc = "runtime"
       THEN pc' = "sysroot" /\ queue' = SysrootSeed
       ELSE pc' = "checkRuntime" /\ queue' = PolicyRequest("runtime", closure')
    /\ resolved' = {}
    /\ UNCHANGED <<index, manifests, seed, issues>>

\* The alternatives of g before the first one that is allowed and available.
Chosen(g) ==
    {g[i] : i \in {j \in DOMAIN g :
        /\ g[j] \in Available \ Forbidden
        /\ \A k \in 1..(j - 1) : g[k] \notin Available \ Forbidden}}

Unsatisfiable(g) ==
    Chosen(g) = {} /\ \E i \in DOMAIN g : g[i] \in Forbidden

\* One iteration of resolve_dependency_closure_with_policy.
Check(p) ==
    /\ pc \in {"checkRuntime", "checkSysroot"} /\ p \in queue
    /\ IF p \in resolved \/ p \notin Available
       THEN /\ queue' = queue \ {p}
            /\ UNCHANGED <<resolved, issues>>
       ELSE IF p \in Forbidden
       THEN /\ queue' = queue \ {p}
            /\ issues' = TRUE
            /\ UNCHANGED resolved
       ELSE /\ resolved' = resolved \cup {p}
            /\ queue' = (queue \ {p}) \cup ((UNION {Chosen(g) : g \in index[p]}) \ resolved')
            /\ issues' = (issues \/ \E g \in index[p] : Unsatisfiable(g))
    /\ UNCHANGED <<index, manifests, pc, seed, closure>>

\* enforce_forbidden_systemd_dependency_policy
Checked ==
    /\ pc \in {"checkRuntime", "checkSysroot"} /\ queue = {}
    /\ resolved' = {}
    /\ IF issues
       THEN pc' = "refused" /\ UNCHANGED queue
       ELSE IF pc = "checkRuntime"
       THEN pc' = "checkSysroot" /\ queue' = PolicyRequest("sysroot", closure)
       ELSE pc' = "planned" /\ UNCHANGED queue
    /\ UNCHANGED <<index, manifests, seed, closure, issues>>

Next ==
    \/ ResolveRequests
    \/ \E p \in Names : Extend(p) \/ Check(p)
    \/ Extended \/ Checked

Spec == Init /\ [][Next]_vars

\* The resolution is a plain computation.
FairSpec == Spec /\ WF_vars(Next)

-----------------------------------------------------------------------------
Kept == Available \ Excluded

\* S holds what its packages' first alternatives name.
DependencyClosed(S) == \A p \in S : Followed(p) \cap Kept \subseteq S

\* The smallest set with the packages of from that is closed.
Least(from) ==
    {p \in Kept : \A S \in SUBSET Kept :
                      from \cap Kept \subseteq S /\ DependencyClosed(S) => p \in S}

\* Once planned, each stage has exactly the packages its manifests lead to,
\* however the worklist was worked off and whatever cycles the index has.
ClosureExact ==
    pc = "planned" =>
        /\ closure["runtime"] = Least(seed["runtime"])
        /\ closure["sysroot"] = Least(SysrootSeed)

\* The sysroot, in which the ports are built, has every package of the runtime
\* stage they will run in.
RuntimeInSysroot == pc = "planned" => closure["runtime"] \subseteq closure["sysroot"]

\* Whatever the manifests ask for and the index offers, no plan has a package of
\* the systemd or kernel family, although extraction and policy resolve
\* alternatives differently and some forbidden packages are not excluded.
NothingForbidden ==
    pc = "planned" => closure["runtime"] \cup closure["sysroot"] \subseteq Available \ Forbidden

\* Half way through a closure: nothing superfluous is in it or queued, and what is
\* still missing can be reached from the queue.
Building(from) ==
    /\ resolved \cup queue \subseteq Least(from)
    /\ from \subseteq resolved \cup queue
    /\ \A p \in resolved : Followed(p) \cap Kept \subseteq resolved \cup queue

\* Half way through a policy check: what has passed is allowed, and a package that
\* was to be checked has passed, has raised an issue or is queued.
Checking(s) ==
    /\ resolved \cap Forbidden = {}
    /\ issues \/ closure[s] \subseteq resolved \cup queue

\* The loop invariants of the four passes, and what the finished ones leave.
WorklistInv ==
    /\ seed["runtime"] \cup seed["toolchain"] \subseteq Kept
    /\ pc = "runtime" => Building(seed["runtime"])
    /\ pc = "sysroot" => Building(SysrootSeed)
    /\ pc \in {"resolve", "runtime", "sysroot"} => ~issues
    /\ pc = "resolve" => resolved = {}
    /\ pc \notin {"resolve", "unknownEntry", "runtime"} =>
           closure["runtime"] = Least(seed["runtime"])
    /\ pc \in {"checkRuntime", "checkSysroot", "planned"} =>
           closure["sysroot"] = Least(SysrootSeed)
    /\ pc = "checkRuntime" => Checking("runtime")
    /\ pc = "checkSysroot" => Checking("sysroot")
    /\ pc \in {"checkSysroot", "planned"} => closure["runtime"] \cap Forbidden = {}
    /\ pc = "planned" => closure["sysroot"] \cap Forbidden = {}

\* The resolution ends, with a plan or with a reason.
ClosureEnds == <>(pc \in Final)
=============================================================================
