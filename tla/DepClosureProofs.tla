-------------------------- MODULE DepClosureProofs --------------------------
(***************************************************************************)
(* Proofs about DepClosure, for every index, every pair of manifests and   *)
(* every choice of excluded and forbidden packages.                        *)
(***************************************************************************)
EXTENDS DepClosure, TLAPS

\* The index is one of Indexes, and stays the one it was.
IndexInv == index \in Indexes

Inv == ClosureTypeOK /\ IndexInv /\ WorklistInv

\* A dependency group is not empty, so that it has a first alternative.
LEMMA GroupType ==
    ASSUME IndexInv, NEW p \in Available, NEW g \in index[p]
    PROVE  g \in Seq(Names) /\ g # <<>> /\ 1 \in DOMAIN g
  BY ClosureAssumption DEF IndexInv, Available

\* What is requested is available and not excluded.
LEMMA SeedKept ==
    ASSUME NEW m
    PROVE  Seed(m) \subseteq Kept
  <1>1. ASSUME NEW q \in Seed(m)
        PROVE  q \in Kept
    BY <1>1 DEF Seed, Kept
  <1>2. QED
    BY <1>1

\* What is chosen of a group is available and allowed.
LEMMA ChosenType ==
    ASSUME NEW g
    PROVE  Chosen(g) \subseteq Available \ Forbidden
  BY DEF Chosen

\* The smallest closed set has the kept packages it starts from, and is closed.
LEMMA LeastClosed ==
    ASSUME NEW from
    PROVE  /\ Least(from) \subseteq Kept
           /\ from \cap Kept \subseteq Least(from)
           /\ \A p \in Least(from) : Followed(p) \cap Kept \subseteq Least(from)
  <1>1. ASSUME NEW p \in Least(from), NEW q \in Followed(p) \cap Kept
        PROVE  q \in Least(from)
    <2>1. ASSUME NEW S \in SUBSET Kept, from \cap Kept \subseteq S, DependencyClosed(S)
          PROVE  q \in S
      BY <1>1, <2>1 DEF Least, DependencyClosed
    <2>2. QED
      BY <1>1, <2>1 DEF Least
  <1>2. QED
    BY <1>1 DEF Least

\* It is the smallest one.
LEMMA LeastMinimal ==
    ASSUME NEW from, NEW S \in SUBSET Kept, from \cap Kept \subseteq S, DependencyClosed(S)
    PROVE  Least(from) \subseteq S
  BY DEF Least

\* A closure started from fewer packages is smaller.
LEMMA LeastMonotone ==
    ASSUME NEW from, NEW more, from \subseteq more
    PROVE  Least(from) \subseteq Least(more)
  BY DEF Least

\* Every step keeps the types.
LEMMA TypeStep == Inv /\ [Next]_vars => ClosureTypeOK' /\ IndexInv'
  <1> SUFFICES ASSUME Inv, [Next]_vars
               PROVE  ClosureTypeOK' /\ IndexInv'
    OBVIOUS
  <1>1. index' = index /\ manifests' = manifests /\ IndexInv
    BY DEF Inv, Next, vars, ResolveRequests, Extend, Extended, Check, Checked
  <1> USE DEF Inv, ClosureTypeOK, IndexInv
  <1>2. CASE ResolveRequests
    <2> DEFINE first == Seed(manifests.runtime)
               second == Seed(manifests.toolchain)
    <2>1. first \subseteq DOMAIN index /\ second \subseteq DOMAIN index
      BY SeedKept DEF Kept, Available
    <2> HIDE DEF first, second
    <2>2. [runtime |-> first, toolchain |-> second]
             \in [{"runtime", "toolchain"} -> SUBSET DOMAIN index]
      BY <2>1
    <2>3. [runtime |-> first, toolchain |-> second]["runtime"] = first
      OBVIOUS
    <2>4. seed' \in [{"runtime", "toolchain"} -> SUBSET DOMAIN index] /\ queue' \subseteq DOMAIN index
      BY <1>2, <2>1, <2>2, <2>3 DEF ResolveRequests, first, second
    <2>5. pc' \in Work \cup Final /\ UNCHANGED <<index, manifests, closure, resolved, issues>>
      BY <1>2 DEF ResolveRequests, Work, Final
    <2>6. QED
      BY <2>4, <2>5
  <1>3. ASSUME NEW p \in Names, Extend(p)
        PROVE  ClosureTypeOK'
    BY <1>1, <1>3 DEF Extend, Available, Work, Final, Stages
  <1>4. CASE Extended
    BY <1>1, <1>4 DEF Extended, PolicyRequest, SysrootSeed, Work, Final, Stages
  <1>5. ASSUME NEW p \in Names, Check(p)
        PROVE  ClosureTypeOK'
    <2>1. \A g \in index[p] : Chosen(g) \subseteq DOMAIN index
      BY ChosenType DEF Available
    <2>2. QED
      <3>1. queue' \subseteq DOMAIN index /\ resolved' \subseteq DOMAIN index
        BY <1>5, <2>1 DEF Check, Available
      <3>2. issues' \in BOOLEAN
        BY <1>5 DEF Check
      <3>3. QED
        BY <1>5, <3>1, <3>2 DEF Check
  <1>6. CASE Checked
    BY <1>1, <1>6 DEF Checked, PolicyRequest, Work, Final, Stages
  <1>7. CASE UNCHANGED vars
    BY <1>1, <1>7 DEF vars
  <1>8. QED
    BY <1>1, <1>2, <1>3, <1>4, <1>5, <1>6, <1>7 DEF Next, IndexInv

\* The closures of a stage depend on nothing that changes.
LEMMA SameIndex ==
    ASSUME index' = index
    PROVE  /\ Available' = Available /\ Kept' = Kept
           /\ \A p : Followed(p)' = Followed(p)
           /\ \A from : Least(from)' = Least(from)
  BY DEF Available, Kept, Followed, Least, DependencyClosed

\* An iteration keeps the loop invariant of a closure.
LEMMA ExtendBuilding ==
    ASSUME Inv, NEW p \in Names, Extend(p), NEW from, Building(from)
    PROVE  /\ resolved' \cup queue' \subseteq Least(from)
           /\ from \subseteq resolved' \cup queue'
           /\ \A q \in resolved' : Followed(q) \cap Kept \subseteq resolved' \cup queue'
  <1>1. p \in queue /\ p \in Least(from) /\ p \in Kept
    BY LeastClosed DEF Extend, Building
  <1>2. CASE p \in resolved
    BY <1>1, <1>2 DEF Extend, Building
  <1>3. CASE p \notin resolved
    <2>1. /\ resolved' = resolved \cup {p}
          /\ queue' = (queue \ {p}) \cup
                 ((Followed(p) \cap Available) \ (resolved' \cup Excluded))
      BY <1>1, <1>3 DEF Extend, Kept
    <2>2. Followed(p) \cap Kept \subseteq Least(from)
      BY <1>1, LeastClosed
    <2>3. Followed(p) \cap Kept \subseteq resolved' \cup queue'
      BY <2>1 DEF Kept
    <2>4. resolved' \cup queue' \subseteq Least(from)
      BY <1>1, <2>1, <2>2 DEF Building, Kept
    <2>5. QED
      BY <2>1, <2>3, <2>4 DEF Building
  <1>4. QED
    BY <1>2, <1>3

\* A worklist that is empty leaves the smallest closed set.
LEMMA BuiltLeast ==
    ASSUME NEW from, from \subseteq Kept, Building(from), queue = {}
    PROVE  resolved = Least(from)
  <1>1. resolved \subseteq Least(from) /\ from \subseteq resolved
    BY DEF Building
  <1>2. resolved \subseteq Kept
    BY <1>1, LeastClosed
  <1>3. DependencyClosed(resolved)
    BY DEF Building, DependencyClosed
  <1>4. Least(from) \subseteq resolved
    BY <1>1, <1>2, <1>3, LeastMinimal
  <1>5. QED
    BY <1>1, <1>4

\* An iteration of the policy keeps its loop invariant.
LEMMA CheckChecking ==
    ASSUME Inv, NEW p \in Names, Check(p), NEW s \in Stages, Checking(s)
    PROVE  Checking(s)'
  <1>1. p \in queue /\ p \in Available /\ closure' = closure
    BY DEF Check, Inv, ClosureTypeOK, Available
  <1>2. CASE p \in resolved
    BY <1>1, <1>2 DEF Check, Checking
  <1>3. CASE p \notin resolved /\ p \in Forbidden
    BY <1>1, <1>3 DEF Check, Checking
  <1>4. CASE p \notin resolved /\ p \notin Forbidden
    <2>1. resolved' = resolved \cup {p} /\ queue \ {p} \subseteq queue'
          /\ (issues => issues')
      BY <1>1, <1>4 DEF Check
    <2>2. QED
      BY <1>1, <1>4, <2>1 DEF Checking
  <1>5. QED
    BY <1>2, <1>3, <1>4

\* Every step keeps the loop invariants.
LEMMA WorklistStep ==
    ASSUME Inv, [Next]_vars
    PROVE  WorklistInv'
  <1>1. index' = index
    BY DEF Next, vars, ResolveRequests, Extend, Extended, Check, Checked
  <1>2. WorklistInv
    BY DEF Inv
  <1>3. CASE ResolveRequests
    <2>1. CASE pc' = "unknownEntry"
      BY <1>1, <1>2, <1>3, <2>1, SameIndex DEF ResolveRequests, WorklistInv
    <2>2. CASE pc' # "unknownEntry"
      <3> DEFINE first == Seed(manifests.runtime)
                 second == Seed(manifests.toolchain)
      <3>1. first \subseteq Kept /\ second \subseteq Kept
        BY SeedKept
      <3> HIDE DEF first, second
      <3>2. [runtime |-> first, toolchain |-> second]["runtime"] = first
            /\ [runtime |-> first, toolchain |-> second]["toolchain"] = second
        OBVIOUS
      <3>3. /\ seed'["runtime"] = first /\ seed'["toolchain"] = second /\ queue' = first
            /\ pc' = "runtime" /\ resolved' = {} /\ ~issues'
        BY <1>2, <1>3, <2>2, <3>2 DEF ResolveRequests, WorklistInv, first, second
      <3>4. first \cap Kept \subseteq Least(first)
        BY LeastClosed
      <3>5. Building(seed["runtime"])'
        BY <1>1, <3>1, <3>3, <3>4, SameIndex DEF Building
      <3>6. QED
        BY <1>1, <3>1, <3>3, <3>5, SameIndex DEF WorklistInv
    <2>3. QED
      BY <2>1, <2>2
  <1>4. ASSUME NEW p \in Names, Extend(p)
        PROVE  WorklistInv'
    <2>1. UNCHANGED <<pc, seed, closure, issues>> /\ pc \in Stages
      BY <1>4 DEF Extend
    <2>2. CASE pc = "runtime"
      <3>1. Building(seed["runtime"])'
        BY <1>1, <1>2, <1>4, <2>1, <2>2, SameIndex, ExtendBuilding
           DEF WorklistInv, Building
      <3>2. QED
        BY <1>1, <1>2, <2>1, <2>2, <3>1, SameIndex DEF WorklistInv
    <2>3. CASE pc = "sysroot"
      <3>1. Building(SysrootSeed)'
        BY <1>1, <1>2, <1>4, <2>1, <2>3, SameIndex, ExtendBuilding
           DEF WorklistInv, Building, SysrootSeed
      <3>2. QED
        BY <1>1, <1>2, <2>1, <2>3, <3>1, SameIndex DEF WorklistInv
    <2>4. QED
      BY <2>1, <2>2, <2>3 DEF Stages
  <1>5. CASE Extended
    <2>1. UNCHANGED <<seed, issues>> /\ queue = {} /\ resolved' = {}
      BY <1>5 DEF Extended
    <2>2. CASE pc = "runtime"
      <3>1. closure'["runtime"] = Least(seed["runtime"])
        BY <1>2, <1>5, <2>1, <2>2, BuiltLeast
           DEF Extended, WorklistInv, Inv, ClosureTypeOK, Stages
      <3>2. pc' = "sysroot" /\ queue' = SysrootSeed
        BY <1>5, <2>2 DEF Extended
      <3>3. SysrootSeed \subseteq Kept /\ SysrootSeed' = SysrootSeed
        BY <1>2, <2>1 DEF WorklistInv, SysrootSeed
      <3>4. Building(SysrootSeed)'
        BY <1>1, <2>1, <3>2, <3>3, SameIndex, LeastClosed DEF Building
      <3>5. QED
        BY <1>1, <1>2, <2>1, <2>2, <3>1, <3>2, <3>4, SameIndex DEF WorklistInv
    <2>3. CASE pc = "sysroot"
      <3>1. SysrootSeed \subseteq Kept /\ SysrootSeed' = SysrootSeed
        BY <1>2, <2>1 DEF WorklistInv, SysrootSeed
      <3>2. /\ closure'["sysroot"] = Least(SysrootSeed)
            /\ closure'["runtime"] = closure["runtime"]
        BY <1>2, <1>5, <2>1, <2>3, <3>1, BuiltLeast
           DEF Extended, WorklistInv, Inv, ClosureTypeOK, Stages
      <3>3. pc' = "checkRuntime" /\ queue' = closure'["runtime"]
        BY <1>5, <2>3 DEF Extended, PolicyRequest
      <3>4. Checking("runtime")'
        BY <2>1, <3>3 DEF Checking
      <3>5. QED
        BY <1>1, <1>2, <2>1, <2>3, <3>1, <3>2, <3>3, <3>4, SameIndex DEF WorklistInv
    <2>4. QED
      BY <1>5, <2>2, <2>3 DEF Extended, Stages
  <1>6. ASSUME NEW p \in Names, Check(p)
        PROVE  WorklistInv'
    <2>1. UNCHANGED <<pc, seed, closure>> /\ SysrootSeed' = SysrootSeed
          /\ pc \in {"checkRuntime", "checkSysroot"}
      BY <1>6 DEF Check, SysrootSeed
    <2>2. pc = "checkRuntime" => Checking("runtime")'
      BY <1>2, <1>6, CheckChecking DEF WorklistInv, Stages
    <2>3. pc = "checkSysroot" => Checking("sysroot")'
      BY <1>2, <1>6, CheckChecking DEF WorklistInv, Stages
    <2>4. QED
      BY <1>1, <1>2, <2>1, <2>2, <2>3, SameIndex DEF WorklistInv
  <1>7. CASE Checked
    <2>1. UNCHANGED <<seed, closure, issues>> /\ queue = {} /\ resolved' = {}
          /\ SysrootSeed' = SysrootSeed
      BY <1>7 DEF Checked, SysrootSeed
    <2>2. CASE issues
      BY <1>1, <1>2, <1>7, <2>1, <2>2, SameIndex DEF Checked, WorklistInv
    <2>3. CASE ~issues /\ pc = "checkRuntime"
      <3>1. pc' = "checkSysroot" /\ queue' = closure["sysroot"]
        BY <1>7, <2>3 DEF Checked, PolicyRequest
      <3>2. closure["runtime"] \cap Forbidden = {}
        BY <1>2, <2>1, <2>3 DEF WorklistInv, Checking
      <3>3. Checking("sysroot")'
        BY <2>1, <3>1 DEF Checking
      <3>4. QED
        BY <1>1, <1>2, <2>1, <2>3, <3>1, <3>2, <3>3, SameIndex DEF WorklistInv
    <2>4. CASE ~issues /\ pc = "checkSysroot"
      <3>1. pc' = "planned"
        BY <1>7, <2>4 DEF Checked
      <3>2. closure["sysroot"] \cap Forbidden = {}
        BY <1>2, <2>1, <2>4 DEF WorklistInv, Checking
      <3>3. QED
        BY <1>1, <1>2, <2>1, <2>4, <3>1, <3>2, SameIndex DEF WorklistInv
    <2>5. QED
      BY <1>7, <2>2, <2>3, <2>4 DEF Checked
  <1>8. CASE UNCHANGED vars
    BY <1>1, <1>2, <1>8, SameIndex DEF vars, WorklistInv, Building, Checking, SysrootSeed
  <1>9. QED
    BY <1>3, <1>4, <1>5, <1>6, <1>7, <1>8 DEF Next

\* The resolution starts with nothing resolved.
LEMMA InitInv == Init => Inv
  <1> SUFFICES ASSUME Init PROVE Inv
    OBVIOUS
  <1>1. ClosureTypeOK /\ IndexInv
    BY ClosureAssumption DEF Init, ClosureTypeOK, IndexInv, Work, Final
  <1>2. seed["runtime"] = {} /\ seed["toolchain"] = {}
    BY DEF Init
  <1>3. WorklistInv
    BY <1>2 DEF Init, WorklistInv
  <1>4. QED
    BY <1>1, <1>3 DEF Inv

\* The invariant holds in every reachable state.
LEMMA AlwaysInv == Spec => []Inv
  <1>1. Inv /\ [Next]_vars => Inv'
    BY TypeStep, WorklistStep DEF Inv
  <1>2. QED
    BY <1>1, InitInv, PTL DEF Spec

\* The resolution keeps its types.
THEOREM ClosureTypeCorrect == Spec => []ClosureTypeOK
  <1>1. Inv => ClosureTypeOK
    BY DEF Inv
  <1>2. QED
    BY <1>1, AlwaysInv, PTL

\* The loop invariants hold in every state of the resolution.
THEOREM WorklistsConsistent == Spec => []WorklistInv
  <1>1. Inv => WorklistInv
    BY DEF Inv
  <1>2. QED
    BY <1>1, AlwaysInv, PTL

\* For every index and manifest, each stage gets exactly the smallest set of
\* packages that is closed under first alternatives.
THEOREM ClosureAlwaysExact == Spec => []ClosureExact
  <1>1. Inv => ClosureExact
    BY DEF Inv, WorklistInv, ClosureExact
  <1>2. QED
    BY <1>1, AlwaysInv, PTL

\* For every index and manifest, what the runtime stage has the sysroot has too.
THEOREM RuntimeAlwaysInSysroot == Spec => []RuntimeInSysroot
  <1>1. Inv => RuntimeInSysroot
    BY LeastMonotone DEF Inv, WorklistInv, RuntimeInSysroot, SysrootSeed
  <1>2. QED
    BY <1>1, AlwaysInv, PTL

\* For every index and manifest, and however alternatives are resolved, no plan
\* has a forbidden package.
THEOREM NothingForbiddenEver == Spec => []NothingForbidden
  <1>1. Inv => NothingForbidden
    BY DEF Inv, WorklistInv, NothingForbidden, ClosureTypeOK, Stages, Available
  <1>2. QED
    BY <1>1, AlwaysInv, PTL

-----------------------------------------------------------------------------
(* What ClosureEnds rests on: the passes come one after the other, and     *)
(* within a pass each iteration resolves one more package or, when it      *)
(* resolves none, takes one from the worklist.  An index is finite.        *)

Rank == [p \in Work \cup Final |->
            CASE p = "resolve"      -> 0
              [] p = "runtime"      -> 1
              [] p = "sysroot"      -> 2
              [] p = "checkRuntime" -> 3
              [] p = "checkSysroot" -> 4
              [] OTHER              -> 5]

Gain ==
    \/ Rank[pc] < Rank[pc']
    \/ /\ pc' = pc /\ resolved \subseteq resolved' /\ resolved' # resolved
    \/ /\ pc' = pc /\ resolved' = resolved /\ queue' \subseteq queue /\ queue' # queue

LEMMA RanksAre ==
    /\ Rank["resolve"] = 0 /\ Rank["runtime"] = 1 /\ Rank["sysroot"] = 2
    /\ Rank["checkRuntime"] = 3 /\ Rank["checkSysroot"] = 4
    /\ \A p \in Final : Rank[p] = 5
  BY DEF Rank, Work, Final

\* No index and no manifest, with whatever cycles among the dependencies, makes a step
\* of either worklist go back: what is resolved never leaves, and a package is expanded
\* once in each pass.
THEOREM ClosureAlwaysGains == Spec => [][Gain]_vars
  <1>1. ASSUME Next PROVE Gain
    <2>1. CASE ResolveRequests
      BY <2>1, RanksAre DEF ResolveRequests, Gain, Final
    <2>2. ASSUME NEW p \in Names, Extend(p) PROVE Gain
      BY <2>2 DEF Extend, Gain
    <2>3. ASSUME NEW p \in Names, Check(p) PROVE Gain
      BY <2>3 DEF Check, Gain
    <2>4. CASE Extended
      <3>1. \/ pc = "runtime" /\ pc' = "sysroot"
            \/ pc = "sysroot" /\ pc' = "checkRuntime"
        BY <2>4 DEF Extended, Stages
      <3>2. QED BY <3>1, RanksAre DEF Gain
    <2>5. CASE Checked
      <3>1. /\ pc \in {"checkRuntime", "checkSysroot"}
            /\ pc' \in Final \/ (pc = "checkRuntime" /\ pc' = "checkSysroot")
        BY <2>5 DEF Checked, Final
      <3>2. QED BY <3>1, RanksAre DEF Gain
    <2>6. QED BY <1>1, <2>1, <2>2, <2>3, <2>4, <2>5 DEF Next
  <1>2. [Next]_vars => [Gain]_vars
    BY <1>1
  <1>3. QED BY <1>2, PTL DEF Spec
=============================================================================
