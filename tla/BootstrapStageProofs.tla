------------------------ MODULE BootstrapStageProofs ------------------------
(***************************************************************************)
(* Proofs about BootstrapStage: types, the inductive invariant SeedingInv  *)
(* with SeededUnlessExposed, and a second invariant RunInv on top of it    *)
(* with StagesAgree, WorkIsKept and RerunOnlyVerifies.                     *)
(***************************************************************************)
EXTENDS BootstrapStage, TLAPS

(***************************************************************************)
(* The values the actions write are of the right type.                     *)
(***************************************************************************)

\* The empty plan is a plan.
LEMMA NoPlanType == NoPlan \in Plans
  BY DEF NoPlan, Plans

\* What resolution gives for a manifest and a release is one plan per stage.
LEMMA PlanOfType ==
    ASSUME NEW m \in Manifests, NEW r \in Releases
    PROVE  \A s \in Stages : PlanOf[m][r][s] \in Plans
  BY ConstantsAssumption

\* An interrupted extraction leaves a payload.
LEMMA TornType ==
    ASSUME NEW x \in Payload, NEW a \in Archives
    PROVE  Torn(x, a) \subseteq Payload
  BY DEF Torn, Payload

\* An interrupted removal leaves a payload, or nothing.
LEMMA RemnantType ==
    ASSUME NEW x \in Payload
    PROVE  Remnant(x) \subseteq Payload
  BY DEF Remnant, Payload, Nothing

\* What a plan is made of.
LEMMA PlanParts ==
    ASSUME NEW P \in Plans
    PROVE  DOMAIN P \subseteq Packages /\ \A p \in DOMAIN P : P[p] \in Archives
  BY DEF Plans

\* Nothing is a payload, and so is a wholly extracted archive.
LEMMA PayloadParts ==
    /\ Nothing \in Payload
    /\ \A a \in Archives : [arc |-> a, lvl |-> "full"] \in Payload
  BY DEF Payload, Nothing

\* What the type of the loop's variables rests on: the package at hand is wanted.
ItemInv ==
    /\ pc \in Loop \ {"saveProgress"} => pending \subseteq DOMAIN goal[cur]
    /\ pc \in {"extract", "refetch", "record"} => item \in DOMAIN goal[cur]

\* The package at hand, its archive and what is left of an extraction.
LEMMA ItemType ==
    ASSUME TypeOK, ItemInv, pc \in {"extract", "refetch", "record"}
    PROVE  /\ item \in Packages
           /\ Archive(item) \in Archives
           /\ Torn(payload[cur][item], Archive(item)) \subseteq Payload
  <1>1. item \in Packages /\ Archive(item) \in Archives
    BY PlanParts DEF TypeOK, ItemInv, Archive
  <1>2. payload[cur][item] \in Payload
    BY <1>1 DEF TypeOK
  <1>3. QED
    BY <1>1, <1>2, TornType

\* A run that ends leaves well-typed records behind.
LEMMA EndsType ==
    ASSUME TypeOK,
           NEW pay \in [Stages -> [Packages -> Payload]],
           NEW st \in [Stages -> Plans],
           Ends(pay, st),
           dir' \in [Stages -> BOOLEAN], status' \in [Stages -> Plans],
           cache' \in [Archives -> CacheStates],
           index' \in Releases \cup {0},
           manifest' \in Manifests, mirror' \in Releases, faults' \in 0..MaxFaults
    PROVE  TypeOK'
  <1>1. exposed' \in [Stages -> BOOLEAN]
    BY DEF TypeOK, Ends, Judged
  <1>2. 1 \in Stages
    BY ConstantsAssumption DEF Stages
  <1>3. [s \in Stages |-> NoPlan] \in [Stages -> Plans]
    BY NoPlanType
  <1>4. pc' \in Labels /\ cur' \in Stages /\ goal' \in [Stages -> Plans]
        /\ ready' \subseteq Stages /\ completed' \subseteq Packages
        /\ pending' \subseteq Packages /\ item' \in Packages \cup {NoPackage}
        /\ retried' \in BOOLEAN /\ refreshed' \in BOOLEAN
    BY <1>2, <1>3 DEF Ends, Forgotten, Labels
  <1>5. payload' \in [Stages -> [Packages -> Payload]] /\ stamp' \in [Stages -> Plans]
    BY DEF Ends
  <1>6. plan' \in [Stages -> Plans] /\ progress' \in [Stages -> SUBSET Packages]
    BY DEF Ends, TypeOK
  <1>7. QED
    BY <1>1, <1>4, <1>5, <1>6 DEF TypeOK

\* An exception leaves well-typed records behind.
LEMMA AbortType ==
    ASSUME TypeOK, Abort,
           cache' \in [Archives -> CacheStates],
           index' \in Releases \cup {0},
           manifest' \in Manifests, mirror' \in Releases, faults' \in 0..MaxFaults
    PROVE  TypeOK'
  BY EndsType DEF Abort, TypeOK

\* A fault leaves the environment well-typed.
LEMMA FaultType ==
    ASSUME TypeOK, Fault
    PROVE  manifest' \in Manifests /\ mirror' \in Releases /\ faults' \in 0..MaxFaults
  BY ConstantsAssumption DEF TypeOK, Fault

\* A ".part" left behind is one of the states of the download cache.
LEMMA LeftCompleteType ==
    ASSUME TypeOK, NEW a, LeftComplete(a)
    PROVE  cache' \in [Archives -> CacheStates]
  BY DEF TypeOK, LeftComplete, CacheStates

\* A failed fetch leaves well-typed records behind.
LEMMA UnfetchedType ==
    ASSUME TypeOK, NEW p, Unfetched(p),
           cache' \in [Archives -> CacheStates],
           manifest' \in Manifests, mirror' \in Releases, faults' \in 0..MaxFaults
    PROVE  TypeOK'
  <1>1. CASE Abort /\ UNCHANGED index
    BY <1>1, AbortType DEF TypeOK
  <1>2. CASE ~(Abort /\ UNCHANGED index)
    BY <1>2 DEF Unfetched, Stale, TypeOK, Labels, Judged, disk
  <1>3. QED
    BY <1>1, <1>2

\* The cursor stays on the stages, whatever the labels passed.
LEMMA NextStageType ==
    ASSUME TypeOK, NEW l \in Labels, NEW same \in Labels, NextStage(l, same)
    PROVE  cur' \in Stages /\ pc' \in Labels
  BY ConstantsAssumption DEF TypeOK, NextStage, Stages

\* A stage that was removed leaves well-typed records behind.
LEMMA EmptiedType ==
    ASSUME TypeOK, NEW s \in Stages, Emptied(s)
    PROVE  /\ dir' \in [Stages -> BOOLEAN]
           /\ payload' \in [Stages -> [Packages -> Payload]]
           /\ stamp' \in [Stages -> Plans]
           /\ status' \in [Stages -> Plans]
           /\ exposed' \in [Stages -> BOOLEAN]
  <1>1. [p \in Packages |-> Nothing] \in [Packages -> Payload]
    BY PayloadParts
  <1>2. QED
    BY <1>1, NoPlanType DEF TypeOK, Emptied

\* Every step keeps the types (one step of the proof per action).
LEMMA TypeStep ==
    ASSUME TypeOK, ItemInv, [Next]_vars
    PROVE  TypeOK'
  <1> USE DEF disk, net, local, env, ghost
  <1>1. CASE Start
    BY <1>1 DEF Start, TypeOK, Labels
  <1>2. CASE LoadIndex
    <2>1. index' \in Releases
      BY <1>2 DEF LoadIndex, TypeOK
    <2>2. CASE <<manifest, index'>> \in Rejected
      BY <1>2, <2>1, <2>2, AbortType DEF LoadIndex, TypeOK
    <2>3. CASE <<manifest, index'>> \notin Rejected
      <3>1. goal' \in [Stages -> Plans]
        BY <1>2, <2>1, <2>3, ConstantsAssumption DEF LoadIndex, TypeOK
      <3>2. 1 \in Stages
        BY ConstantsAssumption DEF Stages
      <3>3. QED
        BY <1>2, <2>1, <2>3, <3>1, <3>2 DEF LoadIndex, TypeOK, Labels
    <2>4. QED
      BY <2>2, <2>3
  <1>3. CASE IndexUnavailable
    BY <1>3, AbortType, FaultType DEF IndexUnavailable, TypeOK
  <1>4. CASE CheckNotReady
    <2>1. cur' \in Stages /\ pc' \in Labels
      BY <1>4, NextStageType DEF CheckNotReady, Labels
    <2>2. QED
      BY <1>4, <2>1 DEF CheckNotReady, TypeOK
  <1>5. CASE CheckReady
    <2>1. cur' \in Stages /\ pc' \in Labels
      BY <1>5, NextStageType DEF CheckReady, Labels
    <2>2. QED
      BY <1>5, <2>1 DEF CheckReady, TypeOK
  <1>6. CASE CheckRaises
    BY <1>6, AbortType DEF CheckRaises, TypeOK
  <1>7. CASE CheckRepair
    BY <1>7 DEF CheckRepair, TypeOK, Labels
  <1>8. CASE MarkPlan
    BY <1>8 DEF MarkPlan, TypeOK, Labels
  <1>9. CASE MarkProgress
    <2>1. cur' \in Stages /\ pc' \in Labels
      BY <1>9, NextStageType DEF MarkProgress, Labels
    <2>2. goal[cur] \in Plans
      BY DEF TypeOK
    <2>3. DOMAIN goal[cur] \subseteq Packages
      BY <2>2, PlanParts
    <2>4. progress' \in [Stages -> SUBSET Packages]
      BY <1>9, <2>3 DEF MarkProgress, TypeOK, Missing, Inspected
    <2>5. QED
      BY <1>9, <2>1, <2>4 DEF MarkProgress, TypeOK
  <1>10. CASE StageReady
    BY <1>10 DEF StageReady, TypeOK, Labels
  <1>11. CASE StageReset
    BY <1>11 DEF StageReset, TypeOK, Labels
  <1>12. CASE StageResume
    <2>1. goal[cur] \in Plans
      BY DEF TypeOK
    <2>2. DOMAIN goal[cur] \subseteq Packages
      BY <2>1, PlanParts
    <2>3. Believed(cur) \subseteq Packages
      BY <2>2 DEF Believed
    <2>4. QED
      BY <1>12, <2>3 DEF StageResume, TypeOK, Labels
  <1>13. CASE StageResumeRaises
    <2>1. dir' \in [Stages -> BOOLEAN]
      BY <1>13 DEF StageResumeRaises, TypeOK
    <2>2. QED
      BY <1>13, <2>1, EndsType DEF StageResumeRaises, TypeOK
  <1>14. CASE Wipe
    <2>1. cur \in Stages /\ Emptied(cur)
      BY <1>14 DEF Wipe, TypeOK
    <2>2. QED
      BY <1>14, <2>1, EmptiedType DEF Wipe, TypeOK, Labels
  <1>15. CASE Remake
    BY <1>15 DEF Remake, TypeOK, Labels
  <1>16. CASE ForgetPlan
    BY <1>16, NoPlanType DEF ForgetPlan, TypeOK, Labels
  <1>17. CASE ForgetProgress
    BY <1>17 DEF ForgetProgress, TypeOK, Labels
  <1>18. CASE SavePlan
    BY <1>18 DEF SavePlan, TypeOK, Labels
  <1>19. CASE SaveProgress
    <2>1. goal[cur] \in Plans
      BY DEF TypeOK
    <2>2. DOMAIN goal[cur] \subseteq Packages
      BY <2>1, PlanParts
    <2>3. QED
      BY <1>19, <2>2 DEF SaveProgress, TypeOK, Labels
  <1>20. ASSUME NEW p \in Packages, FetchCached(p) PROVE TypeOK'
    BY <1>20 DEF FetchCached, TypeOK, Labels, Fetched
  <1>21. ASSUME NEW p \in Packages, FetchDownload(p) PROVE TypeOK'
    BY <1>21 DEF FetchDownload, TypeOK, CacheStates, Labels, Fetched
  <1>22. ASSUME NEW p \in Packages, FetchTruncated(p) PROVE TypeOK'
    BY <1>22, FaultType DEF FetchTruncated, TypeOK, CacheStates, Labels, Fetched
  <1>23. ASSUME NEW p \in Packages, FetchGone(p) PROVE TypeOK'
    BY <1>23, AbortType DEF FetchGone, TypeOK, Labels, Stale, Judged
  <1>24. ASSUME NEW p \in Packages, FetchError(p) PROVE TypeOK'
    <2>1. cache' \in [Archives -> CacheStates]
      BY <1>24, LeftCompleteType DEF FetchError, TypeOK
    <2>2. QED
      BY <1>24, <2>1, UnfetchedType, FaultType DEF FetchError
  <1>25. CASE Extract
    <2>1. item \in Packages /\ [arc |-> Archive(item), lvl |-> "full"] \in Payload
      BY <1>25, ItemType, PayloadParts DEF Extract
    <2>2. QED
      BY <1>25, <2>1 DEF Extract, TypeOK, Labels
  <1>26. CASE ExtractInvalid
    <2>1. PICK x \in Torn(payload[cur][item], Archive(item)) :
             payload' = [payload EXCEPT ![cur][item] = x]
      BY <1>26 DEF ExtractInvalid
    <2>2. x \in Payload /\ item \in Packages
      BY <1>26, <2>1, ItemType DEF ExtractInvalid
    <2>3. QED
      BY <1>26, <2>1, <2>2 DEF ExtractInvalid, TypeOK, CacheStates, Labels
  <1>27. CASE ExtractInvalidAgain
    <2>1. PICK x \in Torn(payload[cur][item], Archive(item)) :
             Ends([payload EXCEPT ![cur][item] = x], stamp)
      BY <1>27 DEF ExtractInvalidAgain
    <2>2. x \in Payload /\ item \in Packages
      BY <1>27, <2>1, ItemType DEF ExtractInvalidAgain
    <2>3. [payload EXCEPT ![cur][item] = x] \in [Stages -> [Packages -> Payload]]
      BY <2>2 DEF TypeOK
    <2>4. QED
      BY <1>27, <2>1, <2>3, EndsType DEF ExtractInvalidAgain, TypeOK
  <1>28. CASE Refetch
    BY <1>28, FaultType DEF Refetch, TypeOK, CacheStates, Labels
  <1>29. CASE RefetchFails
    <2>1. cache' \in [Archives -> CacheStates]
      BY <1>29, LeftCompleteType DEF RefetchFails, TypeOK
    <2>2. QED
      BY <1>29, <2>1, AbortType, FaultType DEF RefetchFails, TypeOK
  <1>30. CASE Record
    <2>1. item \in Packages
      BY <1>30, ItemType DEF Record
    <2>2. QED
      BY <1>30, <2>1 DEF Record, TypeOK, Labels
  <1>31. CASE LoopDone
    BY <1>31 DEF LoopDone, TypeOK, Labels
  <1>32. CASE Prune
    <2>1. [p \in Packages |-> IF p \in Pruned THEN Nothing ELSE payload[cur][p]]
             \in [Packages -> Payload]
      BY PayloadParts DEF TypeOK
    <2>2. QED
      BY <1>32, <2>1 DEF Prune, TypeOK, Labels
  <1>33. CASE Populate
    <2>1. cur' \in Stages /\ pc' \in Labels
      BY <1>33, NextStageType DEF Populate, Labels, TypeOK
    <2>2. QED
      BY <1>33, <2>1 DEF Populate, TypeOK
  <1>34. CASE Stamp
    <2>1. cur' \in Stages /\ pc' \in Labels
      BY <1>34, NextStageType DEF Stamp, Labels, TypeOK
    <2>2. QED
      BY <1>34, <2>1 DEF Stamp, TypeOK
  <1>35. CASE Leave
    BY <1>35, AbortType DEF Leave, TypeOK
  <1>36. CASE CleanStage
    <2>1. cur' \in Stages /\ pc' \in Labels
      BY <1>36, NextStageType DEF CleanStage, Labels
    <2>2. cur \in Stages /\ Emptied(cur)
      BY <1>36 DEF CleanStage, TypeOK
    <2>3. QED
      BY <1>36, <2>1, <2>2, EmptiedType DEF CleanStage, TypeOK
  <1>37. CASE CleanOutput
    BY <1>37, NoPlanType DEF CleanOutput, TypeOK, Labels
  <1>38. CASE CrashBetween
    BY <1>38, AbortType, FaultType DEF CrashBetween, TypeOK
  <1>49. CASE CrashFetching
    <2>1. cache' \in [Archives -> CacheStates]
      BY <1>49, LeftCompleteType DEF CrashFetching, TypeOK
    <2>2. QED
      BY <1>49, <2>1, AbortType, FaultType DEF CrashFetching, TypeOK
  <1>50. ASSUME NEW p \in Packages, FetchRefused(p) PROVE TypeOK'
    BY <1>50, UnfetchedType DEF FetchRefused, TypeOK
  <1>39. CASE CrashExtracting
    <2>1. PICK x \in Torn(payload[cur][item], Archive(item)) :
             Ends([payload EXCEPT ![cur][item] = x], stamp)
      BY <1>39 DEF CrashExtracting
    <2>2. x \in Payload /\ item \in Packages
      BY <1>39, <2>1, ItemType DEF CrashExtracting
    <2>3. [payload EXCEPT ![cur][item] = x] \in [Stages -> [Packages -> Payload]]
      BY <2>2 DEF TypeOK
    <2>4. QED
      BY <1>39, <2>1, <2>3, EndsType, FaultType DEF CrashExtracting, TypeOK
  <1>40. CASE CrashRemoving
    <2>1. PICK left \in [Packages -> UNION {Remnant(payload[cur][p]) : p \in Packages}],
                st \in {stamp[cur], NoPlan} :
             /\ \A p \in Packages : left[p] \in Remnant(payload[cur][p])
             /\ Ends([payload EXCEPT ![cur] = left], [stamp EXCEPT ![cur] = st])
      BY <1>40 DEF CrashRemoving
    <2>2. \A p \in Packages : left[p] \in Payload
      BY <2>1, RemnantType DEF TypeOK
    <2>3. left \in [Packages -> Payload]
      BY <2>1, <2>2
    <2>4. [payload EXCEPT ![cur] = left] \in [Stages -> [Packages -> Payload]]
      BY <2>3 DEF TypeOK
    <2>5. [stamp EXCEPT ![cur] = st] \in [Stages -> Plans]
      BY <2>1, NoPlanType DEF TypeOK
    <2>6. status' \in [Stages -> Plans]
      BY <1>40, NoPlanType DEF CrashRemoving, TypeOK
    <2>7. QED
      BY <1>40, <2>1, <2>4, <2>5, <2>6, EndsType, FaultType DEF CrashRemoving, TypeOK
  <1>41. CASE CrashWriting
    <2>1. status' \in [Stages -> Plans] /\ [stamp EXCEPT ![cur] = NoPlan] \in [Stages -> Plans]
      BY <1>41, NoPlanType DEF CrashWriting, TypeOK
    <2>2. CASE pc = "populate"
      BY <1>41, <2>1, <2>2, EndsType, FaultType DEF CrashWriting, TypeOK
    <2>3. CASE pc = "stamp"
      BY <1>41, <2>1, <2>3, EndsType, FaultType DEF CrashWriting, TypeOK
    <2>4. QED
      BY <1>41, <2>2, <2>3 DEF CrashWriting
  <1>42. CASE CleanStart
    BY <1>42, FaultType DEF CleanStart, TypeOK, Labels
  <1>43. CASE EditManifest
    BY <1>43, ConstantsAssumption DEF EditManifest, TypeOK, Labels
  <1>44. CASE MirrorMoves
    <2>1. mirror' \in Releases /\ faults' \in 0..MaxFaults
      BY <1>44, ConstantsAssumption DEF MirrorMoves, TypeOK, Releases
    <2>2. QED
      BY <1>44, <2>1 DEF MirrorMoves, TypeOK
  <1>45. CASE CleanCache
    BY <1>45, FaultType DEF CleanCache, TypeOK, CacheStates, Labels
  <1>46. ASSUME NEW s \in Stages, NEW p \in Packages, LosePayload(s, p) PROVE TypeOK'
    BY <1>46, FaultType, PayloadParts DEF LosePayload, TypeOK
  <1>47. CASE UNCHANGED vars
    BY <1>47 DEF vars, TypeOK
  <1>48. QED
    BY <1>1, <1>2, <1>3, <1>4, <1>5, <1>6, <1>7, <1>8, <1>9, <1>10,
       <1>11, <1>12, <1>13, <1>14, <1>15, <1>16, <1>17, <1>18, <1>19, <1>20,
       <1>21, <1>22, <1>23, <1>24, <1>25, <1>26, <1>27, <1>28, <1>29, <1>30,
       <1>31, <1>32, <1>33, <1>34, <1>35, <1>36, <1>37, <1>38, <1>39, <1>40,
       <1>41, <1>42, <1>43, <1>44, <1>45, <1>46, <1>47, <1>49, <1>50
       DEF Next, Builder, Disturbance, Fetching

(***************************************************************************)
(* The inductive invariant.  Each conjunct has a lemma saying that a step  *)
(* keeps it; its last step says which actions could disturb it at all.     *)
(***************************************************************************)

\* Wanting more never takes back what an older plan wanted.
LEMMA ExtendsTransitive ==
    ASSUME NEW P, NEW Q, NEW R, Extends(P, Q), Extends(Q, R)
    PROVE  Extends(P, R)
  BY DEF Extends

\* Any plan extends itself and the empty one.
LEMMA ExtendsTrivially ==
    ASSUME NEW P
    PROVE  Extends(P, P) /\ Extends(P, NoPlan)
  BY DEF Extends, NoPlan

\* A step that touches neither the plans nor the stamps.
StampFrame == UNCHANGED <<plan, stamp>>

\* A step that leaves the plan, the stamp and the stage of every package alone keeps
\* the stamp within the plan.
LEMMA StampFrames ==
    ASSUME TypeOK, Next
    PROVE  StampFrame \/ MarkPlan \/ Wipe \/ ForgetPlan \/ SavePlan \/ Stamp
           \/ CrashRemoving \/ CrashWriting \/ CleanStage \/ CleanOutput
  BY ZenonT(60) DEF StampFrame, Next, Builder, Disturbance, Fetching, disk, net, local,
         env, ghost, Start, LoadIndex, IndexUnavailable, CheckNotReady, CheckReady,
         CheckRaises, CheckRepair, MarkProgress, StageReady, StageReset, StageResume,
         StageResumeRaises, Remake, ForgetProgress, SaveProgress, FetchCached,
         FetchDownload, FetchTruncated, FetchGone, FetchRefused, Unfetched, FetchError,
         Extract, ExtractInvalid, ExtractInvalidAgain, Refetch, RefetchFails, Record,
         LoopDone, Prune, Populate, Leave, CrashBetween, CrashFetching, CrashExtracting,
         CleanStart, EditManifest, MirrorMoves, CleanCache, LosePayload, Abort, Ends,
         Stale, Fetched

\* Every step keeps the stamp within the plan (save_bootstrap_stage_progress, rmtree
\* and the write of .bootstrap-complete are the only ones that touch either).
LEMMA StampStep ==
    ASSUME TypeOK, SeedingInv, Next
    PROVE  StampInv'
  <1> USE DEF TypeOK, SeedingInv, StampInv, StampFrame
  <1>1. CASE StampFrame
    BY <1>1
  <1>2. CASE MarkPlan
    BY <1>2, ExtendsTrivially DEF MarkPlan, RepairInv
  <1>3. CASE Wipe
    BY <1>3, ExtendsTrivially DEF Wipe, Emptied
  <1>4. CASE ForgetPlan
    BY <1>4, ExtendsTrivially DEF ForgetPlan, DirInv
  <1>5. CASE SavePlan
    BY <1>5 DEF SavePlan, LoopInv
  <1>6. CASE Stamp
    BY <1>6, ExtendsTrivially DEF Stamp, ControlInv, Closing
  <1>7. CASE CrashRemoving
    BY <1>7, ExtendsTrivially DEF CrashRemoving, Ends
  <1>8. CASE CrashWriting
    BY <1>8, ExtendsTrivially DEF CrashWriting, Ends
  <1>9. CASE CleanStage
    BY <1>9, ExtendsTrivially DEF CleanStage, Emptied
  <1>10. CASE CleanOutput
    BY <1>10, ExtendsTrivially DEF CleanOutput, DirInv, ControlInv
  <1>11. QED
    BY <1>1, <1>2, <1>3, <1>4, <1>5, <1>6, <1>7, <1>8, <1>9, <1>10, StampFrames

\* A step that neither touches a directory and what is in it nor starts a reset.
DirFrame ==
    /\ UNCHANGED <<dir, payload, stamp>>
    /\ \/ pc' \notin {"remake", "forgetPlan", "forgetProgress"}
       \/ UNCHANGED <<pc, cur>>

\* A step that changes no stage directory keeps what an absent directory implies.
LEMMA DirFrames ==
    ASSUME TypeOK, Next
    PROVE  DirFrame \/ StageResume \/ StageResumeRaises \/ Wipe \/ Remake \/ ForgetPlan
           \/ Extract \/ ExtractInvalid \/ ExtractInvalidAgain \/ Prune \/ Stamp
           \/ CrashExtracting \/ CrashRemoving \/ CrashWriting \/ CleanStage
           \/ \E s \in Stages, p \in Packages : LosePayload(s, p)
  BY ZenonT(60) DEF DirFrame, Next, Builder, Disturbance, Fetching, disk, net, local, env,
         ghost, Start, LoadIndex, IndexUnavailable, CheckNotReady, CheckReady, CheckRaises,
         CheckRepair, MarkPlan, MarkProgress, StageReady, StageReset, ForgetProgress,
         SavePlan, SaveProgress, FetchCached, FetchDownload, FetchTruncated, FetchGone,
         FetchRefused, Unfetched, FetchError, Refetch, RefetchFails, Record, LoopDone,
         Populate, Leave, CrashBetween, CrashFetching, CleanStart, CleanOutput,
         EditManifest, MirrorMoves, CleanCache, Abort, Ends, Stale, Fetched, NextStage

\* An interrupted removal of nothing leaves nothing.
LEMMA RemnantOfNothing == Remnant(Nothing) = {Nothing}
  BY DEF Remnant

\* Every step keeps an absent or just remade stage free of payload and stamp.
LEMMA DirStep ==
    ASSUME TypeOK, SeedingInv, Next
    PROVE  DirInv'
  <1> USE DEF TypeOK, SeedingInv, DirInv
  <1>1. CASE DirFrame
    BY <1>1 DEF DirFrame
  <1>2. CASE StageResume
    BY <1>2 DEF StageResume, disk
  <1>3. CASE StageResumeRaises
    BY <1>3 DEF StageResumeRaises, Ends
  <1>4. CASE Wipe
    BY <1>4 DEF Wipe, Emptied, local
  <1>5. CASE Remake
    BY <1>5 DEF Remake, local
  <1>6. CASE ForgetPlan
    BY <1>6 DEF ForgetPlan, local
  <1>7. CASE Extract
    BY <1>7 DEF Extract, local, ControlInv, Loop, Reseed
  <1>8. CASE ExtractInvalid
    BY <1>8 DEF ExtractInvalid, local, ControlInv, Loop, Reseed
  <1>9. CASE ExtractInvalidAgain
    BY <1>9 DEF ExtractInvalidAgain, Ends, ControlInv, Loop, Reseed
  <1>10. CASE Prune
    BY <1>10 DEF Prune, local
  <1>11. CASE Stamp
    BY <1>11 DEF Stamp, NextStage, ControlInv, Closing
  <1>12. CASE CrashExtracting
    BY <1>12 DEF CrashExtracting, Ends, ControlInv, Loop, Reseed
  <1>13. CASE CrashRemoving
    BY <1>13, RemnantOfNothing DEF CrashRemoving, Ends
  <1>14. CASE CrashWriting
    BY <1>14 DEF CrashWriting, Ends
  <1>15. CASE CleanStage
    BY <1>15 DEF CleanStage, Emptied, NextStage
  <1>16. CASE \E s \in Stages, p \in Packages : LosePayload(s, p)
    BY <1>16 DEF LosePayload, local
  <1>17. QED
    BY <1>1, <1>2, <1>3, <1>4, <1>5, <1>6, <1>7, <1>8, <1>9, <1>10, <1>11, <1>12,
       <1>13, <1>14, <1>15, <1>16, DirFrames

\* A step after which the run is not in the package loop, or one that the
\* loop's variables do not notice.
LoopFrame ==
    \/ pc' \notin {"savePlan"} \cup Loop
    \/ UNCHANGED <<dir, payload, plan, progress, stamp, exposed, pc, cur, goal, ready,
                   completed, pending, item>>

\* A step that leaves the loop's variables alone keeps what the run believes true.
LEMMA LoopFrames ==
    ASSUME TypeOK, Next
    PROVE  LoopFrame \/ StageResume \/ ForgetProgress \/ SavePlan \/ SaveProgress
           \/ (\E p \in Packages : FetchCached(p) \/ FetchDownload(p) \/ FetchTruncated(p))
           \/ Extract \/ ExtractInvalid \/ Refetch \/ Record
  BY ZenonT(60) DEF LoopFrame, Loop, Next, Builder, Disturbance, Fetching, disk, net,
         local, env, ghost, Start, LoadIndex, IndexUnavailable, CheckNotReady, CheckReady,
         CheckRaises, CheckRepair, MarkPlan, MarkProgress, StageReady, StageReset,
         StageResumeRaises, Wipe, Remake, ForgetPlan, FetchGone, FetchRefused, Unfetched,
         FetchError, ExtractInvalidAgain, RefetchFails, LoopDone, Prune, Populate, Stamp,
         Leave, CrashBetween, CrashFetching, CrashExtracting, CrashRemoving, CrashWriting,
         CleanStart, CleanStage, CleanOutput, EditManifest, MirrorMoves, CleanCache,
         LosePayload, Abort, Ends, Stale, NextStage

\* A run that resumes a stage believes only what is whole.
LEMMA BelievedIsWhole ==
    ASSUME TypeOK, SeedingInv, pc = "stage", ~NeedsReset(cur), ~exposed[cur],
           NEW p \in Inspected(Believed(cur)), Seen(cur, p)
    PROVE  Whole(payload[cur][p], goal[cur][p])
  <1>1. cur \in Stages /\ p \in Packages \ Excluded
    BY PlanParts DEF TypeOK, Inspected, Believed
  <1>2. ~Vouching(payload[cur], plan[cur], progress[cur], stamp[cur])
    BY <1>1 DEF SeedingInv, RecordsInv, Mending, Loop
  <1>3. dir[cur]
    BY <1>1 DEF SeedingInv, DirInv, Seen, Nothing
  <1>4. Extends(goal[cur], plan[cur])
    BY <1>3 DEF NeedsReset, Transition
  <1>5. p \in DOMAIN plan[cur] /\ Whole(payload[cur][p], plan[cur][p])
    BY <1>1, <1>2, <1>3 DEF Vouching, Seen, Believed, Inspected
  <1>6. QED
    BY <1>4, <1>5 DEF Extends

\* What StageResume takes from the disk satisfies the invariant of the loop.
LEMMA ResumeLoop ==
    ASSUME TypeOK, SeedingInv, StageResume
    PROVE  LoopInv'
  <1>1. cur \in Stages /\ pc = "stage" /\ ~NeedsReset(cur)
    BY DEF StageResume, TypeOK
  <1>2. Extends(goal[cur], stamp[cur])
    <2>1. CASE dir[cur]
      BY <1>1, <2>1, ExtendsTransitive DEF NeedsReset, Transition, SeedingInv, StampInv
    <2>2. CASE ~dir[cur]
      BY <1>1, <2>2, ExtendsTrivially DEF SeedingInv, DirInv
    <2>3. QED
      BY <2>1, <2>2
  <1>3. completed' \subseteq DOMAIN goal[cur]
    BY DEF StageResume, Believed
  <1>4. ASSUME ~exposed[cur], NEW p \in Inspected(completed')
        PROVE  Whole(payload[cur][p], goal[cur][p])
    <2>1. p \in Inspected(Believed(cur)) /\ Seen(cur, p)
      BY <1>4 DEF StageResume, Missing, Inspected
    <2>2. QED
      BY <1>1, <1>4, <2>1, BelievedIsWhole
  <1>5. QED
    BY <1>2, <1>3, <1>4 DEF StageResume, LoopInv, Loop, Inspected, ghost, disk

\* Every step keeps the invariant of bootstrap_debian_stage's package loop.
LEMMA LoopStep ==
    ASSUME TypeOK, SeedingInv, Next
    PROVE  LoopInv'
  <1> USE DEF TypeOK, SeedingInv, LoopInv, Loop, Inspected
  <1>1. CASE LoopFrame
    BY <1>1 DEF LoopFrame, Whole
  <1>2. CASE StageResume
    BY <1>2, ResumeLoop
  <1>3. CASE ForgetProgress
    BY <1>3, ExtendsTrivially DEF ForgetProgress, DirInv, ghost
  <1>4. CASE SavePlan
    BY <1>4 DEF SavePlan, local, ghost
  <1>5. CASE SaveProgress
    BY <1>5 DEF SaveProgress, ghost
  <1>6. CASE \E p \in Packages : FetchCached(p) \/ FetchDownload(p) \/ FetchTruncated(p)
    BY <1>6 DEF FetchCached, FetchDownload, FetchTruncated, Fetched, disk, ghost, Whole
  <1>7. CASE Extract
    BY <1>7 DEF Extract, local, ghost, Whole, Archive
  <1>8. CASE ExtractInvalid
    BY <1>8 DEF ExtractInvalid, local, ghost, Whole
  <1>9. CASE Refetch
    BY <1>9 DEF Refetch, disk, ghost, Whole
  <1>10. CASE Record
    BY <1>10 DEF Record, Whole
  <1>11. QED
    BY <1>1, <1>2, <1>3, <1>4, <1>5, <1>6, <1>7, <1>8, <1>9, <1>10, LoopFrames

\* Every step keeps a repair tied to a stamp that names the wanted plan.
LEMMA RepairStep ==
    ASSUME TypeOK, SeedingInv, Next
    PROVE  RepairInv'
  <1> USE DEF TypeOK, SeedingInv, RepairInv
  <1>1. CASE /\ UNCHANGED <<payload, plan, stamp, exposed, pc, cur, goal>>
             /\ UNCHANGED disk
    BY <1>1 DEF Inspected, Seen, Whole
  <1>2. CASE CheckRepair
    BY <1>2 DEF CheckRepair, StampCurrent, disk, local
  <1>3. CASE MarkPlan
    <2>1. ASSUME ~exposed[cur], NEW p \in Inspected(DOMAIN goal[cur]), Seen(cur, p)
          PROVE  Whole(payload[cur][p], goal[cur][p])
      <3>1. p \in Packages \ Excluded
        BY <2>1, PlanParts DEF Inspected
      <3>2. ~Vouching(payload[cur], plan[cur], progress[cur], stamp[cur])
        BY <1>3, <2>1 DEF MarkPlan, RecordsInv, Mending, Loop
      <3>3. stamp[cur] = goal[cur]
        BY <1>3 DEF MarkPlan
      <3>4. QED
        BY <2>1, <3>1, <3>2, <3>3 DEF Vouching, Seen, Inspected
    <2>2. QED
      BY <1>3, <2>1 DEF MarkPlan, local, ghost, Inspected, Seen
  <1>4. CASE pc' \notin {"markPlan", "markProgress"}
    BY <1>4
  <1>5. QED
    BY <1>1, <1>2, <1>3, <1>4
    DEF Next, Builder, Disturbance, Fetching, disk, net, local, env, ghost,
        Start, LoadIndex, IndexUnavailable, CheckNotReady, CheckReady, CheckRaises,
        MarkProgress, StageReady, StageReset, StageResume, StageResumeRaises, Wipe,
        Remake, ForgetPlan, ForgetProgress, SavePlan, SaveProgress, FetchCached,
        FetchDownload, FetchTruncated, FetchGone, FetchRefused, Unfetched, FetchError,
        Extract, ExtractInvalid, ExtractInvalidAgain, Refetch, RefetchFails, Record,
        LoopDone, Prune, Populate, Stamp, Leave, CrashBetween, CrashFetching,
        CrashExtracting, CrashRemoving, CrashWriting, CleanStart, CleanStage, CleanOutput,
        EditManifest, MirrorMoves, CleanCache, LosePayload, Abort, Ends, Forgotten, Stale,
        Fetched, NextStage

\* A step that ends the run, or one after which it waits for the index.
ControlFrame ==
    \/ pc' = "idle" /\ cur' = 1 /\ ready' = {}
    \/ pc' \in {"load", "check", "markPlan", "markProgress", "stage", "done"}
    \/ UNCHANGED <<dir, plan, pc, cur, goal, ready>>

\* A step that leaves the stages and the control variables alone keeps ControlInv.
LEMMA ControlFrames ==
    ASSUME TypeOK, SeedingInv, Next
    PROVE  ControlFrame \/ StageReady \/ StageReset \/ StageResume \/ Wipe \/ Remake
           \/ ForgetPlan \/ ForgetProgress \/ SavePlan \/ SaveProgress
           \/ (\E p \in Packages : FetchCached(p) \/ FetchDownload(p) \/ FetchTruncated(p))
           \/ Extract \/ ExtractInvalid \/ Refetch \/ Record \/ LoopDone \/ Prune
           \/ Populate \/ CleanStart \/ CleanStage
  BY ZenonT(60) DEF ControlFrame, SeedingInv, ControlInv, Next, Builder, Disturbance,
         Fetching, disk, net, local, env, ghost, Start, LoadIndex, IndexUnavailable,
         CheckNotReady, CheckReady, CheckRaises, CheckRepair, MarkPlan, MarkProgress,
         StageResumeRaises, FetchGone, FetchRefused, Unfetched, FetchError,
         ExtractInvalidAgain, RefetchFails, Stamp, Leave, CrashBetween, CrashFetching,
         CrashExtracting, CrashRemoving, CrashWriting, CleanOutput, EditManifest,
         MirrorMoves, CleanCache, LosePayload, Abort, Ends, Forgotten, Stale, NextStage

\* Every step keeps what the process's position says of the stages.
LEMMA ControlStep ==
    ASSUME TypeOK, SeedingInv, Next
    PROVE  ControlInv'
  <1> USE DEF TypeOK, SeedingInv, ControlInv, Reseed, Loop, Closing, disk, local
  <1>1. CASE ControlFrame
    BY <1>1 DEF ControlFrame
  <1>2. CASE StageReady \/ StageReset \/ StageResume
    BY <1>2 DEF StageReady, StageReset, StageResume
  <1>3. CASE Wipe \/ Remake \/ ForgetPlan \/ ForgetProgress
    BY <1>3 DEF Wipe, Remake, ForgetPlan, ForgetProgress
  <1>4. CASE SavePlan \/ SaveProgress
    BY <1>4 DEF SavePlan, SaveProgress
  <1>5. CASE \E p \in Packages : FetchCached(p) \/ FetchDownload(p) \/ FetchTruncated(p)
    BY <1>5 DEF FetchCached, FetchDownload, FetchTruncated, Fetched
  <1>6. CASE Extract \/ ExtractInvalid \/ Refetch \/ Record \/ LoopDone
    BY <1>6 DEF Extract, ExtractInvalid, Refetch, Record, LoopDone
  <1>7. CASE Prune \/ Populate
    BY <1>7 DEF Prune, Populate, NextStage
  <1>8. CASE CleanStart
    BY <1>8, ConstantsAssumption DEF CleanStart, Stages
  <1>9. CASE CleanStage
    BY <1>9, ConstantsAssumption DEF CleanStage, Emptied, NextStage, Stages
  <1>10. QED
    BY <1>1, <1>2, <1>3, <1>4, <1>5, <1>6, <1>7, <1>8, <1>9, ControlFrames

\* A step that leaves the records alone, or one at whose end they are judged.
RecordsFrame ==
    /\ UNCHANGED <<plan, progress>>
    /\ \/ Judged(payload', stamp')
       \/ /\ UNCHANGED <<payload, stamp, exposed>>
          /\ \A s \in Stages : Mending(s) => Mending(s)'

\* A step that touches no record and no payload keeps the records truthful.
LEMMA RecordsFrames ==
    ASSUME TypeOK, Next
    PROVE  RecordsFrame \/ MarkPlan \/ MarkProgress \/ Wipe \/ ForgetPlan
           \/ ForgetProgress \/ SavePlan \/ SaveProgress \/ Extract \/ ExtractInvalid
           \/ Record \/ LoopDone \/ Prune \/ Stamp \/ CleanStage \/ CleanOutput
           \/ \E s \in Stages, p \in Packages : LosePayload(s, p)
  BY ZenonT(60) DEF RecordsFrame, Mending, Loop, Next, Builder, Disturbance, Fetching,
         disk, net, local, env, ghost, Start, LoadIndex, IndexUnavailable, CheckNotReady,
         CheckReady, CheckRaises, CheckRepair, StageReady, StageReset, StageResume,
         StageResumeRaises, Remake, FetchCached, FetchDownload, FetchTruncated,
         FetchGone, FetchRefused, Unfetched, FetchError, ExtractInvalidAgain, Refetch,
         RefetchFails, Populate, Leave, CrashBetween, CrashFetching, CrashExtracting,
         CrashRemoving, CrashWriting, CleanStart, EditManifest, MirrorMoves, CleanCache,
         Abort, Ends, Stale, Fetched, NextStage

\* Where there is nothing, no record vouches for anything.
LEMMA NothingVouched ==
    ASSUME NEW pay, NEW P, NEW done, NEW st,
           \A p \in Packages \ Excluded : pay[p] = Nothing
    PROVE  ~Vouching(pay, P, done, st)
  BY DEF Vouching, Nothing

\* Where all that looks extracted is whole, neither does one.
LEMMA WholeVouched ==
    ASSUME NEW pay, NEW P, NEW done, NEW st,
           done \subseteq DOMAIN P, Extends(P, st),
           \A p \in DOMAIN P \ Excluded :
               pay[p].lvl \in {"visible", "full"} => Whole(pay[p], P[p])
    PROVE  ~Vouching(pay, P, done, st)
  BY DEF Vouching, Extends

\* Every step keeps the records of unexposed stages truthful, extraction, repair and
\* interrupted steps included.
LEMMA RecordsStep ==
    ASSUME TypeOK, SeedingInv, Next
    PROVE  RecordsInv'
  <1> SUFFICES ASSUME NEW s \in Stages, ~Mending(s)', ~exposed'[s]
               PROVE  ~Vouching(payload'[s], plan'[s], progress'[s], stamp'[s])
    BY DEF RecordsInv
  <1> USE DEF TypeOK, SeedingInv, RecordsInv
  <1>1. CASE RecordsFrame
    BY <1>1 DEF RecordsFrame, Judged
  <1>2. CASE MarkPlan
    BY <1>2 DEF MarkPlan, Mending, Loop, local, ghost
  <1>3. CASE MarkProgress
    <2>1. CASE s = cur
      <3>1. progress'[s] \subseteq DOMAIN plan'[s] /\ Extends(plan'[s], stamp'[s])
        BY <1>3, <2>1, ExtendsTrivially DEF MarkProgress, RepairInv
      <3>2. \A p \in DOMAIN plan'[s] \ Excluded :
               payload'[s][p].lvl \in {"visible", "full"} => Whole(payload'[s][p], plan'[s][p])
        BY <1>3, <2>1 DEF MarkProgress, RepairInv, Inspected, Seen
      <3>3. QED
        BY <3>1, <3>2, WholeVouched
    <2>2. CASE s # cur
      BY <1>3, <2>2 DEF MarkProgress, Mending
    <2>3. QED
      BY <2>1, <2>2
  <1>4. CASE Wipe
    BY <1>4, NothingVouched DEF Wipe, Emptied, Mending, Loop
  <1>5. CASE ForgetPlan \/ ForgetProgress
    BY <1>5, NothingVouched DEF ForgetPlan, ForgetProgress, DirInv, Mending, Loop, ghost,
       local
  <1>6. CASE SavePlan \/ SaveProgress
    BY <1>6 DEF SavePlan, SaveProgress, Mending, Loop, ghost, local
  <1>7. CASE Extract \/ ExtractInvalid \/ Record
    BY <1>7 DEF Extract, ExtractInvalid, Record, Mending, Loop, ghost, local
  <1>8. CASE LoopDone
    <2>1. CASE s = cur
      <3>1. progress'[s] \subseteq DOMAIN plan'[s] /\ Extends(plan'[s], stamp'[s])
        BY <1>8, <2>1 DEF LoopDone, LoopInv, ControlInv, Loop, Reseed
      <3>2. \A p \in DOMAIN plan'[s] \ Excluded : Whole(payload'[s][p], plan'[s][p])
        BY <1>8, <2>1 DEF LoopDone, LoopInv, ControlInv, Loop, Reseed, Inspected, ghost
      <3>3. QED
        BY <3>1, <3>2, WholeVouched
    <2>2. CASE s # cur
      BY <1>8, <2>2 DEF LoopDone, Mending, ghost
    <2>3. QED
      BY <2>1, <2>2
  <1>9. CASE Prune
    BY <1>9, ConstantsAssumption DEF Prune, Vouching, Mending, Loop, ghost, local
  <1>10. CASE Stamp
    <2>1. CASE s = cur
      <3>1. plan'[s] = goal[s] /\ stamp'[s] = goal[s]
        BY <1>10, <2>1 DEF Stamp, ControlInv, Closing
      <3>2. Seeded(s)
        BY <1>10, <2>1 DEF Stamp, FinishedInv, Finished, Closing, ghost
      <3>3. QED
        BY <1>10, <2>1, <3>1, <3>2 DEF Stamp, Vouching, Mending, Loop, Seeded, Inspected,
           ghost
    <2>2. CASE s # cur
      BY <1>10, <2>2 DEF Stamp, Mending, Loop, ghost
    <2>3. QED
      BY <2>1, <2>2
  <1>11. CASE CleanStage
    BY <1>11, NothingVouched DEF CleanStage, Emptied, Mending, Loop
  <1>12. CASE CleanOutput
    BY <1>12, NothingVouched DEF CleanOutput, ControlInv, DirInv
  <1>13. CASE \E t \in Stages, p \in Packages : LosePayload(t, p)
    <2>1. PICK t \in Stages, p \in Packages : LosePayload(t, p)
      BY <1>13
    <2>2. \A q \in Packages : payload'[s][q] \in {payload[s][q], Nothing}
      BY <2>1 DEF LosePayload
    <2>3. ~Vouching(payload[s], plan[s], progress[s], stamp[s])
      BY <2>1 DEF LosePayload, Mending, Loop, ghost
    <2>4. QED
      BY <2>1, <2>2, <2>3 DEF LosePayload, Vouching, Nothing
  <1>14. QED
    BY <1>1, <1>2, <1>3, <1>4, <1>5, <1>6, <1>7, <1>8, <1>9, <1>10, <1>11, <1>12,
       <1>13, RecordsFrames

\* A step that finishes no further stage and disturbs none that is finished.
FinishedFrame ==
    \/ \A s \in Stages : ~Finished(s)'
    \/ /\ UNCHANGED <<payload, goal>>
       /\ \A s \in Stages : (Finished(s)' => Finished(s)) /\ (exposed[s] => exposed'[s])

\* A run that has just ended, or just loaded an index, is through with nothing.
LEMMA NothingFinished ==
    ASSUME TypeOK, cur' = 1, ready' = {}, pc' \in {"idle", "check", "clean", "cleanOutput"}
    PROVE  \A s \in Stages : ~Finished(s)'
  BY DEF Finished, Reseed, Loop, Closing

\* A process that has ended is through with no stage.
LEMMA EndsFinished ==
    ASSUME TypeOK, NEW pay, NEW st, Ends(pay, st)
    PROVE  \A s \in Stages : ~Finished(s)'
  BY NothingFinished DEF Ends, Forgotten

\* After a refresh of the index only the stages found ready count as finished.
LEMMA StaleFinished ==
    ASSUME TypeOK, Stale
    PROVE  FinishedFrame
  <1>1. CASE refreshed
    BY <1>1, EndsFinished DEF Stale, Abort, FinishedFrame
  <1>2. CASE ~refreshed
    BY <1>2 DEF Stale, FinishedFrame, Finished, Reseed, Loop, Closing, Judged, TypeOK, disk
  <1>3. QED
    BY <1>1, <1>2

\* Moving on to the next stage finishes at most the one left behind.
LEMMA NextStageFinished ==
    ASSUME TypeOK, SeedingInv, NEW l \in {"stage", "done"}, NEW same \in {"check", "stage"},
           (l = "stage") <=> (same = "check"), NextStage(l, same), ready' = ready,
           pc \in {"check", "markProgress"} <=> l = "stage",
           l = "done" => pc \in Closing,
           NEW s \in Stages, Finished(s)'
    PROVE  Finished(s)
  BY ConstantsAssumption DEF TypeOK, NextStage, Finished, Reseed, Loop, Closing, Stages

\* A step that leaves payload, goal and position alone keeps finished stages seeded.
LEMMA FinishedFrames ==
    ASSUME TypeOK, SeedingInv, Next
    PROVE  FinishedFrame \/ CheckReady \/ Wipe \/ Extract \/ ExtractInvalid \/ LoopDone \/ Prune
  <1> SUFFICES ASSUME ~(CheckReady \/ Wipe \/ Extract \/ ExtractInvalid \/ LoopDone \/ Prune)
               PROVE  FinishedFrame
    OBVIOUS
  <1> USE DEF disk, local, env, ghost
  <1>1. CASE LoadIndex
    BY <1>1, EndsFinished, NothingFinished DEF LoadIndex, Abort, FinishedFrame
  <1>2. CASE IndexUnavailable \/ CheckRaises \/ RefetchFails \/ Leave \/ CrashBetween
             \/ CrashFetching
    BY <1>2, EndsFinished DEF IndexUnavailable, CheckRaises, RefetchFails, Leave,
       CrashBetween, CrashFetching, Abort, FinishedFrame
  <1>3. CASE StageResumeRaises \/ ExtractInvalidAgain \/ CrashExtracting
             \/ CrashRemoving \/ CrashWriting
    BY <1>3, EndsFinished DEF StageResumeRaises, ExtractInvalidAgain, CrashExtracting,
       CrashRemoving, CrashWriting, FinishedFrame
  <1>4. CASE CheckNotReady
    BY <1>4, NextStageFinished DEF CheckNotReady, FinishedFrame
  <1>5. CASE MarkProgress
    BY <1>5, NextStageFinished DEF MarkProgress, FinishedFrame
  <1>6. CASE Populate
    BY <1>6, NextStageFinished
    DEF Populate, FinishedFrame, Finished, Closing, Reseed, Loop
  <1>7. CASE Stamp
    BY <1>7, NextStageFinished DEF Stamp, FinishedFrame, Closing
  <1>8. CASE CleanStart \/ CleanOutput
    BY <1>8, NothingFinished DEF CleanStart, CleanOutput, FinishedFrame,
       SeedingInv, ControlInv
  <1>9. CASE CleanStage
    <2>1. \A s \in Stages : ~Finished(s)'
      BY <1>9 DEF CleanStage, NextStage, SeedingInv, ControlInv, Finished, Reseed, Loop,
         Closing
    <2>2. QED
      BY <2>1 DEF FinishedFrame
  <1>10. CASE \E s \in Stages, p \in Packages : LosePayload(s, p)
    <2>1. \A s \in Stages : ~Finished(s)'
      BY <1>10 DEF LosePayload, SeedingInv, ControlInv, Finished, Reseed, Loop, Closing
    <2>2. QED
      BY <2>1 DEF FinishedFrame
  <1>11. CASE \E p \in Packages : FetchGone(p) \/ FetchRefused(p) \/ FetchError(p)
    BY <1>11, StaleFinished, EndsFinished DEF FetchGone, FetchRefused, Unfetched,
       FetchError, Abort, FinishedFrame
  <1>12. CASE \E p \in Packages : FetchCached(p) \/ FetchDownload(p) \/ FetchTruncated(p)
    BY <1>12 DEF FetchCached, FetchDownload, FetchTruncated, Fetched, FinishedFrame,
       Finished, Reseed, Loop, Closing
  <1>13. CASE Start \/ CheckRepair \/ MarkPlan \/ EditManifest \/ MirrorMoves \/ CleanCache
    BY <1>13 DEF Start, CheckRepair, MarkPlan, EditManifest, MirrorMoves, CleanCache,
       FinishedFrame, Finished, Reseed, Loop, Closing
  <1>14. CASE StageReady \/ StageReset \/ StageResume \/ Remake \/ ForgetPlan
              \/ ForgetProgress \/ SavePlan \/ SaveProgress \/ Refetch \/ Record
    BY <1>14 DEF StageReady, StageReset, StageResume, Remake, ForgetPlan, ForgetProgress,
       SavePlan, SaveProgress, Refetch, Record, FinishedFrame, Finished, Reseed, Loop,
       Closing
  <1>15. QED
    BY <1>1, <1>2, <1>3, <1>4, <1>5, <1>6, <1>7, <1>8, <1>9, <1>10, <1>11, <1>12, <1>13,
       <1>14 DEF Next, Builder, Disturbance, Fetching

\* Every step keeps the stages the run is through with seeded, or exposed.
LEMMA FinishedStep ==
    ASSUME TypeOK, SeedingInv, Next
    PROVE  FinishedInv'
  <1> SUFFICES ASSUME NEW s \in Stages, Finished(s)', ~exposed'[s]
               PROVE  Seeded(s)'
    BY DEF FinishedInv
  <1> USE DEF TypeOK, SeedingInv, FinishedInv, Seeded, Inspected
  <1>1. CASE FinishedFrame
    BY <1>1 DEF FinishedFrame, Whole
  <1>2. CASE CheckReady
    <2>1. CASE s \in ready'
      <3>1. CASE s = cur
        <4>1. stamp[s] = goal[s] /\ Missing(s, DOMAIN goal[s]) = {} /\ pc = "check"
          BY <1>2, <3>1 DEF CheckReady, StampCurrent
        <4>2. ~Vouching(payload[s], plan[s], progress[s], stamp[s])
          BY <1>2, <4>1 DEF CheckReady, RecordsInv, Mending, Loop, ghost
        <4>3. goal[s] \in Plans
          OBVIOUS
        <4>4. DOMAIN goal[s] \subseteq Packages
          BY <4>3, PlanParts
        <4>5. Seeded(s)
          BY <4>1, <4>2, <4>4 DEF Vouching, Missing, Seen
        <4>6. QED
          BY <1>2, <4>5 DEF CheckReady, disk, Whole
      <3>2. CASE s # cur
        BY <1>2, <2>1, <3>2 DEF CheckReady, Finished, disk, ghost, Whole
      <3>3. QED
        BY <3>1, <3>2
    <2>2. CASE s \notin ready'
      BY <1>2, <2>2, ConstantsAssumption DEF CheckReady, NextStage, Finished, Reseed,
         Loop, Closing, Stages
    <2>3. QED
      BY <2>1, <2>2
  <1>3. CASE Wipe
    <2>1. s # cur /\ Finished(s)
      BY <1>3, ConstantsAssumption DEF Wipe, ControlInv, Finished, Reseed, Loop, Closing,
         Stages, local
    <2>2. Seeded(s) /\ payload'[s] = payload[s] /\ goal'[s] = goal[s]
      BY <1>3, <2>1 DEF Wipe, Emptied, local
    <2>3. QED
      BY <2>2 DEF Whole
  <1>4. CASE Extract
    <2>1. s # cur /\ Finished(s)
      BY <1>4, ConstantsAssumption DEF Extract, ControlInv, Finished, Reseed, Loop,
         Closing, Stages, local
    <2>2. Seeded(s) /\ payload'[s] = payload[s] /\ goal'[s] = goal[s]
      BY <1>4, <2>1 DEF Extract, ghost, local
    <2>3. QED
      BY <2>2 DEF Whole
  <1>5. CASE ExtractInvalid
    <2>1. s # cur /\ Finished(s)
      BY <1>5, ConstantsAssumption DEF ExtractInvalid, ControlInv, Finished, Reseed, Loop,
         Closing, Stages, local
    <2>2. Seeded(s) /\ payload'[s] = payload[s] /\ goal'[s] = goal[s]
      BY <1>5, <2>1 DEF ExtractInvalid, ghost, local
    <2>3. QED
      BY <2>2 DEF Whole
  <1>6. CASE LoopDone
    <2>1. CASE s = cur
      BY <1>6, <2>1 DEF LoopDone, LoopInv, Loop, local, ghost, Whole
    <2>2. CASE s # cur
      BY <1>6, <2>2 DEF LoopDone, local, ghost, Finished, Reseed, Loop, Closing, Whole
    <2>3. QED
      BY <2>1, <2>2
  <1>7. CASE Prune
    <2>1. Seeded(s)
      BY <1>7 DEF Prune, local, ghost, Finished, Closing, Reseed, Loop
    <2>2. goal[s] \in Plans
      OBVIOUS
    <2>3. \A p \in DOMAIN goal[s] \ Excluded : payload'[s][p] = payload[s][p]
      BY <1>7, <2>2, PlanParts, ConstantsAssumption DEF Prune
    <2>4. QED
      BY <1>7, <2>1, <2>3, ZenonT(60) DEF Prune, local, Whole
  <1>8. QED
    BY <1>1, <1>2, <1>3, <1>4, <1>5, <1>6, <1>7, FinishedFrames

-----------------------------------------------------------------------------
(***************************************************************************)
(* The theorems.                                                           *)
(***************************************************************************)
Inv == TypeOK /\ SeedingInv

\* An empty disk and an idle builder satisfy the invariant.
LEMMA InitInv == Init => Inv
  <1> SUFFICES ASSUME Init
               PROVE  Inv
    OBVIOUS
  <1>1. 1 \in Stages /\ 1 \in Releases
    BY ConstantsAssumption DEF Stages, Releases
  <1>2. TypeOK
    <2>1. dir \in [Stages -> BOOLEAN] /\ progress \in [Stages -> SUBSET Packages]
          /\ exposed \in [Stages -> BOOLEAN]
      BY DEF Init
    <2>2. plan \in [Stages -> Plans] /\ stamp \in [Stages -> Plans]
          /\ status \in [Stages -> Plans] /\ goal \in [Stages -> Plans]
      BY NoPlanType DEF Init
    <2>3. payload \in [Stages -> [Packages -> Payload]]
      BY PayloadParts DEF Init
    <2>4. faults \in 0..MaxFaults
      BY ConstantsAssumption DEF Init
    <2>5. QED
      BY <1>1, <2>1, <2>2, <2>3, <2>4 DEF Init, TypeOK, CacheStates, Labels
  <1>3. RecordsInv
    BY NothingVouched DEF Init, RecordsInv
  <1>4. StampInv /\ DirInv
    BY ExtendsTrivially DEF Init, StampInv, DirInv
  <1>5. LoopInv /\ RepairInv /\ ControlInv
    BY DEF Init, LoopInv, RepairInv, ControlInv, Loop, Reseed, Closing
  <1>6. FinishedInv
    BY DEF Init, FinishedInv, Finished, Reseed, Loop, Closing
  <1>7. QED
    BY <1>2, <1>3, <1>4, <1>5, <1>6 DEF Inv, SeedingInv

\* What SeedingInv says of the package at hand.
LEMMA LoopItem ==
    ASSUME SeedingInv
    PROVE  ItemInv
  BY DEF SeedingInv, LoopInv, ItemInv, Loop

\* Every step of the builder and of its environment keeps the invariant.
LEMMA StepInv == Inv /\ [Next]_vars => Inv'
  <1> SUFFICES ASSUME Inv, [Next]_vars
               PROVE  Inv'
    OBVIOUS
  <1>1. TypeOK /\ SeedingInv
    BY DEF Inv
  <1>2. TypeOK'
    BY <1>1, LoopItem, TypeStep
  <1>3. CASE Next
    BY <1>1, <1>2, <1>3, RecordsStep, StampStep, DirStep, LoopStep, RepairStep,
       ControlStep, FinishedStep DEF Inv, SeedingInv
  <1>4. CASE UNCHANGED vars
    <2> USE <1>4 DEF vars, disk, net, local, env, ghost
    <2>1. RecordsInv'
      BY <1>1 DEF SeedingInv, RecordsInv, Mending
    <2>2. StampInv' /\ DirInv' /\ ControlInv'
      BY <1>1 DEF SeedingInv, StampInv, DirInv, ControlInv
    <2>3. LoopInv' /\ RepairInv'
      BY <1>1 DEF SeedingInv, LoopInv, RepairInv, Inspected, Whole, Seen
    <2>4. FinishedInv'
      BY <1>1 DEF SeedingInv, FinishedInv, Finished, Seeded, Inspected, Whole
    <2>5. QED
      BY <1>2, <2>1, <2>2, <2>3, <2>4 DEF Inv, SeedingInv
  <1>5. QED
    BY <1>3, <1>4

\* The invariant holds in every reachable state.
LEMMA AlwaysInv == Spec => []Inv
  BY InitInv, StepInv, PTL DEF Spec

\* Every variable of the seeding always has its type.
THEOREM TypeCorrect == Spec => []TypeOK
  <1>1. Inv => TypeOK
    BY DEF Inv
  <1>2. QED
    BY <1>1, AlwaysInv, PTL

\* Records on disk, the run's own list and the payload in the stages always fit
\* together the way SeedingInv says, for any number of stages, packages,
\* manifests, releases and interruptions.
THEOREM SeedingConsistent == Spec => []SeedingInv
  <1>1. Inv => SeedingInv
    BY DEF Inv
  <1>2. QED
    BY <1>1, AlwaysInv, PTL

\* Whenever ensure_debian_bootstrap returns, each stage is wholly seeded, unless
\* a run ended earlier with a record on disk vouching for an unfinished payload
\* in that stage.
THEOREM SeededUnlessExposedAlways == Spec => []SeededUnlessExposed
  <1>1. Inv => SeededUnlessExposed
    BY DEF Inv, SeedingInv, FinishedInv, Finished, SeededUnlessExposed
  <1>2. QED
    BY <1>1, AlwaysInv, PTL

-----------------------------------------------------------------------------
(***************************************************************************)
(* What a run knows of its plans and of what it has verified: a second     *)
(* inductive invariant, on top of the first, behind StagesAgree,           *)
(* WorkIsKept and RerunOnlyVerifies.                                       *)
(***************************************************************************)

\* Where a process has no plan of its own: before the index is loaded.
Outside == {"idle", "load", "clean", "cleanOutput"}

\* One manifest and one release gave the plans of all the stages.
GoalInv ==
    pc \notin Outside =>
        index \in Releases /\ \E m \in Manifests, r \in Releases : goal = PlanOf[m][r]

\* The stages whose stamp and status this run has written or confirmed.
Past(s) == pc = "done" \/ (pc \in {"stage"} \cup Reseed \cup Closing /\ s < cur)

\* Their records name the plan of this run.
PlannedInv ==
    /\ \A s \in ready : stamp[s] = goal[s]
    /\ \A s \in Stages : Past(s) => stamp[s] = goal[s] /\ status[s] = goal[s]
    /\ pc = "stamp" => status[cur] = goal[cur]

\* The archive of the package is in the download cache, or about to be again.
Held(s, p) ==
    Cached(goal[s][p]) \/ (pc = "refetch" /\ goal[s][p] = Archive(item))

\* Neither the payload nor the archive of the package is missing.
Confirmed(s, p) == Seen(s, p) /\ Held(s, p)

\* What this run is through with passes the missing-payload check.
HeldInv ==
    /\ \A s \in Stages : Finished(s) =>
           dir[s] /\ \A p \in Inspected(DOMAIN goal[s]) : Confirmed(s, p)
    /\ pc \in {"savePlan"} \cup Loop =>
           \A p \in Inspected(completed) : Confirmed(cur, p)
    /\ pc = "record" => Confirmed(cur, item)

\* Payload without a plan does not occur, and a reset has its reason.
KeepInv ==
    /\ \A s \in Stages : plan[s] = NoPlan => \A p \in Packages : payload[s][p] = Nothing
    /\ pc = "wipe" => plan[cur] = NoPlan \/ ~Extends(goal[cur], plan[cur])

RunInv == GoalInv /\ PlannedInv /\ HeldInv /\ KeepInv

\* A step of a run that has its plans, or one after which it has none.
GoalFrame == pc' \in Outside \/ (pc \notin Outside /\ UNCHANGED <<goal, index>>)

\* Only the load of the index gives a run its plans.
LEMMA GoalFrames ==
    ASSUME TypeOK, Next
    PROVE  GoalFrame \/ LoadIndex
  BY ZenonT(60) DEF GoalFrame, Outside, Next, Builder, Disturbance, Fetching, disk, net,
         local, env, ghost, Start, IndexUnavailable, CheckNotReady, CheckReady,
         CheckRaises, CheckRepair, MarkPlan, MarkProgress, StageReady, StageReset,
         StageResume, StageResumeRaises, Wipe, Remake, ForgetPlan, ForgetProgress,
         SavePlan, SaveProgress, FetchCached, FetchDownload, FetchTruncated, FetchGone,
         FetchRefused, Unfetched, FetchError, Extract, ExtractInvalid,
         ExtractInvalidAgain, Refetch, RefetchFails, Record, LoopDone, Prune, Populate,
         Stamp, Leave, CrashBetween, CrashFetching, CrashExtracting, CrashRemoving,
         CrashWriting, CleanStart, CleanStage, CleanOutput, EditManifest, MirrorMoves,
         CleanCache, LosePayload, Abort, Ends, Stale, Fetched, NextStage

\* Every step keeps the plans of a run those of one manifest and one release.
LEMMA GoalStep ==
    ASSUME Inv, GoalInv, Next
    PROVE  GoalInv'
  <1>1. TypeOK
    BY DEF Inv
  <1>2. CASE GoalFrame
    BY <1>2 DEF GoalFrame, GoalInv
  <1>3. CASE LoadIndex
    <2>1. CASE <<manifest, index'>> \in Rejected
      BY <1>3, <2>1 DEF LoadIndex, Abort, Ends, GoalInv, Outside
    <2>2. CASE <<manifest, index'>> \notin Rejected
      <3>1. manifest \in Manifests /\ index' \in Releases
        BY <1>1, <1>3 DEF LoadIndex, TypeOK
      <3>2. goal' = PlanOf[manifest][index']
        BY <1>3, <2>2 DEF LoadIndex
      <3>3. PICK m \in Manifests, r \in Releases : m = manifest /\ r = index'
        BY <3>1
      <3>4. goal' = PlanOf[m][r]
        BY <3>2, <3>3
      <3>5. QED
        BY <3>1, <3>4 DEF GoalInv
    <2>3. QED
      BY <2>1, <2>2
  <1>4. QED
    BY <1>1, <1>2, <1>3, GoalFrames

\* A step that leaves the records and the plans alone and confirms no further stage.
PlannedFrame ==
    \/ /\ UNCHANGED <<stamp, status, goal>>
       /\ ready' \subseteq ready
       /\ \A s \in Stages : Past(s)' => Past(s)
       /\ pc' = "stamp" => pc = "stamp" /\ cur' = cur
    \/ pc' = "idle" /\ ready' = {}
    \/ pc' = "check" /\ ready' = {}

\* Moving on from the check or the repair of a stage confirms none.
LEMMA CheckNotPast ==
    ASSUME TypeOK, NextStage("stage", "check")
    PROVE  (\A s \in Stages : ~Past(s)') /\ pc' # "stamp"
  BY DEF NextStage, Past, Reseed, Loop, Closing, Stages

\* A step that writes neither a stamp nor a status keeps what they name.
LEMMA PlannedFrames ==
    ASSUME Inv, Next
    PROVE  PlannedFrame \/ CheckReady \/ Wipe \/ Populate \/ Stamp \/ CleanStage
  <1> SUFFICES ASSUME ~(CheckReady \/ Wipe \/ Populate \/ Stamp \/ CleanStage)
               PROVE  PlannedFrame
    OBVIOUS
  <1> USE DEF disk, net, local, env, ghost
  <1>0. TypeOK /\ ControlInv
    BY DEF Inv, SeedingInv
  <1>1. CASE LoadIndex
    BY <1>1 DEF LoadIndex, Abort, Ends, Forgotten, PlannedFrame
  <1>2. CASE IndexUnavailable \/ CheckRaises \/ RefetchFails \/ Leave \/ CrashBetween
             \/ CrashFetching
             \/ StageResumeRaises \/ ExtractInvalidAgain \/ CrashExtracting
             \/ CrashRemoving \/ CrashWriting
    BY <1>2 DEF IndexUnavailable, CheckRaises, RefetchFails, Leave, CrashBetween,
       CrashFetching, StageResumeRaises, ExtractInvalidAgain, CrashExtracting,
       CrashRemoving, CrashWriting, Abort, Ends, Forgotten, PlannedFrame
  <1>3. CASE CheckNotReady \/ MarkProgress
    BY <1>0, <1>3, CheckNotPast DEF CheckNotReady, MarkProgress, PlannedFrame
  <1>4. CASE \E p \in Packages : FetchGone(p) \/ FetchRefused(p) \/ FetchError(p)
    BY <1>4 DEF FetchGone, FetchRefused, Unfetched, FetchError, Abort, Ends, Forgotten,
       Stale, PlannedFrame, Past, Reseed, Loop, Closing
  <1>5. CASE \E p \in Packages : FetchCached(p) \/ FetchDownload(p) \/ FetchTruncated(p)
    BY <1>5 DEF FetchCached, FetchDownload, FetchTruncated, Fetched, PlannedFrame, Past,
       Reseed, Loop, Closing
  <1>6. CASE Start \/ CheckRepair \/ MarkPlan \/ EditManifest \/ MirrorMoves \/ CleanCache
             \/ CleanStart \/ CleanOutput
             \/ \E s \in Stages, p \in Packages : LosePayload(s, p)
    BY <1>6 DEF Start, CheckRepair, MarkPlan, EditManifest, MirrorMoves, CleanCache,
       CleanStart, CleanOutput, LosePayload, PlannedFrame, Past, Reseed, Loop, Closing
  <1>7. CASE StageReady \/ StageReset \/ StageResume \/ Remake \/ ForgetPlan
             \/ ForgetProgress \/ SavePlan \/ SaveProgress \/ Extract \/ ExtractInvalid
             \/ Refetch \/ Record \/ LoopDone \/ Prune
    BY <1>7 DEF StageReady, StageReset, StageResume, Remake, ForgetPlan, ForgetProgress,
       SavePlan, SaveProgress, Extract, ExtractInvalid, Refetch, Record, LoopDone, Prune,
       PlannedFrame, Past, Reseed, Loop, Closing
  <1>8. QED
    BY <1>1, <1>2, <1>3, <1>4, <1>5, <1>6, <1>7
    DEF Next, Builder, Disturbance, Fetching

\* Every step keeps the records of confirmed stages those of this run's plan.
LEMMA PlannedStep ==
    ASSUME Inv, PlannedInv, Next
    PROVE  PlannedInv'
  <1>0. TypeOK /\ ControlInv
    BY DEF Inv, SeedingInv
  <1> USE <1>0 DEF TypeOK, PlannedInv, disk, local, ghost
  <1>1. CASE PlannedFrame
    BY <1>1 DEF PlannedFrame, Past, Reseed, Loop, Closing
  <1>2. CASE CheckReady
    BY <1>2, CheckNotPast DEF CheckReady, StampCurrent
  <1>3. CASE Wipe
    <2>1. cur \notin ready /\ ~Past(cur)
      BY <1>3, ConstantsAssumption DEF Wipe, ControlInv, Past, Reseed, Stages
    <2>2. \A s \in Stages : Past(s)' => Past(s)
      BY <1>3 DEF Wipe, Past, Reseed, Loop, Closing
    <2>3. QED
      BY <1>3, <2>1, <2>2 DEF Wipe, Emptied
  <1>4. CASE Populate
    <2>1. \A s \in Stages : Past(s)' => Past(s) \/ (s = cur /\ cur \in ready)
      BY <1>4, ConstantsAssumption DEF Populate, NextStage, Past, Reseed, Loop, Closing,
         Stages
    <2>2. QED
      BY <1>4, <2>1, ConstantsAssumption DEF Populate, NextStage
  <1>5. CASE Stamp
    <2>1. \A s \in Stages : Past(s)' => Past(s) \/ s = cur
      BY <1>5, ConstantsAssumption DEF Stamp, NextStage, Past, Reseed, Loop, Closing,
         Stages
    <2>2. QED
      BY <1>5, <2>1 DEF Stamp, NextStage
  <1>6. CASE CleanStage
    <2>1. ready' = {} /\ pc' \in {"clean", "cleanOutput"}
      BY <1>6 DEF CleanStage, NextStage, ControlInv
    <2>2. QED
      BY <2>1 DEF Past, Reseed, Loop, Closing
  <1>7. QED
    BY <1>1, <1>2, <1>3, <1>4, <1>5, <1>6, PlannedFrames

\* No plan of a run is empty: resolution never gives an empty closure.
LEMMA GoalNotEmpty ==
    ASSUME GoalInv, pc \notin Outside, NEW s \in Stages
    PROVE  goal[s] # NoPlan
  <1>1. PICK m \in Manifests, r \in Releases : goal = PlanOf[m][r]
    BY DEF GoalInv
  <1>2. QED
    BY <1>1, ConstantsAssumption

\* A step that adds no payload, drops no plan and starts no removal.
KeepFrame ==
    /\ UNCHANGED <<plan, payload>>
    /\ pc' = "wipe" => pc = "wipe" /\ UNCHANGED <<cur, goal>>

\* A step that leaves plans and payload alone keeps the reason of a reset.
LEMMA KeepFrames ==
    ASSUME TypeOK, Next
    PROVE  KeepFrame \/ MarkPlan \/ StageReset \/ Wipe \/ ForgetPlan \/ SavePlan
           \/ Extract \/ ExtractInvalid \/ ExtractInvalidAgain \/ Prune
           \/ CrashExtracting \/ CrashRemoving \/ CleanStage \/ CleanOutput
           \/ \E s \in Stages, p \in Packages : LosePayload(s, p)
  BY ZenonT(60) DEF KeepFrame, Next, Builder, Disturbance, Fetching, disk, net, local,
         env, ghost, Start, LoadIndex, IndexUnavailable, CheckNotReady, CheckReady,
         CheckRaises, CheckRepair, MarkProgress, StageReady, StageResume,
         StageResumeRaises, Remake, ForgetProgress, SaveProgress, FetchCached,
         FetchDownload, FetchTruncated, FetchGone, FetchRefused, Unfetched, FetchError,
         Refetch, RefetchFails, Record, LoopDone, Populate, Stamp, Leave, CrashBetween,
         CrashFetching, CrashWriting, CleanStart, EditManifest, MirrorMoves, CleanCache,
         Abort, Ends, Stale, Fetched, NextStage

\* Every step keeps payload under a plan, and a reset to a plan that cannot be extended.
LEMMA KeepStep ==
    ASSUME Inv, GoalInv, KeepInv, Next
    PROVE  KeepInv'
  <1>0. TypeOK /\ DirInv /\ ControlInv
    BY DEF Inv, SeedingInv
  <1> USE <1>0 DEF TypeOK, KeepInv, disk, local
  <1>1. CASE KeepFrame
    BY <1>1 DEF KeepFrame
  <1>2. CASE MarkPlan \/ SavePlan
    <2>1. goal[cur] # NoPlan
      BY <1>2, GoalNotEmpty DEF MarkPlan, SavePlan, Outside
    <2>2. QED
      BY <1>2, <2>1 DEF MarkPlan, SavePlan
  <1>3. CASE StageReset
    BY <1>3 DEF StageReset, NeedsReset, Transition
  <1>4. CASE Wipe \/ CleanStage
    <2>1. /\ pc' # "wipe" /\ plan' = plan
          /\ \A s \in Stages : payload'[s] = payload[s] \/ payload'[s] = [p \in Packages |-> Nothing]
      BY <1>4 DEF Wipe, CleanStage, Emptied, NextStage
    <2>2. QED
      BY <2>1
  <1>5. CASE ForgetPlan
    BY <1>5 DEF ForgetPlan, DirInv
  <1>6. CASE Extract \/ ExtractInvalid \/ ExtractInvalidAgain \/ CrashExtracting
    <2>1. pc = "extract"
      BY <1>6 DEF Extract, ExtractInvalid, ExtractInvalidAgain, CrashExtracting
    <2>2. plan[cur] # NoPlan
      BY <2>1, GoalNotEmpty DEF ControlInv, Loop, Reseed, Outside
    <2>3. /\ pc' # "wipe" /\ plan' = plan
          /\ \A s \in Stages : s # cur => payload'[s] = payload[s]
      BY <1>6 DEF Extract, ExtractInvalid, ExtractInvalidAgain, CrashExtracting, Ends
    <2>4. QED
      BY <2>2, <2>3
  <1>7. CASE Prune
    BY <1>7 DEF Prune
  <1>8. CASE CrashRemoving
    <2>1. PICK left \in [Packages -> UNION {Remnant(payload[cur][p]) : p \in Packages}],
               st \in {stamp[cur], NoPlan} :
          /\ \A p \in Packages : left[p] \in Remnant(payload[cur][p])
          /\ Ends([payload EXCEPT ![cur] = left], [stamp EXCEPT ![cur] = st])
      BY <1>8 DEF CrashRemoving
    <2>2. \A p \in Packages : payload[cur][p] = Nothing => left[p] = Nothing
      BY <2>1, RemnantOfNothing
    <2>3. QED
      BY <2>1, <2>2 DEF Ends
  <1>9. CASE CleanOutput
    BY <1>9 DEF CleanOutput, DirInv, ControlInv
  <1>10. CASE \E s \in Stages, p \in Packages : LosePayload(s, p)
    BY <1>10 DEF LosePayload
  <1>11. QED
    BY <1>0, <1>1, <1>2, <1>3, <1>4, <1>5, <1>6, <1>7, <1>8, <1>9, <1>10, KeepFrames

\* A step that writes no archive and does not answer a second fetch.
CacheFrame ==
    /\ UNCHANGED cache
    /\ pc = "refetch" => pc' = "idle" \/ UNCHANGED <<pc, cur, goal, item>>

\* A step that leaves a ".part" behind, and does not answer a second fetch either.
PartFrame ==
    /\ pc # "refetch" \/ pc' = "idle"
    /\ \E a : LeftComplete(a)

\* Few steps touch the download cache.
LEMMA CacheFrames ==
    ASSUME TypeOK, Next
    PROVE  CacheFrame \/ ExtractInvalid \/ Refetch \/ CleanCache
           \/ (\E p \in Packages : FetchDownload(p) \/ FetchTruncated(p))
           \/ PartFrame
  BY ZenonT(60) DEF CacheFrame, PartFrame, Next, Builder, Disturbance, Fetching, disk,
         net, local, env, ghost, Start, LoadIndex, IndexUnavailable, CheckNotReady,
         CheckReady, CheckRaises, CheckRepair, MarkPlan, MarkProgress, StageReady,
         StageReset, StageResume, StageResumeRaises, Wipe, Remake, ForgetPlan,
         ForgetProgress, SavePlan, SaveProgress, FetchCached, FetchGone, FetchRefused,
         Unfetched, FetchError, Extract, ExtractInvalidAgain, RefetchFails, Record,
         LoopDone, Prune, Populate, Stamp, Leave, CrashBetween, CrashFetching,
         CrashExtracting, CrashRemoving, CrashWriting, CleanStart, CleanStage,
         CleanOutput, EditManifest, MirrorMoves, LosePayload, Abort, Ends, Fetched,
         NextStage

\* An archive that is held stays so until the cache is emptied, which happens only
\* between runs.
LEMMA HeldKept ==
    ASSUME Inv, Next, pc' # "idle", NEW s \in Stages, goal'[s] = goal[s],
           NEW p \in DOMAIN goal[s], Held(s, p)
    PROVE  Held(s, p)'
  <1>0. TypeOK /\ ItemInv
    BY LoopItem DEF Inv
  <1>a. goal[s] \in Plans
    BY <1>0 DEF TypeOK
  <1>b. goal[s][p] \in Archives
    BY <1>a, PlanParts
  <1> USE <1>0, <1>b DEF TypeOK, Held, Cached, Archive, local
  <1>1. CASE CacheFrame
    BY <1>1 DEF CacheFrame
  <1>2. CASE ExtractInvalid
    BY <1>2 DEF ExtractInvalid
  <1>3. CASE Refetch
    <2>1. Archive(item) \in Archives
      BY <1>0, <1>3, ItemType DEF Refetch
    <2>2. QED
      BY <1>3, <2>1 DEF Refetch
  <1>4. CASE CleanCache
    BY <1>4 DEF CleanCache
  <1>5. CASE \E q \in Packages : FetchDownload(q) \/ FetchTruncated(q)
    BY <1>5 DEF FetchDownload, FetchTruncated
  <1>6. CASE PartFrame
    BY <1>6 DEF PartFrame, LeftComplete
  <1>7. QED
    BY <1>0, <1>1, <1>2, <1>3, <1>4, <1>5, <1>6, CacheFrames

\* What passes the missing-payload check still does after a step that leaves it alone.
LEMMA ConfirmedKept ==
    ASSUME Inv, Next, pc' # "idle", NEW s \in Stages, goal'[s] = goal[s],
           NEW p \in DOMAIN goal[s], payload'[s][p] = payload[s][p], Confirmed(s, p)
    PROVE  Confirmed(s, p)'
  BY HeldKept DEF Confirmed, Seen

\* Only a removal takes a stage directory away.
LEMMA DirKept ==
    ASSUME TypeOK, Next, NEW s \in Stages, dir[s]
    PROVE  dir'[s] \/ (Wipe /\ s = cur) \/ CleanStage
  BY ZenonT(60) DEF TypeOK, Next, Builder, Disturbance, Fetching, disk, net, local, env,
         ghost, Start, LoadIndex, IndexUnavailable, CheckNotReady, CheckReady, CheckRaises,
         CheckRepair, MarkPlan, MarkProgress, StageReady, StageReset, StageResume,
         StageResumeRaises, Wipe, Emptied, Remake, ForgetPlan, ForgetProgress, SavePlan,
         SaveProgress, FetchCached, FetchDownload, FetchTruncated, FetchGone,
         FetchRefused, Unfetched, FetchError, Extract, ExtractInvalid,
         ExtractInvalidAgain, Refetch, RefetchFails, Record, LoopDone, Prune, Populate,
         Stamp, Leave, CrashBetween, CrashFetching, CrashExtracting, CrashRemoving,
         CrashWriting, CleanStart, CleanOutput, EditManifest, MirrorMoves, CleanCache,
         LosePayload, Abort, Ends, Stale, Fetched

\* Every step keeps the stages this run is through with past the missing-payload check.
LEMMA HeldFinishedStep ==
    ASSUME Inv, HeldInv, Next, NEW s \in Stages, Finished(s)'
    PROVE  dir'[s] /\ \A p \in Inspected(DOMAIN goal'[s]) : Confirmed(s, p)'
  <1>0. TypeOK /\ SeedingInv
    BY DEF Inv
  <1>1. pc' # "idle"
    <2>1. SeedingInv'
      BY StepInv DEF Inv
    <2>2. QED
      BY <2>1 DEF SeedingInv, ControlInv, Finished, Reseed, Loop, Closing
  <1>2. CASE FinishedFrame
    <2>1. UNCHANGED <<payload, goal>> /\ Finished(s)
      BY <1>2 DEF FinishedFrame
    <2>2. dir'[s]
      <3>1. ~(Wipe /\ s = cur)
        BY <1>0, <2>1, ConstantsAssumption DEF Wipe, SeedingInv, ControlInv, Finished,
           Reseed, Loop, Closing, Stages, TypeOK
      <3>2. ~CleanStage
        BY <1>0, <2>1 DEF CleanStage, SeedingInv, ControlInv, Finished, Reseed, Loop,
           Closing
      <3>3. QED
        BY <1>0, <2>1, <3>1, <3>2, DirKept DEF HeldInv
    <2>3. QED
      BY <1>1, <2>1, <2>2, ConfirmedKept DEF HeldInv, Inspected
  <1>3. CASE CheckReady
    <2>1. goal' = goal /\ payload' = payload /\ dir' = dir
      BY <1>3 DEF CheckReady, disk
    <2>2. CASE s = cur /\ s \in ready'
      <3>1. dir[s] /\ \A p \in Inspected(DOMAIN goal[s]) : Confirmed(s, p)
        BY <1>3, <2>2 DEF CheckReady, StampCurrent, Missing, Confirmed, Held
      <3>2. QED
        BY <1>1, <2>1, <3>1, ConfirmedKept DEF Inspected
    <2>3. CASE ~(s = cur /\ s \in ready')
      <3>1. s \in ready
        BY <1>0, <1>3, <2>3, ConstantsAssumption
        DEF CheckReady, NextStage, Finished, Reseed, Loop, Closing, Stages, TypeOK
      <3>2. Finished(s)
        BY <3>1 DEF Finished
      <3>3. QED
        BY <1>1, <2>1, <3>2, ConfirmedKept DEF HeldInv, Inspected
    <2>4. QED
      BY <2>2, <2>3
  <1>4. CASE Wipe \/ Extract \/ ExtractInvalid
    <2>1. s # cur /\ Finished(s)
      BY <1>0, <1>4, ConstantsAssumption DEF Wipe, Extract, ExtractInvalid, SeedingInv,
         ControlInv, Finished, Reseed, Loop, Closing, Stages, TypeOK, local
    <2>2. payload'[s] = payload[s] /\ goal' = goal /\ dir'[s] = dir[s]
      BY <1>0, <1>4, <2>1 DEF Wipe, Emptied, Extract, ExtractInvalid, local, TypeOK
    <2>3. QED
      BY <1>1, <2>1, <2>2, ConfirmedKept DEF HeldInv, Inspected
  <1>5. CASE LoopDone
    <2>1. goal' = goal /\ payload' = payload /\ dir' = dir
      BY <1>5 DEF LoopDone, local
    <2>2. CASE s = cur
      <3>1. DOMAIN goal[cur] \subseteq completed /\ dir[cur]
        BY <1>0, <1>5 DEF LoopDone, SeedingInv, LoopInv, ControlInv, Loop, Reseed
      <3>2. \A p \in Inspected(DOMAIN goal[s]) : Confirmed(s, p)
        BY <1>5, <2>2, <3>1 DEF LoopDone, HeldInv, Loop, Inspected
      <3>3. QED
        BY <1>1, <2>1, <2>2, <3>1, <3>2, ConfirmedKept DEF Inspected
    <2>3. CASE s # cur
      <3>1. Finished(s)
        BY <1>5, <2>3 DEF LoopDone, local, Finished, Reseed, Loop, Closing
      <3>2. QED
        BY <1>1, <2>1, <3>1, ConfirmedKept DEF HeldInv, Inspected
    <2>4. QED
      BY <2>2, <2>3
  <1>6. CASE Prune
    <2>1. goal' = goal /\ dir' = dir /\ Finished(s)
      BY <1>6 DEF Prune, local, Finished, Reseed, Loop, Closing
    <2>2. \A p \in Inspected(DOMAIN goal[s]) : payload'[s][p] = payload[s][p]
      <3>1. goal[s] \in Plans
        BY <1>0 DEF TypeOK
      <3>2. \A p \in Inspected(DOMAIN goal[s]) : p \in Packages \ Pruned
        BY <3>1, PlanParts, ConstantsAssumption DEF Inspected
      <3>3. QED
        BY <1>0, <1>6, <3>2 DEF Prune, TypeOK
    <2>3. QED
      BY <1>1, <2>1, <2>2, ConfirmedKept DEF HeldInv, Inspected
  <1>7. QED
    BY <1>0, <1>2, <1>3, <1>4, <1>5, <1>6, FinishedFrames

\* So does what passes it in the stage at hand.
LEMMA CurrentKept ==
    ASSUME Inv, Next, pc' # "idle", UNCHANGED <<cur, goal>>,
           NEW p \in DOMAIN goal[cur], payload'[cur][p] = payload[cur][p], Confirmed(cur, p)
    PROVE  Confirmed(cur, p)'
  <1>1. PICK s \in Stages : s = cur
    BY DEF Inv, TypeOK
  <1>2. Confirmed(s, p)'
    BY <1>1, ConfirmedKept
  <1>3. QED
    BY <1>1, <1>2 DEF Confirmed, Seen, Held, Cached

\* Every step keeps what the run counts as extracted past the missing-payload check.
LEMMA HeldLoopStep ==
    ASSUME Inv, HeldInv, Next, pc' \in {"savePlan"} \cup Loop
    PROVE  \A p \in Inspected(completed') : Confirmed(cur, p)'
  <1>0. TypeOK /\ SeedingInv /\ pc' # "idle"
    BY DEF Inv, Loop
  <1>a. completed' \subseteq DOMAIN goal'[cur']
    <2>1. SeedingInv'
      BY StepInv DEF Inv
    <2>2. QED
      BY <2>1 DEF SeedingInv, LoopInv
  <1> USE <1>0, <1>a DEF TypeOK
  <1>1. CASE LoopFrame \/ SavePlan \/ SaveProgress \/ Refetch
             \/ \E p \in Packages : FetchCached(p) \/ FetchDownload(p) \/ FetchTruncated(p)
    <2>1. UNCHANGED <<payload, cur, goal, completed>> /\ pc \in {"savePlan"} \cup Loop
      BY <1>1 DEF LoopFrame, SavePlan, SaveProgress, Refetch, FetchCached, FetchDownload,
         FetchTruncated, Fetched, Loop, disk, local
    <2>2. QED
      BY <2>1, CurrentKept DEF HeldInv, Inspected
  <1>2. CASE StageResume
    <2>1. UNCHANGED <<payload, cur, goal>>
      BY <1>2 DEF StageResume
    <2>2. \A p \in Inspected(completed') : Confirmed(cur, p)
      BY <1>2 DEF StageResume, Missing, Inspected, Confirmed, Held
    <2>3. QED
      BY <2>1, <2>2, CurrentKept DEF Inspected
  <1>3. CASE ForgetProgress
    BY <1>3 DEF ForgetProgress, Inspected
  <1>4. CASE Extract \/ ExtractInvalid
    <2>1. UNCHANGED <<cur, goal, completed>> /\ pc \in Loop /\ item \notin completed
      BY <1>4 DEF Extract, ExtractInvalid, local, SeedingInv, LoopInv, Loop
    <2>2. \A p \in completed : payload'[cur][p] = payload[cur][p]
      <3>1. completed \subseteq Packages
        OBVIOUS
      <3>2. QED
        BY <1>4, <2>1, <3>1 DEF Extract, ExtractInvalid
    <2>3. QED
      BY <2>1, <2>2, CurrentKept DEF HeldInv, Inspected
  <1>5. CASE Record
    <2>1. UNCHANGED <<payload, cur, goal>> /\ completed' = completed \cup {item}
      BY <1>5 DEF Record
    <2>2. \A p \in Inspected(completed') : Confirmed(cur, p)
      BY <1>5, <2>1 DEF Record, HeldInv, Loop, Inspected
    <2>3. QED
      BY <2>1, <2>2, CurrentKept DEF Inspected
  <1>6. QED
    BY <1>1, <1>2, <1>3, <1>4, <1>5, LoopFrames

\* A package about to be recorded is there, and so is its archive.
LEMMA HeldRecordStep ==
    ASSUME Inv, HeldInv, Next, pc' = "record"
    PROVE  Confirmed(cur, item)'
  <1>0. TypeOK /\ ItemInv
    BY LoopItem DEF Inv
  <1>1. CASE Extract
    <2>1. item \in Packages /\ cur \in Stages
      BY <1>0, <1>1, ItemType DEF Extract, TypeOK
    <2>2. UNCHANGED <<cur, goal, item, cache>> /\ cache[goal[cur][item]] = "good"
      BY <1>1 DEF Extract, local, net, Archive
    <2>3. payload'[cur][item].lvl = "full"
      BY <1>0, <1>1, <2>1 DEF Extract, TypeOK
    <2>4. QED
      BY <2>2, <2>3 DEF Confirmed, Seen, Held, Cached
  <1>2. CASE ~Extract
    <2>1. pc = "record" /\ UNCHANGED <<payload, cur, goal, item>>
      BY <1>2 DEF Next, Builder, Disturbance, Fetching, disk, net, local, env,
         ghost, Start, LoadIndex, IndexUnavailable, CheckNotReady, CheckReady, CheckRaises,
         CheckRepair, MarkPlan, MarkProgress, StageReady, StageReset, StageResume,
         StageResumeRaises, Wipe, Remake, ForgetPlan, ForgetProgress, SavePlan,
         SaveProgress, FetchCached, FetchDownload, FetchTruncated, FetchGone,
         FetchRefused, Unfetched, FetchError, ExtractInvalid, ExtractInvalidAgain,
         Refetch, RefetchFails, Record, LoopDone, Prune, Populate, Stamp, Leave,
         CrashBetween, CrashFetching, CrashExtracting, CrashRemoving, CrashWriting,
         CleanStart, CleanStage, CleanOutput, EditManifest, MirrorMoves, CleanCache,
         LosePayload, Abort, Ends, Stale, Fetched, NextStage
    <2>2. QED
      BY <1>0, <2>1, CurrentKept DEF HeldInv, ItemInv, TypeOK
  <1>3. QED
    BY <1>1, <1>2

\* Every step keeps what the run has verified.
LEMMA HeldStep ==
    ASSUME Inv, HeldInv, Next
    PROVE  HeldInv'
  BY HeldFinishedStep, HeldLoopStep, HeldRecordStep DEF HeldInv

\* The empty disk satisfies the second invariant too.
LEMMA RunInit == Init => RunInv
  BY DEF Init, RunInv, GoalInv, PlannedInv, HeldInv, KeepInv, Outside, Past, Finished,
     Reseed, Loop, Closing

\* Every step of the builder and of its environment keeps it.
LEMMA RunStep == Inv /\ RunInv /\ [Next]_vars => RunInv'
  <1> SUFFICES ASSUME Inv, RunInv, [Next]_vars
               PROVE  RunInv'
    OBVIOUS
  <1>1. CASE Next
    BY <1>1, GoalStep, PlannedStep, HeldStep, KeepStep DEF RunInv
  <1>2. CASE UNCHANGED vars
    BY <1>2 DEF RunInv, GoalInv, PlannedInv, HeldInv, KeepInv, Past, Finished, Confirmed,
       Held, Cached, Seen, Archive, Inspected, vars, disk, net, local, env, ghost
  <1>3. QED
    BY <1>1, <1>2

LEMMA AlwaysRunInv == Spec => []RunInv
  BY RunInit, RunStep, AlwaysInv, PTL DEF Spec

\* Whenever ensure_debian_bootstrap returns, stamp and dpkg status of all stages name
\* the plans of one manifest and one release, also after a refresh of the index
\* between two stages, and for any number of stages.
THEOREM StagesAgreeAlways == Spec => []StagesAgree
  <1>1. Inv /\ RunInv => StagesAgree
    <2> SUFFICES ASSUME RunInv, pc = "done"
                 PROVE  \E m \in Manifests, r \in Releases : \A s \in Stages :
                            stamp[s] = PlanOf[m][r][s] /\ status[s] = PlanOf[m][r][s]
      BY DEF StagesAgree
    <2>1. PICK m \in Manifests, r \in Releases : goal = PlanOf[m][r]
      BY DEF RunInv, GoalInv, Outside
    <2>2. \A s \in Stages : stamp[s] = goal[s] /\ status[s] = goal[s]
      BY DEF RunInv, PlannedInv, Past
    <2>3. QED
      BY <2>1, <2>2
  <1>2. QED
    BY <1>1, AlwaysInv, AlwaysRunInv, PTL

\* A run removes extracted work only when the recorded plan cannot be extended to the
\* wanted one: the resets of bootstrap_debian_stage and nothing else, whatever the
\* crashes, the manifests and the mirror.
THEOREM WorkIsAlwaysKept == Spec => WorkIsKept
  <1>1. Inv /\ RunInv /\ [Next]_vars =>
          [\A s \in Stages, p \in Packages \ Excluded :
              /\ pc \notin {"idle", "clean"}
              /\ payload[s][p] # Nothing /\ payload'[s][p] = Nothing
              => ~Extends(goal[s], plan[s])]_vars
    <2> SUFFICES ASSUME Inv, RunInv, Next, NEW s \in Stages, NEW p \in Packages \ Excluded,
                        pc \notin {"idle", "clean"},
                        payload[s][p] # Nothing, payload'[s][p] = Nothing
                 PROVE  ~Extends(goal[s], plan[s])
      OBVIOUS
    <2>0. TypeOK
      BY DEF Inv
    <2> USE <2>0 DEF TypeOK
    <2>1. pc = "wipe" /\ s = cur
      <3>1. ~KeepFrame
        BY DEF KeepFrame
      <3>2. CASE MarkPlan \/ StageReset \/ ForgetPlan \/ SavePlan \/ CleanStage
                 \/ CleanOutput \/ \E t \in Stages, q \in Packages : LosePayload(t, q)
        BY <3>2 DEF MarkPlan, StageReset, ForgetPlan, SavePlan, CleanStage, CleanOutput,
           LosePayload, disk
      <3>3. CASE Extract \/ ExtractInvalid
        BY <3>3 DEF Extract, ExtractInvalid, Torn, Nothing
      <3>4. CASE ExtractInvalidAgain \/ CrashExtracting
        <4>1. PICK x \in Torn(payload[cur][item], Archive(item)) :
                 payload' = [payload EXCEPT ![cur][item] = x]
          BY <3>4 DEF ExtractInvalidAgain, CrashExtracting, Ends
        <4>2. payload'[s][p] = payload[s][p] \/ (s = cur /\ p = item /\ payload'[s][p] = x)
          BY <4>1
        <4>3. QED
          BY <4>1, <4>2 DEF Torn, Nothing
      <3>5. CASE Prune
        BY <3>5, ConstantsAssumption DEF Prune
      <3>6. CASE Wipe
        BY <3>6 DEF Wipe, Emptied
      <3>7. CASE CrashRemoving
        BY <3>7 DEF CrashRemoving, Ends
      <3>8. QED
        BY <3>1, <3>2, <3>3, <3>4, <3>5, <3>6, <3>7, KeepFrames
    <2>2. QED
      BY <2>1 DEF RunInv, KeepInv
  <1>2. QED
    BY <1>1, AlwaysInv, AlwaysRunInv, PTL DEF Spec, WorkIsKept

(***************************************************************************)
(* A run after one that has returned.                                      *)
(***************************************************************************)

\* The builder is between runs, or in one that finds every stage ready.
Settled ==
    /\ index \in Releases
    /\ \A s \in Stages :
           /\ dir[s] /\ stamp[s] = PlanOf[manifest][index][s]
           /\ \A p \in Inspected(DOMAIN stamp[s]) :
                  Seen(s, p) /\ Cached(stamp[s][p])
    /\ pc \in {"idle", "load", "check", "stage", "prune", "populate", "done"}
    /\ pc \in {"check", "stage", "prune", "populate"} => goal = PlanOf[manifest][index]
    /\ pc = "check" => \A s \in Stages : s < cur => s \in ready
    /\ pc \in {"stage", "prune", "populate"} => Stages \subseteq ready

\* It has been disturbed since faults was k, or is settled.
SettledSince(k) == faults > k \/ (faults = k /\ Settled)

\* A run that returns with the plan now wanted leaves the stages settled.
LEMMA DoneSettled ==
    ASSUME Inv, RunInv, pc = "done", goal = PlanOf[manifest][index]
    PROVE  Settled
  <1>1. index \in Releases
    BY DEF RunInv, GoalInv, Outside
  <1>2. \A s \in Stages : stamp[s] = goal[s] /\ Finished(s)
    BY DEF RunInv, PlannedInv, Past, Finished
  <1>3. \A s \in Stages : dir[s] /\ \A p \in Inspected(DOMAIN goal[s]) :
            Seen(s, p) /\ Cached(goal[s][p])
    BY <1>2 DEF RunInv, HeldInv, Confirmed, Held
  <1>4. QED
    BY <1>1, <1>2, <1>3 DEF Settled

\* Whoever disturbs the builder is counted, and nobody takes it back.
LEMMA FaultsCounted ==
    ASSUME TypeOK, Next
    PROVE  faults' = faults + 1 \/ (faults' = faults /\ (Start \/ Builder))
  BY DEF Next, Disturbance, Builder, Fetching, Fault, env, Start, IndexUnavailable,
         FetchTruncated, FetchError, LoadIndex, CheckNotReady, CheckReady, CheckRaises,
         CheckRepair, MarkPlan, MarkProgress, StageReady, StageReset, StageResume,
         StageResumeRaises, Wipe, Remake, ForgetPlan, ForgetProgress, SavePlan,
         SaveProgress, FetchCached, FetchDownload, FetchGone, FetchRefused, Unfetched,
         Extract, ExtractInvalid, ExtractInvalidAgain, Refetch, RefetchFails, Record,
         LoopDone, Prune, Populate, Stamp, Leave, CrashBetween, CrashFetching,
         CrashExtracting, CrashRemoving, CrashWriting, CleanStart, CleanStage,
         CleanOutput, EditManifest, MirrorMoves, CleanCache, LosePayload

\* The builder's own steps keep it settled: each stage is found ready.
LEMMA SettledStep ==
    ASSUME Inv, Settled, Start \/ Builder
    PROVE  Settled' \/ faults' # faults
  <1>0. TypeOK
    BY DEF Inv
  <1>1. \A s \in Stages : stamp[s] \in Plans /\ DOMAIN stamp[s] \subseteq Packages
    BY <1>0, PlanParts DEF TypeOK
  <1> USE <1>0 DEF TypeOK, disk, local, env
  <1>2. CASE Start
    BY <1>2 DEF Start, Settled, Seen, Cached, net
  <1>3. CASE LoadIndex
    <2>1. UNCHANGED <<dir, stamp, payload, manifest, cache, index>>
      BY <1>3, ConstantsAssumption DEF LoadIndex, Settled, Abort, Ends, Releases
    <2>2. \/ pc' = "idle"
          \/ pc' = "check" /\ cur' = 1 /\ goal' = PlanOf[manifest][index]
      BY <1>3, <2>1 DEF LoadIndex, Abort, Ends
    <2>3. QED
      BY <2>1, <2>2, ConstantsAssumption DEF Settled, Seen, Cached, Stages
  <1>4. CASE CheckNotReady
    BY <1>4 DEF CheckNotReady, Settled, StampCurrent
  <1>5. CASE CheckRepair
    BY <1>5 DEF CheckRepair, Settled, Missing
  <1>6. CASE CheckReady
    <2>1. UNCHANGED <<dir, stamp, payload, manifest, cache, index, goal>>
      BY <1>6 DEF CheckReady, net
    <2>2. \/ pc' = "check" /\ cur' = cur + 1
          \/ pc' = "stage" /\ cur = NumStages
      BY <1>6, ConstantsAssumption DEF CheckReady, NextStage, Stages
    <2>3. \A s \in Stages : s <= cur => s \in ready'
      BY <1>6, ConstantsAssumption DEF CheckReady, Settled, Stages
    <2>4. QED
      BY <1>6, <2>1, <2>2, <2>3, ConstantsAssumption DEF CheckReady, Settled, Seen,
         Cached, Stages
  <1>7. CASE CheckRaises \/ Leave
    <2>1. UNCHANGED <<dir, stamp, payload, manifest, cache, index>> /\ pc' = "idle"
      BY <1>7 DEF CheckRaises, Leave, Abort, Ends, net
    <2>2. QED
      BY <2>1 DEF Settled, Seen, Cached
  <1>8. CASE StageReady
    BY <1>8 DEF StageReady, Settled, Seen, Cached, net
  <1>9. CASE StageReset \/ StageResume \/ StageResumeRaises
    BY <1>9 DEF StageReset, StageResume, StageResumeRaises, Settled
  <1>10. CASE Prune
    <2>1. \A s \in Stages : \A p \in Inspected(DOMAIN stamp[s]) :
             payload'[s][p] = payload[s][p]
      BY <1>1, <1>10, ConstantsAssumption DEF Prune, Inspected
    <2>2. /\ UNCHANGED <<dir, stamp, manifest, cache, index, goal, ready>>
          /\ pc = "prune" /\ pc' = "populate"
      BY <1>10 DEF Prune, net
    <2>3. \A s \in Stages : \A p \in Inspected(DOMAIN stamp[s]) :
             Seen(s, p)' /\ Cached(stamp[s][p])'
      <3> SUFFICES ASSUME NEW s \in Stages, NEW p \in Inspected(DOMAIN stamp[s])
                   PROVE  Seen(s, p)' /\ Cached(stamp[s][p])'
        OBVIOUS
      <3>1. Seen(s, p) /\ Cached(stamp[s][p])
        BY DEF Settled
      <3>2. payload'[s][p] = payload[s][p]
        BY <2>1
      <3>3. QED
        BY <2>2, <3>1, <3>2 DEF Seen, Cached
    <2>4. QED
      BY <2>2, <2>3 DEF Settled
  <1>11. CASE Populate
    <2>1. UNCHANGED <<dir, stamp, payload, manifest, cache, index, goal, ready>>
          /\ pc' \in {"stage", "done"}
      BY <1>11 DEF Populate, NextStage, Settled, net
    <2>2. QED
      BY <1>11, <2>1 DEF Populate, Settled, Seen, Cached
  <1>12. pc \in {"idle", "load", "check", "stage", "prune", "populate", "done"}
    BY DEF Settled
  <1>13. QED
    BY <1>2, <1>3, <1>4, <1>5, <1>6, <1>7, <1>8, <1>9, <1>10, <1>11, <1>12
    DEF Builder, Fetching, MarkPlan, MarkProgress, Wipe, Remake, ForgetPlan,
        ForgetProgress, SavePlan, SaveProgress, FetchCached, FetchDownload, FetchGone,
        FetchRefused, Unfetched, Extract, ExtractInvalid, ExtractInvalidAgain, Refetch,
        RefetchFails, Record, LoopDone, Stamp, CleanStage, CleanOutput

\* Once a run has returned with the plan that the manifests and the cached index give,
\* no later run marks, wipes, plans or extracts anything until something outside
\* the builder has changed: ensure_debian_bootstrap is idempotent.
THEOREM RerunOnlyVerifiesAlways == Spec => RerunOnlyVerifies
  <1>1. ASSUME NEW k \in 0..MaxFaults
        PROVE  Spec => [](pc = "done" /\ faults = k /\ goal = PlanOf[manifest][index]
                              => [](faults = k => pc \notin Seeding))
    <2>1. Inv /\ RunInv /\ pc = "done" /\ faults = k /\ goal = PlanOf[manifest][index]
              => SettledSince(k)
      BY DoneSettled DEF SettledSince
    <2>2. Inv /\ RunInv /\ SettledSince(k) /\ [Next]_vars => SettledSince(k)'
      <3> SUFFICES ASSUME Inv, SettledSince(k), [Next]_vars
                   PROVE  SettledSince(k)'
        OBVIOUS
      <3>0. TypeOK /\ faults \in Nat /\ k \in Nat
        BY ConstantsAssumption DEF Inv, TypeOK
      <3>1. CASE Next
        <4>1. CASE faults > k
          BY <3>0, <3>1, <4>1, FaultsCounted DEF SettledSince
        <4>2. CASE faults = k /\ Settled
          BY <3>0, <3>1, <4>2, FaultsCounted, SettledStep DEF SettledSince
        <4>3. QED
          BY <4>1, <4>2 DEF SettledSince
      <3>2. CASE UNCHANGED vars
        BY <3>2 DEF SettledSince, Settled, Seen, Cached, vars, disk, net, local, env
      <3>3. QED
        BY <3>1, <3>2
    <2>3. SettledSince(k) => (faults = k => pc \notin Seeding)
      BY ConstantsAssumption DEF SettledSince, Settled, Seeding
    <2>4. QED
      BY <2>1, <2>2, <2>3, AlwaysInv, AlwaysRunInv, PTL DEF Spec
  <1>2. QED
    BY <1>1 DEF RerunOnlyVerifies

=============================================================================
