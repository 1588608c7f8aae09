--------------------------- MODULE BootstrapStage ---------------------------
(***************************************************************************)
(* Seeding of the two Devuan stages (bootstrap_rootfs, then build_sysroot) *)
(* by builder.py: ensure_debian_bootstrap, _ensure_debian_bootstrap_impl,  *)
(* bootstrap_debian_stage and the bookkeeping that lets an interrupted run *)
(* be resumed.  One builder process works on a disk that outlives it; the  *)
(* process may die between any two durable writes and in the middle of an  *)
(* extraction, of an rmtree or of a non-atomic file write.                 *)
(*                                                                         *)
(* A plan maps each package of a stage to the archive (Filename) it is     *)
(* extracted from.  The plan file, the progress file and the stamp are     *)
(* represented by what a later run reads back from them: an absent file    *)
(* and an empty one read the same way, so NoPlan and {} stand for both.    *)
(***************************************************************************)
EXTENDS Naturals, FiniteSets

CONSTANTS
    NumStages,      \* stages in seeding order: 1 bootstrap_rootfs, 2 build_sysroot
    Packages,       \* Debian package names
    Archives,       \* .deb files, named by their Filename entry
    Manifests,      \* contents the two package manifests may have
    NumReleases,    \* states of the mirror, in the order it publishes them
    PlanOf,         \* [manifest][release][stage]: the plan closure resolution gives
    PoolOf,         \* [release]: the archives the mirror still serves
    Rejected,       \* <<manifest, release>> pairs whose resolution raises
    Excluded,       \* BOOTSTRAP_VALIDATION_EXCLUDED_PACKAGE_PATTERNS
    Pruned,         \* packages whose payload prune_*_payload removes
    LabelHas404,    \* packages whose download label contains the digits 404
    Truncates,      \* archives whose download may be cut short unnoticed
    NoPackage, NoArchive,
    MaxFaults       \* bound on crashes, failures and changes of the environment

Stages   == 1..NumStages
Releases == 1..NumReleases
Plans    == UNION {[S -> Archives] : S \in SUBSET Packages}
NoPlan   == [p \in {} |-> NoArchive]

ASSUME ConstantsAssumption ==
    /\ NumStages \in Nat \ {0}
    /\ NumReleases \in Nat \ {0}
    /\ MaxFaults \in Nat
    /\ Manifests # {}
    /\ NoPackage \notin Packages
    /\ NoArchive \notin Archives
    /\ Pruned \subseteq Excluded
    /\ PlanOf \in [Manifests -> [Releases -> [Stages -> Plans \ {NoPlan}]]]

(***************************************************************************)
(* What is on disk of one package in one stage.  "hidden" and "visible"    *)
(* are incomplete payloads: the missing-payload check looks for any of a   *)
(* few candidate paths, and finds none of them, respectively one of them.  *)
(***************************************************************************)
Nothing == [arc |-> NoArchive, lvl |-> "none"]
Payload == {Nothing} \cup [arc : Archives, lvl : {"hidden", "visible", "full"}]

\* "bad" is truncated; "stuck" is absent with a ".part" beside it that is complete,
\* which asks for a range behind its end.
CacheStates == {"absent", "stuck", "good", "bad"}

VARIABLES
    \* the disk
    dir,        \* [Stages -> BOOLEAN]: the stage directory exists
    payload,    \* [Stages -> [Packages -> Payload]]
    plan,       \* [Stages -> Plans]: <stage>.plan.json
    progress,   \* [Stages -> SUBSET Packages]: "completed" of <stage>.progress.json
    stamp,      \* [Stages -> Plans]: .bootstrap-complete, inside the stage
    status,     \* [Stages -> Plans]: var/lib/dpkg/status, inside the stage
    cache,      \* [Archives -> CacheStates]: BOOTSTRAP_CACHE_DIR
    index,      \* the release of the cached Packages file, 0 if none
    \* the builder process
    pc, cur, goal, ready, completed, pending, item, retried, refreshed,
    \* the environment
    manifest, mirror, faults,
    \* a history variable, read by properties only
    exposed     \* [Stages -> BOOLEAN]: some run ended with a record on disk
                \* vouching for a payload that was not wholly extracted

disk  == <<dir, payload, plan, progress, stamp, status>>
net   == <<cache, index>>
local == <<cur, goal, ready, completed, pending, item, retried, refreshed>>
env   == <<manifest, mirror, faults>>
ghost == <<exposed>>
vars  == <<disk, net, pc, local, env, ghost>>

Labels == {"idle", "load", "check", "markPlan", "markProgress", "stage", "wipe",
           "remake", "forgetPlan", "forgetProgress", "savePlan", "saveProgress",
           "fetch", "extract", "refetch", "record", "prune", "populate",
           "stamp", "done", "clean", "cleanOutput"}

TypeOK ==
    /\ dir \in [Stages -> BOOLEAN]
    /\ payload \in [Stages -> [Packages -> Payload]]
    /\ plan \in [Stages -> Plans]
    /\ progress \in [Stages -> SUBSET Packages]
    /\ stamp \in [Stages -> Plans]
    /\ status \in [Stages -> Plans]
    /\ cache \in [Archives -> CacheStates]
    /\ index \in Releases \cup {0}
    /\ pc \in Labels
    /\ cur \in Stages
    /\ goal \in [Stages -> Plans]
    /\ ready \subseteq Stages
    /\ completed \subseteq Packages
    /\ pending \subseteq Packages
    /\ item \in Packages \cup {NoPackage}
    /\ retried \in BOOLEAN
    /\ refreshed \in BOOLEAN
    /\ manifest \in Manifests
    /\ mirror \in Releases
    /\ faults \in 0..MaxFaults
    /\ exposed \in [Stages -> BOOLEAN]

Init ==
    /\ dir = [s \in Stages |-> FALSE]
    /\ payload = [s \in Stages |-> [p \in Packages |-> Nothing]]
    /\ plan = [s \in Stages |-> NoPlan]
    /\ progress = [s \in Stages |-> {}]
    /\ stamp = [s \in Stages |-> NoPlan]
    /\ status = [s \in Stages |-> NoPlan]
    /\ cache = [a \in Archives |-> "absent"]
    /\ index = 0
    /\ pc = "idle"
    /\ cur = 1
    /\ goal = [s \in Stages |-> NoPlan]
    /\ ready = {}
    /\ completed = {}
    /\ pending = {}
    /\ item = NoPackage
    /\ retried = FALSE
    /\ refreshed = FALSE
    /\ manifest \in Manifests
    /\ mirror = 1
    /\ faults = 0
    /\ exposed = [s \in Stages |-> FALSE]

-----------------------------------------------------------------------------
(***************************************************************************)
(* Plans and the evidence a run has about a stage.                         *)
(***************************************************************************)

\* Every package of the old plan is wanted, from the same archive.
Extends(new, old) ==
    /\ DOMAIN old \subseteq DOMAIN new
    /\ \A p \in DOMAIN old : new[p] = old[p]

\* Mutation: a plan that grew counts as a different plan.
TransitionNoAppend(old, new) ==
    IF old = NoPlan \/ old # new THEN "reset" ELSE "reuse"

Transition(old, new) ==
    IF old = NoPlan \/ ~Extends(new, old) THEN "reset"
    ELSE IF DOMAIN old = DOMAIN new THEN "reuse" ELSE "append-only"

\* The archive is a file of the download cache.
Cached(a) == cache[a] \in {"good", "bad"}

\* Some candidate path of the package is on disk.
Seen(s, p) == payload[s][p].lvl \in {"visible", "full"}

\* Mutation: pruned packages are inspected like the others.
InspectedAll(S) == S

\* The packages of S the missing-payload check inspects.
Inspected(S) == S \ Excluded

\* Listing a truncated archive raises: the check cannot answer.
Unreadable(s, S) == \E p \in Inspected(S) : cache[goal[s][p]] = "bad"

\* Mutation: only the download cache is looked at, not the stage.
MissingFromCache(s, S) == {p \in Inspected(S) : ~Cached(goal[s][p])}

Missing(s, S) ==
    {p \in Inspected(S) : ~Cached(goal[s][p]) \/ ~Seen(s, p)}

\* The payload is the whole of archive a.
Whole(x, a) == x.lvl = "full" /\ x.arc = a

\* A record that a later run trusts names a payload which looks extracted to the
\* missing-payload check and is not the whole of the archive the plan (or the
\* stamp) names.  An empty "completed" list makes that run trust the plan itself.
Vouching(pay, P, done, st) ==
    \E p \in Packages \ Excluded :
        /\ pay[p].lvl \in {"visible", "full"}
        /\ \/ p \in done /\ ~(p \in DOMAIN P /\ Whole(pay[p], P[p]))
           \/ done = {} /\ p \in DOMAIN P /\ ~Whole(pay[p], P[p])
           \/ p \in DOMAIN st /\ ~Whole(pay[p], st[p])

-----------------------------------------------------------------------------
(***************************************************************************)
(* The process ends: by returning to the shell, an exception or a signal.  *)
(* Memory is lost; pay and st are what it leaves in the stages.            *)
(***************************************************************************)
Forgotten ==
    /\ cur' = 1
    /\ goal' = [s \in Stages |-> NoPlan]
    /\ ready' = {} /\ completed' = {} /\ pending' = {}
    /\ item' = NoPackage
    /\ retried' = FALSE /\ refreshed' = FALSE

Judged(pay, st) ==
    exposed' = [s \in Stages |->
        exposed[s] \/ Vouching(pay[s], plan[s], progress[s], st[s])]

Ends(pay, st) ==
    /\ pc' = "idle"
    /\ Forgotten
    /\ payload' = pay
    /\ stamp' = st
    /\ Judged(pay, st)
    /\ UNCHANGED <<plan, progress>>

\* An exception nobody catches: nothing but the process is affected.
Abort == Ends(payload, stamp) /\ UNCHANGED <<dir, status>>

Fault == faults < MaxFaults /\ faults' = faults + 1 /\ UNCHANGED <<manifest, mirror>>

\* The stage after cur, or label l with cur back at the first one.
NextStage(l, same) ==
    IF cur < NumStages THEN cur' = cur + 1 /\ pc' = same
                       ELSE cur' = 1 /\ pc' = l

-----------------------------------------------------------------------------
(***************************************************************************)
(* Loading the index and deciding which stages are ready.                  *)
(***************************************************************************)
Start ==
    /\ pc = "idle"
    /\ pc' = "load"
    /\ UNCHANGED <<disk, net, local, env, ghost>>

\* load_debian_package_index, then closure resolution and policy.
LoadIndex ==
    /\ pc = "load"
    /\ index' = IF index = 0 THEN mirror ELSE index
    /\ IF <<manifest, index'>> \in Rejected
       THEN Abort
       ELSE /\ goal' = PlanOf[manifest][index']
            /\ pc' = "check"
            /\ cur' = 1
            /\ ready' = {}
            /\ UNCHANGED <<disk, completed, pending, item, retried, refreshed, ghost>>
    /\ UNCHANGED <<cache, env>>

IndexUnavailable ==
    /\ pc = "load" /\ index = 0
    /\ Fault
    /\ Abort
    /\ UNCHANGED net

StampCurrent(s) == dir[s] /\ stamp[s] = goal[s]

CheckNotReady ==
    /\ pc = "check"
    /\ ~StampCurrent(cur)
    /\ NextStage("stage", "check")
    /\ UNCHANGED <<disk, net, goal, ready, completed, pending, item, retried,
                   refreshed, env, ghost>>

CheckReady ==
    /\ pc = "check"
    /\ StampCurrent(cur)
    /\ ~Unreadable(cur, DOMAIN goal[cur])
    /\ Missing(cur, DOMAIN goal[cur]) = {}
    /\ ready' = ready \cup {cur}
    /\ NextStage("stage", "check")
    /\ UNCHANGED <<disk, net, goal, completed, pending, item, retried, refreshed,
                   env, ghost>>

CheckRaises ==
    /\ pc = "check"
    /\ StampCurrent(cur)
    /\ Unreadable(cur, DOMAIN goal[cur])
    /\ Abort
    /\ UNCHANGED <<net, env>>

CheckRepair ==
    /\ pc = "check"
    /\ StampCurrent(cur)
    /\ ~Unreadable(cur, DOMAIN goal[cur])
    /\ Missing(cur, DOMAIN goal[cur]) # {}
    /\ pc' = "markPlan"
    /\ UNCHANGED <<disk, net, local, env, ghost>>

\* mark_bootstrap_stage_for_repair: two saves, in this order.
MarkPlan ==
    /\ pc = "markPlan"
    /\ plan' = [plan EXCEPT ![cur] = goal[cur]]
    /\ pc' = "markProgress"
    /\ UNCHANGED <<dir, payload, progress, stamp, status, net, local, env, ghost>>

MarkProgress ==
    /\ pc = "markProgress"
    /\ progress' = [progress EXCEPT ![cur] =
                       DOMAIN goal[cur] \ Missing(cur, DOMAIN goal[cur])]
    /\ NextStage("stage", "check")
    /\ UNCHANGED <<dir, payload, plan, stamp, status, net, goal, ready, completed,
                   pending, item, retried, refreshed, env, exposed>>

-----------------------------------------------------------------------------
(***************************************************************************)
(* bootstrap_debian_stage: reset or resume.                                *)
(***************************************************************************)
StageReady ==
    /\ pc = "stage" /\ cur \in ready
    /\ pc' = "prune"
    /\ UNCHANGED <<disk, net, local, env, ghost>>

NeedsReset(s) == dir[s] /\ Transition(plan[s], goal[s]) = "reset"

StageReset ==
    /\ pc = "stage" /\ cur \notin ready
    /\ NeedsReset(cur)
    /\ pc' = "wipe"
    /\ UNCHANGED <<disk, net, local, env, ghost>>

\* Mutation: the plan is always trusted, the saved list never read.
BelievedPlan(s) == IF dir[s] THEN DOMAIN plan[s] \cap DOMAIN goal[s] ELSE {}

\* What the run believes to be extracted: the saved list if there is one that
\* is not empty, or else everything in the plan the directory was made from.
Believed(s) ==
    LET expected == DOMAIN goal[s] IN
      IF progress[s] # {} THEN progress[s] \cap expected
      ELSE IF dir[s] THEN DOMAIN plan[s] \cap expected ELSE {}

StageResume ==
    /\ pc = "stage" /\ cur \notin ready
    /\ ~NeedsReset(cur)
    /\ ~Unreadable(cur, Believed(cur))
    /\ dir' = [dir EXCEPT ![cur] = TRUE]
    /\ completed' = Believed(cur) \ Missing(cur, Believed(cur))
    /\ pc' = "savePlan"
    /\ UNCHANGED <<payload, plan, progress, stamp, status, net, cur, goal, ready,
                   pending, item, retried, refreshed, env, ghost>>

StageResumeRaises ==
    /\ pc = "stage" /\ cur \notin ready
    /\ ~NeedsReset(cur)
    /\ Unreadable(cur, Believed(cur))
    /\ Ends(payload, stamp)
    /\ dir' = [dir EXCEPT ![cur] = TRUE]
    /\ UNCHANGED <<status, net, env>>

\* rmtree of the stage; everything inside it goes.
Emptied(s) ==
    /\ dir' = [dir EXCEPT ![s] = FALSE]
    /\ payload' = [payload EXCEPT ![s] = [p \in Packages |-> Nothing]]
    /\ stamp' = [stamp EXCEPT ![s] = NoPlan]
    /\ status' = [status EXCEPT ![s] = NoPlan]
    /\ exposed' = [exposed EXCEPT ![s] = FALSE]

Wipe ==
    /\ pc = "wipe"
    /\ Emptied(cur)
    /\ pc' = "remake"
    /\ UNCHANGED <<plan, progress, net, local, env>>

Remake ==
    /\ pc = "remake"
    /\ dir' = [dir EXCEPT ![cur] = TRUE]
    /\ pc' = "forgetPlan"
    /\ UNCHANGED <<payload, plan, progress, stamp, status, net, local, env, ghost>>

ForgetPlan ==
    /\ pc = "forgetPlan"
    /\ plan' = [plan EXCEPT ![cur] = NoPlan]
    /\ pc' = "forgetProgress"
    /\ UNCHANGED <<dir, payload, progress, stamp, status, net, local, env, ghost>>

ForgetProgress ==
    /\ pc = "forgetProgress"
    /\ progress' = [progress EXCEPT ![cur] = {}]
    /\ completed' = {}
    /\ pc' = "savePlan"
    /\ UNCHANGED <<dir, payload, plan, stamp, status, net, cur, goal, ready, pending,
                   item, retried, refreshed, env, ghost>>

SavePlan ==
    /\ pc = "savePlan"
    /\ plan' = [plan EXCEPT ![cur] = goal[cur]]
    /\ pc' = "saveProgress"
    /\ UNCHANGED <<dir, payload, progress, stamp, status, net, local, env, ghost>>

SaveProgress ==
    /\ pc = "saveProgress"
    /\ progress' = [progress EXCEPT ![cur] = completed]
    /\ pending' = DOMAIN goal[cur]
    /\ pc' = "fetch"
    /\ UNCHANGED <<dir, payload, plan, stamp, status, net, cur, goal, ready, completed,
                   item, retried, refreshed, env, ghost>>

-----------------------------------------------------------------------------
(***************************************************************************)
(* bootstrap_debian_stage: the package loop.  Every package is fetched,    *)
(* also one that needs no extraction.                                      *)
(***************************************************************************)
Archive(p) == goal[cur][p]

\* fetch_url_cached returned for p.
Fetched(p) ==
    /\ retried' = FALSE
    /\ IF p \in completed
       THEN /\ pending' = pending \ {p}
            /\ UNCHANGED <<pc, item>>
       ELSE /\ item' = p
            /\ pc' = "extract"
            /\ UNCHANGED pending
    /\ UNCHANGED <<disk, index, cur, goal, ready, completed, refreshed, ghost>>

\* Mutation: a stale index is never refreshed.
StaleNever == Abort /\ UNCHANGED index

\* Mutation: after a refresh only the stage that failed is planned again.
StaleOneStage ==
    IF refreshed
    THEN Abort /\ UNCHANGED index
    ELSE /\ index' = mirror
         /\ refreshed' = TRUE
         /\ goal' = [goal EXCEPT ![cur] = PlanOf[manifest][mirror][cur]]
         /\ completed' = {} /\ pending' = {}
         /\ pc' = "stage"
         /\ Judged(payload, stamp)
         /\ UNCHANGED <<disk, cur, ready, item, retried>>

\* A cached metadata refresh, once per run, when an archive looks unavailable.
Stale ==
    IF refreshed
    THEN Abort /\ UNCHANGED index
    ELSE /\ index' = 0
         /\ refreshed' = TRUE
         /\ completed' = {} /\ pending' = {}
         /\ pc' = "load"
         /\ Judged(payload, stamp)
         /\ UNCHANGED <<disk, cur, goal, ready, item, retried>>

\* What the caller makes of an exception of fetch_url_cached: "404" is looked for in
\* a message that holds the label.
Unfetched(p) == IF p \in LabelHas404 THEN Stale ELSE Abort /\ UNCHANGED index

\* All of archive a has been written to its ".part", which is not renamed any more.
LeftComplete(a) ==
    /\ a \in PoolOf[mirror] /\ ~Cached(a)
    /\ cache' = [cache EXCEPT ![a] = "stuck"]

FetchCached(p) ==
    /\ pc = "fetch" /\ p \in pending
    /\ Cached(Archive(p))
    /\ Fetched(p)
    /\ UNCHANGED <<cache, env>>

\* A complete ".part" is no obstacle to a server that ignores Range.
FetchDownload(p) ==
    /\ pc = "fetch" /\ p \in pending
    /\ ~Cached(Archive(p))
    /\ Archive(p) \in PoolOf[mirror]
    /\ cache' = [cache EXCEPT ![Archive(p)] = "good"]
    /\ Fetched(p)
    /\ UNCHANGED env

\* One that honours it answers 416 to each attempt.
FetchRefused(p) ==
    /\ pc = "fetch" /\ p \in pending
    /\ cache[Archive(p)] = "stuck"
    /\ Archive(p) \in PoolOf[mirror]
    /\ Unfetched(p)
    /\ UNCHANGED <<cache, env>>

\* A connection closed early is taken for the end of the file.
FetchTruncated(p) ==
    /\ pc = "fetch" /\ p \in pending
    /\ ~Cached(Archive(p))
    /\ Archive(p) \in PoolOf[mirror] \cap Truncates
    /\ Fault
    /\ cache' = [cache EXCEPT ![Archive(p)] = "bad"]
    /\ Fetched(p)

FetchGone(p) ==
    /\ pc = "fetch" /\ p \in pending
    /\ ~Cached(Archive(p))
    /\ Archive(p) \notin PoolOf[mirror]
    /\ Stale
    /\ UNCHANGED <<cache, env>>

\* Any other failure, also one of the connection behind the last byte.
FetchError(p) ==
    /\ pc = "fetch" /\ p \in pending
    /\ ~Cached(Archive(p))
    /\ Fault
    /\ Unfetched(p)
    /\ UNCHANGED cache \/ LeftComplete(Archive(p))

\* What an unfinished extraction of archive a over payload x may leave.
Torn(x, a) == {x} \cup [arc : {a}, lvl : {"hidden", "visible"}]

Extract ==
    /\ pc = "extract"
    /\ cache[Archive(item)] = "good"
    /\ payload' = [payload EXCEPT ![cur][item] = [arc |-> Archive(item), lvl |-> "full"]]
    /\ pc' = "record"
    /\ UNCHANGED <<dir, plan, progress, stamp, status, net, local, env, ghost>>

\* dpkg-deb fails on the cached archive: drop it and fetch it once more.
ExtractInvalid ==
    /\ pc = "extract" /\ ~retried
    /\ cache[Archive(item)] = "bad"
    /\ \E x \in Torn(payload[cur][item], Archive(item)) :
           payload' = [payload EXCEPT ![cur][item] = x]
    /\ cache' = [cache EXCEPT ![Archive(item)] = "absent"]
    /\ pc' = "refetch"
    /\ UNCHANGED <<dir, plan, progress, stamp, status, index, local, env, ghost>>

ExtractInvalidAgain ==
    /\ pc = "extract" /\ retried
    /\ cache[Archive(item)] = "bad"
    /\ \E x \in Torn(payload[cur][item], Archive(item)) :
           Ends([payload EXCEPT ![cur][item] = x], stamp)
    /\ UNCHANGED <<dir, status, net, env>>

Refetch ==
    /\ pc = "refetch"
    /\ Archive(item) \in PoolOf[mirror]
    /\ \/ /\ cache' = [cache EXCEPT ![Archive(item)] = "good"]
          /\ UNCHANGED env
       \/ /\ Archive(item) \in Truncates
          /\ Fault
          /\ cache' = [cache EXCEPT ![Archive(item)] = "bad"]
    /\ retried' = TRUE
    /\ pc' = "extract"
    /\ UNCHANGED <<disk, index, cur, goal, ready, completed, pending, item, refreshed,
                   ghost>>

\* Here a 404 is not read as a stale index.
RefetchFails ==
    /\ pc = "refetch"
    /\ \/ Archive(item) \notin PoolOf[mirror] /\ UNCHANGED env
       \/ Archive(item) \in PoolOf[mirror] /\ Fault
    /\ Abort
    /\ UNCHANGED index
    /\ UNCHANGED cache \/ LeftComplete(Archive(item))

Record ==
    /\ pc = "record"
    /\ completed' = completed \cup {item}
    /\ progress' = [progress EXCEPT ![cur] = completed']
    /\ pending' = pending \ {item}
    /\ item' = NoPackage
    /\ pc' = "fetch"
    /\ UNCHANGED <<dir, payload, plan, stamp, status, net, cur, goal, ready, retried,
                   refreshed, env, exposed>>

LoopDone ==
    /\ pc = "fetch" /\ pending = {}
    /\ progress' = [progress EXCEPT ![cur] = {}]
    /\ pc' = "prune"
    /\ UNCHANGED <<dir, payload, plan, stamp, status, net, local, env, ghost>>

-----------------------------------------------------------------------------
(***************************************************************************)
(* After the loop: prune, dpkg status, stamp.                              *)
(***************************************************************************)
Prune ==
    /\ pc = "prune"
    /\ payload' = [payload EXCEPT ![cur] =
           [p \in Packages |-> IF p \in Pruned THEN Nothing ELSE payload[cur][p]]]
    /\ pc' = "populate"
    /\ UNCHANGED <<dir, plan, progress, stamp, status, net, local, env, ghost>>

Populate ==
    /\ pc = "populate"
    /\ status' = [status EXCEPT ![cur] = goal[cur]]
    /\ IF cur \in ready
       THEN NextStage("done", "stage")
       ELSE pc' = "stamp" /\ UNCHANGED cur
    /\ UNCHANGED <<dir, payload, plan, progress, stamp, net, goal, ready, completed,
                   pending, item, retried, refreshed, env, ghost>>

Stamp ==
    /\ pc = "stamp"
    /\ stamp' = [stamp EXCEPT ![cur] = goal[cur]]
    /\ NextStage("done", "stage")
    /\ UNCHANGED <<dir, payload, plan, progress, status, net, goal, ready, completed,
                   pending, item, retried, refreshed, env, ghost>>

\* ensure_debian_bootstrap has returned; the rest of the build runs and exits.
Leave ==
    /\ pc = "done"
    /\ Abort
    /\ UNCHANGED <<net, env>>

-----------------------------------------------------------------------------
(***************************************************************************)
(* Interruptions.  A signal or a power cut kills the process at any point; *)
(* what it was writing is left unfinished.                                 *)
(***************************************************************************)

\* What an unfinished removal may leave of payload x.
Remnant(x) == {x, Nothing} \cup
    (IF x = Nothing THEN {} ELSE {[arc |-> x.arc, lvl |-> "visible"]})

CrashBetween ==
    /\ pc \notin {"idle", "done"}
    /\ Fault
    /\ Abort
    /\ UNCHANGED net

\* Between the last write to a ".part" and the rename.
CrashFetching ==
    /\ \/ pc = "fetch" /\ \E p \in pending : LeftComplete(Archive(p))
       \/ pc = "refetch" /\ LeftComplete(Archive(item))
    /\ Fault
    /\ Abort
    /\ UNCHANGED index

CrashExtracting ==
    /\ pc = "extract"
    /\ Fault
    /\ \E x \in Torn(payload[cur][item], Archive(item)) :
           Ends([payload EXCEPT ![cur][item] = x], stamp)
    /\ UNCHANGED <<dir, status, net>>

\* Removal proceeds in no particular order.
CrashRemoving ==
    /\ pc \in {"wipe", "clean"}
    /\ Fault
    /\ \E left \in [Packages -> UNION {Remnant(payload[cur][p]) : p \in Packages}],
          st \in {stamp[cur], NoPlan} :
          /\ \A p \in Packages : left[p] \in Remnant(payload[cur][p])
          /\ Ends([payload EXCEPT ![cur] = left], [stamp EXCEPT ![cur] = st])
    /\ \E old \in {status[cur], NoPlan} : status' = [status EXCEPT ![cur] = old]
    /\ UNCHANGED <<dir, net>>

\* The status and stamp files are truncated before they are written.
CrashWriting ==
    /\ pc \in {"populate", "stamp"}
    /\ Fault
    /\ IF pc = "populate"
       THEN /\ status' = [status EXCEPT ![cur] = NoPlan]
            /\ Ends(payload, stamp)
       ELSE /\ UNCHANGED status
            /\ Ends(payload, [stamp EXCEPT ![cur] = NoPlan])
    /\ UNCHANGED <<dir, net>>

-----------------------------------------------------------------------------
(***************************************************************************)
(* builder.py --clean: the stage directories in order, then OUTPUT_DIR,    *)
(* which holds the plan and progress files.                                *)
(***************************************************************************)
CleanStart ==
    /\ pc = "idle"
    /\ Fault
    /\ pc' = "clean"
    /\ UNCHANGED <<disk, net, local, ghost>>

CleanStage ==
    /\ pc = "clean"
    /\ Emptied(cur)
    /\ NextStage("cleanOutput", "clean")
    /\ UNCHANGED <<plan, progress, net, goal, ready, completed, pending, item, retried,
                   refreshed, env>>

CleanOutput ==
    /\ pc = "cleanOutput"
    /\ plan' = [s \in Stages |-> NoPlan]
    /\ progress' = [s \in Stages |-> {}]
    /\ pc' = "idle"
    /\ UNCHANGED <<dir, payload, stamp, status, net, local, env, ghost>>

-----------------------------------------------------------------------------
(***************************************************************************)
(* The environment: the developer edits the manifests or empties the       *)
(* download cache, the mirror publishes its next release, and other steps  *)
(* of a build remove files of a seeded stage.                              *)
(***************************************************************************)
EditManifest ==
    /\ faults < MaxFaults /\ faults' = faults + 1
    /\ manifest' \in Manifests \ {manifest}
    /\ UNCHANGED <<disk, net, pc, local, mirror, ghost>>

MirrorMoves ==
    /\ faults < MaxFaults /\ faults' = faults + 1
    /\ mirror < NumReleases /\ mirror' = mirror + 1
    /\ UNCHANGED <<disk, net, pc, local, manifest, ghost>>

CleanCache ==
    /\ pc = "idle"
    /\ Fault
    /\ cache' = [a \in Archives |-> "absent"]
    /\ index' = 0
    /\ UNCHANGED <<disk, pc, local, ghost>>

LosePayload(s, p) ==
    /\ pc = "idle" /\ payload[s][p] # Nothing
    /\ Fault
    /\ payload' = [payload EXCEPT ![s][p] = Nothing]
    /\ UNCHANGED <<dir, plan, progress, stamp, status, net, pc, local, ghost>>

-----------------------------------------------------------------------------
Fetching(p) ==
    FetchCached(p) \/ FetchDownload(p) \/ FetchRefused(p) \/ FetchGone(p)

\* The builder's own steps when nothing goes wrong from outside.
Builder ==
    \/ LoadIndex
    \/ CheckNotReady \/ CheckReady \/ CheckRaises \/ CheckRepair
    \/ MarkPlan \/ MarkProgress
    \/ StageReady \/ StageReset \/ StageResume \/ StageResumeRaises
    \/ Wipe \/ Remake \/ ForgetPlan \/ ForgetProgress
    \/ SavePlan \/ SaveProgress
    \/ \E p \in Packages : Fetching(p)
    \/ Extract \/ ExtractInvalid \/ ExtractInvalidAgain \/ Refetch \/ RefetchFails
    \/ Record \/ LoopDone
    \/ Prune \/ Populate \/ Stamp \/ Leave
    \/ CleanStage \/ CleanOutput

Disturbance ==
    \/ IndexUnavailable
    \/ \E p \in Packages : FetchTruncated(p) \/ FetchError(p)
    \/ CrashBetween \/ CrashFetching \/ CrashExtracting \/ CrashRemoving \/ CrashWriting
    \/ CleanStart \/ EditManifest \/ MirrorMoves \/ CleanCache
    \/ \E s \in Stages, p \in Packages : LosePayload(s, p)

Next == Start \/ Builder \/ Disturbance

Spec == Init /\ [][Next]_vars

\* The developer runs the builder again whenever it has exited, and the
\* process, which is sequential and waits for nobody, keeps running.
FairSpec == Spec /\ WF_vars(Start) /\ WF_vars(Builder)

-----------------------------------------------------------------------------
(***************************************************************************)
(* Properties.                                                             *)
(***************************************************************************)

\* Each inspected package of the wanted plan is there in full.
Seeded(s) ==
    \A p \in Inspected(DOMAIN goal[s]) : Whole(payload[s][p], goal[s][p])

\* When ensure_debian_bootstrap returns, every stage holds, complete and from
\* the wanted archive, each package its stamp names, unless an earlier run
\* ended while a record on disk vouched for an unfinished payload of that stage
\* (first package of a stage, a repair under a current stamp, an interrupted
\* rmtree): those are the only ways to get past the resume logic of
\* bootstrap_debian_stage.
SeededUnlessExposed ==
    pc = "done" => \A s \in Stages : exposed[s] \/ Seeded(s)

\* When ensure_debian_bootstrap returns, the stages agree with one another: the
\* same manifest and index gave both, also when the index was refreshed after
\* the first stage had been seeded; stamp and dpkg status name that plan.
StagesAgree ==
    pc = "done" =>
        \E m \in Manifests, r \in Releases :
            \A s \in Stages :
                /\ stamp[s] = PlanOf[m][r][s]
                /\ status[s] = PlanOf[m][r][s]

\* A run that has returned leaves nothing to do: as long as nothing disturbs the
\* disk, the mirror or the manifests, later runs find both stages ready and only
\* verify them (faults counts the disturbances, so it stands still meanwhile; a
\* run that returns while the manifests have changed under it is not meant).
Seeding == {"markPlan", "wipe", "savePlan", "extract"}

RerunOnlyVerifies ==
    \A k \in 0..MaxFaults :
        [](pc = "done" /\ faults = k /\ goal = PlanOf[manifest][index]
              => [](faults = k => pc \notin Seeding))

\* Extracted work is thrown away only when the recorded plan cannot be extended
\* to the wanted one: a manifest that grows, a crash or a refresh of the index
\* to a release that keeps the archives never makes a run drop a package.
WorkIsKept ==
    [][\A s \in Stages, p \in Packages \ Excluded :
          /\ pc \notin {"idle", "clean"}
          /\ payload[s][p] # Nothing /\ payload'[s][p] = Nothing
          => ~Extends(goal[s], plan[s])]_vars

\* Once the disturbances are over, re-running the builder ends with every stage
\* seeded: no state on disk makes every later run fail, other than what the download
\* cache may hold of an archive, truncated or complete and never renamed; and no
\* manifest does, other than one that names what a release does not have.
Converges ==
    []<>(\/ pc = "done"
         \/ \E a \in Archives : cache[a] \in {"bad", "stuck"}
         \/ \E r \in Releases : <<manifest, r>> \in Rejected)

(***************************************************************************)
(* The inductive invariant behind SeededUnlessExposed.                     *)
(***************************************************************************)
Loop     == {"saveProgress", "fetch", "extract", "refetch", "record"}
Reseed   == {"wipe", "remake", "forgetPlan", "forgetProgress", "savePlan"} \cup Loop
Closing  == {"prune", "populate", "stamp"}
Mending(s) == s = cur /\ pc \in Loop \cup {"markProgress"}

\* Stages this run is through with.
Finished(s) ==
    \/ s \in ready
    \/ pc = "done"
    \/ pc \in ({"stage"} \cup Reseed \cup Closing) /\ s < cur
    \/ pc \in Closing /\ s = cur

\* Except while the records are being brought in line with one another, none
\* vouches for anything unfinished.
RecordsInv ==
    \A s \in Stages : ~Mending(s) /\ ~exposed[s]
        => ~Vouching(payload[s], plan[s], progress[s], stamp[s])

\* The stamp never names more than the plan, and lives inside the stage.
StampInv == \A s \in Stages : Extends(plan[s], stamp[s])
DirInv ==
    \A s \in Stages :
        ~dir[s] \/ (s = cur /\ pc \in {"remake", "forgetPlan", "forgetProgress"}) =>
        /\ payload[s] = [p \in Packages |-> Nothing]
        /\ stamp[s] = NoPlan

\* What the run itself believes to be extracted is.
LoopInv ==
    /\ pc \in {"savePlan"} \cup Loop =>
        /\ completed \subseteq DOMAIN goal[cur]
        /\ Extends(goal[cur], stamp[cur])
        /\ exposed[cur] \/ \A p \in Inspected(completed) :
                               Whole(payload[cur][p], goal[cur][p])
    /\ pc \in Loop \ {"saveProgress"} =>
        /\ progress[cur] = completed
        /\ DOMAIN goal[cur] \subseteq completed \cup pending
        /\ pending \subseteq DOMAIN goal[cur]
    /\ pc \in {"extract", "refetch", "record"} => item \in pending \ completed
    /\ pc = "record" => Whole(payload[cur][item], goal[cur][item])

\* A repair starts from a stamp that names the wanted plan.
RepairInv ==
    /\ pc \in {"markPlan", "markProgress"} => stamp[cur] = goal[cur]
    /\ pc = "markProgress" =>
        /\ plan[cur] = goal[cur]
        /\ exposed[cur] \/ \A p \in Inspected(DOMAIN goal[cur]) :
                               Seen(cur, p) => Whole(payload[cur][p], goal[cur][p])

\* Where the process is, and what that says of the stages.
ControlInv ==
    /\ pc \in {"idle", "clean", "cleanOutput"} => ready = {}
    /\ pc \in {"idle", "cleanOutput"} => cur = 1
    /\ pc = "clean" => \A s \in Stages : s < cur => ~dir[s]
    /\ pc = "cleanOutput" => \A s \in Stages : ~dir[s]
    /\ pc \in Reseed \cup {"stamp"} => cur \notin ready
    /\ pc \in {"forgetPlan", "forgetProgress", "savePlan"} => dir[cur]
    /\ pc \in Loop \cup Closing /\ cur \notin ready =>
        dir[cur] /\ plan[cur] = goal[cur]

FinishedInv == \A s \in Stages : Finished(s) => exposed[s] \/ Seeded(s)

\* Between runs and during them, the records on disk, the run's own list and the
\* payload in the stages fit together well enough for SeededUnlessExposed to
\* survive every step (bootstrap_debian_stage and its callers).
SeedingInv ==
    /\ RecordsInv /\ StampInv /\ DirInv /\ LoopInv
    /\ RepairInv /\ ControlInv /\ FinishedInv

\* bootstrap_debian_stage: "Populate a stage directory from Debian .deb packages
\* with resume support" (builder.py:1365): when it returns, what it populated is
\* all there.  Does not hold: see the run resume_partial.
ResumeCompletes ==
    pc = "done" => \A s \in Stages : Seeded(s)
=============================================================================
