------------------------- MODULE PackageIndexProofs -------------------------
(***************************************************************************)
(* Proofs about PackageIndex and the download cache under it: what a       *)
(* cached file and a parsed index hold, for any number of versions of any  *)
(* sizes, any number of retries and any number of interruptions.           *)
(***************************************************************************)
EXTENDS PackageIndex, TLAPS

-----------------------------------------------------------------------------
(***************************************************************************)
(* The download cache.                                                     *)
(***************************************************************************)

\* Each block in its place, none older than the one before it.
InPlace(f) == /\ \A i \in 1..Len(f) : f[i][2] = i
              /\ \A i, j \in 1..Len(f) : i < j => f[i][1] <= f[j][1]

Upto(f, v) == \A i \in 1..Len(f) : f[i][1] <= v

\* A response continues the part file, with a version that is not older than what
\* is there; and its last block is the last of the file.
ResponseFits ==
    fetchPc = "receive" =>
        /\ conn.v <= serving
        /\ conn.next = Len(part) + 1
        /\ Upto(part, conn.v)
        /\ AllReceived => part[Len(part)][1] = conn.v

CacheInv ==
    /\ InPlace(dest) /\ InPlace(part)
    /\ Upto(part, serving)
    /\ ResponseFits
    /\ dest # <<>> /\ ~lossy => Len(dest) = SizeOf[dest[Len(dest)][1]]

LEMMA BlockType ==
    ASSUME NEW v \in Versions, NEW i \in 1..SizeOf[v]
    PROVE  <<v, i>> \in Blocks
  BY DEF Blocks

LEMMA BlockVersion == \A b \in Blocks : b[1] \in Versions /\ b[1] \in Nat
  BY FetchAssumption DEF Blocks, Versions

LEMMA SizeType == \A v \in Versions : SizeOf[v] \in Nat /\ SizeOf[v] >= 1 /\ v \in Nat
  BY FetchAssumption DEF Versions

LEMMA EmptyInPlace == InPlace(<<>>) /\ (\A v : Upto(<<>>, v)) /\ <<>> \in Seq(Blocks)
  BY DEF InPlace, Upto

\* What a connection can be, in a form without the dependent record.
ConnType == /\ conn.v \in Versions /\ conn.next \in 1..(SizeOf[conn.v] + 1)
            /\ conn = [v |-> conn.v, next |-> conn.next]

LEMMA ConnForm == FetchTypeOK => ConnType
  BY DEF FetchTypeOK, ConnType

LEMMA ConnBack ==
    ASSUME NEW v \in Versions, NEW n \in 1..(SizeOf[v] + 1)
    PROVE  \E w \in Versions : [v |-> v, next |-> n] \in [v : {w}, next : 1..(SizeOf[w] + 1)]
  OBVIOUS

\* The steps of one call of fetch_url_cached, and what happens around them.
FetchStep == Call \/ Downloading \/ Refused \/ ClosedEarly \/ Breaks \/ Dies \/ Taken
             \/ RemoteChanges \/ UNCHANGED fetchVars

\* The type invariant without the connection, and the connection alone.
CoreType == /\ dest \in Seq(Blocks) /\ part \in Seq(Blocks)
            /\ fetchPc \in {"idle", "request", "receive", "returned", "raised"}
            /\ attempt \in 1..Retries
            /\ serving \in Versions /\ lossy \in Lossy
            /\ faults \in 0..MaxFaults

ConnOK == \E v \in Versions : conn \in [v : {v}, next : 1..(SizeOf[v] + 1)]

LEMMA FetchTypeParts == FetchTypeOK <=> CoreType /\ ConnOK
  BY DEF FetchTypeOK, CoreType, ConnOK

LEMMA ConnKept == ASSUME ConnOK, UNCHANGED conn PROVE ConnOK'
  BY DEF ConnOK

LEMMA ConnNew ==
    ASSUME NEW v \in Versions, NEW n \in 1..(SizeOf[v] + 1), conn' = [v |-> v, next |-> n]
    PROVE  ConnOK'
  BY ConnBack DEF ConnOK

LEMMA PartsNext == CoreType' /\ ConnOK' => FetchTypeOK'
  BY DEF FetchTypeOK, CoreType, ConnOK

LEMMA FetchType == ASSUME FetchTypeOK, FetchStep PROVE FetchTypeOK'
  <1> USE FetchAssumption
  <1>0. CoreType /\ ConnOK /\ ConnType
    BY ConnForm, FetchTypeParts
  <1>1. CASE Call \/ Taken \/ Dies
    <2>1. CoreType' /\ UNCHANGED conn
      BY <1>0, <1>1 DEF Call, Taken, Dies, Strike, CoreType, files, server
    <2>2. QED
      BY <1>0, <2>1, ConnKept, PartsNext
  <1>2. CASE NotSatisfiable \/ Refused \/ Breaks
    <2>1. AttemptFails /\ UNCHANGED <<dest, part, conn, serving, lossy>>
      BY <1>2 DEF NotSatisfiable, Refused, Breaks, files, server
    <2>2. faults' = faults \/ Strike
      BY <1>2 DEF NotSatisfiable, Refused, Breaks
    <2>3. faults' \in 0..MaxFaults
      BY <1>0, <2>2 DEF Strike, CoreType
    <2>4. fetchPc' \in {"raised", "request"} /\ attempt' \in 1..Retries
      BY <1>0, <2>1 DEF AttemptFails, CoreType
    <2>5. CoreType'
      BY <1>0, <2>1, <2>3, <2>4 DEF CoreType
    <2>6. QED
      BY <1>0, <2>1, <2>5, ConnKept, PartsNext
  <1>3. CASE Resumed \/ Answered
    <2>1. serving \in Versions /\ SizeOf[serving] \in Nat /\ SizeOf[serving] >= 1
          /\ Len(part) \in Nat
      BY <1>0, SizeType DEF CoreType
    <2>2. CASE Resumed
      <3>1. conn' = [v |-> serving, next |-> Len(part) + 1] /\ Len(part) < SizeOf[serving]
        BY <2>2 DEF Resumed
      <3>2. Len(part) + 1 \in 1..(SizeOf[serving] + 1)
        BY <2>1, <3>1
      <3>3. ConnOK'
        BY <2>1, <3>1, <3>2, ConnNew
      <3>4. CoreType'
        BY <1>0, <2>2 DEF Resumed, CoreType, files, server
      <3>5. QED
        BY <3>3, <3>4, PartsNext
    <2>3. CASE Answered
      <3>1. conn' = [v |-> serving, next |-> 1] /\ 1 \in 1..(SizeOf[serving] + 1)
        BY <2>1, <2>3 DEF Answered
      <3>2. ConnOK'
        BY <2>1, <3>1, ConnNew
      <3>3. CoreType'
        BY <1>0, <2>3, EmptyInPlace DEF Answered, CoreType, server
      <3>4. QED
        BY <3>2, <3>3, PartsNext
    <2>4. QED
      BY <1>3, <2>2, <2>3
  <1>4. CASE Receive
    <2>1. conn.v \in Versions /\ SizeOf[conn.v] \in Nat /\ conn.next \in 1..SizeOf[conn.v]
      BY <1>0, <1>4, SizeType DEF ConnType, Receive, AllReceived
    <2>2. conn' = [v |-> conn.v, next |-> conn.next + 1] /\ conn.next + 1 \in 1..(SizeOf[conn.v] + 1)
      BY <1>0, <1>4, <2>1 DEF ConnType, Receive
    <2>3. ConnOK'
      BY <2>1, <2>2, ConnNew
    <2>4. part' \in Seq(Blocks)
      BY <1>0, <1>4, <2>1, BlockType DEF Receive, CoreType
    <2>5. CoreType'
      BY <1>0, <1>4, <2>4 DEF Receive, CoreType, server
    <2>6. QED
      BY <2>3, <2>5, PartsNext
  <1>5. CASE Complete \/ ClosedEarly
    <2>1. dest' = part /\ part' = <<>> /\ fetchPc' = "returned"
          /\ UNCHANGED <<attempt, conn, serving, lossy>> /\ faults' \in 0..MaxFaults
      BY <1>0, <1>5 DEF Complete, ClosedEarly, Renamed, Strike, CoreType, server
    <2>2. CoreType'
      BY <1>0, <2>1, EmptyInPlace DEF CoreType
    <2>3. QED
      BY <1>0, <2>1, <2>2, ConnKept, PartsNext
  <1>6. CASE RemoteChanges
    <2>1. CoreType' /\ UNCHANGED conn
      BY <1>0, <1>6 DEF RemoteChanges, Strike, CoreType, files, Versions
    <2>2. QED
      BY <1>0, <2>1, ConnKept, PartsNext
  <1>7. CASE UNCHANGED fetchVars
    BY <1>7 DEF fetchVars, FetchTypeOK, files, server
  <1>8. QED
    BY <1>1, <1>2, <1>3, <1>4, <1>5, <1>6, <1>7 DEF FetchStep, Downloading

LEMMA CacheStep == ASSUME FetchTypeOK, CacheInv, FetchStep PROVE CacheInv'
  <1> USE FetchAssumption
  <1>0. /\ dest \in Seq(Blocks) /\ part \in Seq(Blocks) /\ Len(part) \in Nat
        /\ serving \in Versions /\ serving \in Nat /\ ConnType
    BY ConnForm, SizeType DEF FetchTypeOK
  <1>1. CASE Call \/ Taken \/ Dies \/ NotSatisfiable \/ Refused \/ Breaks
    <2>1. UNCHANGED <<dest, part, conn, serving, lossy>> /\ fetchPc' # "receive"
      BY <1>1 DEF Call, Taken, Dies, NotSatisfiable, Refused, Breaks, AttemptFails, files, server
    <2>2. QED
      BY <2>1 DEF CacheInv, InPlace, Upto, ResponseFits
  <1>2. CASE Resumed
    <2>1. UNCHANGED <<dest, part, serving, lossy>>
          /\ conn'.v = serving /\ conn'.next = Len(part) + 1 /\ Len(part) < SizeOf[serving]
      BY <1>2 DEF Resumed, files, server
    <2>2. ResponseFits'
      BY <1>0, <2>1, SizeType DEF CacheInv, ResponseFits, AllReceived, Upto
    <2>3. QED
      BY <2>1, <2>2 DEF CacheInv, InPlace, Upto
  <1>3. CASE Answered
    <2>1. UNCHANGED <<dest, serving, lossy>> /\ part' = <<>> /\ Len(part') = 0
          /\ conn'.v = serving /\ conn'.next = 1
      BY <1>3 DEF Answered, server
    <2>2. ResponseFits' /\ InPlace(part') /\ Upto(part', serving)
      BY <1>0, <2>1, SizeType DEF ResponseFits, AllReceived, Upto, InPlace
    <2>3. QED
      BY <2>1, <2>2 DEF CacheInv, InPlace, Upto
  <1>4. CASE Receive
    <2>1. /\ UNCHANGED <<dest, serving, lossy>> /\ fetchPc = "receive"
          /\ conn.v \in Nat /\ conn.next = Len(part) + 1 /\ conn.v <= serving
          /\ part' = Append(part, <<conn.v, Len(part) + 1>>)
          /\ conn'.v = conn.v /\ conn'.next = conn.next + 1
      BY <1>0, <1>4, SizeType DEF Receive, CacheInv, ResponseFits, ConnType, server
    <2>2. /\ Len(part') = Len(part) + 1
          /\ part'[Len(part) + 1] = <<conn.v, Len(part) + 1>>
          /\ \A i \in 1..Len(part) : part'[i] = part[i]
      BY <1>0, <2>1
    <2>3. \A i \in 1..Len(part) : part[i][1] \in Nat
      BY <1>0, BlockVersion
    <2>4. Upto(part, conn.v) /\ InPlace(part)
      BY <2>1 DEF CacheInv, ResponseFits
    <2>5. \A i \in 1..Len(part') : i \in 1..Len(part) \/ i = Len(part) + 1
      BY <1>0, <2>2
    <2>6. Upto(part', conn.v) /\ Upto(part', serving)
      BY <1>0, <2>1, <2>2, <2>3, <2>4, <2>5 DEF Upto
    <2>7. InPlace(part')
      <3>1. \A i \in 1..Len(part') : part'[i][2] = i
        BY <2>2, <2>4, <2>5 DEF InPlace
      <3>2. ASSUME NEW i \in 1..Len(part'), NEW j \in 1..Len(part'), i < j
            PROVE  part'[i][1] <= part'[j][1]
        <4>1. i \in 1..Len(part) /\ part'[i] = part[i]
          BY <1>0, <2>2, <3>2
        <4>2. CASE j \in 1..Len(part)
          BY <2>2, <2>4, <3>2, <4>1, <4>2 DEF InPlace
        <4>3. CASE j = Len(part) + 1
          BY <2>2, <2>4, <4>1, <4>3 DEF Upto
        <4>4. QED
          BY <2>5, <4>2, <4>3
      <3>3. QED
        BY <3>1, <3>2 DEF InPlace
    <2>8. ResponseFits'
      BY <1>0, <2>1, <2>2, <2>6 DEF ResponseFits
    <2>9. QED
      BY <2>1, <2>6, <2>7, <2>8 DEF CacheInv
  <1>5. CASE Complete \/ ClosedEarly
    <2>1. dest' = part /\ part' = <<>> /\ fetchPc' = "returned" /\ UNCHANGED <<serving, lossy>>
      BY <1>5 DEF Complete, ClosedEarly, Renamed, server
    <2>2. InPlace(dest') /\ InPlace(part') /\ Upto(part', serving') /\ ResponseFits'
      BY <2>1, EmptyInPlace DEF CacheInv, ResponseFits
    <2>3. ASSUME ~lossy PROVE Len(dest') = SizeOf[dest'[Len(dest')][1]]
      <3>1. Complete /\ fetchPc = "receive" /\ AllReceived
        BY <1>5, <2>3 DEF Complete, ClosedEarly
      <3>2. conn.next = Len(part) + 1 /\ part[Len(part)][1] = conn.v
        BY <3>1 DEF CacheInv, ResponseFits
      <3>3. conn.next = SizeOf[conn.v] + 1 /\ SizeOf[conn.v] \in Nat
        BY <1>0, <3>1, SizeType DEF AllReceived, ConnType
      <3>4. QED
        BY <1>0, <2>1, <3>2, <3>3
    <2>4. QED
      BY <2>1, <2>2, <2>3 DEF CacheInv
  <1>6. CASE RemoteChanges
    <2>1. UNCHANGED <<dest, part, fetchPc, conn, lossy>> /\ serving' = serving + 1
      BY <1>6 DEF RemoteChanges, files
    <2>2. \A i \in 1..Len(part) : part[i][1] \in Nat
      BY <1>0, BlockVersion
    <2>3. Upto(part', serving')
      BY <1>0, <2>1, <2>2 DEF CacheInv, Upto
    <2>4. ResponseFits'
      BY <1>0, <2>1, SizeType DEF CacheInv, ResponseFits, AllReceived, Upto, ConnType
    <2>5. QED
      BY <2>1, <2>3, <2>4 DEF CacheInv, InPlace
  <1>7. CASE UNCHANGED fetchVars
    BY <1>7 DEF fetchVars, files, server, CacheInv, InPlace, Upto, ResponseFits, AllReceived
  <1>8. QED
    BY <1>1, <1>2, <1>3, <1>4, <1>5, <1>6, <1>7 DEF FetchStep, Downloading

-----------------------------------------------------------------------------
(***************************************************************************)
(* The index.  A Packages that passes for current is what the archive next *)
(* to it holds, and that archive is sound, but for the cut ones and for    *)
(* the files of a failed attempt that are about to be dropped.             *)
(***************************************************************************)
LoadedWell == txt = dest /\ (dest = <<>> \/ Whole(dest))

\* Packages is a part of the archive, the rest has not been unpacked.
Begun == \E n \in 0..(Len(dest) - 1) : txt = SubSeq(dest, 1, n)

IndexInv ==
    /\ newer /\ dest # <<>> => \/ LoadedWell
                               \/ Begun /\ (cut \/ (pc = "dropArchive" /\ txt # dest))
    /\ pc = "parsed" => LoadedWell \/ (cut /\ Begun)
    /\ ~lossy => /\ pc = "fetch" /\ fetchPc = "returned" => dest # <<>>
                 /\ pc \in {"unpack", "parsed"} => dest # <<>>
    /\ pc # "fetch" => fetchPc = "idle"
    /\ pc = "fetch" /\ fetchPc = "returned" /\ newer => dest # <<>>
    /\ pc = "unpack" /\ newer => dest # <<>>

LoaderType ==
    /\ txt \in Seq(Blocks)
    /\ newer \in BOOLEAN
    /\ pc \in {"out", "fetch", "unpack", "dropArchive", "dropPart", "dropText", "parsed"}
    /\ retrying \in BOOLEAN
    /\ cut \in BOOLEAN

LEMMA CutText ==
    ASSUME dest \in Seq(Blocks), dest # <<>>, NEW n \in 0..(Len(dest) - 1)
    PROVE  SubSeq(dest, 1, n) \in Seq(Blocks) /\ SubSeq(dest, 1, n) # dest
  <1>1. Len(SubSeq(dest, 1, n)) = n /\ n < Len(dest) /\ Len(dest) \in Nat
    OBVIOUS
  <1>2. \A i \in 1..n : SubSeq(dest, 1, n)[i] = dest[i] /\ dest[i] \in Blocks
    OBVIOUS
  <1>3. QED
    BY <1>1, <1>2

\* Every step is one of the cache, or leaves the cache alone or drops a file of it.
Dropping ==
    /\ UNCHANGED <<conn, attempt, serving, lossy>>
    /\ fetchPc' = fetchPc /\ fetchPc = "idle"
    /\ dest' \in {dest, <<>>} /\ part' \in {part, <<>>}
    /\ faults' = faults \/ Strike

LEMMA DroppingKeeps ==
    ASSUME FetchTypeOK, CacheInv, Dropping PROVE FetchTypeOK' /\ CacheInv'
  <1>1. CoreType /\ ConnOK
    BY FetchTypeParts
  <1>2. faults' \in 0..MaxFaults
    BY <1>1, FetchAssumption DEF Dropping, Strike, CoreType
  <1>3. CoreType'
    BY <1>1, <1>2, EmptyInPlace DEF Dropping, CoreType
  <1>4. FetchTypeOK'
    BY <1>1, <1>3, ConnKept, PartsNext DEF Dropping
  <1>5. InPlace(dest') /\ InPlace(part') /\ Upto(part', serving') /\ ResponseFits'
    BY EmptyInPlace DEF Dropping, CacheInv, ResponseFits
  <1>6. dest' # <<>> /\ ~lossy' => Len(dest') = SizeOf[dest'[Len(dest')][1]]
    BY DEF Dropping, CacheInv
  <1>7. QED
    BY <1>4, <1>5, <1>6 DEF CacheInv

LEMMA StepIsOfCache == ASSUME IndexInv, Next PROVE FetchStep \/ Dropping
  <1>1. CASE Load \/ Unpack \/ UnpackFails \/ UnpackRaises \/ Use \/ Clear \/ DropText
    BY <1>1 DEF Load, Unpack, UnpackFails, UnpackRaises, Use, Clear, DropText, FetchStep
  <1>2. CASE DropArchive \/ DropPart
    <2>1. fetchPc = "idle" /\ UNCHANGED <<conn, attempt, server, fetchPc, faults>>
      BY <1>2 DEF DropArchive, DropPart, IndexInv
    <2>2. dest' \in {dest, <<>>} /\ part' \in {part, <<>>}
      BY <1>2 DEF DropArchive, DropPart
    <2>3. QED
      BY <2>1, <2>2 DEF Dropping, server
  <1>3. CASE UnpackDies \/ Stops
    BY <1>3 DEF UnpackDies, Unfinished, Stops, Dropping, IndexInv, files, server
  <1>4. CASE FetchOver \/ DiesFetching \/ RemoteMoves
           \/ Fetch(Call \/ Downloading) \/ Fetch(Refused \/ ClosedEarly \/ Breaks)
    BY <1>4 DEF FetchOver, DiesFetching, RemoteMoves, Fetch, FetchStep
  <1>5. QED
    BY <1>1, <1>2, <1>3, <1>4 DEF Next, Loader

LEMMA LoaderTypeStep == ASSUME IndexTypeOK, Next PROVE LoaderType'
  <1>0. LoaderType /\ dest \in Seq(Blocks)
    BY DEF IndexTypeOK, LoaderType, FetchTypeOK
  <1>1. CASE Load \/ Unpack \/ Use \/ Clear \/ DropArchive \/ DropPart \/ DropText
    BY <1>0, <1>1, EmptyInPlace DEF LoaderType, Load, Unpack, Use, Clear, DropArchive, DropPart, DropText
  <1>2. CASE UnpackFails \/ UnpackRaises \/ UnpackDies
    <2>1. dest # <<>>
      BY <1>2 DEF UnpackFails, UnpackRaises, UnpackDies, Sound, Spliced
    <2>2. txt' \in Seq(Blocks)
      BY <1>0, <1>2, <2>1, CutText DEF UnpackFails, UnpackRaises, UnpackDies, Unfinished
    <2>3. newer' \in BOOLEAN /\ retrying' \in BOOLEAN /\ cut' \in BOOLEAN
          /\ pc' \in {"out", "dropArchive"}
      BY <1>0, <1>2 DEF LoaderType, UnpackFails, UnpackRaises, UnpackDies, Unfinished, Ends
    <2>4. QED
      BY <2>2, <2>3 DEF LoaderType
  <1>3. CASE Stops
    BY <1>0, <1>3 DEF LoaderType, Stops, Ends
  <1>4. CASE FetchOver \/ DiesFetching
    BY <1>0, <1>4 DEF LoaderType, FetchOver, DiesFetching, Ends
  <1>5. CASE RemoteMoves \/ Fetch(Call \/ Downloading) \/ Fetch(Refused \/ ClosedEarly \/ Breaks)
    BY <1>0, <1>5 DEF LoaderType, RemoteMoves, Fetch, indexVars
  <1>6. QED
    BY <1>1, <1>2, <1>3, <1>4, <1>5 DEF Next, Loader

\* What the steps of a download do to the cached file.
LEMMA DownloadStep ==
    ASSUME FetchTypeOK, CacheInv, Call \/ Downloading \/ Refused \/ ClosedEarly \/ Breaks
    PROVE  /\ lossy' = lossy
           /\ \/ /\ fetchPc = "receive" /\ fetchPc' = "returned"
                 /\ lossy \/ dest' # <<>>
              \/ dest' = dest /\ (fetchPc' = "returned" => dest # <<>>)
  <1>1. CASE Call
    BY <1>1 DEF Call, files, server
  <1>2. CASE Resumed \/ NotSatisfiable \/ Answered \/ Receive \/ Refused \/ Breaks
    BY <1>2 DEF Resumed, NotSatisfiable, Answered, Receive, Refused, Breaks, AttemptFails,
           files, server
  <1>3. CASE ClosedEarly
    BY <1>3 DEF ClosedEarly, Renamed, server
  <1>4. CASE Complete
    <2>1. fetchPc = "receive" /\ conn.next = Len(part) + 1 /\ conn.next > SizeOf[conn.v]
      BY <1>4 DEF Complete, AllReceived, CacheInv, ResponseFits
    <2>2. SizeOf[conn.v] \in Nat /\ SizeOf[conn.v] >= 1 /\ conn.next \in Nat
      BY ConnForm, SizeType DEF ConnType
    <2>3. part # <<>>
      BY <2>1, <2>2
    <2>4. QED
      BY <1>4, <2>3 DEF Complete, Renamed, server
  <1>5. QED
    BY <1>1, <1>2, <1>3, <1>4 DEF Downloading

LEMMA IndexStep == ASSUME IndexTypeOK, CacheInv, IndexInv, Next PROVE IndexInv'
  <1> USE DEF Begun
  <1>0. /\ dest \in Seq(Blocks) /\ newer \in BOOLEAN /\ cut \in BOOLEAN
        /\ FetchTypeOK
    BY DEF IndexTypeOK, FetchTypeOK
  <1>1. CASE Load \/ Use \/ Clear
    <2>1. UNCHANGED <<dest, fetchPc, txt, newer, cut, lossy>> /\ fetchPc = "idle"
      BY <1>1 DEF Load, Use, Clear, fetchVars, files, server, IndexInv
    <2>2. pc' \in {"fetch", "out", "dropArchive"} /\ pc # "dropArchive"
      BY <1>1 DEF Load, Use, Clear
    <2>3. QED
      BY <2>1, <2>2 DEF IndexInv, LoadedWell, Whole
  <1>2. CASE Unpack
    <2>1. UNCHANGED <<dest, fetchPc, cut, lossy>> /\ pc = "unpack" /\ pc' = "parsed"
      BY <1>2 DEF Unpack, fetchVars, files, server
    <2>2. CASE Current
      BY <1>2, <2>1, <2>2 DEF Unpack, Current, IndexInv, LoadedWell, Whole
    <2>3. CASE ~Current
      BY <1>2, <2>1, <2>3 DEF Unpack, Sound, IndexInv, LoadedWell, Whole
    <2>4. QED
      BY <2>2, <2>3
  <1>3. CASE UnpackFails \/ UnpackRaises \/ UnpackDies
    <2>1. /\ UNCHANGED <<dest, fetchPc, lossy>> /\ fetchPc = "idle" /\ dest # <<>>
          /\ newer' = TRUE
          /\ \E n \in 0..(Len(dest) - 1) : txt' = SubSeq(dest, 1, n)
      BY <1>3 DEF UnpackFails, UnpackRaises, UnpackDies, Unfinished, Sound, Spliced, fetchVars,
             files, server, IndexInv
    <2>2. txt' # dest
      BY <1>0, <2>1, CutText
    <2>3. (pc' = "out" /\ cut') \/ pc' = "dropArchive"
      BY <1>3, <2>1, <2>2 DEF UnpackFails, UnpackRaises, UnpackDies, Ends
    <2>4. Begun'
      BY <2>1
    <2>5. QED
      BY <2>1, <2>2, <2>3, <2>4 DEF IndexInv
  <1>4. CASE DropArchive
    BY <1>4 DEF DropArchive, IndexInv
  <1>5. CASE DropPart \/ DropText
    <2>1. UNCHANGED <<dest, fetchPc, cut, lossy>> /\ fetchPc = "idle"
          /\ pc \in {"dropPart", "dropText"} /\ pc' \in {"dropText", "fetch"}
          /\ (UNCHANGED <<txt, newer>> \/ newer' = FALSE)
      BY <1>5 DEF DropPart, DropText, fetchVars, files, server, IndexInv
    <2>2. QED
      BY <2>1 DEF IndexInv, LoadedWell, Whole
  <1>6. CASE Stops
    <2>1. UNCHANGED <<dest, fetchPc, txt, newer, lossy>> /\ fetchPc = "idle" /\ pc' = "out"
          /\ cut' = (cut \/ (newer' /\ dest' # <<>> /\ txt' # dest'))
      BY <1>6 DEF Stops, Ends, files, server, IndexInv
    <2>2. QED
      BY <2>1 DEF IndexInv, LoadedWell, Whole
  <1>7. CASE FetchOver
    <2>1. UNCHANGED <<dest, txt, newer, lossy>> /\ fetchPc' = "idle" /\ pc = "fetch"
      BY <1>7 DEF FetchOver, Taken, files, server
    <2>2. CASE fetchPc = "returned"
      BY <1>7, <2>1, <2>2 DEF FetchOver, IndexInv, LoadedWell, Whole
    <2>3. CASE fetchPc # "returned"
      <3>1. pc' = "out" /\ cut' = (cut \/ (newer' /\ dest' # <<>> /\ txt' # dest'))
        BY <1>7, <2>3 DEF FetchOver, Ends
      <3>2. QED
        BY <2>1, <3>1 DEF IndexInv, LoadedWell, Whole
    <2>4. QED
      BY <2>2, <2>3
  <1>8. CASE DiesFetching
    <2>1. UNCHANGED <<dest, txt, newer, lossy>> /\ fetchPc' = "idle" /\ pc = "fetch"
          /\ pc' = "out" /\ cut' = (cut \/ (newer' /\ dest' # <<>> /\ txt' # dest'))
      BY <1>8 DEF DiesFetching, Dies, Ends, files, server
    <2>2. QED
      BY <2>1 DEF IndexInv, LoadedWell, Whole
  <1>9. CASE Fetch(Call \/ Downloading) \/ Fetch(Refused \/ ClosedEarly \/ Breaks)
    <2>1. /\ UNCHANGED <<txt, cut, pc>> /\ pc = "fetch"
          /\ newer' = (newer /\ ~(fetchPc = "receive" /\ fetchPc' = "returned"))
          /\ Call \/ Downloading \/ Refused \/ ClosedEarly \/ Breaks
      BY <1>9 DEF Fetch
    <2>2. CASE /\ fetchPc = "receive" /\ fetchPc' = "returned" /\ lossy' = lossy
               /\ lossy \/ dest' # <<>>
      BY <2>1, <2>2 DEF IndexInv
    <2>3. CASE dest' = dest /\ (fetchPc' = "returned" => dest # <<>>) /\ lossy' = lossy
      BY <2>1, <2>3 DEF IndexInv, LoadedWell, Whole
    <2>4. QED
      BY <1>0, <2>1, <2>2, <2>3, DownloadStep
  <1>10. CASE RemoteMoves
    BY <1>10 DEF RemoteMoves, RemoteChanges, files, server, indexVars, IndexInv, LoadedWell, Whole
  <1>11. QED
    BY <1>1, <1>2, <1>3, <1>4, <1>5, <1>6, <1>7, <1>8, <1>9, <1>10 DEF Next, Loader

-----------------------------------------------------------------------------
Inv == IndexTypeOK /\ CacheInv /\ IndexInv

LEMMA TypeParts == IndexTypeOK <=> FetchTypeOK /\ LoaderType
  BY DEF IndexTypeOK, LoaderType

LEMMA InvInit == Init => Inv
  <1> SUFFICES ASSUME Init PROVE Inv
    OBVIOUS
  <1>1. 1 \in Versions /\ SizeOf[1] \in Nat /\ 1 \in 1..(SizeOf[1] + 1)
    BY FetchAssumption DEF Versions
  <1>2. ConnOK
    BY <1>1, ConnBack DEF Init, FetchInit, ConnOK
  <1>3. CoreType
    BY <1>1, EmptyInPlace, FetchAssumption DEF Init, FetchInit, CoreType
  <1>4. LoaderType
    BY EmptyInPlace DEF Init, LoaderType
  <1>5. CacheInv
    BY EmptyInPlace DEF Init, FetchInit, CacheInv, ResponseFits
  <1>6. IndexInv
    BY DEF Init, FetchInit, IndexInv
  <1>7. QED
    BY <1>2, <1>3, <1>4, <1>5, <1>6, FetchTypeParts, TypeParts DEF Inv

LEMMA InvStep == Inv /\ [Next]_allVars => Inv'
  <1> SUFFICES ASSUME Inv, [Next]_allVars PROVE Inv'
    OBVIOUS
  <1>0. IndexTypeOK /\ FetchTypeOK /\ CacheInv /\ IndexInv
    BY TypeParts DEF Inv
  <1>1. CASE Next
    <2>1. FetchTypeOK' /\ CacheInv'
      BY <1>0, <1>1, StepIsOfCache, FetchType, CacheStep, DroppingKeeps
    <2>2. LoaderType' /\ IndexInv'
      BY <1>0, <1>1, LoaderTypeStep, IndexStep
    <2>3. QED
      BY <2>1, <2>2 DEF Inv, IndexTypeOK, LoaderType
  <1>2. CASE UNCHANGED allVars
    <2>1. FetchStep /\ UNCHANGED indexVars /\ UNCHANGED <<dest, fetchPc, lossy>>
      BY <1>2 DEF allVars, FetchStep, fetchVars, files, server
    <2>2. FetchTypeOK' /\ CacheInv'
      BY <1>0, <2>1, FetchType, CacheStep
    <2>3. QED
      BY <1>0, <2>1, <2>2 DEF Inv, IndexTypeOK, IndexInv, LoadedWell, Begun, Whole, indexVars
  <1>3. QED
    BY <1>1, <1>2

LEMMA InvAlways == Spec => []Inv
  BY InvInit, InvStep, PTL DEF Spec

\* Types hold for any versions of any sizes.
THEOREM IndexTypeCorrect == Spec => []IndexTypeOK
  <1>1. Inv => IndexTypeOK
    BY DEF Inv
  <1>2. QED
    BY <1>1, InvAlways, PTL

\* fetch_url_cached never leaves a file whose blocks are out of place or go back to
\* an older version, or, where an early close is noticed, one that is too short.
THEOREM CachedAlwaysInPlace == Spec => []CachedInPlace
  <1>1. Inv => CachedInPlace
    <2> SUFFICES ASSUME Inv PROVE CachedInPlace
      OBVIOUS
    <2>1. DOMAIN dest = 1..Len(dest)
      BY DEF Inv, IndexTypeOK, FetchTypeOK
    <2>2. QED
      BY <2>1 DEF Inv, CacheInv, InPlace, CachedInPlace
  <1>2. QED
    BY <1>1, InvAlways, PTL

\* load_debian_package_index parses one release of the mirror, wherever early closes
\* are noticed and no unpacking was left unfinished; where they are not, nothing but
\* an empty archive gives anything else.
THEOREM IndexAlwaysOneRelease == Spec => []IndexIsOneRelease
  <1>1. Inv => IndexIsOneRelease
    BY DEF Inv, IndexInv, LoadedWell, Whole, IndexIsOneRelease
  <1>2. QED
    BY <1>1, InvAlways, PTL

\* The text that is parsed is that of the archive beside it, or the beginning of it.
THEOREM IndexAlwaysMatchesArchive == Spec => []IndexMatchesArchive
  <1>1. Inv => IndexMatchesArchive
    BY DEF Inv, IndexInv, LoadedWell, Begun, IndexMatchesArchive
  <1>2. QED
    BY <1>1, InvAlways, PTL

\* Nothing but the rename, a server that ignores Range and a caller between two
\* calls shortens a ".part" file.
THEOREM PartialDataAlwaysKept == Spec => PartialDataIsKept
  <1>1. ASSUME Inv, [Next]_allVars, Len(part') < Len(part)
        PROVE  \/ fetchPc = "request" /\ FALSE \in Ranges
               \/ fetchPc' = "returned" /\ dest' = part
               \/ fetchPc = "idle"
    <2>1. part \in Seq(Blocks) /\ Len(part) \in Nat
      BY <1>1 DEF Inv, IndexTypeOK, FetchTypeOK
    <2>2. part' # part
      BY <1>1, <2>1
    <2>3. Next /\ (FetchStep \/ Dropping)
      BY <1>1, <2>2, StepIsOfCache DEF Inv, allVars, fetchVars, files
    <2>4. CASE Answered
      BY <1>1, <2>1, <2>2, <2>4 DEF Answered
    <2>5. CASE Complete \/ ClosedEarly
      BY <2>5 DEF Complete, ClosedEarly, Renamed
    <2>6. CASE Receive
      <3>1. Len(part') = Len(part) + 1
        BY <2>1, <2>6 DEF Receive
      <3>2. QED
        BY <1>1, <2>1, <3>1
    <2>7. CASE Dropping
      BY <2>7 DEF Dropping
    <2>8. CASE Call \/ Resumed \/ NotSatisfiable \/ Refused \/ Breaks \/ Dies \/ Taken
               \/ RemoteChanges \/ UNCHANGED fetchVars
      BY <2>2, <2>8 DEF Call, Resumed, NotSatisfiable, Refused, Breaks, Dies, Taken,
             RemoteChanges, fetchVars, files
    <2>9. QED
      BY <2>3, <2>4, <2>5, <2>6, <2>7, <2>8 DEF FetchStep, Downloading
  <1>2. Inv /\ [Next]_allVars => [Len(part') < Len(part) =>
          \/ fetchPc = "request" /\ FALSE \in Ranges
          \/ fetchPc' = "returned" /\ dest' = part
          \/ fetchPc = "idle"]_fetchVars
    BY <1>1
  <1>3. QED
    BY <1>2, InvAlways, PTL DEF Spec, PartialDataIsKept
=============================================================================
