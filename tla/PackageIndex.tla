---------------------------- MODULE PackageIndex ----------------------------
(***************************************************************************)
(* builder.py load_debian_package_index and clear_cached_debian_package_   *)
(* index: Packages.gz comes through the download cache (module FetchCache) *)
(* and is unpacked into Packages, which later runs read as long as it is   *)
(* not older than Packages.gz.                                             *)
(***************************************************************************)
EXTENDS FetchCache

CONSTANT
    UnpackCut       \* the process may die while it writes Packages

VARIABLES
    txt,            \* Packages, as the blocks of Packages.gz it was made from
    newer,          \* Packages exists and is not older than Packages.gz
    pc,             \* the loader
    retrying,       \* this is the second attempt
    cut             \* history: some process ended and left an unfinished Packages
                    \* that is not older than the archive next to it: it was killed
                    \* while it unpacked, or raised over a damaged archive

indexVars == <<txt, newer, pc, retrying, cut>>
allVars   == <<fetchVars, indexVars>>

IndexTypeOK ==
    /\ FetchTypeOK
    /\ txt \in Seq(Blocks)
    /\ newer \in BOOLEAN
    /\ pc \in {"out", "fetch", "unpack", "dropArchive", "dropPart", "dropText", "parsed"}
    /\ retrying \in BOOLEAN
    /\ cut \in BOOLEAN

Init ==
    /\ FetchInit
    /\ txt = <<>> /\ newer = FALSE
    /\ pc = "out" /\ retrying = FALSE
    /\ cut = FALSE

-----------------------------------------------------------------------------
\* The process ends, by an exception or a signal.
Ends == pc' = "out" /\ cut' = (cut \/ (newer' /\ dest' # <<>> /\ txt' # dest'))

Load ==
    /\ pc = "out"
    /\ pc' = "fetch" /\ retrying' = FALSE
    /\ UNCHANGED <<fetchVars, txt, newer, cut>>

\* A step of fetch_url_cached; the rename makes a newer archive.
Fetch(A) ==
    /\ pc = "fetch"
    /\ A
    /\ newer' = (newer /\ ~(fetchPc = "receive" /\ fetchPc' = "returned"))
    /\ UNCHANGED <<txt, pc, retrying, cut>>

FetchOver ==
    /\ pc = "fetch" /\ Taken
    /\ UNCHANGED <<txt, newer, retrying>>
    /\ IF fetchPc = "returned" THEN pc' = "unpack" /\ UNCHANGED cut ELSE Ends

\* Mutation: an unpacked index is used however old it is.
CurrentIfPresent == txt # <<>>

Current == newer

\* Mutation: the checksum of the archive is not looked at.
SoundUnchecked == dest \in Seq(Blocks)

\* gzip finds an archive damaged that is not one version of the remote file; an
\* empty one unpacks to an empty Packages.
Sound == dest = <<>> \/ Whole(dest)

Unpack ==
    /\ pc = "unpack"
    /\ Current \/ Sound
    /\ pc' = "parsed"
    /\ IF Current THEN UNCHANGED <<txt, newer>> ELSE txt' = dest /\ newer' = TRUE
    /\ UNCHANGED <<fetchVars, retrying, cut>>

\* What is unpacked before the damage or the death stays in Packages.
Unfinished ==
    /\ pc = "unpack" /\ ~Current
    /\ \E n \in 0..(Len(dest) - 1) : txt' = SubSeq(dest, 1, n)
    /\ newer' = TRUE

\* An OSError or EOFError: the end is missing, or the checksum does not fit.
UnpackFails ==
    /\ ~Sound
    /\ Unfinished
    /\ UNCHANGED fetchVars
    /\ IF retrying THEN Ends ELSE pc' = "dropArchive" /\ UNCHANGED cut
    /\ retrying' = TRUE

Spliced == \E i, j \in DOMAIN dest : dest[i][1] # dest[j][1]

\* A zlib.error, which an archive of parts of two versions may give: nobody catches
\* it, so nothing is dropped.
UnpackRaises ==
    /\ Spliced
    /\ Unfinished
    /\ UNCHANGED <<fetchVars, retrying>>
    /\ Ends

UnpackDies ==
    /\ UnpackCut
    /\ dest # <<>>
    /\ Unfinished
    /\ Strike
    /\ UNCHANGED <<files, fetchPc, attempt, conn, server, retrying>>
    /\ Ends

\* The three files are removed in this order, by load_debian_package_index for a
\* second attempt and by clear_cached_debian_package_index.
DropArchive ==
    /\ pc = "dropArchive"
    /\ dest' = <<>>
    /\ pc' = "dropPart"
    /\ UNCHANGED <<part, fetchPc, attempt, conn, server, faults, txt, newer, retrying, cut>>

DropPart ==
    /\ pc = "dropPart"
    /\ part' = <<>>
    /\ pc' = "dropText"
    /\ UNCHANGED <<dest, fetchPc, attempt, conn, server, faults, txt, newer, retrying, cut>>

DropText ==
    /\ pc = "dropText"
    /\ txt' = <<>> /\ newer' = FALSE
    /\ pc' = "fetch"
    /\ UNCHANGED <<fetchVars, retrying, cut>>

\* The index has been parsed: the run goes on and ends, or an archive it names is
\* gone from the mirror and the index is cleared and loaded again.
Use ==
    /\ pc = "parsed"
    /\ pc' = "out"
    /\ UNCHANGED <<fetchVars, txt, newer, retrying, cut>>

Clear ==
    /\ pc = "parsed" /\ txt # Content(serving)
    /\ pc' = "dropArchive" /\ retrying' = FALSE
    /\ UNCHANGED <<fetchVars, txt, newer, cut>>

\* The process dies outside a download and outside the unpacking.
Stops ==
    /\ pc \in {"unpack", "dropArchive", "dropPart", "dropText"}
    /\ Strike
    /\ UNCHANGED <<files, fetchPc, attempt, conn, server, txt, newer, retrying>>
    /\ Ends

DiesFetching ==
    /\ pc = "fetch" /\ Dies
    /\ UNCHANGED <<txt, newer, retrying>>
    /\ Ends

RemoteMoves ==
    /\ RemoteChanges
    /\ UNCHANGED indexVars

Loader ==
    \/ Load \/ Fetch(Call \/ Downloading) \/ FetchOver
    \/ Unpack \/ UnpackFails \/ UnpackRaises \/ DropArchive \/ DropPart \/ DropText

Next ==
    \/ Loader \/ Use \/ Clear
    \/ Fetch(Refused \/ ClosedEarly \/ Breaks) \/ DiesFetching
    \/ UnpackDies \/ Stops \/ RemoteMoves

Spec == Init /\ [][Next]_allVars

\* The builder is run again and again, and the process and its connection make
\* progress; an interruption is never owed.
FairSpec == Spec /\ WF_allVars(Loader) /\ WF_allVars(Use)

-----------------------------------------------------------------------------
\* A parsed index is exactly one release of the mirror, never parts of two and
\* never a part of one, however the archive came about; unless an unpacking was left
\* unfinished before, and but for one case: a connection closed before its first
\* byte, where that looks like the end of the file, makes an empty archive, which
\* unpacks without an error to an index without packages.
IndexIsOneRelease ==
    pc = "parsed" /\ ~cut => Whole(txt) \/ (lossy /\ dest = <<>> /\ txt = <<>>)

\* A parsed index is what the cached archive holds, or the beginning of it once an
\* unpacking was left unfinished: text of one archive is never read next to another,
\* however the three files were dropped, fetched and unpacked.
IndexMatchesArchive ==
    pc = "parsed" => \/ txt = dest
                     \/ cut /\ \E n \in 0..(Len(dest) - 1) : txt = SubSeq(dest, 1, n)
=============================================================================
