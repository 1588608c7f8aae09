----------------------------- MODULE FetchCache -----------------------------
(***************************************************************************)
(* builder.py fetch_url_cached: one URL fetched into the download cache,   *)
(* through a ".part" file that survives failed attempts and dead processes *)
(* and from which a later attempt resumes with a Range request.            *)
(*                                                                         *)
(* A file is the sequence of the blocks it holds, a block is identified by *)
(* the version of the remote file it comes from and its place in it.  An   *)
(* absent file and an empty one are the same to the code, and are <<>>.    *)
(***************************************************************************)
EXTENDS Naturals, Sequences

CONSTANTS
    NumVersions,    \* what the URL serves over time: version 1, then 2, ...
    SizeOf,         \* [version]: its number of blocks
    Retries,        \* BOOTSTRAP_DOWNLOAD_RETRIES
    Ranges,         \* TRUE: the server may honour Range; FALSE: it may ignore it
    Lossy,          \* TRUE: a connection closed early may look like the end of
                    \* the file; FALSE: the client may notice each early close
    MaxFaults       \* bound on interruptions and changes of the remote file

Versions == 1..NumVersions
Blocks   == UNION {{v} \X (1..SizeOf[v]) : v \in Versions}

ASSUME FetchAssumption ==
    /\ NumVersions \in Nat \ {0}
    /\ SizeOf \in [Versions -> Nat \ {0}]
    /\ Retries \in Nat \ {0}
    /\ Ranges \in SUBSET BOOLEAN \ {{}}
    /\ Lossy \in SUBSET BOOLEAN \ {{}}
    /\ MaxFaults \in Nat

VARIABLES
    dest, part,     \* the cached file and its ".part"
    fetchPc,        \* "idle", "request", "receive", "returned" or "raised"
    attempt,
    conn,           \* the response being read: [v, next], version and next block
    serving,        \* the version the server has now
    lossy,          \* whether early closes are taken for the end, chosen once
    faults

files     == <<dest, part>>
server    == <<serving, lossy>>
fetchVars == <<files, fetchPc, attempt, conn, server, faults>>

Content(v) == [i \in 1..SizeOf[v] |-> <<v, i>>]

\* A file that is exactly one version of the remote one.
Whole(f) == \E v \in Versions : f = Content(v)

FetchTypeOK ==
    /\ dest \in Seq(Blocks) /\ part \in Seq(Blocks)
    /\ fetchPc \in {"idle", "request", "receive", "returned", "raised"}
    /\ attempt \in 1..Retries
    /\ \E v \in Versions : conn \in [v : {v}, next : 1..(SizeOf[v] + 1)]
    /\ serving \in Versions
    /\ lossy \in Lossy
    /\ faults \in 0..MaxFaults

FetchInit ==
    /\ dest = <<>> /\ part = <<>>
    /\ fetchPc = "idle"
    /\ attempt = 1
    /\ conn = [v |-> 1, next |-> 1]
    /\ serving = 1
    /\ lossy \in Lossy
    /\ faults = 0

Strike == faults < MaxFaults /\ faults' = faults + 1

-----------------------------------------------------------------------------
\* Mutation: a part file counts as the cached file.
CallTrustsPart ==
    /\ fetchPc = "idle"
    /\ fetchPc' = IF dest # <<>> \/ part # <<>> THEN "returned" ELSE "request"
    /\ attempt' = 1
    /\ UNCHANGED <<files, conn, server, faults>>

Call ==
    /\ fetchPc = "idle"
    /\ fetchPc' = IF dest # <<>> THEN "returned" ELSE "request"
    /\ attempt' = 1
    /\ UNCHANGED <<files, conn, server, faults>>

AttemptFails ==
    IF attempt = Retries
    THEN fetchPc' = "raised" /\ UNCHANGED attempt
    ELSE fetchPc' = "request" /\ attempt' = attempt + 1

Refused ==
    /\ fetchPc = "request"
    /\ Strike
    /\ AttemptFails
    /\ UNCHANGED <<files, conn, server>>

\* 206: the response continues where the part file ends.
Resumed ==
    /\ fetchPc = "request" /\ part # <<>>
    /\ TRUE \in Ranges /\ Len(part) < SizeOf[serving]
    /\ conn' = [v |-> serving, next |-> Len(part) + 1]
    /\ fetchPc' = "receive"
    /\ UNCHANGED <<files, attempt, server, faults>>

\* 416: the part file is as long as the remote one, or longer.
NotSatisfiable ==
    /\ fetchPc = "request" /\ part # <<>>
    /\ TRUE \in Ranges /\ Len(part) >= SizeOf[serving]
    /\ AttemptFails
    /\ UNCHANGED <<files, conn, server, faults>>

\* Mutation: what was downloaded before is kept under a response from the start.
AnsweredAppending ==
    /\ fetchPc = "request"
    /\ part = <<>> \/ FALSE \in Ranges
    /\ conn' = [v |-> serving, next |-> 1]
    /\ fetchPc' = "receive"
    /\ UNCHANGED <<files, attempt, server, faults>>

\* 200: from the start, also when the request asked for a range.
Answered ==
    /\ fetchPc = "request"
    /\ part = <<>> \/ FALSE \in Ranges
    /\ part' = <<>>
    /\ conn' = [v |-> serving, next |-> 1]
    /\ fetchPc' = "receive"
    /\ UNCHANGED <<dest, attempt, server, faults>>

AllReceived == conn.next > SizeOf[conn.v]

Receive ==
    /\ fetchPc = "receive" /\ ~AllReceived
    /\ part' = Append(part, <<conn.v, conn.next>>)
    /\ conn' = [conn EXCEPT !.next = @ + 1]
    /\ UNCHANGED <<dest, fetchPc, attempt, server, faults>>

Renamed ==
    /\ dest' = part /\ part' = <<>>
    /\ fetchPc' = "returned"
    /\ UNCHANGED <<attempt, conn, server>>

Complete ==
    /\ fetchPc = "receive" /\ AllReceived
    /\ Renamed
    /\ UNCHANGED faults

\* The length of what was read is not compared with Content-Length.
ClosedEarly ==
    /\ fetchPc = "receive" /\ ~AllReceived
    /\ lossy
    /\ Strike
    /\ Renamed

\* Mutation: a failed attempt starts over.
BreaksRestarting ==
    /\ fetchPc = "receive"
    /\ Strike
    /\ AttemptFails
    /\ part' = <<>>
    /\ UNCHANGED <<dest, conn, server>>

Breaks ==
    /\ fetchPc = "receive"
    /\ Strike
    /\ AttemptFails
    /\ UNCHANGED <<files, conn, server>>

\* The process is killed.
Dies ==
    /\ fetchPc # "idle"
    /\ Strike
    /\ fetchPc' = "idle"
    /\ UNCHANGED <<files, attempt, conn, server>>

RemoteChanges ==
    /\ serving < NumVersions
    /\ Strike
    /\ serving' = serving + 1
    /\ UNCHANGED <<files, fetchPc, attempt, conn, lossy>>

\* The caller has its file, or its exception.
Taken ==
    /\ fetchPc \in {"returned", "raised"}
    /\ fetchPc' = "idle"
    /\ UNCHANGED <<files, attempt, conn, server, faults>>

-----------------------------------------------------------------------------
Downloading == Resumed \/ NotSatisfiable \/ Answered \/ Receive \/ Complete
-----------------------------------------------------------------------------
\* However often a download was interrupted, resumed, restarted by a server that
\* ignores Range or overtaken by a new version, each block of the cached file is
\* in its place and none is older than the one before it; and the file is as long
\* as the version it ends with, unless an early close was taken for the end.
CachedInPlace ==
    /\ \A i \in DOMAIN dest : dest[i][2] = i
    /\ \A i, j \in DOMAIN dest : i < j => dest[i][1] <= dest[j][1]
    /\ dest # <<>> /\ ~lossy => Len(dest) = SizeOf[dest[Len(dest)][1]]

\* A failed attempt keeps what it has downloaded: only a server that ignores
\* Range, the rename, and a caller between two calls shorten it.
PartialDataIsKept ==
    [][Len(part') < Len(part) =>
          \/ fetchPc = "request" /\ FALSE \in Ranges
          \/ fetchPc' = "returned" /\ dest' = part
          \/ fetchPc = "idle"]_fetchVars

\* A request for what is behind a partial file that is complete, or longer than
\* the file is now.
Stranded == fetchPc = "request" /\ part # <<>> /\ Len(part) >= SizeOf[serving]

\* Once the interruptions stop, asking again gets the file: nothing but a
\* Stranded request keeps a download from ending.
FetchConverges == []<>((fetchPc = "returned" /\ dest # <<>>) \/ Stranded)
=============================================================================
