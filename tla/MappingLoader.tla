---------------------------- MODULE MappingLoader ----------------------------
(***************************************************************************)
(* mapping.LoadOrFetch and its two callers, LoadResolver at the start and  *)
(* the 24-hour mapping worker.  The mapping is kept in a file; a sidecar   *)
(* file holds the URL, ETag and MD5 of the download, by which the next call*)
(* asks the upstream whether the file is still current.  The two files are *)
(* written one after the other, each atomically, and the process may die in*)
(* between; HEAD, GET and every write may fail.                            *)
(*                                                                         *)
(* The bytes of a mapping are a version number at a URL; the ETag and the  *)
(* MD5 of the bytes identify them.  Left out: how the JSON is parsed, and  *)
(* the key snapshots of the sidecar, which are only counted in a log line. *)
(***************************************************************************)
EXTENDS Integers

CONSTANTS
    Urls,          \* values of cfg.AnibridgeURL
    MaxVersion,    \* bound on the versions a URL publishes
    Unparsable,    \* versions that are not a mapping (a broken release)
    Garbage,       \* a file that a power loss has damaged
    None,          \* no file, no header, no mapping in memory
    MaxRestarts    \* bound on the starts of the process

Published == [url : Urls, version : 1 .. MaxVersion]
Sidecars == [url : Urls \cup {None}, etag : Published \cup {None}, md5 : Published \cup {None}]
NoMetadata == [url |-> None, etag |-> None, md5 |-> None]

ASSUME VersionsAssumption ==
    /\ MaxVersion \in Nat \ {0}
    /\ Unparsable \subseteq 2 .. MaxVersion
    /\ MaxRestarts \in Nat
ASSUME ContentsAssumption ==
    None \notin Published \cup {Garbage} \cup Urls /\ Garbage \notin Published

VARIABLES
    upstream,      \* version that each URL serves
    file,          \* the mapping file
    sidecar,       \* its metadata file
    url,           \* cfg.AnibridgeURL of the running process
    mapping,       \* Resolver.mapping
    pc,            \* where LoadOrFetch is
    meta,          \* its local meta: the sidecar as the call found it
    data,          \* the bytes that Fetch returned
    newMeta,       \* the metadata that Fetch returned
    restarts

disk == <<file, sidecar>>
locals == <<meta, data, newMeta>>
vars == <<upstream, disk, url, mapping, pc, locals, restarts>>

MappingTypeOK ==
    /\ upstream \in [Urls -> 1 .. MaxVersion]
    /\ file \in Published \cup {Garbage, None}
    /\ sidecar \in Sidecars
    /\ url \in Urls
    /\ mapping \in Published \cup {None}
    /\ pc \in {"idle", "head", "get", "unchanged", "write", "sidecar"}
    /\ meta \in Sidecars
    /\ data \in Published \cup {None}
    /\ newMeta \in Sidecars
    /\ restarts \in 0 .. MaxRestarts

\* A first start, on an empty directory.
Init ==
    /\ upstream = [u \in Urls |-> 1]
    /\ file = None
    /\ sidecar = NoMetadata
    /\ url \in Urls
    /\ mapping = None
    /\ pc = "idle"
    /\ meta = NoMetadata /\ data = None /\ newMeta = NoMetadata
    /\ restarts = 0

Current == [url |-> url, version |-> upstream[url]]
Parses(c) == c \in Published /\ c.version \notin Unparsable

\* LoadOrFetch returns; the caller keeps the mapping it has when that fails.
Succeed(m) ==
    /\ mapping' = m
    /\ pc' = "idle"
Fail ==
    /\ pc' = "idle"
    /\ UNCHANGED mapping

-----------------------------------------------------------------------------
\* The sidecar is read, and forgotten when it is about another URL.  A file
\* without an ETag is downloaded again at once.
LoadOrFetch ==
    /\ pc = "idle"
    /\ meta' = IF file # None /\ sidecar.url # url THEN NoMetadata ELSE sidecar
    /\ pc' = IF file # None /\ meta'.etag # None THEN "head" ELSE "get"
    /\ data' = None
    /\ newMeta' = NoMetadata
    /\ UNCHANGED <<upstream, disk, url, mapping, restarts>>

HeadMatches ==
    /\ pc = "head"
    /\ meta.etag = Current
    /\ Parses(file)
    /\ Succeed(file)
    /\ UNCHANGED <<upstream, disk, url, locals, restarts>>

\* HEAD fails, or has another ETag or none, or the file does not parse.
HeadMoves ==
    /\ pc = "head"
    /\ pc' = "get"
    /\ UNCHANGED <<upstream, disk, url, mapping, locals, restarts>>

\* Changed form of FetchFails: the mapping of the file is used unseen.
FetchFailsUnseen ==
    /\ pc = "get"
    /\ IF file # None THEN Succeed(file) ELSE Fail
    /\ UNCHANGED <<upstream, disk, url, locals, restarts>>

\* Also when the MD5 of the body is not that of the header.
FetchFails ==
    /\ pc = "get"
    /\ IF Parses(file) THEN Succeed(file) ELSE Fail
    /\ UNCHANGED <<upstream, disk, url, locals, restarts>>

SameMD5 == file # None /\ meta.md5 # None /\ meta.md5 = newMeta'.md5

\* Changed form of Fetch: a file that does not parse, with an MD5 that matches, is
\* an error.
FetchTrustsFile ==
    /\ pc = "get"
    /\ data' = Current
    /\ \E e \in {Current, None}, m \in {Current, None} :
          newMeta' = [url |-> url, etag |-> e, md5 |-> m]
    /\ IF SameMD5
       THEN IF Parses(file) THEN pc' = "unchanged" /\ UNCHANGED mapping ELSE Fail
       ELSE pc' = "write" /\ UNCHANGED mapping
    /\ UNCHANGED <<upstream, disk, url, meta, restarts>>

\* The response may lack either header.
Fetch ==
    /\ pc = "get"
    /\ data' = Current
    /\ \E e \in {Current, None}, m \in {Current, None} :
          newMeta' = [url |-> url, etag |-> e, md5 |-> m]
    /\ pc' = IF SameMD5 /\ Parses(file) THEN "unchanged" ELSE "write"
    /\ UNCHANGED <<upstream, disk, url, mapping, meta, restarts>>

\* The MD5 matches: only the sidecar is written.  Whether a sidecar could be
\* written is logged only.
Unchanged ==
    /\ pc = "unchanged"
    /\ sidecar' \in {newMeta, sidecar}
    /\ Succeed(file)
    /\ UNCHANGED <<upstream, file, url, locals, restarts>>

\* The file is replaced before the new bytes are parsed.
WriteFile ==
    /\ pc = "write"
    /\ file' = data
    /\ IF Parses(data) THEN pc' = "sidecar" /\ UNCHANGED mapping ELSE Fail
    /\ UNCHANGED <<upstream, sidecar, url, locals, restarts>>

\* Changed form of WriteFileFails: the failure is logged only, as a sidecar's is.
WriteFileFailsLogged ==
    /\ pc = "write"
    /\ IF Parses(data) THEN pc' = "sidecar" /\ UNCHANGED mapping ELSE Fail
    /\ UNCHANGED <<upstream, disk, url, locals, restarts>>

WriteFileFails ==
    /\ pc = "write"
    /\ Fail
    /\ UNCHANGED <<upstream, disk, url, locals, restarts>>

WriteMetadata ==
    /\ pc = "sidecar"
    /\ sidecar' \in {newMeta, sidecar}
    /\ Succeed(data)
    /\ UNCHANGED <<upstream, file, url, locals, restarts>>

LoadStep ==
    \/ LoadOrFetch \/ HeadMatches \/ HeadMoves \/ FetchFails \/ Fetch
    \/ Unchanged \/ WriteFile \/ WriteFileFails \/ WriteMetadata

-----------------------------------------------------------------------------
Publish(u) ==
    /\ upstream[u] < MaxVersion
    /\ upstream' = [upstream EXCEPT ![u] = @ + 1]
    /\ UNCHANGED <<disk, url, mapping, pc, locals, restarts>>

\* The process is killed and started again, perhaps with another URL.  When the
\* machine went down too, a file that was not synced may be damaged, and a
\* sidecar that does not parse counts as none.
Restart ==
    /\ restarts < MaxRestarts
    /\ restarts' = restarts + 1
    /\ url' \in Urls
    /\ file' \in {file, IF file = None THEN None ELSE Garbage}
    /\ sidecar' \in {sidecar, NoMetadata}
    /\ mapping' = None
    /\ pc' = "idle"
    /\ meta' = NoMetadata /\ data' = None /\ newMeta' = NoMetadata
    /\ UNCHANGED upstream

Next == LoadStep \/ (\E u \in Urls : Publish(u)) \/ Restart

Spec == Init /\ [][Next]_vars

\* The timers fire and the calls of a load return; the upstream and the disk do
\* not fail for ever.
FairSpec ==
    /\ Spec
    /\ WF_vars(LoadStep)
    /\ SF_vars(Fetch)
    /\ SF_vars(WriteFile)

-----------------------------------------------------------------------------
\* "Up to date" is true: when the ETag of HEAD is the sidecar's, the mapping that
\* is served is what the upstream has, whatever crashes and failed writes came
\* between the writes of the two files (anibridge.go:112-123, 157-172).
UpToDateIsCurrent == [][HeadMatches => mapping' = Current]_vars

\* A refresh never brings back an older mapping of the same URL, although it falls
\* back to the file whenever the download fails (anibridge.go:131-142).
MappingNeverGoesBack ==
    [][(mapping # None /\ mapping' # None /\ mapping'.url = mapping.url) =>
          mapping'.version >= mapping.version]_vars

\* Once the upstream serves a mapping for good, the process serves that mapping:
\* no state of the two files is one that LoadOrFetch cannot get out of.
MappingConverges ==
    (<>[](Parses(Current))) => <>[](mapping = Current)
=============================================================================
