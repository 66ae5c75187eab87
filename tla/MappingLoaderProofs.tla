------------------------- MODULE MappingLoaderProofs -------------------------
(***************************************************************************)
(* Proofs about MappingLoader.  Type correctness holds for any URLs.  The  *)
(* two properties of the mapping are proved for a single URL, for which    *)
(* the versions of the file, the sidecar, the mapping and the upstream are *)
(* ordered: the file is never older than the sidecar says, nor older than  *)
(* the mapping in memory, and nothing is newer than the upstream.          *)
(***************************************************************************)
EXTENDS MappingLoader, TLAPS

\* What a load has in hand at each of its steps.
InHand ==
    /\ pc \in {"unchanged", "write", "sidecar"} => data \in Published
    /\ pc = "unchanged" => file \in Published

Shape == MappingTypeOK /\ InHand

LEMMA ShapeInvariant == Spec => []Shape
<1> USE VersionsAssumption, ContentsAssumption DEF Shape
<1>0. NoMetadata \in Sidecars /\ 0 \in 0 .. MaxRestarts /\ 1 \in 1 .. MaxVersion
  BY DEF NoMetadata, Sidecars
<1>1. Init => Shape
  <2> SUFFICES ASSUME Init PROVE Shape
    OBVIOUS
  <2>1. upstream \in [Urls -> 1 .. MaxVersion] /\ url \in Urls /\ restarts \in 0 .. MaxRestarts
    BY <1>0 DEF Init
  <2>3. data = None /\ file = None /\ mapping = None /\ pc = "idle"
    BY DEF Init
  <2>4. sidecar \in Sidecars /\ meta \in Sidecars /\ newMeta \in Sidecars
    BY <1>0 DEF Init
  <2> QED
    BY <2>1, <2>3, <2>4 DEF MappingTypeOK, InHand
<1>2. Shape /\ [Next]_vars => Shape'
  <2> SUFFICES ASSUME Shape, [Next]_vars
               PROVE  Shape'
    OBVIOUS
  <2> USE DEF InHand
  <2>0. NoMetadata \in Sidecars
    BY DEF NoMetadata, Sidecars
  <2>1. Current \in Published
    BY DEF Current, Published, MappingTypeOK
  <2>2. CASE LoadOrFetch
    <3>1. meta' \in Sidecars
      BY <2>0, <2>2 DEF LoadOrFetch, MappingTypeOK
    <3>2. pc' \in {"head", "get"}
      BY <2>2 DEF LoadOrFetch
    <3> QED
      BY <2>0, <2>2, <3>1, <3>2 DEF LoadOrFetch, MappingTypeOK, disk
  <2>3. CASE HeadMatches
    BY <2>3 DEF HeadMatches, MappingTypeOK, Succeed, Parses, disk, locals
  <2>4. CASE HeadMoves
    BY <2>4 DEF HeadMoves, MappingTypeOK, disk, locals
  <2>5. CASE FetchFails
    BY <2>5 DEF FetchFails, MappingTypeOK, Succeed, Fail, Parses, disk, locals
  <2>6. CASE Fetch
    <3>1. newMeta' \in Sidecars
      BY <2>1, <2>6 DEF Fetch, Sidecars, MappingTypeOK
    <3>2. pc' \in {"unchanged", "write"} /\ (pc' = "unchanged" => Parses(file))
      BY <2>6 DEF Fetch
    <3> QED
      BY <2>1, <2>6, <3>1, <3>2 DEF Fetch, MappingTypeOK, Parses, disk
  <2>7. CASE Unchanged
    BY <2>7 DEF Unchanged, MappingTypeOK, Succeed, locals
  <2>8. CASE WriteFile
    BY <2>8 DEF WriteFile, MappingTypeOK, Fail, locals
  <2>9. CASE WriteFileFails
    BY <2>9 DEF WriteFileFails, MappingTypeOK, Fail, disk, locals
  <2>10. CASE WriteMetadata
    BY <2>10 DEF WriteMetadata, MappingTypeOK, Succeed, locals
  <2>11. CASE \E u \in Urls : Publish(u)
    BY <2>11 DEF Publish, MappingTypeOK, disk, locals
  <2>12. CASE Restart
    <3>1. restarts' \in 0 .. MaxRestarts /\ UNCHANGED upstream /\ url' \in Urls
      BY <2>12 DEF Restart, MappingTypeOK
    <3>3. file' \in {file, None, Garbage}
      BY <2>12 DEF Restart
    <3>4. sidecar' \in Sidecars /\ meta' \in Sidecars /\ newMeta' \in Sidecars
      BY <2>0, <2>12 DEF Restart, MappingTypeOK
    <3>5. data' = None /\ mapping' = None /\ pc' = "idle"
      BY <2>12 DEF Restart
    <3> QED
      BY <3>1, <3>3, <3>4, <3>5 DEF MappingTypeOK
  <2>13. CASE UNCHANGED vars
    BY <2>13 DEF vars, MappingTypeOK, disk, locals
  <2> QED
    BY <2>2, <2>3, <2>4, <2>5, <2>6, <2>7, <2>8, <2>9, <2>10, <2>11, <2>12, <2>13
    DEF Next, LoadStep
<1> QED
  BY <1>1, <1>2, PTL DEF Spec

\* Type correctness: a load that fails half way leaves no damaged file or
\* missing file in the place of a mapping (LoadOrFetch, anibridge.go:91-177).
THEOREM MappingTypeCorrect == Spec => []MappingTypeOK
BY ShapeInvariant, PTL DEF Shape

-----------------------------------------------------------------------------
\* The version of a file, a mark or a mapping; 0 when there is none.
Ver(c) == IF c \in Published THEN c.version ELSE 0

\* No version in the state is newer than the upstream's.
NothingNewer ==
    /\ Ver(file) <= upstream[url]
    /\ Ver(mapping) <= upstream[url]
    /\ Ver(data) <= upstream[url]
    /\ Ver(sidecar.etag) <= upstream[url] /\ Ver(sidecar.md5) <= upstream[url]
    /\ Ver(meta.etag) <= upstream[url] /\ Ver(meta.md5) <= upstream[url]

\* A file that is there and not damaged is at least as new as every mark of it
\* and as the mapping in memory.
FileNewest ==
    file \in Published =>
        /\ Ver(sidecar.etag) <= file.version /\ Ver(sidecar.md5) <= file.version
        /\ Ver(meta.etag) <= file.version /\ Ver(meta.md5) <= file.version
        /\ Ver(mapping) <= file.version

\* What was downloaded is at least as new as all there was.
DownloadNewest ==
    /\ pc \in {"unchanged", "write", "sidecar"} =>
        /\ newMeta.etag \in {data, None} /\ newMeta.md5 \in {data, None}
        /\ Ver(file) <= data.version
        /\ Ver(sidecar.etag) <= data.version /\ Ver(sidecar.md5) <= data.version
        /\ Ver(meta.etag) <= data.version /\ Ver(meta.md5) <= data.version
        /\ Ver(mapping) <= data.version
    /\ pc \in {"unchanged", "sidecar"} => file = data

Order == NothingNewer /\ FileNewest /\ DownloadNewest

LEMMA OrderInvariant ==
  ASSUME NEW u, Urls = {u}
  PROVE  Spec => []Order
<1> USE VersionsAssumption, ContentsAssumption
<1>1. Init => Order
  BY DEF Init, Order, NothingNewer, FileNewest, DownloadNewest, Ver, NoMetadata, Published
<1>2. Shape /\ Order /\ [Next]_vars => Order'
  <2> SUFFICES ASSUME Shape, Order, [Next]_vars
               PROVE  Order'
    OBVIOUS
  <2> USE DEF Shape, InHand
  <2>a. Ver(None) = 0 /\ Ver(Garbage) = 0
    BY DEF Ver
  <2>b. \A c \in Published : c = [url |-> u, version |-> c.version] /\ c.version \in 1 .. MaxVersion
    BY DEF Published
  <2>c. Current \in Published /\ Current.version = upstream[url] /\ upstream[url] \in 1 .. MaxVersion
    BY DEF Current, Published, MappingTypeOK
  <2>d. \A c : Ver(c) \in Nat
    BY <2>b DEF Ver
  <2>e. /\ file \in Published \cup {Garbage, None} /\ mapping \in Published \cup {None}
        /\ data \in Published \cup {None} /\ url = u
        /\ sidecar.etag \in Published \cup {None} /\ sidecar.md5 \in Published \cup {None}
        /\ meta.etag \in Published \cup {None} /\ meta.md5 \in Published \cup {None}
    BY DEF MappingTypeOK, Sidecars
  <2>f. NoMetadata.etag = None /\ NoMetadata.md5 = None
    BY DEF NoMetadata
  <2>g. \A c \in Published : Ver(c) = c.version
    BY DEF Ver
  <2>2. CASE LoadOrFetch
    <3>1. meta' \in {NoMetadata, sidecar} /\ pc' \in {"head", "get"}
      BY <2>2 DEF LoadOrFetch
    <3>2. data' = None /\ UNCHANGED <<upstream, url, file, sidecar, mapping>>
      BY <2>2 DEF LoadOrFetch, disk
    <3> QED
      BY <2>a, <2>c, <2>d, <2>f, <2>e, <2>b, <3>1, <3>2 DEF Order, NothingNewer, FileNewest, DownloadNewest
  <2> HIDE DEF Shape, InHand
  <2>3. CASE HeadMatches
    BY <2>3, <2>g, <2>b, <2>c, <2>d DEF HeadMatches, Succeed, Parses, disk, locals, Order, NothingNewer,
       FileNewest, DownloadNewest
  <2>4. CASE HeadMoves
    BY <2>4 DEF HeadMoves, disk, locals, Order, NothingNewer, FileNewest, DownloadNewest
  <2>5. CASE FetchFails
    BY <2>5, <2>g, <2>b, <2>d DEF FetchFails, Succeed, Fail, Parses, disk, locals, Order, NothingNewer,
       FileNewest, DownloadNewest
  <2>6. CASE Fetch
    <3>1. data' = Current /\ newMeta'.etag \in {data', None} /\ newMeta'.md5 \in {data', None}
      BY <2>6 DEF Fetch
    <3>2. UNCHANGED <<upstream, url, file, sidecar, mapping, meta>>
      BY <2>6 DEF Fetch, disk
    <3>3. pc' \in {"unchanged", "write"}
      BY <2>6 DEF Fetch
    <3>4. ASSUME pc' = "unchanged" PROVE file = Current
      <4>1. file \in Published /\ meta.md5 = Current
        BY <2>6, <3>1, <3>4 DEF Fetch, SameMD5, Parses
      <4>2. file.version = upstream[url]
        BY <4>1, <2>b, <2>c, <2>g DEF Order, NothingNewer, FileNewest
      <4> QED
        BY <4>1, <4>2, <2>b, <2>c
    <3> QED
      BY <3>1, <3>2, <3>3, <3>4, <2>c, <2>g, <2>d DEF Order, NothingNewer, FileNewest, DownloadNewest
  <2>7. CASE Unchanged
    <3>1. data \in Published /\ file = data /\ mapping' = file /\ pc' = "idle"
      BY <2>7 DEF Unchanged, Succeed, Shape, InHand, Order, DownloadNewest
    <3>2. sidecar' \in {newMeta, sidecar} /\ UNCHANGED <<upstream, url, file, meta, data>>
      BY <2>7 DEF Unchanged, locals
    <3>3. newMeta.etag \in {data, None} /\ newMeta.md5 \in {data, None}
      BY <2>7 DEF Unchanged, Order, DownloadNewest
    <3> QED
      BY <3>1, <3>2, <3>3, <2>a, <2>b, <2>c, <2>d, <2>g DEF Order, NothingNewer, FileNewest, DownloadNewest
  <2>8. CASE WriteFile
    <3>1. data \in Published /\ file' = data /\ pc' \in {"idle", "sidecar"}
      BY <2>8 DEF WriteFile, Fail, Shape, InHand
    <3>2. UNCHANGED <<upstream, url, sidecar, meta, data, newMeta, mapping>>
      BY <2>8 DEF WriteFile, Fail, locals
    <3>3. pc = "write"
      BY <2>8 DEF WriteFile
    <3> QED
      BY <3>1, <3>2, <3>3, <2>b, <2>c, <2>d, <2>g DEF Order, NothingNewer, FileNewest, DownloadNewest
  <2>9. CASE WriteFileFails
    BY <2>9 DEF WriteFileFails, Fail, disk, locals, Order, NothingNewer, FileNewest, DownloadNewest
  <2>10. CASE WriteMetadata
    <3>1. data \in Published /\ file = data /\ mapping' = data /\ pc' = "idle"
      BY <2>10 DEF WriteMetadata, Succeed, Shape, InHand, Order, DownloadNewest
    <3>2. sidecar' \in {newMeta, sidecar} /\ UNCHANGED <<upstream, url, file, meta, data>>
      BY <2>10 DEF WriteMetadata, locals
    <3>3. newMeta.etag \in {data, None} /\ newMeta.md5 \in {data, None}
      BY <2>10 DEF WriteMetadata, Order, DownloadNewest
    <3> QED
      BY <3>1, <3>2, <3>3, <2>a, <2>b, <2>c, <2>d, <2>g DEF Order, NothingNewer, FileNewest, DownloadNewest
  <2>11. CASE \E v \in Urls : Publish(v)
    <3>1. upstream'[url] = upstream[url] + 1
      BY <2>11, <2>e DEF Publish, Shape, MappingTypeOK
    <3>2. UNCHANGED <<file, sidecar, url, mapping, pc, meta, data, newMeta>>
      BY <2>11 DEF Publish, disk, locals
    <3> QED
      BY <3>1, <3>2, <2>c, <2>d DEF Order, NothingNewer, FileNewest, DownloadNewest
  <2>12. CASE Restart
    <3>1. url' = url
      BY <2>12, <2>e DEF Restart
    <3>2. file' \in {file, Garbage} /\ (file' = Garbage => file' \notin Published)
      BY <2>12 DEF Restart
    <3>3. sidecar' \in {sidecar, NoMetadata} /\ meta' = NoMetadata /\ data' = None
          /\ mapping' = None /\ pc' = "idle" /\ UNCHANGED upstream
      BY <2>12 DEF Restart
    <3> QED
      BY <3>1, <3>2, <3>3, <2>a, <2>b, <2>c, <2>d, <2>f DEF Order, NothingNewer, FileNewest, DownloadNewest
  <2>13. CASE UNCHANGED vars
    BY <2>13 DEF vars, disk, locals, Order, NothingNewer, FileNewest, DownloadNewest
  <2> QED
    BY <2>2, <2>3, <2>4, <2>5, <2>6, <2>7, <2>8, <2>9, <2>10, <2>11, <2>12, <2>13
    DEF Next, LoadStep
<1> QED
  BY <1>1, <1>2, ShapeInvariant, PTL DEF Spec

\* With one URL, "up to date" is true: when the ETag of HEAD is the sidecar's, the
\* mapping that is served is what the upstream has (anibridge.go:112-123, 157-172).
THEOREM UpToDate ==
  ASSUME NEW u, Urls = {u}
  PROVE  Spec => UpToDateIsCurrent
<1>1. Shape /\ Order /\ [Next]_vars => [HeadMatches => mapping' = Current]_vars
  <2> SUFFICES ASSUME Shape, Order, HeadMatches
               PROVE  mapping' = Current
    OBVIOUS
  <2>1. file \in Published /\ mapping' = file /\ meta.etag = Current
    BY DEF HeadMatches, Succeed, Parses
  <2>2. Current \in Published /\ Current.version = upstream[url]
    BY VersionsAssumption DEF Current, Published, Shape, MappingTypeOK
  <2>3. file.version = upstream[url]
    BY <2>1, <2>2, VersionsAssumption DEF Order, NothingNewer, FileNewest, Ver, Published
  <2> QED
    BY <2>1, <2>2, <2>3 DEF Published
<1> QED
  BY <1>1, ShapeInvariant, OrderInvariant, PTL DEF Spec, UpToDateIsCurrent

\* With one URL, a refresh never brings back an older mapping, although it falls back
\* to the file whenever the download fails (anibridge.go:131-142).
THEOREM NeverBack ==
  ASSUME NEW u, Urls = {u}
  PROVE  Spec => MappingNeverGoesBack
<1> DEFINE Newer ==
      (mapping # None /\ mapping' # None /\ mapping'.url = mapping.url) =>
          mapping'.version >= mapping.version
<1>1. Shape /\ Order /\ [Next]_vars => [Newer]_vars
  <2> SUFFICES ASSUME Shape, Order, [Next]_vars, mapping # None, mapping' # None
               PROVE  mapping'.version >= mapping.version
    OBVIOUS
  <2>1. mapping \in Published /\ mapping.version \in 1 .. MaxVersion
    BY DEF Shape, MappingTypeOK, Published
  <2>2. CASE UNCHANGED mapping
    BY <2>1, <2>2
  <2>3. CASE file \in Published /\ mapping' = file
    BY <2>1, <2>3, VersionsAssumption DEF Order, FileNewest, Ver, Published
  <2>4. CASE WriteMetadata
    <3>1. data \in Published /\ mapping' = data /\ Ver(mapping) <= data.version
      BY <2>4 DEF WriteMetadata, Succeed, Shape, InHand, Order, DownloadNewest
    <3> QED
      BY <2>1, <3>1, VersionsAssumption DEF Ver, Published
  <2>5. CASE LoadStep /\ ~WriteMetadata
    <3>1. UNCHANGED mapping \/ (file \in Published /\ mapping' = file)
      BY <2>5 DEF LoadStep, LoadOrFetch, HeadMatches, HeadMoves, FetchFails, Fetch, Unchanged,
                  WriteFile, WriteFileFails, Succeed, Fail, Parses, Shape, InHand
    <3> QED
      BY <3>1, <2>2, <2>3
  <2>6. CASE (\E v \in Urls : Publish(v)) \/ UNCHANGED vars
    BY <2>6, <2>2 DEF Publish, vars
  <2>7. CASE Restart
    BY <2>7 DEF Restart
  <2> QED
    BY <2>4, <2>5, <2>6, <2>7 DEF Next
<1> QED
  BY <1>1, ShapeInvariant, OrderInvariant, PTL DEF Spec, MappingNeverGoesBack
=============================================================================
