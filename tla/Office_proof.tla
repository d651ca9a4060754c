---------------------------- MODULE Office_proof ----------------------------
(***************************************************************************)
(* The promises of eight smaller components, each on its own, for every    *)
(* value of their constants.  Each part of this module is one component:   *)
(* the parts of its inductive invariant, the lemmas, the initial step, the *)
(* steps, the theorem.                                                     *)
(***************************************************************************)
EXTENDS Documents, PdfExports, Compliance, Credentials, Payables, Entitlements, Team, Subscriptions,
        FiniteSetTheorems, FunctionTheorems, WellFoundedInduction, TLAPS

-----------------------------------------------------------------------------
(***************************************************************************)
(* Documents: the versions of a file name are 1, 2, 3, ...                 *)
(***************************************************************************)

\* Each row is of an upload that is done, at the name and version this upload counted.
RowsAreOfUploads ==
    \A d \in documents :
        /\ up[d.content].at = "done"
        /\ up[d.content].name = d.name /\ up[d.content].version = d.version

\* An upload under way has counted a version that was at most one too many; others may have
\* committed since.
UnderWay ==
    \A u \in Uploads : up[u].at \in {"counted", "written"} =>
        /\ up[u].name \in FileNames /\ up[u].version \in Versions
        /\ \A n \in FileNames : up[u].name = n => up[u].version <= Cardinality(RowsOf(n)) + 1

\* Whoever has written a file has it until its row is there: exclusive creation.
FilesAreKept ==
    \A u \in Uploads : up[u].at = "written" => stored[<<up[u].name, up[u].version>>] = u

\* What every step of an upload preserves.
DInv ==
    /\ DocumentsTypeOK /\ IsFiniteSet(documents)
    /\ RowsAreOfUploads /\ UnderWay /\ FilesAreKept /\ VersionsInOrder

\* The rows of one file name are finitely many.
LEMMA RowsAreFinite ==
    ASSUME IsFiniteSet(documents), NEW n
    PROVE  IsFiniteSet(RowsOf(n)) /\ Cardinality(RowsOf(n)) \in Nat
  <1>1. RowsOf(n) \in SUBSET documents
    BY DEF RowsOf
  <1> QED
    BY <1>1, FS_Subset, FS_CardinalityType

\* Counting yields one more than there are rows.
LEMMA NextIsOneMore ==
    ASSUME DInv, NEW n \in FileNames
    PROVE  NextVersion(n) = Cardinality(RowsOf(n)) + 1
  <1> DEFINE k == Cardinality(RowsOf(n))
             S == (1 .. k) \cup {0}
  <1>1. k \in Nat
    BY RowsAreFinite DEF DInv
  <1>2. VersionsOf(n) \cup {0} = S
    BY DEF DInv, VersionsInOrder
  <1> HIDE DEF k
  <1>3. k \in S /\ \A y \in S : k >= y
    BY <1>1
  <1>4. \A x \in S : (\A y \in S : x >= y) => x = k
    BY <1>1, <1>3
  <1>5. Max(S) = k
    BY <1>3, <1>4 DEF Max
  <1> QED
    BY <1>2, <1>5 DEF NextVersion, k

\* An upload that has not begun leaves room for its version: every row is of another one.
LEMMA RoomForOneMore ==
    ASSUME DInv, NEW u \in Uploads, up[u].at = "new", NEW n \in FileNames
    PROVE  Cardinality(RowsOf(n)) + 1 \in Versions
  <1> DEFINE f == [d \in RowsOf(n) |-> d.content]
             others == Uploads \ {u}
  <1>1. ASSUME NEW d \in RowsOf(n) PROVE d.content \in others
    BY <1>1 DEF DInv, RowsOf, RowsAreOfUploads, DocumentsTypeOK
  <1>2. ASSUME NEW d \in RowsOf(n), NEW e \in RowsOf(n), d.content = e.content PROVE d = e
    <2>1. d.name = e.name /\ d.version = e.version
      BY <1>2 DEF DInv, RowsOf, RowsAreOfUploads
    <2>2. /\ d = [name |-> d.name, version |-> d.version, content |-> d.content]
          /\ e = [name |-> e.name, version |-> e.version, content |-> e.content]
      BY DEF DInv, RowsOf, DocumentsTypeOK
    <2> QED
      BY <1>2, <2>1, <2>2
  <1>3. f \in [RowsOf(n) -> others] /\ \A d, e \in RowsOf(n) : f[d] = f[e] => d = e
    BY <1>1, <1>2
  <1>4. f \in Injection(RowsOf(n), others)
    BY <1>3, Fun_IsInj
  <1>5. IsFiniteSet(others) /\ Cardinality(others) = Cardinality(Uploads) - 1
    BY UploadAssumption, FS_RemoveElement
  <1>6. Cardinality(RowsOf(n)) <= Cardinality(others)
    BY <1>4, <1>5, FS_Injection
  <1>7. Cardinality(RowsOf(n)) \in Nat /\ Cardinality(Uploads) \in Nat
    BY UploadAssumption, RowsAreFinite, FS_CardinalityType DEF DInv
  <1> QED
    BY <1>5, <1>6, <1>7 DEF Versions

LEMMA InitDInv == InitDocuments => DInv
  <1> SUFFICES ASSUME InitDocuments PROVE DInv
    OBVIOUS
  <1>1. DocumentsTypeOK
    BY DEF InitDocuments, DocumentsTypeOK, NewUpload, UploadStates
  <1>2. IsFiniteSet(documents)
    BY FS_EmptySet DEF InitDocuments
  <1>3. RowsAreOfUploads /\ UnderWay /\ FilesAreKept
    BY DEF InitDocuments, RowsAreOfUploads, UnderWay, FilesAreKept, NewUpload
  <1>4. VersionsInOrder
    <2>1. ASSUME NEW n \in FileNames PROVE VersionsOf(n) = {} /\ RowsOf(n) = {}
      BY DEF InitDocuments, VersionsOf, RowsOf
    <2>2. 1 .. 0 = {}
      OBVIOUS
    <2> QED
      BY <2>1, <2>2, FS_EmptySet DEF VersionsInOrder, InitDocuments
  <1> QED
    BY <1>1, <1>2, <1>3, <1>4 DEF DInv

\* Steps that leave the rows alone leave the versions alone, and a file that was written for a
\* row stays.
LEMMA SameRows ==
    ASSUME DInv, documents' = documents,
           \A d \in documents : stored'[<<d.name, d.version>>] = stored[<<d.name, d.version>>]
    PROVE  VersionsInOrder'
  BY DEF DInv, VersionsInOrder, VersionsOf, RowsOf

\* Each step of an upload preserves the invariant.
LEMMA NextDInv == DInv /\ [NextDocuments]_dvars => DInv'
  <1> SUFFICES ASSUME DInv, [NextDocuments]_dvars PROVE DInv'
    OBVIOUS
  <1>0. /\ DocumentsTypeOK /\ IsFiniteSet(documents)
        /\ RowsAreOfUploads /\ UnderWay /\ FilesAreKept /\ VersionsInOrder
    BY DEF DInv
  <1>1. ASSUME NEW u \in Uploads, NEW n \in FileNames, CountVersions(u, n) PROVE DInv'
    <2>1. up[u].at = "new" /\ documents' = documents /\ stored' = stored
      BY <1>1 DEF CountVersions, At
    <2>2. up' = [up EXCEPT ![u] = [at |-> "counted", name |-> n,
                                  version |-> Cardinality(RowsOf(n)) + 1]]
      BY <1>1, NextIsOneMore DEF CountVersions
    <2>3. Cardinality(RowsOf(n)) + 1 \in Versions /\ Cardinality(RowsOf(n)) \in Nat
      BY <1>0, <2>1, RoomForOneMore, RowsAreFinite
    <2>4. DocumentsTypeOK'
      BY <1>0, <2>1, <2>2, <2>3 DEF DocumentsTypeOK, UploadStates
    <2>5. RowsAreOfUploads' /\ FilesAreKept'
      BY <1>0, <2>1, <2>2 DEF DocumentsTypeOK, RowsAreOfUploads, FilesAreKept
    <2>6. UnderWay'
      <3>1. ASSUME NEW w \in Uploads, up'[w].at \in {"counted", "written"}
            PROVE  /\ up'[w].name \in FileNames /\ up'[w].version \in Versions
                   /\ \A m \in FileNames : up'[w].name = m =>
                          up'[w].version <= Cardinality(RowsOf(m)) + 1
        <4>1. CASE w = u
          BY <1>0, <2>2, <2>3, <4>1 DEF DocumentsTypeOK
        <4>2. CASE w # u
          <5>1. up'[w] = up[w]
            BY <1>0, <2>2, <4>2 DEF DocumentsTypeOK
          <5> QED
            BY <1>0, <3>1, <5>1 DEF UnderWay
        <4> QED
          BY <4>1, <4>2
      <3> QED
        BY <2>1, <3>1 DEF UnderWay, RowsOf
    <2> QED
      BY <1>0, <2>1, <2>4, <2>5, <2>6, SameRows DEF DInv
  <1>2. ASSUME NEW u \in Uploads, WriteFile(u) PROVE DInv'
    <2> DEFINE place == <<up[u].name, up[u].version>>
    <2>1. /\ up[u].at = "counted" /\ stored[place] = NoContent
          /\ stored' = [stored EXCEPT ![place] = u]
          /\ up' = [up EXCEPT ![u].at = "written"] /\ documents' = documents
      BY <1>2 DEF WriteFile, At, Move, Creatable
    <2>2. place \in FileNames \X Versions
      BY <1>0, <2>1 DEF UnderWay
    <2> HIDE DEF place
    <2>3. DocumentsTypeOK'
      BY <1>0, <2>1, <2>2 DEF DocumentsTypeOK, UploadStates
    <2>4. \A d \in documents : stored'[<<d.name, d.version>>] = stored[<<d.name, d.version>>]
      BY <1>0, <2>1, <2>2, UploadAssumption DEF DocumentsTypeOK, VersionsInOrder
    <2>5. RowsAreOfUploads' /\ UnderWay'
      BY <1>0, <2>1 DEF DocumentsTypeOK, RowsAreOfUploads, UnderWay, RowsOf
    <2>6. FilesAreKept'
      BY <1>0, <2>1, <2>2, UploadAssumption DEF DocumentsTypeOK, FilesAreKept, place, UnderWay
    <2> QED
      BY <1>0, <2>1, <2>3, <2>4, <2>5, <2>6, SameRows DEF DInv
  <1>3. ASSUME NEW u \in Uploads, Conflict(u) PROVE DInv'
    <2>1. /\ documents' = documents /\ stored' = stored
          /\ up[u].at = "counted" /\ up' = [up EXCEPT ![u].at = "refused"]
      BY <1>3 DEF Conflict, Move, At
    <2>2. DocumentsTypeOK' /\ RowsAreOfUploads' /\ UnderWay' /\ FilesAreKept'
      BY <1>0, <2>1 DEF DocumentsTypeOK, UploadStates, RowsAreOfUploads, UnderWay, RowsOf, FilesAreKept
    <2> QED
      BY <1>0, <2>1, <2>2, SameRows DEF DInv
  <1>4. ASSUME NEW u \in Uploads, AbortUpload(u) PROVE DInv'
    <2>1. /\ documents' = documents /\ stored' = stored
          /\ up[u].at \in {"counted", "written"} /\ up' = [up EXCEPT ![u].at = "failed"]
      BY <1>4 DEF AbortUpload, Move
    <2>2. DocumentsTypeOK' /\ RowsAreOfUploads' /\ UnderWay' /\ FilesAreKept'
      BY <1>0, <2>1 DEF DocumentsTypeOK, UploadStates, RowsAreOfUploads, UnderWay, RowsOf, FilesAreKept
    <2> QED
      BY <1>0, <2>1, <2>2, SameRows DEF DInv
  <1>5. ASSUME NEW u \in Uploads, CommitDocument(u) PROVE DInv'
    <2> DEFINE n == up[u].name
               v == up[u].version
               k == Cardinality(RowsOf(n))
               newRow == [name |-> n, version |-> v, content |-> u]
    <2>1. /\ up[u].at = "written" /\ stored' = stored /\ documents' = documents \cup {newRow}
          /\ up' = [up EXCEPT ![u].at = "done"]
      BY <1>5 DEF CommitDocument, At, Move
    <2>2. /\ n \in FileNames /\ v \in Versions /\ v <= k + 1 /\ stored[<<n, v>>] = u
          /\ k \in Nat /\ v \in Nat /\ v >= 1
      <3>1. n \in FileNames /\ v \in Versions /\ v <= k + 1 /\ stored[<<n, v>>] = u
        BY <1>0, <2>1 DEF UnderWay, FilesAreKept
      <3>2. Cardinality(Uploads) \in Nat
        BY UploadAssumption, FS_CardinalityType
      <3> QED
        BY <1>0, <3>1, <3>2, RowsAreFinite DEF Versions
    \* The version is free, for whose row it were would have the file.
    <2>3. v \notin VersionsOf(n)
      BY <1>0, <2>1, <2>2 DEF VersionsOf, RowsOf, VersionsInOrder, RowsAreOfUploads, DocumentsTypeOK
    <2>4. v = k + 1
      BY <1>0, <2>2, <2>3 DEF VersionsInOrder
    <2>5. newRow \notin documents
      BY <2>3 DEF VersionsOf, RowsOf
    <2>6. RowsOf(n)' = RowsOf(n) \cup {newRow} /\ Cardinality(RowsOf(n)') = k + 1
      <3>1. RowsOf(n)' = RowsOf(n) \cup {newRow}
        BY <2>1 DEF RowsOf
      <3>2. newRow \notin RowsOf(n)
        BY <2>5 DEF RowsOf
      <3> QED
        BY <1>0, <3>1, <3>2, FS_AddElement, RowsAreFinite
    <2> DEFINE RowsAfter(m) == {d \in documents' : d.name = m}
    <2>7. ASSUME NEW m \in FileNames
          PROVE  /\ {d.version : d \in RowsAfter(m)} = 1 .. Cardinality(RowsAfter(m))
                 /\ Cardinality(RowsOf(m)) <= Cardinality(RowsAfter(m))
                 /\ Cardinality(RowsAfter(m)) \in Nat
      <3>1. CASE m = n
        <4>1. RowsAfter(m) = RowsOf(n) \cup {newRow}
          BY <2>1, <3>1 DEF RowsOf
        <4>2. {d.version : d \in RowsAfter(m)} = VersionsOf(n) \cup {v}
          <5>1. {d.version : d \in RowsOf(n) \cup {newRow}} = {d.version : d \in RowsOf(n)} \cup {newRow.version}
            OBVIOUS
          <5> QED
            BY <4>1, <5>1 DEF VersionsOf
        <4>3. Cardinality(RowsAfter(m)) = k + 1
          <5>1. newRow \notin RowsOf(n)
            BY <2>5 DEF RowsOf
          <5> QED
            BY <1>0, <4>1, <5>1, FS_AddElement, RowsAreFinite
        <4>4. VersionsOf(n) = 1 .. k
          BY <1>0, <2>2 DEF VersionsInOrder
        <4>5. (1 .. k) \cup {k + 1} = 1 .. (k + 1)
          BY <2>2
        <4> QED
          <5>1. {d.version : d \in RowsAfter(m)} = 1 .. Cardinality(RowsAfter(m))
            BY <2>4, <4>2, <4>3, <4>4, <4>5
          <5>2. Cardinality(RowsOf(m)) = k
            BY <3>1
          <5> HIDE DEF k, RowsAfter
          <5> QED
            BY <2>2, <4>3, <5>1, <5>2
      <3>2. CASE m # n
        <4>1. RowsAfter(m) = RowsOf(m)
          BY <2>1, <3>2 DEF RowsOf
        <4> QED
          <5>1. Cardinality(RowsAfter(m)) = Cardinality(RowsOf(m)) /\ Cardinality(RowsOf(m)) \in Nat
            BY <1>0, <4>1, RowsAreFinite
          <5>2. {d.version : d \in RowsAfter(m)} = VersionsOf(m)
            BY <4>1 DEF VersionsOf
          <5>3. VersionsOf(m) = 1 .. Cardinality(RowsOf(m))
            BY <1>0 DEF VersionsInOrder
          <5> HIDE DEF RowsAfter
          <5> QED
            BY <5>1, <5>2, <5>3
      <3> QED
        BY <3>1, <3>2
    <2>8. DocumentsTypeOK' /\ IsFiniteSet(documents)'
      <3>1. newRow \in [name : FileNames, version : Versions, content : Uploads]
        BY <2>2
      <3>2. up' \in [Uploads -> [at : UploadStates, name : FileNames \cup {NoContent},
                                version : Versions \cup {0}]]
        BY <1>0, <2>1 DEF DocumentsTypeOK, UploadStates
      <3> HIDE DEF newRow
      <3> QED
        BY <1>0, <2>1, <3>1, <3>2, FS_AddElement DEF DocumentsTypeOK
    <2>9. RowsAreOfUploads' /\ FilesAreKept'
      <3>1. \A d \in documents : d.content # u
        BY <1>0, <2>1 DEF RowsAreOfUploads
      <3>2. up'[u] = [at |-> "done", name |-> n, version |-> v]
        BY <1>0, <2>1 DEF DocumentsTypeOK
      <3>3. RowsAreOfUploads'
        BY <1>0, <2>1, <3>1, <3>2 DEF RowsAreOfUploads, DocumentsTypeOK
      <3> QED
        BY <1>0, <2>1, <3>3 DEF FilesAreKept, DocumentsTypeOK
    <2>10. UnderWay'
      <3>1. ASSUME NEW w \in Uploads, up'[w].at \in {"counted", "written"}
            PROVE  /\ up'[w].name \in FileNames /\ up'[w].version \in Versions
                   /\ \A m \in FileNames : up'[w].name = m =>
                          up'[w].version <= Cardinality(RowsAfter(m)) + 1
        <4>1. w # u /\ up'[w] = up[w]
          BY <1>0, <2>1, <3>1 DEF DocumentsTypeOK
        <4>2. /\ up[w].name \in FileNames /\ up[w].version \in Versions
              /\ \A m \in FileNames : up[w].name = m => up[w].version <= Cardinality(RowsOf(m)) + 1
          BY <1>0, <3>1, <4>1 DEF UnderWay
        <4>3. up[w].version \in Int
          BY <2>2, <4>2 DEF Versions
        <4>4. ASSUME NEW m \in FileNames, up[w].name = m
              PROVE  up[w].version <= Cardinality(RowsAfter(m)) + 1
          <5>1. /\ Cardinality(RowsOf(m)) <= Cardinality(RowsAfter(m))
                /\ Cardinality(RowsAfter(m)) \in Nat /\ Cardinality(RowsOf(m)) \in Nat
            BY <1>0, <2>7, RowsAreFinite
          <5> HIDE DEF RowsAfter
          <5> QED
            BY <4>2, <4>3, <4>4, <5>1
        <4> QED
          BY <4>1, <4>2, <4>4
      <3> QED
        BY <3>1 DEF UnderWay, RowsOf, Versions
    <2>11. VersionsInOrder'
      <3>1. \A d \in documents' : stored'[<<d.name, d.version>>] = d.content
        <4>1. stored[<<newRow.name, newRow.version>>] = newRow.content
          BY <2>2
        <4> HIDE DEF newRow
        <4> QED
          BY <1>0, <2>1, <4>1 DEF VersionsInOrder
      <3> QED
        BY <2>7, <3>1 DEF VersionsInOrder, VersionsOf, RowsOf
    <2> QED
      BY <2>8, <2>9, <2>10, <2>11 DEF DInv
  <1>6. CASE UNCHANGED dvars
    <2>1. DocumentsTypeOK' /\ RowsAreOfUploads' /\ UnderWay' /\ FilesAreKept'
      BY <1>0, <1>6 DEF dvars, DocumentsTypeOK, RowsAreOfUploads, UnderWay, RowsOf, FilesAreKept
    <2> QED
      BY <1>0, <1>6, <2>1, SameRows DEF dvars, DInv
  <1> QED
    BY <1>1, <1>2, <1>3, <1>4, <1>5, <1>6 DEF NextDocuments

\* However uploads of one file name overlap, are refused or fail, the committed versions are
\* 1, 2, ... and each row's file is its own upload's.
THEOREM GaplessVersions == DocumentsSpec => []VersionsInOrder
  <1>1. DInv => VersionsInOrder
    BY DEF DInv
  <1> QED
    BY <1>1, InitDInv, NextDInv, PTL DEF DocumentsSpec

-----------------------------------------------------------------------------
(***************************************************************************)
(* PDF exports: no estimate stays 'pending' unnoticed.                     *)
(***************************************************************************)

\* There is still a job for this estimate, or an answer has been lost.
Attended == overtaken \/ queue # {} \/ \E w \in Workers : ~Busy(w, "idle")

\* The row is held by an export that is about to write 'pending' over another value, and no other
\* export is about to.
HolderWritesPending ==
    /\ \A e \in Exports : exp[e].at = "sent" /\ exp[e].seen # "pending" => writer = e
    /\ writer # Free => exp[writer].at = "sent"

\* What every step of the exports and the workers preserves.
PInv ==
    /\ PdfExportsTypeOK /\ HolderWritesPending
    /\ writer # Free \/ pdf.status = "pending" => Attended

LEMMA InitPInv == InitPdfExports => PInv
  <1> SUFFICES ASSUME InitPdfExports PROVE PInv
    OBVIOUS
  <1>1. PdfExportsTypeOK
    <2>1. pdf \in [status : PdfStatuses, revision : 1 .. Revisions] /\ file \in 0 .. Revisions
      BY ExportAssumption DEF InitPdfExports, PdfStatuses
    <2>2. exp \in [Exports -> [at : {"new", "loaded", "sent", "done"}, seen : PdfStatuses]]
      BY DEF InitPdfExports, PdfStatuses
    <2>3. work \in [Workers -> {Waiting} \cup Working]
      BY DEF InitPdfExports
    <2> QED
      BY <2>1, <2>2, <2>3 DEF InitPdfExports, PdfExportsTypeOK
  <1>2. HolderWritesPending /\ ~(writer # Free \/ pdf.status = "pending")
    BY DEF InitPdfExports, HolderWritesPending
  <1> QED
    BY <1>1, <1>2 DEF PInv

\* A job that is tried again is a job.
LEMMA RequeuedIsJobs ==
    ASSUME NEW j \in Jobs
    PROVE  Requeued(j) \subseteq Jobs
  <1>1. CASE j.tries < Retries
    <2>1. j.tries + 1 \in 0 .. Retries
      BY <1>1, ExportAssumption DEF Jobs
    <2>2. [j EXCEPT !.tries = @ + 1] \in Jobs
      BY <2>1 DEF Jobs
    <2> QED
      BY <1>1, <2>2 DEF Requeued
  <1>2. CASE ~(j.tries < Retries)
    BY <1>2 DEF Requeued
  <1> QED
    BY <1>1, <1>2

\* A worker that does something is at work on a job.
LEMMA BusyIsWorking ==
    ASSUME PdfExportsTypeOK, NEW w \in Workers, work[w].at # "idle"
    PROVE  work[w] \in Working
  BY DEF PdfExportsTypeOK, Waiting

\* A step of a worker keeps the exports' part of the invariant when it leaves them alone.
LEMMA WorkerStep ==
    ASSUME PInv, UNCHANGED <<writer, exp>>, PdfExportsTypeOK',
           writer' # Free \/ pdf'.status = "pending" => Attended'
    PROVE  PInv'
  BY DEF PInv, HolderWritesPending

\* Each step preserves the invariant.
LEMMA NextPInv == PInv /\ [NextPdfExports]_pvars => PInv'
  <1> SUFFICES ASSUME PInv, [NextPdfExports]_pvars PROVE PInv'
    OBVIOUS
  <1>0. PdfExportsTypeOK /\ HolderWritesPending /\ (writer # Free \/ pdf.status = "pending" => Attended)
    BY DEF PInv
  <1>1. CASE EditLines
    <2>1. PdfExportsTypeOK'
      BY <1>0, <1>1, ExportAssumption DEF EditLines, PdfExportsTypeOK
    <2>2. pdf'.status = pdf.status
      BY <1>0, <1>1 DEF EditLines, PdfExportsTypeOK
    <2> QED
      BY <1>0, <1>1, <2>1, <2>2, WorkerStep DEF EditLines, Attended, Busy
  <1>2. ASSUME NEW e \in Exports, LoadEstimate(e) PROVE PInv'
    <2>1. PdfExportsTypeOK'
      BY <1>0, <1>2 DEF LoadEstimate, PdfExportsTypeOK
    <2>2. HolderWritesPending'
      BY <1>0, <1>2 DEF LoadEstimate, PdfExportsTypeOK, HolderWritesPending
    <2> QED
      BY <1>0, <1>2, <2>1, <2>2 DEF LoadEstimate, PInv, Attended, Busy
  <1>3. ASSUME NEW e \in Exports, ExportEstimatePdf(e) PROVE PInv'
    <2>1. [export |-> e, tries |-> 0] \in Jobs
      BY ExportAssumption DEF Jobs
    <2>2. PdfExportsTypeOK'
      BY <1>0, <1>3, <2>1 DEF ExportEstimatePdf, PdfExportsTypeOK
    <2>3. HolderWritesPending'
      BY <1>0, <1>3, ExportAssumption DEF ExportEstimatePdf, PdfExportsTypeOK, HolderWritesPending, RowFree
    <2>4. Attended'
      BY <1>3 DEF ExportEstimatePdf, Attended
    <2> QED
      BY <2>2, <2>3, <2>4 DEF PInv
  <1>4. ASSUME NEW e \in Exports, CommitExport(e) PROVE PInv'
    <2>1. PdfExportsTypeOK'
      BY <1>0, <1>4 DEF CommitExport, PdfExportsTypeOK, Stored, PdfStatuses
    <2>2. HolderWritesPending'
      BY <1>0, <1>4, ExportAssumption DEF CommitExport, PdfExportsTypeOK, HolderWritesPending
    <2>3. pdf'.status = "pending" \/ writer' # Free => Attended
      BY <1>0, <1>4, ExportAssumption DEF CommitExport, PdfExportsTypeOK, HolderWritesPending, Stored
    <2> QED
      BY <1>4, <2>1, <2>2, <2>3 DEF CommitExport, PInv, Attended, Busy
  <1>5. ASSUME NEW e \in Exports, RollbackExport(e) PROVE PInv'
    <2>1. PdfExportsTypeOK'
      BY <1>0, <1>5 DEF RollbackExport, PdfExportsTypeOK
    <2>2. HolderWritesPending'
      BY <1>0, <1>5, ExportAssumption DEF RollbackExport, PdfExportsTypeOK, HolderWritesPending
    <2> QED
      BY <1>0, <1>5, <2>1, <2>2 DEF RollbackExport, PInv, Attended, Busy
  <1>6. ASSUME NEW w \in Workers, TakeJob(w) PROVE PInv'
    <2>1. PICK j \in queue :
              /\ queue' = queue \ {j}
              /\ work' = [work EXCEPT ![w] = [at |-> "loaded", job |-> j, seen |-> pdf.status,
                                              revision |-> pdf.revision]]
      BY <1>6 DEF TakeJob
    <2>2. [at |-> "loaded", job |-> j, seen |-> pdf.status, revision |-> pdf.revision] \in Working
      BY <1>0, <2>1 DEF PdfExportsTypeOK, Working
    <2>3. PdfExportsTypeOK'
      BY <1>0, <1>6, <2>1, <2>2 DEF TakeJob, PdfExportsTypeOK
    <2>4. work'[w].at = "loaded"
      BY <1>0, <2>1 DEF PdfExportsTypeOK
    <2> QED
      BY <1>6, <2>3, <2>4, WorkerStep DEF TakeJob, Attended, Busy
  <1>7. ASSUME NEW w \in Workers, WritePdf(w) PROVE PInv'
    <2>1. work[w] \in Working
      BY <1>0, <1>7, BusyIsWorking DEF WritePdf, Busy
    <2>2. PdfExportsTypeOK' /\ work'[w].at = "written"
      BY <1>0, <1>7, <2>1, ExportAssumption DEF WritePdf, PdfExportsTypeOK, Working
    <2> QED
      BY <1>7, <2>2, WorkerStep DEF WritePdf, Attended, Busy
  <1>8. ASSUME NEW w \in Workers, GenerateFails(w) PROVE PInv'
    <2>1. work[w] \in Working
      BY <1>0, <1>8, BusyIsWorking DEF GenerateFails
    <2>2. PdfExportsTypeOK' /\ work'[w].at = "failed"
      BY <1>0, <1>8, <2>1 DEF GenerateFails, PdfExportsTypeOK, Working
    <2> QED
      BY <1>8, <2>2, WorkerStep DEF GenerateFails, Attended, Busy
  <1>9. ASSUME NEW w \in Workers, LoadForFailure(w) PROVE PInv'
    <2>1. work[w] \in Working
      BY <1>0, <1>9, BusyIsWorking DEF LoadForFailure, Busy
    <2>2. PdfExportsTypeOK' /\ work'[w].at = "marking"
      BY <1>0, <1>9, <2>1 DEF LoadForFailure, PdfExportsTypeOK, Working
    <2> QED
      BY <1>9, <2>2, WorkerStep DEF LoadForFailure, Attended, Busy
  \* A commit that leaves 'pending' in place is a lost answer.
  <1>10. ASSUME NEW w \in Workers, CommitPdf(w) PROVE PInv'
    <2>1. work[w] \in Working
      BY <1>0, <1>10, BusyIsWorking DEF CommitPdf, Busy
    <2>2. PdfExportsTypeOK'
      BY <1>0, <1>10, <2>1 DEF CommitPdf, Answer, PdfExportsTypeOK, Working, Stored, PdfStatuses
    <2>3. writer' = Free /\ (pdf'.status = "pending" => overtaken')
      BY <1>0, <1>10 DEF CommitPdf, Answer, PdfExportsTypeOK
    <2> QED
      BY <1>10, <2>2, <2>3, WorkerStep DEF CommitPdf, Attended
  \* So is a failure that the row read as recorded, whoever holds it or whatever it says by now.
  <1>11. ASSUME NEW w \in Workers, MarkPdfFailed(w) PROVE PInv'
    <2>1. work[w] \in Working
      BY <1>0, <1>11, BusyIsWorking DEF MarkPdfFailed, Busy
    <2>2. work[w].job \in Jobs /\ work[w].seen \in PdfStatuses
      BY <2>1 DEF Working
    <2>3. PdfExportsTypeOK'
      BY <1>0, <1>11, <2>2, RequeuedIsJobs
         DEF MarkPdfFailed, PdfExportsTypeOK, Stored, FailedStatus, PdfStatuses
    <2>4. writer' # Free \/ pdf'.status = "pending" => overtaken'
      BY <1>0, <1>11 DEF MarkPdfFailed, PdfExportsTypeOK, Stored, FailedStatus
    <2> QED
      BY <1>11, <2>3, <2>4, WorkerStep DEF MarkPdfFailed, Attended
  <1>12. ASSUME NEW w \in Workers, MarkFails(w) PROVE PInv'
    <2>1. work[w] \in Working
      BY <1>0, <1>12, BusyIsWorking DEF MarkFails, Busy
    <2>2. work[w].job \in Jobs
      BY <2>1 DEF Working
    <2>3. PdfExportsTypeOK'
      BY <1>0, <1>12, <2>2, RequeuedIsJobs DEF MarkFails, PdfExportsTypeOK
    <2> QED
      BY <1>12, <2>3, WorkerStep DEF MarkFails, Attended
  <1>13. ASSUME NEW w \in Workers, WorkerCrashes(w) PROVE PInv'
    <2>1. work[w] \in Working
      BY <1>0, <1>13, BusyIsWorking DEF WorkerCrashes, Busy
    <2>2. PdfExportsTypeOK'
      BY <1>0, <1>13, <2>1 DEF WorkerCrashes, PdfExportsTypeOK, Working
    <2> QED
      BY <1>13, <2>2, WorkerStep DEF WorkerCrashes, Attended
  <1>14. CASE UNCHANGED pvars
    BY <1>14 DEF pvars, PInv, PdfExportsTypeOK, HolderWritesPending, Attended, Busy
  <1> QED
    BY <1>1, <1>2, <1>3, <1>4, <1>5, <1>6, <1>7, <1>8, <1>9, <1>10, <1>11, <1>12, <1>13, <1>14
       DEF NextPdfExports

\* However exports, workers, retries and crashes interleave, an estimate that reads 'pending' has a
\* job waiting or running, or the answer of a worker was lost.
THEOREM PendingHasReason == PdfExportsSpec => []PendingIsTemporary
  <1>1. PInv => PendingIsTemporary
    BY DEF PInv, Attended, PendingIsTemporary
  <1> QED
    BY <1>1, InitPInv, NextPInv, PTL DEF PdfExportsSpec

-----------------------------------------------------------------------------
(***************************************************************************)
(* Compliance: every threshold of a document is mailed once.               *)
(***************************************************************************)

\* A committed scan owns the pairs it has still to mail: they stand in the table, no mail of them
\* has gone out, and no other committed scan is about to send one.
OwnsItsMails ==
    \A s \in Scans : scan[s].at = "committed" =>
        /\ \A x \in scan[s].due : x \in notified /\ mails[x] = 0
        /\ \A r \in Scans \ {s} : scan[r].at = "committed" => scan[r].due \cap scan[s].due = {}

\* What every step of the scans, uploads and assignments preserves.
CInv == ComplianceTypeOK /\ OwnsItsMails /\ WarnedOnce

\* What is due is a pair of a document and a threshold.
LEMMA DueIsPairs == Due \subseteq Pairs
  BY DEF Due, Pairs, OnFile

LEMMA InitCInv == InitCompliance => CInv
  BY ClockAssumption DEF InitCompliance, CInv, ComplianceTypeOK, OwnsItsMails, WarnedOnce, NoScan, Pairs

\* Uploads, assignments, the clock and the tier leave notifications, mails and scans alone.
LEMMA OtherStepsKeepCInv ==
    ASSUME CInv, UNCHANGED <<notified, mails, scan>>, ComplianceTypeOK'
    PROVE  CInv'
  BY DEF CInv, OwnsItsMails, WarnedOnce

\* Each step of the component preserves the invariant.
LEMMA NextCInv == CInv /\ [NextCompliance]_cvars => CInv'
  <1> SUFFICES ASSUME CInv, [NextCompliance]_cvars PROVE CInv'
    OBVIOUS
  <1> USE DEF CInv
  <1>1. CASE DayPasses
    BY <1>1, OtherStepsKeepCInv, ClockAssumption DEF DayPasses, ComplianceTypeOK
  <1>2. CASE ChangeTier
    BY <1>2, OtherStepsKeepCInv DEF ChangeTier, ComplianceTypeOK
  <1>3. ASSUME NEW p \in Papers, NEW date \in 0 .. LastDay, UploadComplianceDocument(p, date)
        PROVE  CInv'
    BY <1>3, OtherStepsKeepCInv DEF UploadComplianceDocument, ComplianceTypeOK
  <1>4. ASSUME NEW a \in Assignments, CheckAssignment(a) PROVE CInv'
    <2>1. asg' \in [Assignments -> [at : {"new", "checked", "done", "refused"}, overridden : BOOLEAN]]
      <3>1. CASE asg' = [asg EXCEPT ![a] = [at |-> "checked", overridden |-> FALSE]]
        BY <3>1 DEF ComplianceTypeOK
      <3>2. CASE asg' = [asg EXCEPT ![a] = [at |-> "checked", overridden |-> TRUE]]
        BY <3>2 DEF ComplianceTypeOK
      <3>3. CASE asg' = [asg EXCEPT ![a].at = "refused"]
        BY <3>3 DEF ComplianceTypeOK
      <3> QED
        BY <1>4, <3>1, <3>2, <3>3 DEF CheckAssignment
    <2> QED
      BY <1>4, <2>1, OtherStepsKeepCInv DEF CheckAssignment, ComplianceTypeOK
  <1>5. ASSUME NEW a \in Assignments, CommitAssignment(a) PROVE CInv'
    BY <1>5, OtherStepsKeepCInv DEF CommitAssignment, ComplianceTypeOK
  <1>6. ASSUME NEW s \in Scans, ReadDocuments(s) PROVE CInv'
    BY <1>6, DueIsPairs DEF ReadDocuments, ComplianceTypeOK, OwnsItsMails, WarnedOnce
  <1>7. ASSUME NEW s \in Scans, ReadFired(s) PROVE CInv'
    <2>1. ComplianceTypeOK'
      BY <1>7 DEF ReadFired, ComplianceTypeOK
    <2>2. OwnsItsMails' /\ WarnedOnce'
      BY <1>7 DEF ReadFired, ComplianceTypeOK, OwnsItsMails, WarnedOnce
    <2> QED
      BY <2>1, <2>2
  <1>8. ASSUME NEW s \in Scans, CommitScan(s) PROVE CInv'
    <2> DEFINE new == IF allowed THEN scan[s].due ELSE {}
    <2>1. /\ new \subseteq Pairs /\ new \cap notified = {}
          /\ notified' = notified \cup new
          /\ mails' = mails
          /\ scan' = [scan EXCEPT ![s] = [at |-> "committed", due |-> new]]
      BY <1>8 DEF CommitScan, Insertable, ComplianceTypeOK
    <2>2. \A x \in new : mails[x] = 0
      BY <2>1 DEF ComplianceTypeOK, WarnedOnce
    <2> HIDE DEF new
    <2>3. ComplianceTypeOK'
      BY <1>8, <2>1 DEF CommitScan, ComplianceTypeOK
    <2>4. \A x \in Pairs : mails'[x] <= (IF x \in notified' THEN 1 ELSE 0)
      BY <2>1 DEF ComplianceTypeOK, WarnedOnce
    <2>5. OwnsItsMails'
      BY <2>1, <2>2 DEF ComplianceTypeOK, OwnsItsMails
    <2> QED
      BY <2>3, <2>4, <2>5 DEF WarnedOnce, Pairs
  <1>9. ASSUME NEW s \in Scans, RollbackScan(s) PROVE CInv'
    BY <1>9 DEF RollbackScan, ComplianceTypeOK, OwnsItsMails, WarnedOnce, NoScan
  <1>10. ASSUME NEW s \in Scans, EnqueueMail(s) PROVE CInv'
    <2>1. PICK x \in scan[s].due :
              /\ mails' = [mails EXCEPT ![x] = @ + 1]
              /\ scan' = [scan EXCEPT ![s].due = @ \ {x}]
      BY <1>10 DEF EnqueueMail
    <2>2. x \in Pairs /\ x \in notified /\ mails[x] = 0
      BY <1>10 DEF EnqueueMail, ComplianceTypeOK, OwnsItsMails
    <2>3. ComplianceTypeOK'
      BY <1>10, <2>1, <2>2 DEF EnqueueMail, ComplianceTypeOK
    <2>4. WarnedOnce'
      BY <1>10, <2>1, <2>2 DEF EnqueueMail, ComplianceTypeOK, WarnedOnce, Pairs
    <2>5. OwnsItsMails'
      BY <1>10, <2>1, <2>2 DEF EnqueueMail, ComplianceTypeOK, OwnsItsMails
    <2> QED
      BY <2>3, <2>4, <2>5
  <1>11. ASSUME NEW s \in Scans, EndScan(s) PROVE CInv'
    BY <1>11 DEF EndScan, ComplianceTypeOK, OwnsItsMails, WarnedOnce, NoScan
  <1>12. CASE UNCHANGED cvars
    BY <1>12 DEF cvars, ComplianceTypeOK, OwnsItsMails, WarnedOnce, Pairs
  <1> QED
    BY <1>1, <1>2, <1>3, <1>4, <1>5, <1>6, <1>7, <1>8, <1>9, <1>10, <1>11, <1>12
       DEF NextCompliance

\* However scans overlap, fail, are repeated or die, no threshold is mailed twice, and none whose
\* notification was rolled back.
THEOREM MailedOnce == ComplianceSpec => []WarnedOnce
  <1>1. CInv => WarnedOnce
    BY DEF CInv
  <1> QED
    BY <1>1, InitCInv, NextCInv, PTL DEF ComplianceSpec

-----------------------------------------------------------------------------
(***************************************************************************)
(* Passwords, reset links and one-time codes.                              *)
(***************************************************************************)

\* What a request that is under way holds.
Asks ==
    {NoAsk} \cup
    [kind  : {"login", "change", "issue", "confirm", "enroll", "activate", "disable"},
     seen  : [password : Nat, secret : Nat, last : Nat],
     links : SUBSET Links,
     code  : Nat]

AccountTyped ==
    /\ user \in [password : Nat, secret : Nat, active : BOOLEAN, last : Nat]
    /\ links \in [Links -> {"none", "live", "dead"}]
    /\ issued \in [password : Nat, secret : Nat]
    /\ ask \in [Callers -> Asks]
    /\ step \in Nat /\ proven \in Nat
    /\ DOMAIN spent = {"once", "twice"}
    /\ hold.by \subseteq Callers
    /\ hold = [by |-> hold.by, ends |-> hold.ends]
    /\ user.secret <= issued.secret

\* A session of another password was opened late, and a revocation under way has marked every other
\* session.
SessionsInOrder ==
    /\ sessions \subseteq {user.password} \cup late
    /\ hold.by # {} => sessions \subseteq hold.ends \cup late

\* A request for a link that meets no other marks every live link.
IssuesInOrder ==
    "issue" \in crossed \/
        /\ \A l, m \in Links : links[l] = "live" /\ links[m] = "live" => l = m
        /\ \A c \in Callers : ask[c].kind = "issue" => \A l \in Links : links[l] = "live" => l \in ask[c].links

\* A link that was spent is dead, and a confirmation under way brings it again only where the link
\* was shared.
LinksInOrder ==
    /\ \A l \in Links : <<"link", l>> \in spent.once => links[l] = "dead"
    /\ \A c \in Callers : \A l \in Spends(c) : links[l] # "none"
    /\ \A l \in Links : l \notin shared =>
        /\ <<"link", l>> \notin spent.twice
        /\ \A c \in Callers : l \in Spends(c) => <<"link", l>> \notin spent.once

\* The last used step bounds the codes that the secret was used with, and nothing is used with no
\* secret at all.
CodesInOrder ==
    /\ \A s, k \in Nat : <<"code", s, k>> \in spent.once => s <= issued.secret
    /\ \A c \in Callers : ask[c] # NoAsk => ask[c].seen.secret <= issued.secret
    /\ \A c \in Callers : ask[c] # NoAsk /\ ask[c].code # 0 => ask[c].kind \in Coded
    /\ "code" \in crossed \/
        /\ \A s, k \in Nat : <<"code", s, k>> \in spent.once => s # 0 /\ (s = user.secret => k <= user.last)
        /\ \A s, k \in Nat : <<"code", s, k>> \notin spent.twice
        /\ \A c \in Callers : ask[c] # NoAsk /\ ask[c].code # 0 =>
               /\ ask[c].seen.secret # 0
               /\ \A k \in Nat : <<"code", ask[c].seen.secret, k>> \in spent.once => k < ask[c].code
               /\ ask[c].seen.secret # user.secret =>
                      \A k \in Nat : <<"code", user.secret, k>> \notin spent.once
        /\ \A c \in Callers : ask[c].kind = "activate" => user.secret # 0
        /\ user.active => user.secret # 0

\* A change of the factor that meets no other finds it as it was read.
FactorInOrder ==
    "factor" \in crossed \/
        /\ user.active => user.secret = proven /\ proven > 0
        /\ \A c \in Callers :
               /\ ask[c].kind = "activate" => ask[c].seen.secret = user.secret /\ user.secret > 0
               /\ ask[c].kind = "enroll" => ~user.active

\* Links and codes are all that is ever accepted.
SpentKinds ==
    \A x \in spent.once \cup spent.twice :
        (\E l \in Links : x = <<"link", l>>) \/ (\E s, k \in Nat : x = <<"code", s, k>>)

\* What every request preserves.
RInv ==
    /\ AccountTyped /\ SessionsInOrder /\ IssuesInOrder /\ LinksInOrder /\ CodesInOrder
    /\ FactorInOrder /\ SpentKinds

LEMMA InitRInv == InitCredentials => RInv
  BY DEF InitCredentials, RInv, AccountTyped, SessionsInOrder, IssuesInOrder, LinksInOrder, CodesInOrder,
         FactorInOrder, SpentKinds, Asks, NoAsk, NoHold, Spends

\* What a commit does to the requests and to the histories.
LEMMA WhatCommits ==
    ASSUME RInv, NEW c \in Callers, NEW kinds, Commit(c, kinds), "none" \notin kinds
    PROVE  /\ ask[c] \in Asks /\ ask[c] # NoAsk /\ ask[c].kind \in kinds
           /\ ask' \in [Callers -> Asks] /\ ask'[c] = NoAsk
           /\ \A d \in Callers : ask'[d] # NoAsk => d # c /\ ask'[d] = ask[d]
           /\ step' = step /\ DOMAIN spent' = {"once", "twice"}
           /\ spent'.once = spent.once \cup Accepted(c)
           /\ spent'.twice = spent.twice \cup (spent.once \cap Accepted(c))
           /\ crossed \subseteq crossed'
           /\ "issue" \notin crossed' => ask[c].kind # "issue" \/ \A d \in Callers : ask'[d].kind # "issue"
           /\ shared \subseteq shared'
           /\ \A l \in Spends(c), d \in Callers : l \in Spends(d)' => l \in shared'
           /\ \A d \in Callers : Spends(d)' = IF d = c THEN {} ELSE Spends(d)
           /\ "code" \notin crossed' => ask[c].kind \notin Coded \/ \A d \in Callers : ask'[d].kind \notin Coded
           /\ "factor" \notin crossed' => ask[c].kind \notin Factors \/ \A d \in Callers : ask'[d].kind \notin Factors
  <1>1. ask \in [Callers -> Asks] /\ NoAsk \in Asks
    BY DEF RInv, AccountTyped, Asks
  <1>2. /\ ask' = [ask EXCEPT ![c] = NoAsk] /\ ask[c].kind \in kinds /\ crossed' = crossed \cup Overlaps(c)
        /\ shared' = shared \cup Shares(c)
    BY DEF Commit
  <1>3. /\ ask' \in [Callers -> Asks] /\ ask'[c] = NoAsk
        /\ \A d \in Callers \ {c} : ask'[d] = ask[d]
    BY <1>1, <1>2
  <1>4. ask[c] # NoAsk
    BY <1>2 DEF NoAsk
  <1>5. ASSUME NEW mine, NEW theirs, NEW x \in Races, x \notin crossed', "none" \notin theirs,
               ask[c].kind \in mine /\ (\E d \in Callers \ {c} : ask[d].kind \in theirs) => x \in Overlaps(c)
        PROVE  ask[c].kind \notin mine \/ \A d \in Callers : ask'[d].kind \notin theirs
    BY <1>2, <1>3, <1>5 DEF NoAsk
  <1>6. \A d \in Callers : Spends(d)' = IF d = c THEN {} ELSE Spends(d)
    BY <1>3 DEF Spends, NoAsk
  <1>7. "issue" \notin crossed' => ask[c].kind # "issue" \/ \A d \in Callers : ask'[d].kind # "issue"
    <2> HAVE "issue" \notin crossed'
    <2>1. ask[c].kind \notin {"issue"} \/ \A d \in Callers : ask'[d].kind \notin {"issue"}
      BY <1>5 DEF Overlaps, Races
    <2> QED
      BY <2>1
  <1>8. /\ shared \subseteq shared'
        /\ \A l \in Spends(c), d \in Callers : l \in Spends(d)' => l \in shared'
    BY <1>2, <1>6 DEF Shares
  <1>9. "code" \notin crossed' => ask[c].kind \notin Coded \/ \A d \in Callers : ask'[d].kind \notin Coded
    <2> HAVE "code" \notin crossed'
    <2>1. "none" \notin Coded
      BY DEF Coded
    <2> QED
      BY <2>1, <1>5 DEF Overlaps, Races
  <1>10. "factor" \notin crossed' => ask[c].kind \notin Factors \/ \A d \in Callers : ask'[d].kind \notin Factors
    <2> HAVE "factor" \notin crossed'
    <2>1. "none" \notin Factors
      BY DEF Factors
    <2> QED
      BY <2>1, <1>5 DEF Overlaps, Races
  <1>11. /\ step' = step /\ DOMAIN spent' = {"once", "twice"}
         /\ spent'.once = spent.once \cup Accepted(c)
         /\ spent'.twice = spent.twice \cup (spent.once \cap Accepted(c))
    BY DEF Commit
  <1> QED
    BY <1>1, <1>2, <1>3, <1>4, <1>6, <1>7, <1>8, <1>9, <1>10, <1>11

\* A commit accepts nothing but the link and the code its request brought.
LEMMA WhatIsAccepted ==
    ASSUME NEW c \in Callers
    PROVE  /\ \A l : <<"link", l>> \in Accepted(c) => l \in Spends(c)
           /\ \A s, k : <<"code", s, k>> \in Accepted(c) =>
                  ask[c].code # 0 /\ s = ask[c].seen.secret /\ k = ask[c].code
           /\ \A x \in Accepted(c) :
                  \/ \E l \in Spends(c) : x = <<"link", l>>
                  \/ x = <<"code", ask[c].seen.secret, ask[c].code>>
  <1>1. \A l, s, k : <<"link", l>> # <<"code", s, k>>
    OBVIOUS
  <1> QED
    BY <1>1 DEF Accepted

\* A request that arrives has read what is there, and brings a code the secret was not used with.
LEMMA ArrivalKeeps ==
    ASSUME RInv, NEW c \in Callers,
           NEW kind \in {"login", "change", "issue", "confirm", "enroll", "activate", "disable"},
           NEW marks \in SUBSET Links, NEW codes, Arrive(c, kind, marks, codes),
           kind = "issue" => \A l \in Links : links[l] = "live" => l \in marks,
           kind = "confirm" => \A l \in marks : links[l] = "live",
           \/ codes = {0}
           \/ /\ kind \in Coded /\ (user.active \/ kind = "activate")
              /\ \A s \in codes : s \in Nat /\ s > user.last,
           kind = "activate" => user.secret > 0,
           kind = "enroll" => ~user.active
    PROVE  RInv'
  <1>1. /\ AccountTyped /\ SessionsInOrder /\ IssuesInOrder /\ LinksInOrder /\ CodesInOrder
        /\ FactorInOrder /\ SpentKinds
    BY DEF RInv
  <1>2. PICK s \in codes :
            ask' = [ask EXCEPT ![c] = [kind |-> kind, seen |-> Read(kind), links |-> marks, code |-> s]]
    BY DEF Arrive
  <1>3. UNCHANGED <<user, links, sessions, step, issued, hold, proven, spent, late, shared, crossed>>
    BY DEF Arrive
  <1>4. /\ user.password \in Nat /\ user.secret \in Nat /\ user.last \in Nat /\ user.active \in BOOLEAN
        /\ issued.secret \in Nat /\ user.secret <= issued.secret
    BY <1>1 DEF AccountTyped
  <1>5. s \in Nat
    BY <1>2
  <1>6. /\ Read(kind) \in [password : Nat, secret : Nat, last : Nat]
        /\ Read(kind).secret <= issued.secret
        /\ kind = "login" => Read(kind).password = user.password
        /\ kind \in Coded => Read(kind).secret = user.secret
    BY <1>4 DEF Read
  <1> DEFINE new == [kind |-> kind, seen |-> Read(kind), links |-> marks, code |-> s]
  <1>7. new \in Asks
    BY <1>5, <1>6 DEF Asks
  <1>8. /\ ask' \in [Callers -> Asks] /\ ask'[c] = new
        /\ \A d \in Callers : d # c => ask'[d] = ask[d]
    BY <1>1, <1>2, <1>7 DEF AccountTyped
  <1>9. /\ new.kind = kind /\ new.seen = Read(kind) /\ new.links = marks /\ new.code = s
    OBVIOUS
  <1> HIDE DEF new
  <1>10. AccountTyped'
    BY <1>1, <1>3, <1>8 DEF AccountTyped
  <1>11. SessionsInOrder' /\ IssuesInOrder' /\ FactorInOrder' /\ SpentKinds'
    BY <1>1, <1>3, <1>4, <1>6, <1>8, <1>9 DEF SessionsInOrder, IssuesInOrder, FactorInOrder, SpentKinds, Coded
  <1>12. LinksInOrder'
    <2>1. \A d \in Callers : Spends(d)' = IF d # c THEN Spends(d)
                                            ELSE IF kind = "confirm" THEN marks ELSE {}
      BY <1>8, <1>9 DEF Spends
    <2>2. kind = "confirm" => \A l \in marks : links[l] # "none" /\ <<"link", l>> \notin spent.once
      BY <1>1 DEF LinksInOrder
    <2> QED
      BY <1>1, <1>3, <2>1, <2>2 DEF LinksInOrder
  <1>13. CodesInOrder'
    <2>1. s # 0 => kind \in Coded /\ s > user.last /\ (user.active \/ kind = "activate")
      BY <1>2, <1>4 DEF Coded
    <2>2. ASSUME "code" \notin crossed, s # 0
          PROVE  /\ Read(kind).secret = user.secret /\ user.secret # 0
                 /\ \A k \in Nat : <<"code", user.secret, k>> \in spent.once => k < s
      BY <1>1, <1>4, <1>5, <1>6, <2>1, <2>2 DEF CodesInOrder
    <2>3. kind = "activate" => user.secret # 0
      BY <1>4
    <2> QED
      BY <1>1, <1>3, <1>6, <1>8, <1>9, <2>1, <2>2, <2>3 DEF CodesInOrder
  <1> QED
    BY <1>10, <1>11, <1>12, <1>13 DEF RInv

\* Links that are spent stay spent, when the commit marks its own.
LEMMA CommitKeepsLinks ==
    ASSUME RInv, NEW c \in Callers, NEW kinds, Commit(c, kinds), "none" \notin kinds,
           \A l \in Links : /\ links[l] = "dead" => links'[l] = "dead"
                            /\ links[l] # "none" => links'[l] # "none",
           \A l \in Spends(c) : links'[l] = "dead"
    PROVE  LinksInOrder' /\ SpentKinds'
  <1>1. /\ ask[c] \in Asks /\ ask[c] # NoAsk
        /\ \A d \in Callers : ask'[d] # NoAsk => d # c /\ ask'[d] = ask[d]
        /\ spent'.once = spent.once \cup Accepted(c)
        /\ spent'.twice = spent.twice \cup (spent.once \cap Accepted(c))
        /\ crossed \subseteq crossed'
        /\ shared \subseteq shared'
        /\ \A l \in Spends(c), d \in Callers : l \in Spends(d)' => l \in shared'
        /\ \A d \in Callers : Spends(d)' = IF d = c THEN {} ELSE Spends(d)
        /\ ask' \in [Callers -> Asks]
    BY WhatCommits
  <1>2. LinksInOrder /\ SpentKinds
    BY DEF RInv
  <1>3. /\ ask[c].seen.secret \in Nat /\ ask[c].code \in Nat
        /\ \A d \in Callers : Spends(d) \subseteq Links
    <2>1. \A d \in Callers : ask[d] \in Asks
      BY DEF RInv, AccountTyped
    <2> QED
      BY <1>1, <2>1 DEF Asks, NoAsk, Spends
  <1>4. SpentKinds'
    <2>1. \A x \in Accepted(c) : (\E l \in Links : x = <<"link", l>>) \/ (\E s, k \in Nat : x = <<"code", s, k>>)
      BY <1>3, WhatIsAccepted
    <2> QED
      BY <1>1, <1>2, <2>1 DEF SpentKinds
  <1>5. \A l \in Links : <<"link", l>> \in spent'.once => links'[l] = "dead"
    BY <1>1, <1>2, WhatIsAccepted DEF LinksInOrder
  <1>6. \A d \in Callers : \A l \in Spends(d)' : links'[l] # "none"
    BY <1>1, <1>2, <1>3 DEF LinksInOrder
  <1>7. ASSUME NEW l \in Links, l \notin shared'
        PROVE  /\ <<"link", l>> \notin spent'.twice
               /\ \A d \in Callers : l \in Spends(d)' => <<"link", l>> \notin spent'.once
    <2>1. l \notin shared
      BY <1>1, <1>7
    <2>2. /\ <<"link", l>> \notin spent.twice
          /\ \A d \in Callers : l \in Spends(d) => <<"link", l>> \notin spent.once
      BY <1>2, <2>1 DEF LinksInOrder
    <2>3. <<"link", l>> \in Accepted(c) => l \in Spends(c)
      BY WhatIsAccepted
    <2> QED
      BY <1>1, <1>7, <2>2, <2>3
  <1> QED
    BY <1>4, <1>5, <1>6, <1>7 DEF LinksInOrder

\* Whether a commit records the code it accepted, replaces the secret or takes it away, no code of
\* the secret there is now lies beyond the last used step.
LEMMA CommitKeepsCodes ==
    ASSUME RInv, NEW c \in Callers, NEW kinds, Commit(c, kinds), "none" \notin kinds,
           issued'.secret \in Nat, issued'.secret >= issued.secret,
           \/ /\ user'.secret = user.secret /\ user'.last = Last(c)
              /\ user'.active => user.active \/ ask[c].kind = "activate"
           \/ /\ ask[c].kind = "enroll" /\ user'.secret = issued.secret + 1
           \/ /\ ask[c].kind = "disable" /\ user'.secret = 0 /\ ~user'.active
    PROVE  CodesInOrder'
  <1>1. /\ ask[c] \in Asks /\ ask[c] # NoAsk
        /\ \A d \in Callers : ask'[d] # NoAsk => d # c /\ ask'[d] = ask[d]
        /\ spent'.once = spent.once \cup Accepted(c)
        /\ spent'.twice = spent.twice \cup (spent.once \cap Accepted(c))
        /\ crossed \subseteq crossed'
        /\ "code" \notin crossed' => ask[c].kind \notin Coded \/ \A d \in Callers : ask'[d].kind \notin Coded
        /\ ask' \in [Callers -> Asks]
    BY WhatCommits
  <1>2. CodesInOrder /\ AccountTyped
    BY DEF RInv
  <1>3. /\ ask[c].seen.secret \in Nat /\ ask[c].code \in Nat
        /\ user.secret \in Nat /\ user.last \in Nat /\ issued.secret \in Nat /\ user.secret <= issued.secret
        /\ ask[c].seen.secret <= issued.secret
        /\ \A d \in Callers : ask'[d] # NoAsk => ask'[d].seen.secret \in Nat /\ ask'[d].code \in Nat
        /\ \A d \in Callers : ask'[d].kind = "activate" => ask'[d] # NoAsk
    BY <1>1, <1>2 DEF Asks, NoAsk, AccountTyped, CodesInOrder
  <1>4. \A s, k \in Nat : <<"code", s, k>> \in Accepted(c) =>
            ask[c].code # 0 /\ s = ask[c].seen.secret /\ k = ask[c].code
    BY WhatIsAccepted
  <1>5. \A s, k \in Nat : <<"code", s, k>> \in spent'.once => s <= issued'.secret
    BY <1>1, <1>2, <1>3, <1>4 DEF CodesInOrder
  <1>6. /\ \A d \in Callers : ask'[d] # NoAsk => ask'[d].seen.secret <= issued'.secret
        /\ \A d \in Callers : ask'[d] # NoAsk /\ ask'[d].code # 0 => ask'[d].kind \in Coded
    BY <1>1, <1>2, <1>3 DEF CodesInOrder
  <1>7. ASSUME "code" \notin crossed'
        PROVE  /\ \A s, k \in Nat : <<"code", s, k>> \in spent'.once => s # 0 /\ (s = user'.secret => k <= user'.last)
               /\ \A s, k \in Nat : <<"code", s, k>> \notin spent'.twice
               /\ \A d \in Callers : ask'[d] # NoAsk /\ ask'[d].code # 0 =>
                      /\ ask'[d].seen.secret # 0
                      /\ \A k \in Nat : <<"code", ask'[d].seen.secret, k>> \in spent'.once => k < ask'[d].code
                      /\ ask'[d].seen.secret # user'.secret =>
                             \A k \in Nat : <<"code", user'.secret, k>> \notin spent'.once
               /\ \A d \in Callers : ask'[d].kind = "activate" => user'.secret # 0
               /\ user'.active => user'.secret # 0
    <2>1. "code" \notin crossed
      BY <1>1, <1>7
    <2>2. /\ \A s, k \in Nat : <<"code", s, k>> \in spent.once =>
                 s <= issued.secret /\ s # 0 /\ (s = user.secret => k <= user.last)
          /\ \A s, k \in Nat : <<"code", s, k>> \notin spent.twice
          /\ \A d \in Callers : ask[d] # NoAsk /\ ask[d].code # 0 =>
                 /\ ask[d].kind \in Coded
                 /\ ask[d].seen.secret # 0
                 /\ \A k \in Nat : <<"code", ask[d].seen.secret, k>> \in spent.once => k < ask[d].code
                 /\ ask[d].seen.secret # user.secret =>
                        \A k \in Nat : <<"code", user.secret, k>> \notin spent.once
          /\ \A d \in Callers : ask[d].kind = "activate" => user.secret # 0
          /\ user.active => user.secret # 0
      BY <1>2, <2>1 DEF CodesInOrder
    <2>3. \A s, k \in Nat : <<"code", s, k>> \notin spent'.twice
      <3> SUFFICES ASSUME NEW s \in Nat, NEW k \in Nat,
                          <<"code", s, k>> \in spent.once, <<"code", s, k>> \in Accepted(c)
                   PROVE  FALSE
        BY <1>1, <2>2
      <3>1. ask[c].code # 0 /\ s = ask[c].seen.secret /\ k = ask[c].code
        BY <1>4
      <3>2. k < k
        BY <1>1, <2>2, <3>1
      <3> QED
        BY <3>2
    <2>4. \A s, k \in Nat : <<"code", s, k>> \in spent'.once => s # 0 /\ (s = user'.secret => k <= user'.last)
      <3>1. CASE user'.secret = user.secret /\ user'.last = Last(c)
        <4> TAKE s \in Nat, k \in Nat
        <4> HAVE <<"code", s, k>> \in spent'.once
        <4>1. s # 0
          BY <1>1, <1>4, <2>2
        <4>2. CASE ask[c].code = 0
          BY <1>1, <1>4, <2>2, <3>1, <4>1, <4>2 DEF Last
        <4>3. CASE ask[c].code # 0 /\ s = user.secret
          BY <1>1, <1>3, <1>4, <2>2, <3>1, <4>1, <4>3 DEF Last
        <4>4. CASE s # user.secret
          BY <3>1, <4>1, <4>4
        <4> QED
          BY <4>1, <4>2, <4>3, <4>4
      <3>2. CASE ask[c].kind = "enroll" /\ user'.secret = issued.secret + 1
        <4>1. ask[c].code = 0
          BY <1>1, <2>2, <3>2 DEF Coded
        <4>2. \A s, k \in Nat : <<"code", s, k>> \in spent'.once => s # 0 /\ s <= issued.secret
          BY <1>1, <1>4, <2>2, <4>1
        <4> QED
          BY <1>3, <3>2, <4>2
      <3>3. CASE user'.secret = 0
        BY <1>1, <1>4, <2>2, <3>3
      <3> QED
        BY <3>1, <3>2, <3>3
    <2>5. CASE ask[c].kind \in Coded
      <3>1. \A d \in Callers : ask'[d] # NoAsk => ask'[d].code = 0 /\ ask'[d].kind \notin Coded
        BY <1>1, <1>6, <1>7, <2>5
      <3>2. \A d \in Callers : ask'[d].kind # "activate"
        BY <1>3, <3>1 DEF Coded
      <3>3. user'.active => user'.secret # 0
        BY <1>1, <2>2, <2>5 DEF Coded
      <3> QED
        BY <2>3, <2>4, <3>1, <3>2, <3>3
    <2>6. CASE ask[c].kind \notin Coded
      <3>1. /\ \A s, k \in Nat : <<"code", s, k>> \in spent'.once => <<"code", s, k>> \in spent.once
            /\ user'.secret # 0 \/ user'.secret = user.secret
            /\ user'.secret = user.secret \/ user'.secret = issued.secret + 1
            /\ ask[c].kind # "activate" /\ ask[c].kind # "disable"
        BY <1>1, <1>3, <1>4, <2>2, <2>6 DEF Coded
      <3>2. user'.active => user'.secret # 0
        BY <1>3, <2>2, <3>1
      <3>3. \A d \in Callers : ask'[d].kind = "activate" => user'.secret # 0
        BY <1>1, <1>3, <2>2, <3>1
      <3>4. ASSUME NEW d \in Callers, ask'[d] # NoAsk, ask'[d].code # 0
            PROVE  /\ ask'[d].seen.secret # 0
                   /\ \A k \in Nat : <<"code", ask'[d].seen.secret, k>> \in spent'.once => k < ask'[d].code
                   /\ ask'[d].seen.secret # user'.secret =>
                          \A k \in Nat : <<"code", user'.secret, k>> \notin spent'.once
        <4>1. ask'[d] = ask[d]
          BY <1>1, <3>4
        <4>2. user'.secret = issued.secret + 1 => user'.secret \in Nat /\ ~(user'.secret <= issued.secret)
          BY <1>3
        <4> QED
          BY <1>3, <2>2, <3>1, <3>4, <4>1, <4>2
      <3> QED
        BY <2>3, <2>4, <3>2, <3>3, <3>4
    <2> QED
      BY <2>5, <2>6
  <1> QED
    BY <1>5, <1>6, <1>7 DEF CodesInOrder

\* Each step preserves the invariant.
LEMMA NextRInv == RInv /\ [NextCredentials]_rvars => RInv'
  <1> SUFFICES ASSUME RInv, [NextCredentials]_rvars PROVE RInv'
    OBVIOUS
  <1>0. /\ AccountTyped /\ SessionsInOrder /\ IssuesInOrder /\ LinksInOrder /\ CodesInOrder
        /\ FactorInOrder /\ SpentKinds
    BY DEF RInv
  <1>t. /\ user.password \in Nat /\ user.secret \in Nat /\ user.last \in Nat /\ user.active \in BOOLEAN
        /\ issued.secret \in Nat /\ issued.password \in Nat /\ user.secret <= issued.secret
        /\ \A c \in Callers : ask[c] \in Asks
    BY <1>0 DEF AccountTyped
  <1>c. /\ Codes(FALSE) = {0}
        /\ \A s \in Codes(TRUE) : s \in Nat /\ s > user.last
    BY DEF Codes, Fresh, Steps
  <1>d. Codes(user.active) = {0} \/ (user.active /\ \A s \in Codes(user.active) : s \in Nat /\ s > user.last)
    <2>1. CASE user.active
      <3>1. Codes(user.active) = Codes(TRUE)
        BY <2>1 DEF Codes
      <3> QED
        BY <1>c, <2>1, <3>1
    <2>2. CASE ~user.active
      <3>1. Codes(user.active) = Codes(FALSE)
        BY <2>2 DEF Codes
      <3> QED
        BY <1>c, <3>1
    <2> QED
      BY <2>1, <2>2
  <1>s. \A c \in Callers : ask[c].kind # "confirm" => Spends(c) = {}
    BY DEF Spends
  \* Requests arrive.
  <1>1. ASSUME NEW c \in Callers, NEW kind \in {"login", "change"}, Arrive(c, kind, {}, Codes(user.active)) PROVE RInv'
    <2> DEFINE codes == Codes(user.active)
    <2>1. codes = {0} \/ (kind \in Coded /\ user.active /\ \A s \in codes : s \in Nat /\ s > user.last)
      <3>1. kind \in Coded \/ kind = "change"
        BY DEF Coded
      <3>2. "change" \in Coded
        BY DEF Coded
      <3> QED
        BY <1>d, <3>1, <3>2
    <2>2. Arrive(c, kind, {}, codes)
      BY <1>1
    <2> HIDE DEF codes
    <2> QED
      BY <2>1, <2>2, ArrivalKeeps
  <1>2. ASSUME NEW c \in Callers, RequestReset(c) PROVE RInv'
    <2>1. PICK marks \in SUBSET Links : marks = Superseded
      BY DEF Superseded
    <2>2. \A l \in Links : links[l] = "live" => l \in marks
      BY <2>1 DEF Superseded
    <2>3. PICK codes : codes = {0} /\ Arrive(c, "issue", marks, codes)
      BY <1>2, <2>1 DEF RequestReset
    <2> QED
      BY <2>2, <2>3, ArrivalKeeps
  <1>3. ASSUME NEW c \in Callers, ConfirmReset(c) PROVE RInv'
    <2> DEFINE codes == Codes(user.active)
    <2>1. PICK marks \in SUBSET Links : Arrive(c, "confirm", marks, codes) /\ \A l \in marks : links[l] = "live"
      <3>1. PICK l \in Links : Redeemable(l) /\ Arrive(c, "confirm", {l}, codes)
        BY <1>3 DEF ConfirmReset
      <3> QED
        BY <3>1 DEF Redeemable
    <2>2. codes = {0} \/ ("confirm" \in Coded /\ user.active /\ \A s \in codes : s \in Nat /\ s > user.last)
      <3>1. "confirm" \in Coded
        BY DEF Coded
      <3> QED
        BY <1>d, <3>1
    <2> HIDE DEF codes
    <2> QED
      BY <2>1, <2>2, ArrivalKeeps
  <1>4. ASSUME NEW c \in Callers, MfaEnroll(c) PROVE RInv'
    <2>1. PICK codes : codes = {0} /\ Arrive(c, "enroll", {}, codes) /\ ~user.active
      BY <1>4 DEF MfaEnroll, Enrollable
    <2> QED
      BY <2>1, ArrivalKeeps
  <1>5. ASSUME NEW c \in Callers, MfaActivate(c) PROVE RInv'
    <2> DEFINE codes == Codes(TRUE)
    <2>1. Arrive(c, "activate", {}, codes) /\ user.secret > 0
      BY <1>5 DEF MfaActivate
    <2>2. "activate" \in Coded /\ \A s \in codes : s \in Nat /\ s > user.last
      BY <1>c DEF Coded
    <2> HIDE DEF codes
    <2> QED
      BY <2>1, <2>2, ArrivalKeeps
  <1>6. ASSUME NEW c \in Callers, MfaDisable(c) PROVE RInv'
    <2> DEFINE codes == Codes(TRUE)
    <2>1. Arrive(c, "disable", {}, codes) /\ user.active
      BY <1>6 DEF MfaDisable
    <2>2. "disable" \in Coded /\ \A s \in codes : s \in Nat /\ s > user.last
      BY <1>c DEF Coded
    <2> HIDE DEF codes
    <2> QED
      BY <2>1, <2>2, ArrivalKeeps
  \* Requests commit.
  <1>7. ASSUME NEW c \in Callers, CommitLogin(c) PROVE RInv'
    <2> DEFINE kinds == {"login"}
    <2>1. /\ Commit(c, kinds) /\ "none" \notin kinds /\ ask[c].kind = "login"
          /\ user' = [user EXCEPT !.last = Last(c)]
          /\ sessions' = sessions \cup {ask[c].seen.password}
          /\ hold' = [hold EXCEPT !.ends = @ \ {ask[c].seen.password}]
          /\ late' = late \cup IF hold.by = {} /\ ask[c].seen.password = user.password THEN {}
                               ELSE {ask[c].seen.password}
          /\ UNCHANGED <<links, issued, proven>>
      BY <1>7 DEF CommitLogin, Commit, Unheld
    <2> HIDE DEF kinds
    <2>2. /\ user'.password = user.password /\ user'.secret = user.secret /\ user'.active = user.active
          /\ user'.last = Last(c)
      BY <1>0, <2>1 DEF AccountTyped
    <2>3. LinksInOrder' /\ SpentKinds'
      BY <1>s, <2>1, CommitKeepsLinks
    <2>4. CodesInOrder'
      BY <1>t, <2>1, <2>2, CommitKeepsCodes
    <2>5. /\ ask' \in [Callers -> Asks] /\ ask'[c] = NoAsk
          /\ \A d \in Callers : ask'[d] # NoAsk => d # c /\ ask'[d] = ask[d]
          /\ step' = step /\ DOMAIN spent' = {"once", "twice"} /\ crossed \subseteq crossed'
          /\ ask[c] # NoAsk
      BY <2>1, WhatCommits
    <2>6. /\ \A d \in Callers : ask'[d].kind \in {"login", "issue", "activate", "enroll"} => ask'[d] = ask[d]
          /\ ask[c].code \in Nat
      BY <1>t, <2>5 DEF NoAsk, Asks
    <2>7. AccountTyped'
      BY <1>0, <1>t, <2>1, <2>5, <2>6 DEF AccountTyped, Last
    <2>8. IssuesInOrder' /\ FactorInOrder'
      BY <1>0, <2>1, <2>2, <2>5, <2>6 DEF IssuesInOrder, FactorInOrder
    <2>9. SessionsInOrder'
      <3>1. hold'.by = hold.by /\ hold'.ends = hold.ends \ {ask[c].seen.password}
        BY <1>0, <2>1 DEF AccountTyped
      <3> QED
        BY <1>0, <2>1, <2>2, <3>1 DEF SessionsInOrder
    <2> QED
      BY <2>3, <2>4, <2>7, <2>8, <2>9 DEF RInv
  <1>8. ASSUME NEW c \in Callers, CommitPassword(c) PROVE RInv'
    <2> DEFINE kinds == Changers
    <2>1. /\ Commit(c, kinds) /\ "none" \notin kinds /\ ask[c].kind \in Changers
          /\ issued' = [issued EXCEPT !.password = @ + 1]
          /\ user' = [user EXCEPT !.password = issued.password + 1, !.last = Last(c)]
          /\ links' = [l \in Links |-> IF l \in ask[c].links THEN "dead" ELSE links[l]]
          /\ hold.by = {c} /\ hold' = NoHold /\ proven' = proven
          /\ sessions' = sessions \ hold.ends /\ late' = late \ hold.ends
      BY <1>8 DEF CommitPassword, Commit, Changers, EndSessions
    <2> HIDE DEF kinds
    <2>2. /\ user'.secret = user.secret /\ user'.active = user.active /\ user'.last = Last(c)
          /\ issued'.secret = issued.secret
      BY <1>0, <1>t, <2>1 DEF AccountTyped
    <2>3. LinksInOrder' /\ SpentKinds'
      <3>1. ask[c].links \subseteq Links
        BY <1>t, <2>1 DEF Asks, NoAsk, Changers
      <3>2. /\ \A l \in Links : /\ links[l] = "dead" => links'[l] = "dead"
                                /\ links[l] # "none" => links'[l] # "none"
            /\ \A l \in Spends(c) : links'[l] = "dead"
        BY <2>1, <3>1 DEF Spends
      <3> QED
        BY <2>1, <3>2, CommitKeepsLinks
    <2>4. CodesInOrder'
      BY <1>t, <2>1, <2>2, CommitKeepsCodes
    <2>5. /\ ask' \in [Callers -> Asks] /\ ask'[c] = NoAsk
          /\ \A d \in Callers : ask'[d] # NoAsk => d # c /\ ask'[d] = ask[d]
          /\ step' = step /\ DOMAIN spent' = {"once", "twice"} /\ crossed \subseteq crossed'
          /\ "issue" \notin crossed' => ask[c].kind # "issue" \/ \A d \in Callers : ask'[d].kind # "issue"
          /\ "factor" \notin crossed' => ask[c].kind \notin Factors \/ \A d \in Callers : ask'[d].kind \notin Factors
          /\ ask[c] # NoAsk
      BY <2>1, WhatCommits
    <2>6. /\ \A d \in Callers : ask'[d].kind \in {"login", "issue", "activate", "enroll"} => ask'[d] = ask[d]
          /\ ask[c].code \in Nat /\ ask[c].seen.secret \in Nat
      BY <1>t, <2>5 DEF NoAsk, Asks
    <2>7. AccountTyped'
      <3>1. Last(c) \in Nat /\ WrittenLast(c, 0) \in Nat
        BY <1>t, <2>6 DEF Last, WrittenLast
      <3>2. user' \in [password : Nat, secret : Nat, active : BOOLEAN, last : Nat]
        <4>1. user \in [password : Nat, secret : Nat, active : BOOLEAN, last : Nat] /\ issued.password + 1 \in Nat
          BY <1>0, <1>t DEF AccountTyped
        <4> QED
          BY <2>1, <3>1, <4>1
      <3>3. /\ links' \in [Links -> {"none", "live", "dead"}] /\ proven' \in Nat
            /\ issued' \in [password : Nat, secret : Nat]
        BY <1>0, <2>1 DEF AccountTyped
      <3> QED
        BY <1>0, <1>t, <2>1, <2>2, <2>5, <3>2, <3>3 DEF AccountTyped, NoHold
    <2>8. SessionsInOrder' /\ IssuesInOrder' /\ FactorInOrder'
      BY <1>0, <1>t, <2>1, <2>2, <2>5, <2>6 DEF SessionsInOrder, IssuesInOrder, FactorInOrder, Changers, Factors, NoHold
    <2> QED
      BY <2>3, <2>4, <2>7, <2>8 DEF RInv
  <1>9. ASSUME NEW c \in Callers, CommitIssue(c) PROVE RInv'
    <2> DEFINE kinds == {"issue"}
    <2>1. /\ Commit(c, kinds) /\ "none" \notin kinds /\ ask[c].kind = "issue"
          /\ \E new \in Links :
                 /\ links[new] = "none"
                 /\ links' = [l \in Links |-> IF l = new THEN "live"
                                              ELSE IF l \in ask[c].links THEN "dead" ELSE links[l]]
          /\ UNCHANGED <<user, sessions, issued, hold, proven, late>>
      BY <1>9 DEF CommitIssue, Commit
    <2> HIDE DEF kinds
    <2>2. user'.secret = user.secret /\ user'.active = user.active /\ user'.last = user.last
      BY <1>0, <1>t, <2>1 DEF AccountTyped
    <2>3. LinksInOrder' /\ SpentKinds'
      BY <1>s, <2>1, CommitKeepsLinks
    <2>4. CodesInOrder'
      <3>1. Last(c) = user.last
        BY <1>0, <2>1 DEF CodesInOrder, Last, Coded, NoAsk
      <3> QED
        BY <1>t, <2>1, <2>2, <3>1, CommitKeepsCodes
    <2>5. /\ ask' \in [Callers -> Asks] /\ ask'[c] = NoAsk
          /\ \A d \in Callers : ask'[d] # NoAsk => d # c /\ ask'[d] = ask[d]
          /\ step' = step /\ DOMAIN spent' = {"once", "twice"} /\ crossed \subseteq crossed'
          /\ "issue" \notin crossed' => ask[c].kind # "issue" \/ \A d \in Callers : ask'[d].kind # "issue"
          /\ "factor" \notin crossed' => ask[c].kind \notin Factors \/ \A d \in Callers : ask'[d].kind \notin Factors
          /\ ask[c] # NoAsk
      BY <2>1, WhatCommits
    <2>6. /\ \A d \in Callers : ask'[d].kind \in {"login", "issue", "activate", "enroll"} => ask'[d] = ask[d]
          /\ ask[c].code \in Nat /\ ask[c].seen.secret \in Nat
      BY <1>t, <2>5 DEF NoAsk, Asks
    <2>7. AccountTyped'
      BY <1>0, <1>t, <2>1, <2>5, <2>6 DEF AccountTyped, Last, WrittenLast
    <2>8. SessionsInOrder' /\ IssuesInOrder' /\ FactorInOrder'
      BY <1>0, <1>t, <2>1, <2>2, <2>5, <2>6 DEF SessionsInOrder, IssuesInOrder, FactorInOrder, Changers, Factors, NoHold
    <2> QED
      BY <2>3, <2>4, <2>7, <2>8 DEF RInv
  <1>10. ASSUME NEW c \in Callers, CommitEnroll(c) PROVE RInv'
    <2> DEFINE kinds == {"enroll"}
    <2>1. /\ Commit(c, kinds) /\ "none" \notin kinds /\ ask[c].kind = "enroll"
          /\ issued' = [issued EXCEPT !.secret = @ + 1]
          /\ user' = [user EXCEPT !.secret = issued.secret + 1, !.last = WrittenLast(c, 0)]
          /\ UNCHANGED <<links, sessions, hold, proven, late>>
      BY <1>10 DEF CommitEnroll, Commit
    <2> HIDE DEF kinds
    <2>2. /\ user'.password = user.password /\ user'.secret = issued.secret + 1 /\ user'.active = user.active
          /\ issued'.secret = issued.secret + 1
      BY <1>0, <1>t, <2>1 DEF AccountTyped
    <2>3. LinksInOrder' /\ SpentKinds'
      BY <1>s, <2>1, CommitKeepsLinks
    <2>4. CodesInOrder'
      BY <1>t, <2>1, <2>2, CommitKeepsCodes
    <2>5. /\ ask' \in [Callers -> Asks] /\ ask'[c] = NoAsk
          /\ \A d \in Callers : ask'[d] # NoAsk => d # c /\ ask'[d] = ask[d]
          /\ step' = step /\ DOMAIN spent' = {"once", "twice"} /\ crossed \subseteq crossed'
          /\ "issue" \notin crossed' => ask[c].kind # "issue" \/ \A d \in Callers : ask'[d].kind # "issue"
          /\ "factor" \notin crossed' => ask[c].kind \notin Factors \/ \A d \in Callers : ask'[d].kind \notin Factors
          /\ ask[c] # NoAsk
      BY <2>1, WhatCommits
    <2>6. /\ \A d \in Callers : ask'[d].kind \in {"login", "issue", "activate", "enroll"} => ask'[d] = ask[d]
          /\ ask[c].code \in Nat /\ ask[c].seen.secret \in Nat
      BY <1>t, <2>5 DEF NoAsk, Asks
    <2>7. AccountTyped'
      <3>1. WrittenLast(c, 0) \in Nat
        BY <1>t, <2>6 DEF WrittenLast
      <3>2. user' \in [password : Nat, secret : Nat, active : BOOLEAN, last : Nat]
        <4>1. user \in [password : Nat, secret : Nat, active : BOOLEAN, last : Nat] /\ issued.secret + 1 \in Nat
          BY <1>0, <1>t DEF AccountTyped
        <4> QED
          BY <2>1, <3>1, <4>1
      <3>3. issued' \in [password : Nat, secret : Nat]
        BY <1>0, <2>1 DEF AccountTyped
      <3> QED
        BY <1>0, <1>t, <2>1, <2>2, <2>5, <3>2, <3>3 DEF AccountTyped, NoHold
    <2>8. SessionsInOrder' /\ IssuesInOrder' /\ FactorInOrder'
      BY <1>0, <1>t, <2>1, <2>2, <2>5, <2>6 DEF SessionsInOrder, IssuesInOrder, FactorInOrder, Changers, Factors, NoHold
    <2> QED
      BY <2>3, <2>4, <2>7, <2>8 DEF RInv
  <1>11. ASSUME NEW c \in Callers, CommitActivate(c) PROVE RInv'
    <2> DEFINE kinds == {"activate"}
    <2>1. /\ Commit(c, kinds) /\ "none" \notin kinds /\ ask[c].kind = "activate"
          /\ user' = [user EXCEPT !.active = TRUE, !.last = Last(c)]
          /\ proven' = ask[c].seen.secret
          /\ UNCHANGED <<links, sessions, issued, hold, late>>
      BY <1>11 DEF CommitActivate, Commit
    <2> HIDE DEF kinds
    <2>2. /\ user'.password = user.password /\ user'.secret = user.secret /\ user'.active
          /\ user'.last = Last(c)
      BY <1>0, <1>t, <2>1 DEF AccountTyped
    <2>3. LinksInOrder' /\ SpentKinds'
      BY <1>s, <2>1, CommitKeepsLinks
    <2>4. CodesInOrder'
      BY <1>t, <2>1, <2>2, CommitKeepsCodes
    <2>5. /\ ask' \in [Callers -> Asks] /\ ask'[c] = NoAsk
          /\ \A d \in Callers : ask'[d] # NoAsk => d # c /\ ask'[d] = ask[d]
          /\ step' = step /\ DOMAIN spent' = {"once", "twice"} /\ crossed \subseteq crossed'
          /\ "issue" \notin crossed' => ask[c].kind # "issue" \/ \A d \in Callers : ask'[d].kind # "issue"
          /\ "factor" \notin crossed' => ask[c].kind \notin Factors \/ \A d \in Callers : ask'[d].kind \notin Factors
          /\ ask[c] # NoAsk
      BY <2>1, WhatCommits
    <2>6. /\ \A d \in Callers : ask'[d].kind \in {"login", "issue", "activate", "enroll"} => ask'[d] = ask[d]
          /\ ask[c].code \in Nat /\ ask[c].seen.secret \in Nat
      BY <1>t, <2>5 DEF NoAsk, Asks
    <2>7. AccountTyped'
      BY <1>0, <1>t, <2>1, <2>5, <2>6 DEF AccountTyped, Last, WrittenLast
    <2>8. SessionsInOrder' /\ IssuesInOrder' /\ FactorInOrder'
      BY <1>0, <1>t, <2>1, <2>2, <2>5, <2>6 DEF SessionsInOrder, IssuesInOrder, FactorInOrder, Changers, Factors, NoHold
    <2> QED
      BY <2>3, <2>4, <2>7, <2>8 DEF RInv
  <1>12. ASSUME NEW c \in Callers, CommitDisable(c) PROVE RInv'
    <2> DEFINE kinds == {"disable"}
    <2>1. /\ Commit(c, kinds) /\ "none" \notin kinds /\ ask[c].kind = "disable"
          /\ user' = [user EXCEPT !.secret = 0, !.active = FALSE, !.last = WrittenLast(c, 0)]
          /\ hold.by = {c} /\ hold' = NoHold /\ proven' = 0
          /\ sessions' = sessions \ hold.ends /\ late' = late \ hold.ends
          /\ UNCHANGED <<links, issued>>
      BY <1>12 DEF CommitDisable, Commit, EndSessions
    <2> HIDE DEF kinds
    <2>2. user'.password = user.password /\ user'.secret = 0 /\ ~user'.active
      BY <1>0, <1>t, <2>1 DEF AccountTyped
    <2>3. LinksInOrder' /\ SpentKinds'
      BY <1>s, <2>1, CommitKeepsLinks
    <2>4. CodesInOrder'
      BY <1>t, <2>1, <2>2, CommitKeepsCodes
    <2>5. /\ ask' \in [Callers -> Asks] /\ ask'[c] = NoAsk
          /\ \A d \in Callers : ask'[d] # NoAsk => d # c /\ ask'[d] = ask[d]
          /\ step' = step /\ DOMAIN spent' = {"once", "twice"} /\ crossed \subseteq crossed'
          /\ "issue" \notin crossed' => ask[c].kind # "issue" \/ \A d \in Callers : ask'[d].kind # "issue"
          /\ "factor" \notin crossed' => ask[c].kind \notin Factors \/ \A d \in Callers : ask'[d].kind \notin Factors
          /\ ask[c] # NoAsk
      BY <2>1, WhatCommits
    <2>6. /\ \A d \in Callers : ask'[d].kind \in {"login", "issue", "activate", "enroll"} => ask'[d] = ask[d]
          /\ ask[c].code \in Nat /\ ask[c].seen.secret \in Nat
      BY <1>t, <2>5 DEF NoAsk, Asks
    <2>7. AccountTyped'
      <3>1. Last(c) \in Nat /\ WrittenLast(c, 0) \in Nat
        BY <1>t, <2>6 DEF Last, WrittenLast
      <3>2. user' \in [password : Nat, secret : Nat, active : BOOLEAN, last : Nat]
        <4>1. user \in [password : Nat, secret : Nat, active : BOOLEAN, last : Nat] /\ issued.password + 1 \in Nat
          BY <1>0, <1>t DEF AccountTyped
        <4> QED
          BY <2>1, <3>1, <4>1
      <3>3. /\ links' \in [Links -> {"none", "live", "dead"}] /\ proven' \in Nat
            /\ issued' \in [password : Nat, secret : Nat]
        BY <1>0, <2>1 DEF AccountTyped
      <3> QED
        BY <1>0, <1>t, <2>1, <2>2, <2>5, <3>2, <3>3 DEF AccountTyped, NoHold
    <2>8. SessionsInOrder' /\ IssuesInOrder' /\ FactorInOrder'
      BY <1>0, <1>t, <2>1, <2>2, <2>5, <2>6 DEF SessionsInOrder, IssuesInOrder, FactorInOrder, Changers, Factors, NoHold
    <2> QED
      BY <2>3, <2>4, <2>7, <2>8 DEF RInv
  \* Requests fail, links expire, time passes.
  <1>13. ASSUME NEW c \in Callers, Abort(c) PROVE RInv'
    <2>1. /\ ask' \in [Callers -> Asks]
          /\ \A d \in Callers : ask'[d] # NoAsk => ask'[d] = ask[d]
          /\ UNCHANGED <<user, links, sessions, step, issued, proven, spent, late, shared, crossed>>
          /\ hold' = hold \/ hold' = NoHold
      BY <1>0, <1>13 DEF Abort, AccountTyped, Asks
    <2>2. \A d \in Callers : ask'[d].kind \in {"login", "issue", "confirm", "activate", "enroll"} => ask'[d] = ask[d]
      BY <2>1 DEF NoAsk
    <2>3. AccountTyped' /\ SessionsInOrder' /\ IssuesInOrder' /\ FactorInOrder' /\ SpentKinds'
      BY <1>0, <2>1, <2>2 DEF AccountTyped, SessionsInOrder, IssuesInOrder, FactorInOrder, SpentKinds, NoHold
    <2>4. LinksInOrder' /\ CodesInOrder'
      BY <1>0, <2>1, <2>2 DEF LinksInOrder, CodesInOrder, Spends
    <2> QED
      BY <2>3, <2>4 DEF RInv
  <1>14. ASSUME NEW l \in Links, Expire(l) PROVE RInv'
    <2>1. AccountTyped' /\ SessionsInOrder' /\ FactorInOrder' /\ SpentKinds' /\ CodesInOrder'
      BY <1>0, <1>14 DEF Expire, AccountTyped, SessionsInOrder, FactorInOrder, SpentKinds, CodesInOrder
    <2>2. IssuesInOrder' /\ LinksInOrder'
      BY <1>0, <1>t, <1>14 DEF Expire, IssuesInOrder, LinksInOrder, AccountTyped, Spends
    <2> QED
      BY <2>1, <2>2 DEF RInv
  <1>15. CASE Tick \/ UNCHANGED rvars
    <2>1. /\ UNCHANGED <<user, links, sessions, issued, ask, hold, proven, spent, late, shared, crossed>>
          /\ step' \in Nat
      BY <1>0, <1>15 DEF Tick, rvars, AccountTyped
    <2>2. AccountTyped' /\ SessionsInOrder' /\ IssuesInOrder' /\ FactorInOrder' /\ SpentKinds'
      BY <1>0, <2>1 DEF AccountTyped, SessionsInOrder, IssuesInOrder, FactorInOrder, SpentKinds
    <2>3. LinksInOrder' /\ CodesInOrder'
      BY <1>0, <2>1 DEF LinksInOrder, CodesInOrder, Spends
    <2> QED
      BY <2>2, <2>3 DEF RInv
  \* A revocation reaches every session there is.
  <1>16. ASSUME NEW c \in Callers, RevokeAllForUser(c) PROVE RInv'
    <2>1. /\ UNCHANGED <<user, links, sessions, step, issued, ask, proven, spent, late, shared, crossed>>
          /\ hold' = [by |-> {c}, ends |-> sessions]
      BY <1>16 DEF RevokeAllForUser, Revoked
    <2>2. AccountTyped' /\ SessionsInOrder' /\ IssuesInOrder' /\ FactorInOrder' /\ SpentKinds'
      BY <1>0, <2>1 DEF AccountTyped, SessionsInOrder, IssuesInOrder, FactorInOrder, SpentKinds
    <2>3. LinksInOrder' /\ CodesInOrder'
      BY <1>0, <2>1 DEF LinksInOrder, CodesInOrder, Spends
    <2> QED
      BY <2>2, <2>3 DEF RInv
  <1> QED
    BY <1>1, <1>2, <1>3, <1>4, <1>5, <1>6, <1>7, <1>8, <1>9, <1>10, <1>11, <1>12, <1>13, <1>14, <1>15, <1>16
       DEF NextCredentials, Login, ChangePassword

\* The demands of SpentOnce, from the parts of the invariant.
LEMMA SpentOnceFollows == RInv => SpentOnce
  <1> SUFFICES ASSUME RInv PROVE SpentOnce
    OBVIOUS
  <1>1. "issue" \in crossed \/ \A l, m \in Links : links[l] = "live" /\ links[m] = "live" => l = m
    BY DEF RInv, IssuesInOrder
  <1>2. \A l \in Links : <<"link", l>> \in spent.twice => l \in shared
    BY DEF RInv, LinksInOrder
  <1>3. ASSUME "code" \notin crossed PROVE spent.twice \subseteq {<<"link", l>> : l \in Links}
    <2> SUFFICES ASSUME NEW x \in spent.twice PROVE \E l \in Links : x = <<"link", l>>
      OBVIOUS
    <2>1. (\E l \in Links : x = <<"link", l>>) \/ (\E s, k \in Nat : x = <<"code", s, k>>)
      BY DEF RInv, SpentKinds
    <2>2. \A s, k \in Nat : <<"code", s, k>> \notin spent.twice
      BY <1>3 DEF RInv, CodesInOrder
    <2> QED
      BY <2>1, <2>2
  <1> QED
    BY <1>1, <1>2, <1>3 DEF SpentOnce

\* Whatever requests overlap, follow each other or fail: only a login that commits after the
\* revocation of its password began leaves a session that outlives it; only two confirmations at once
\* spend one link; and a second live link, a code accepted twice or a factor nobody has proven takes
\* the overlap that is named.
THEOREM AccountsKept == CredentialsSpec => []OnlyRacesHarm
  <1>1. RInv => OnlyRacesHarm
    BY SpentOnceFollows DEF RInv, SessionsInOrder, FactorInOrder, OnlyRacesHarm, OldSessionsEnd, ProvenFactor
  <1> QED
    BY <1>1, InitRInv, NextRInv, PTL DEF CredentialsSpec

-----------------------------------------------------------------------------
(***************************************************************************)
(* Bills: the books agree.                                                 *)
(***************************************************************************)

\* A request past the second select holds its bill.
LockedHoldTheBill ==
    \A c \in Clerks : job[c].at \in {"locked", "summed"} => holder[job[c].bill] = c

\* The sum a payment has read is still the sum when it commits: the lock.
SumIsCurrent ==
    \A c \in Clerks : job[c].at = "summed" => job[c].already = settled[job[c].bill]

\* Requests are about bills there are, and only these have been paid.
BillsRemain ==
    /\ \A c \in Clerks : job[c].at # "idle" => bill[job[c].bill].status # "none"
    /\ \A b \in Bills : bill[b].status = "none" => settled[b] = 0

\* What every step of the bills preserves.
BInv == PayablesTypeOK /\ LockedHoldTheBill /\ SumIsCurrent /\ BillsRemain /\ BooksAgree

\* Rounding to cents never turns an amount into a negative one.
LEMMA QuantizeIsNat == \A raw \in Nat : Quantize(raw) \in Nat
  BY DEF Quantize

LEMMA InitBInv == InitPayables => BInv
  <1> SUFFICES ASSUME InitPayables PROVE BInv
    OBVIOUS
  <1>1. PayablesTypeOK
    BY DEF InitPayables, PayablesTypeOK, BillStatuses
  <1>2. LockedHoldTheBill /\ SumIsCurrent /\ BillsRemain /\ BooksAgree
    BY DEF InitPayables, LockedHoldTheBill, SumIsCurrent, BillsRemain, BooksAgree, NoJob
  <1> QED
    BY <1>1, <1>2 DEF BInv

\* A request that does something has a complete record.
LEMMA AtWork ==
    ASSUME PayablesTypeOK, NEW c \in Clerks, job[c].at # "idle"
    PROVE  job[c] \in BillJobs
  BY DEF PayablesTypeOK, NoJob

\* A request that ends leaves the others what they hold.
LEMMA ReleaseKeeps ==
    ASSUME BInv, NEW c \in Clerks, Release(c)
    PROVE  /\ job' \in [Clerks -> {NoJob} \cup BillJobs]
           /\ holder' \in [Bills -> Clerks \cup {Nobody}]
           /\ LockedHoldTheBill'
           /\ \A d \in Clerks : job'[d].at # "idle" => d # c /\ job'[d] = job[d]
  <1>0. PayablesTypeOK /\ LockedHoldTheBill
    BY DEF BInv
  <1>1. job' \in [Clerks -> {NoJob} \cup BillJobs] /\ holder' \in [Bills -> Clerks \cup {Nobody}]
    BY <1>0 DEF Release, PayablesTypeOK
  <1>2. \A d \in Clerks : job'[d].at # "idle" => d # c /\ job'[d] = job[d]
    BY <1>0 DEF Release, PayablesTypeOK, NoJob
  <1>3. ASSUME NEW d \in Clerks, job'[d].at \in {"locked", "summed"}
        PROVE  holder'[job'[d].bill] = d
    <2>1. d # c /\ job'[d] = job[d]
      BY <1>2, <1>3
    <2>2. job[d].bill \in Bills /\ holder[job[d].bill] = d
      BY <1>0, <1>3, <2>1, AtWork DEF LockedHoldTheBill, BillJobs
    <2> QED
      BY <2>1, <2>2 DEF Release
  <1> QED
    BY <1>1, <1>2, <1>3 DEF LockedHoldTheBill

\* Each step preserves the invariant.
LEMMA NextBInv == BInv /\ [NextPayables]_bvars => BInv'
  <1> SUFFICES ASSUME BInv, [NextPayables]_bvars PROVE BInv'
    OBVIOUS
  <1>0. PayablesTypeOK /\ LockedHoldTheBill /\ SumIsCurrent /\ BillsRemain /\ BooksAgree
    BY DEF BInv
  <1>1. ASSUME NEW b \in Bills, DueDatePasses(b) PROVE BInv'
    <2>1. PayablesTypeOK'
      BY <1>0, <1>1 DEF DueDatePasses, PayablesTypeOK
    <2>2. \A x \in Bills : bill'[x].status = bill[x].status /\ bill'[x].amount = bill[x].amount
      BY <1>0, <1>1 DEF DueDatePasses, PayablesTypeOK
    <2>3. LockedHoldTheBill' /\ SumIsCurrent'
      BY <1>0, <1>1 DEF DueDatePasses, LockedHoldTheBill, SumIsCurrent
    <2>4. BillsRemain' /\ BooksAgree'
      BY <1>0, <1>1, <2>2, AtWork DEF DueDatePasses, BillsRemain, BooksAgree, BillJobs
    <2> QED
      BY <2>1, <2>3, <2>4 DEF BInv
  <1>2. ASSUME NEW b \in Bills, FlagOverdue(b) PROVE BInv'
    <2>1. PayablesTypeOK'
      BY <1>0, <1>2 DEF FlagOverdue, PayablesTypeOK, BillStatuses
    <2>2. \A x \in Bills :
              /\ bill'[x].amount = bill[x].amount
              /\ bill'[x].status = IF x = b THEN "overdue" ELSE bill[x].status
      BY <1>0, <1>2 DEF FlagOverdue, PayablesTypeOK
    <2>3. LockedHoldTheBill' /\ SumIsCurrent'
      BY <1>0, <1>2 DEF FlagOverdue, LockedHoldTheBill, SumIsCurrent
    <2>4. BillsRemain' /\ BooksAgree'
      BY <1>0, <1>2, <2>2, AtWork DEF FlagOverdue, PastDue, BillsRemain, BooksAgree, BillJobs
    <2> QED
      BY <2>1, <2>3, <2>4 DEF BInv
  <1>3. ASSUME NEW b \in Bills, NEW raw \in RawSums, CreateBill(b, raw) PROVE BInv'
    <2>1. Quantize(raw) \in Nat
      BY QuantizeIsNat, PayablesAssumption
    <2>2. PayablesTypeOK'
      BY <1>0, <1>3, <2>1 DEF CreateBill, PayablesTypeOK, BillStatuses
    <2>3. \A x \in Bills : x # b => bill'[x] = bill[x]
      BY <1>0, <1>3 DEF CreateBill, PayablesTypeOK
    <2>4. bill'[b].status = "unpaid" /\ bill'[b].amount = Quantize(raw) /\ settled[b] = 0
      BY <1>0, <1>3 DEF CreateBill, PayablesTypeOK, BillsRemain
    <2>5. LockedHoldTheBill' /\ SumIsCurrent'
      BY <1>0, <1>3 DEF CreateBill, LockedHoldTheBill, SumIsCurrent
    <2>6. BillsRemain' /\ BooksAgree'
      BY <1>0, <1>3, <2>1, <2>3, <2>4, AtWork DEF CreateBill, BillsRemain, BooksAgree, BillJobs
    <2> QED
      BY <2>2, <2>5, <2>6 DEF BInv
  <1>4. ASSUME NEW c \in Clerks, NEW b \in Bills, NEW what \in {"pay", "void"},
               NEW raw \in RawSums \cup {0}, LoadBill(c, b, what, raw)
        PROVE  BInv'
    <2>1. Quantize(raw) \in Nat
      BY QuantizeIsNat, PayablesAssumption
    <2>2. [at |-> "loaded", op |-> what, bill |-> b, seen |-> bill[b].status,
           amount |-> Quantize(raw), already |-> 0] \in BillJobs
      BY <1>0, <1>4, <2>1 DEF LoadBill, PayablesTypeOK, BillJobs
    <2>3. PayablesTypeOK'
      BY <1>0, <1>4, <2>2 DEF LoadBill, PayablesTypeOK
    <2>4. LockedHoldTheBill' /\ SumIsCurrent' /\ BillsRemain' /\ BooksAgree'
      BY <1>0, <1>4 DEF LoadBill, PayablesTypeOK, LockedHoldTheBill, SumIsCurrent, BillsRemain, BooksAgree
    <2> QED
      BY <2>3, <2>4 DEF BInv
  <1>5. ASSUME NEW c \in Clerks, LockBill(c) PROVE BInv'
    <2>1. job[c] \in BillJobs /\ job[c].bill \in Bills
      BY <1>0, <1>5, AtWork DEF LockBill, BillJobs
    <2>2. PayablesTypeOK'
      BY <1>0, <1>5, <2>1 DEF LockBill, PayablesTypeOK, BillJobs
    <2>3. \A d \in Clerks : d # c => job'[d] = job[d]
      BY <1>0, <1>5 DEF LockBill, PayablesTypeOK
    <2>4. job'[c].at = "locked" /\ job'[c].bill = job[c].bill
      BY <1>0, <1>5, <2>1 DEF LockBill, PayablesTypeOK, BillJobs
    <2>5. LockedHoldTheBill'
      BY <1>0, <1>5, <2>1, <2>3, <2>4, PayablesAssumption DEF LockBill, PayablesTypeOK, LockedHoldTheBill
    <2>6. SumIsCurrent' /\ BillsRemain' /\ BooksAgree'
      BY <1>0, <1>5, <2>3, <2>4 DEF LockBill, SumIsCurrent, BillsRemain, BooksAgree
    <2> QED
      BY <2>2, <2>5, <2>6 DEF BInv
  <1>6. ASSUME NEW c \in Clerks, SumPayments(c) PROVE BInv'
    <2>1. job[c] \in BillJobs /\ job[c].bill \in Bills
      BY <1>0, <1>6, AtWork DEF SumPayments, JobAt, BillJobs
    <2>2. PayablesTypeOK'
      BY <1>0, <1>6, <2>1 DEF SumPayments, PayablesTypeOK, BillJobs
    <2>3. \A d \in Clerks : d # c => job'[d] = job[d]
      BY <1>0, <1>6 DEF SumPayments, PayablesTypeOK
    <2>4. job'[c].at = "summed" /\ job'[c].bill = job[c].bill /\ job'[c].already = settled[job[c].bill]
      BY <1>0, <1>6, <2>1 DEF SumPayments, PayablesTypeOK, BillJobs
    <2>5. job[c].at = "locked" /\ bill' = bill /\ settled' = settled /\ holder' = holder
      BY <1>6 DEF SumPayments, JobAt
    <2>6. LockedHoldTheBill' /\ SumIsCurrent'
      BY <1>0, <2>3, <2>4, <2>5 DEF LockedHoldTheBill, SumIsCurrent
    <2>7. BillsRemain' /\ BooksAgree'
      BY <1>0, <2>3, <2>4, <2>5 DEF BillsRemain, BooksAgree
    <2> QED
      BY <2>2, <2>6, <2>7 DEF BInv
  \* The only step that pays: what it adds fits into what its sum left, and its sum is current.
  <1>7. ASSUME NEW c \in Clerks, RecordBillPayment(c) PROVE BInv'
    <2> DEFINE b == job[c].bill
               amt == job[c].amount
    <2>1. /\ job[c] \in BillJobs /\ b \in Bills /\ amt \in Nat
          /\ holder[b] = c /\ job[c].already = settled[b] /\ bill[b].status # "none"
      BY <1>0, <1>7, AtWork DEF RecordBillPayment, JobAt, BillJobs, LockedHoldTheBill, SumIsCurrent, BillsRemain
    <2>2. /\ amt <= bill[b].amount - settled[b]
          /\ settled' = [settled EXCEPT ![b] = @ + amt]
          /\ bill' = [bill EXCEPT ![b].status =
                         IF settled[b] + amt >= bill[b].amount THEN "paid" ELSE @]
          /\ Release(c)
      BY <1>7, <2>1 DEF RecordBillPayment, WithinRemaining, Settles
    <2> HIDE DEF b, amt
    <2>3. /\ settled'[b] = settled[b] + amt
          /\ bill'[b].amount = bill[b].amount
          /\ bill'[b].status = IF settled[b] + amt >= bill[b].amount THEN "paid" ELSE bill[b].status
          /\ \A x \in Bills : x # b => bill'[x] = bill[x] /\ settled'[x] = settled[x]
          /\ settled[b] \in Nat /\ bill[b].amount \in Nat
      BY <1>0, <2>1, <2>2 DEF PayablesTypeOK
    <2>4. PayablesTypeOK'
      <3>1. settled' \in [Bills -> Nat]
        BY <1>0, <2>1, <2>2 DEF PayablesTypeOK
      <3>2. bill' \in [Bills -> [status : BillStatuses, amount : Nat, late : BOOLEAN]]
        BY <1>0, <2>1, <2>2 DEF PayablesTypeOK, BillStatuses
      <3> QED
        BY <2>2, <3>1, <3>2, ReleaseKeeps DEF PayablesTypeOK
    <2>5. SumIsCurrent'
      <3>1. ASSUME NEW d \in Clerks, job'[d].at = "summed" PROVE job'[d].already = settled'[job'[d].bill]
        <4>1. d # c /\ job'[d] = job[d]
          BY <2>2, <3>1, ReleaseKeeps
        <4>2. job[d].bill \in Bills /\ holder[job[d].bill] = d
          BY <1>0, <3>1, <4>1, AtWork DEF LockedHoldTheBill, BillJobs
        <4> QED
          BY <1>0, <2>1, <2>3, <3>1, <4>1, <4>2 DEF SumIsCurrent
      <3> QED
        BY <3>1 DEF SumIsCurrent
    <2>6. BillsRemain'
      <3>1. \A d \in Clerks : job'[d].at # "idle" => bill'[job'[d].bill].status # "none"
        BY <1>0, <2>1, <2>2, <2>3, ReleaseKeeps, AtWork DEF BillsRemain, BillJobs
      <3>2. \A x \in Bills : bill'[x].status = "none" => settled'[x] = 0
        BY <1>0, <2>1, <2>3 DEF BillsRemain
      <3> QED
        BY <3>1, <3>2 DEF BillsRemain
    <2>7. BooksAgree'
      BY <1>0, <2>1, <2>2, <2>3 DEF BooksAgree
    <2> QED
      BY <2>2, <2>4, <2>5, <2>6, <2>7, ReleaseKeeps DEF BInv
  <1>8. ASSUME NEW c \in Clerks, VoidBill(c) PROVE BInv'
    <2>1. job[c] \in BillJobs /\ job[c].bill \in Bills
      BY <1>0, <1>8, AtWork DEF VoidBill, JobAt, BillJobs
    <2>2. Release(c) /\ settled' = settled /\ bill' = [bill EXCEPT ![job[c].bill].status = "void"]
      BY <1>8 DEF VoidBill
    <2>3. PayablesTypeOK'
      <3>1. bill' \in [Bills -> [status : BillStatuses, amount : Nat, late : BOOLEAN]]
        BY <1>0, <2>1, <2>2 DEF PayablesTypeOK, BillStatuses
      <3> QED
        BY <1>0, <2>2, <3>1, ReleaseKeeps DEF PayablesTypeOK
    <2>4. SumIsCurrent'
      BY <1>0, <2>2, ReleaseKeeps DEF SumIsCurrent
    <2>5. \A x \in Bills :
              /\ bill'[x].amount = bill[x].amount
              /\ bill'[x].status = IF x = job[c].bill THEN "void" ELSE bill[x].status
      BY <1>0, <2>1, <2>2 DEF PayablesTypeOK
    <2>6. bill[job[c].bill].status # "none"
      BY <1>0, <1>8 DEF VoidBill, JobAt, BillsRemain
    <2>7. BillsRemain'
      <3>1. \A d \in Clerks : job'[d].at # "idle" => bill'[job'[d].bill].status # "none"
        BY <1>0, <2>2, <2>5, ReleaseKeeps, AtWork DEF BillsRemain, BillJobs
      <3>2. \A x \in Bills : bill'[x].status = "none" => settled'[x] = 0
        BY <1>0, <2>2, <2>5 DEF BillsRemain
      <3> QED
        BY <3>1, <3>2 DEF BillsRemain
    <2>8. BooksAgree'
      BY <1>0, <2>2, <2>5, <2>6 DEF BooksAgree
    <2> QED
      BY <2>2, <2>3, <2>4, <2>7, <2>8, ReleaseKeeps DEF BInv
  <1>9. ASSUME NEW c \in Clerks, Refuse(c) PROVE BInv'
    <2>1. Release(c) /\ bill' = bill /\ settled' = settled
      BY <1>9 DEF Refuse
    <2>2. PayablesTypeOK'
      BY <1>0, <2>1, ReleaseKeeps DEF PayablesTypeOK
    <2>3. SumIsCurrent' /\ BillsRemain' /\ BooksAgree'
      BY <1>0, <2>1, ReleaseKeeps DEF SumIsCurrent, BillsRemain, BooksAgree
    <2> QED
      BY <2>1, <2>2, <2>3, ReleaseKeeps DEF BInv
  <1>10. CASE UNCHANGED bvars
    BY <1>0, <1>10 DEF bvars, BInv, PayablesTypeOK, LockedHoldTheBill, SumIsCurrent, BillsRemain, BooksAgree
  <1> QED
    BY <1>1, <1>2, <1>3, <1>4, <1>5, <1>6, <1>7, <1>8, <1>9, <1>10 DEF NextPayables

\* Whatever payments, voids and the nightly job do to a bill at once, it is never paid beyond its
\* amount, and its status and its payments agree.
THEOREM BillsAddUp == PayablesSpec => []BooksAgree
  <1>1. BInv => BooksAgree
    BY DEF BInv
  <1> QED
    BY <1>1, InitBInv, NextBInv, PTL DEF PayablesSpec

-----------------------------------------------------------------------------
(***************************************************************************)
(* Entitlements: who is admitted is entitled, and the audit tells.         *)
(***************************************************************************)

\* A gate that w has still to pass would turn it away now.
TurnedAway(w) ==
    \/ write[w].at = "live"     /\ (~standing \/ ~Entitled)
    \/ write[w].at = "standing" /\ ~Entitled
    \/ write[w].at = "deferred" /\ ~plan

\* The gates that w has passed would let it pass again.
PassedStillHold(w) ==
    /\ Live(write[w].company)
    /\ write[w].at \in {"standing", "deferred", "admitted"} => standing
    /\ write[w].at = "deferred" => override = "none"
    /\ write[w].at = "admitted" => Entitled

\* A request that was entitled at no moment so far is turned away by a gate to come, as long as no
\* two changes fell in between: one change cannot mend one gate and break none without there having
\* been a moment at which all were open.
HasMoment(w) ==
    write[w].at # "rest" =>
        /\ write[w].since <= changes
        /\ changes = write[w].since => PassedStillHold(w)
        /\ changes <= write[w].since + 1 => write[w].allowed \/ TurnedAway(w)

OneMoment == \A w \in Writers : HasMoment(w)

\* Before the first overlap, what an operator's request has seen is in force.
SeenIsInForce ==
    ~interleaved =>
        /\ audit = override
        /\ \A o \in Operators : op[o].kind = "set" => op[o].seen = override

\* What every step of the requests, the webhook and the console preserves.
EInv == EntitlementsTypeOK /\ OneMoment /\ SeenIsInForce

LEMMA InitEInv == InitEntitlements => EInv
  <1> SUFFICES ASSUME InitEntitlements PROVE EInv
    OBVIOUS
  <1>1. /\ write \in [Writers -> [at : {"rest", "live", "standing", "deferred", "admitted"},
                                  company : Tree, allowed : BOOLEAN, since : 0 .. MaxChanges]]
        /\ op \in [Operators -> [kind : Kinds \cup {"none"}, company : Tree,
                                 new : {"none", "on", "off"}, seen : {"none", "on", "off"}]]
    BY ChangesAssumption DEF InitEntitlements, AtRest, NoOp, Tree
  <1>2. EntitlementsTypeOK
    <2>1. changes \in 0 .. MaxChanges
      BY ChangesAssumption DEF InitEntitlements
    <2>3. deleted \subseteq Tree /\ interleaved \in BOOLEAN
      BY DEF InitEntitlements
    <2>2. plan \in BOOLEAN /\ standing \in BOOLEAN
      BY DEF InitEntitlements
    <2> QED
      BY <1>1, <2>1, <2>2, <2>3 DEF InitEntitlements, EntitlementsTypeOK
  <1>3. OneMoment /\ SeenIsInForce
    BY DEF InitEntitlements, OneMoment, HasMoment, SeenIsInForce, AtRest, NoOp
  <1> QED
    BY <1>2, <1>3 DEF EInv

\* A request that does nothing while the tenant's state stays keeps its moment.
LEMMA IdleKeepsMoment ==
    ASSUME OneMoment, NEW w \in Writers, write'[w] = write[w],
           UNCHANGED <<plan, standing, override, deleted, changes>>
    PROVE  HasMoment(w)'
  BY DEF OneMoment, HasMoment, PassedStillHold, TurnedAway, Entitled, Live

\* A step of a request under way: the tenant's state stays, and the request has come further.
LEMMA GateKeepsEInv ==
    ASSUME EInv, NEW w \in Writers, NEW at \in {"standing", "deferred", "admitted"},
           WriteTo(w, at), write[w].at # "rest",
           UNCHANGED <<plan, standing, override, deleted, audit, op, changes, interleaved>>,
           at \in {"standing", "deferred", "admitted"} => standing \/ write[w].at # "live",
           at = "deferred" => override = "none",
           at = "admitted" /\ changes = write[w].since => Entitled,
           at = "standing" => write[w].at = "live",
           at = "deferred" => write[w].at = "standing",
           at = "admitted" => ~TurnedAway(w)
    PROVE  EInv'
  <1>0. EntitlementsTypeOK /\ OneMoment /\ SeenIsInForce
    BY DEF EInv
  <1>1. EntitlementsTypeOK'
    BY <1>0 DEF EntitlementsTypeOK, WriteTo
  <1>2. SeenIsInForce'
    BY <1>0 DEF SeenIsInForce
  <1>3. /\ \A v \in Writers : v # w => write'[v] = write[v]
        /\ write'[w].at = at /\ write'[w].company = write[w].company
        /\ write'[w].since = write[w].since /\ write'[w].allowed = write[w].allowed
    BY <1>0 DEF EntitlementsTypeOK, WriteTo
  <1>4. /\ write[w].since <= changes
        /\ changes = write[w].since => PassedStillHold(w)
        /\ changes <= write[w].since + 1 => write[w].allowed \/ TurnedAway(w)
    BY <1>0 DEF OneMoment, HasMoment
  <1>5. changes = write[w].since => PassedStillHold(w)'
    <2> SUFFICES ASSUME changes = write[w].since PROVE PassedStillHold(w)'
      OBVIOUS
    <2>1. Live(write[w].company) /\ (write[w].at \in {"standing", "deferred", "admitted"} => standing)
      BY <1>4 DEF PassedStillHold
    <2>2. Live(write[w].company)'
      BY <1>3, <2>1 DEF Live
    <2>3. standing
      BY <1>0, <2>1 DEF EntitlementsTypeOK
    <2> QED
      BY <1>3, <2>2, <2>3 DEF PassedStillHold, Entitled, Live
  <1>6. write[w].allowed \/ TurnedAway(w) => write'[w].allowed \/ TurnedAway(w)'
    BY <1>3 DEF TurnedAway, Entitled
  <1>7. HasMoment(w)'
    BY <1>3, <1>4, <1>5, <1>6 DEF HasMoment
  <1>8. OneMoment'
    BY <1>0, <1>3, <1>7, IdleKeepsMoment DEF OneMoment
  <1> QED
    BY <1>1, <1>2, <1>8 DEF EInv

\* A change of one of the four things the gates read keeps every request's moment.
LEMMA ChangeKeepsOneMoment ==
    ASSUME EInv, Changed, EntitlementsTypeOK',
           \/ UNCHANGED <<standing, override, deleted>>
           \/ UNCHANGED <<plan, override, deleted>>
           \/ UNCHANGED <<plan, standing, deleted>>
           \/ UNCHANGED <<plan, standing, override>>
    PROVE  OneMoment'
  <1>0. EntitlementsTypeOK /\ OneMoment
    BY DEF EInv
  <1> SUFFICES ASSUME NEW w \in Writers, write'[w].at # "rest"
               PROVE  /\ write'[w].since <= changes'
                      /\ changes' = write'[w].since => PassedStillHold(w)'
                      /\ changes' <= write'[w].since + 1 => write'[w].allowed \/ TurnedAway(w)'
    BY DEF OneMoment, HasMoment
  <1> PICK c : c = write[w].company
    OBVIOUS
  <1>1. /\ write[w].at # "rest" /\ write'[w].at = write[w].at
        /\ write'[w].company = c /\ write'[w].since = write[w].since
        /\ write'[w].allowed = (write[w].allowed \/ c \in {x \in Tree : Allowed(x)}')
        /\ changes' = changes + 1
    BY <1>0 DEF Changed, EntitlementsTypeOK
  <1>2. write[w].since \in Nat /\ changes \in Nat /\ write[w].since <= changes /\ c \in Tree
    BY <1>0, <1>1, ChangesAssumption DEF EntitlementsTypeOK, OneMoment, HasMoment
  <1>3. ASSUME changes' <= write'[w].since + 1, ~write'[w].allowed
        PROVE  TurnedAway(w)'
    <2>1. changes = write[w].since
      BY <1>1, <1>2, <1>3
    <2>2. PassedStillHold(w) /\ TurnedAway(w)
      <3>1. HasMoment(w) /\ ~write[w].allowed
        BY <1>0, <1>1, <1>3 DEF OneMoment
      <3> QED
        BY <1>1, <1>2, <2>1, <3>1 DEF HasMoment
    <2>3. ~(Live(c)' /\ standing' /\ Entitled')
      BY <1>1, <1>2, <1>3 DEF Allowed, Live
    <2>4. Live(c)
      BY <2>2 DEF PassedStillHold
    <2>5. plan \in BOOLEAN /\ plan' \in BOOLEAN /\ standing \in BOOLEAN /\ standing' \in BOOLEAN
      BY <1>0 DEF EntitlementsTypeOK
    <2>6. CASE write[w].at = "live"
      <3>1. ~standing \/ ~Entitled
        BY <2>2, <2>6 DEF TurnedAway
      <3>2. ~standing' \/ ~Entitled'
        <4>1. CASE UNCHANGED <<plan, standing, override>>
          BY <3>1, <4>1 DEF Entitled
        <4>2. CASE deleted' = deleted
          <5>1. Live(c)'
            BY <2>4, <4>2 DEF Live
          <5> QED
            BY <2>3, <5>1
        <4> QED
          BY <4>1, <4>2
      <3> QED
        BY <1>1, <2>6, <3>2 DEF TurnedAway
    <2>7. CASE write[w].at = "standing"
      <3>1. standing /\ ~Entitled
        BY <2>2, <2>7 DEF TurnedAway, PassedStillHold
      <3>2. ~Entitled'
        <4>1. CASE UNCHANGED <<plan, override>>
          BY <3>1, <4>1 DEF Entitled
        <4>2. CASE deleted' = deleted /\ standing' = standing
          <5>1. Live(c)'
            BY <2>4, <4>2 DEF Live
          <5> QED
            BY <2>3, <3>1, <4>2, <5>1
        <4> QED
          BY <4>1, <4>2
      <3> QED
        BY <1>1, <2>7, <3>2 DEF TurnedAway
    <2>8. CASE write[w].at = "deferred"
      <3>1. standing /\ ~plan /\ override = "none"
        BY <2>2, <2>8 DEF TurnedAway, PassedStillHold
      <3>2. ~plan'
        <4>1. CASE plan' = plan
          BY <3>1, <4>1
        <4>2. CASE UNCHANGED <<standing, override, deleted>>
          <5>1. Live(c)'
            BY <2>4, <4>2 DEF Live
          <5>2. Entitled' = plan'
            BY <3>1, <4>2 DEF Entitled
          <5> QED
            BY <2>3, <3>1, <4>2, <5>1, <5>2
        <4> QED
          BY <4>1, <4>2
      <3> QED
        BY <1>1, <2>8, <3>2 DEF TurnedAway
    <2> QED
      BY <2>2, <2>6, <2>7, <2>8 DEF TurnedAway
  <1> QED
    BY <1>1, <1>2, <1>3

\* A change leaves the requests well typed, and counts itself.
LEMMA ChangeIsTyped ==
    ASSUME EntitlementsTypeOK, Changed
    PROVE  /\ write' \in [Writers -> [at : {"rest", "live", "standing", "deferred", "admitted"},
                                      company : Tree, allowed : BOOLEAN, since : 0 .. MaxChanges]]
           /\ changes' \in 0 .. MaxChanges
  <1>1. changes' \in 0 .. MaxChanges
    BY ChangesAssumption DEF EntitlementsTypeOK, Changed
  <1>2. ASSUME NEW w \in Writers
        PROVE  write'[w] \in [at : {"rest", "live", "standing", "deferred", "admitted"},
                              company : Tree, allowed : BOOLEAN, since : 0 .. MaxChanges]
    <2>1. (write[w].allowed \/ write[w].company \in {c \in Tree : Allowed(c)}') \in BOOLEAN
      OBVIOUS
    <2> QED
      BY <2>1 DEF EntitlementsTypeOK, Changed
  <1>3. write' = [w \in Writers |-> write'[w]]
    BY DEF Changed
  <1> QED
    BY <1>1, <1>2, <1>3

\* An operator's request that ends was alone, or the overlap is on record.
LEMMA FinishedAlone ==
    ASSUME EntitlementsTypeOK, NEW o \in Operators, Finish(o)
    PROVE  /\ op' \in [Operators -> [kind : Kinds \cup {"none"}, company : Tree,
                                     new : {"none", "on", "off"}, seen : {"none", "on", "off"}]]
           /\ interleaved' \in BOOLEAN
           /\ ~interleaved' => ~interleaved /\ \A p \in Operators : op'[p].kind # "set"
  <1>1. NoOp \in [kind : Kinds \cup {"none"}, company : Tree,
                  new : {"none", "on", "off"}, seen : {"none", "on", "off"}]
    BY DEF NoOp, Tree
  <1>2. /\ op' = [op EXCEPT ![o] = NoOp]
        /\ interleaved' = (interleaved \/ \E p \in Operators \ {o} : op[p] # NoOp)
    BY DEF Finish
  <1>3. ASSUME ~interleaved' PROVE ~interleaved /\ \A p \in Operators : op'[p].kind # "set"
    <2>1. ~interleaved /\ \A p \in Operators \ {o} : op[p] = NoOp
      BY <1>2, <1>3
    <2>2. \A p \in Operators : op'[p] = NoOp
      BY <1>2, <2>1 DEF EntitlementsTypeOK
    <2> QED
      BY <2>1, <2>2 DEF NoOp
  <1> QED
    BY <1>1, <1>2, <1>3 DEF EntitlementsTypeOK

\* Each step preserves the invariant.
LEMMA NextEInv == EInv /\ [NextEntitlements]_evars => EInv'
  <1> SUFFICES ASSUME EInv, [NextEntitlements]_evars PROVE EInv'
    OBVIOUS
  <1>0. EntitlementsTypeOK /\ OneMoment /\ SeenIsInForce
    BY DEF EInv
  <1>1. ASSUME NEW w \in Writers, NEW c \in Tree, GetCurrentUser(w, c) PROVE EInv'
    <2>1. Allowed(c) \in BOOLEAN
      BY <1>0 DEF Allowed, EntitlementsTypeOK
    <2>2. EntitlementsTypeOK'
      BY <1>0, <1>1, <2>1 DEF GetCurrentUser, EntitlementsTypeOK
    <2>3. SeenIsInForce'
      BY <1>0, <1>1 DEF GetCurrentUser, SeenIsInForce
    <2>4. /\ \A v \in Writers : v # w => write'[v] = write[v]
          /\ write'[w] = [at |-> "live", company |-> c, allowed |-> Allowed(c), since |-> changes]
          /\ UNCHANGED <<plan, standing, override, deleted, changes>>
      BY <1>0, <1>1 DEF GetCurrentUser, EntitlementsTypeOK
    <2>5. Live(c) /\ changes \in Nat
      BY <1>0, <1>1, ChangesAssumption DEF GetCurrentUser, EntitlementsTypeOK
    <2>6. HasMoment(w)'
      <3>1. PassedStillHold(w)'
        BY <2>4, <2>5 DEF PassedStillHold, Live
      <3>2. Allowed(c) \/ TurnedAway(w)'
        BY <2>4, <2>5 DEF TurnedAway, Allowed, Live, Entitled
      <3> QED
        BY <2>4, <2>5, <3>1, <3>2 DEF HasMoment
    <2>7. OneMoment'
      BY <1>0, <2>4, <2>6, IdleKeepsMoment DEF OneMoment
    <2> QED
      BY <2>2, <2>3, <2>7 DEF EInv
  <1>2. ASSUME NEW w \in Writers, BlockIfReadOnly(w) PROVE EInv'
    BY <1>0, <1>2, GateKeepsEInv DEF BlockIfReadOnly
  <1>3. ASSUME NEW w \in Writers, ModuleOverride(w) PROVE EInv'
    <2>1. CASE override = "on" /\ WriteTo(w, "admitted")
      BY <1>0, <1>3, <2>1, GateKeepsEInv DEF ModuleOverride, TurnedAway, Entitled
    <2>2. CASE override = "none" /\ WriteTo(w, "deferred")
      BY <1>0, <1>3, <2>2, GateKeepsEInv DEF ModuleOverride
    <2> QED
      BY <1>3, <2>1, <2>2 DEF ModuleOverride, Decides
  <1>4. ASSUME NEW w \in Writers, RootTier(w) PROVE EInv'
    <2>1. write[w].at = "deferred" /\ plan /\ WriteTo(w, "admitted")
      BY <1>4 DEF RootTier
    <2>2. changes = write[w].since => Entitled
      BY <1>0, <2>1 DEF OneMoment, HasMoment, PassedStillHold, Entitled
    <2>3. ~TurnedAway(w)
      BY <2>1 DEF TurnedAway
    <2> QED
      BY <1>0, <1>4, <2>1, <2>2, <2>3, GateKeepsEInv DEF RootTier
  <1>5. ASSUME NEW w \in Writers, EndWrite(w) PROVE EInv'
    <2>1. AtRest \in [at : {"rest", "live", "standing", "deferred", "admitted"},
                      company : Tree, allowed : BOOLEAN, since : 0 .. MaxChanges]
      BY ChangesAssumption DEF AtRest, Tree
    <2>2. EntitlementsTypeOK' /\ SeenIsInForce'
      BY <1>0, <1>5, <2>1 DEF EndWrite, EntitlementsTypeOK, SeenIsInForce
    <2>3. \A v \in Writers : v # w => write'[v] = write[v]
      BY <1>0, <1>5 DEF EndWrite, EntitlementsTypeOK
    <2>4. HasMoment(w)'
      BY <1>0, <1>5 DEF EndWrite, EntitlementsTypeOK, HasMoment, AtRest
    <2>5. OneMoment'
      BY <1>0, <1>5, <2>3, <2>4, IdleKeepsMoment DEF EndWrite, OneMoment
    <2> QED
      BY <2>2, <2>5 DEF EInv
  <1>6. CASE ChangePlan
    BY <1>0, <1>6, ChangeKeepsOneMoment, ChangeIsTyped DEF ChangePlan, EInv, EntitlementsTypeOK, SeenIsInForce
  <1>7. CASE ChangeStanding
    BY <1>0, <1>7, ChangeKeepsOneMoment, ChangeIsTyped DEF ChangeStanding, EInv, EntitlementsTypeOK, SeenIsInForce
  <1>8. ASSUME NEW o \in Operators, NEW kind \in Kinds, NEW c \in Tree,
               NEW new \in {"none", "on", "off"}, LoadTenant(o, kind, c, new)
        PROVE  EInv'
    <2>1. [kind |-> kind, company |-> c, new |-> new, seen |-> override]
              \in [kind : Kinds \cup {"none"}, company : Tree,
                   new : {"none", "on", "off"}, seen : {"none", "on", "off"}]
      BY <1>0 DEF EntitlementsTypeOK
    <2>2. EntitlementsTypeOK'
      BY <1>0, <1>8, <2>1 DEF LoadTenant, EntitlementsTypeOK
    <2>3. SeenIsInForce'
      BY <1>0, <1>8 DEF LoadTenant, EntitlementsTypeOK, SeenIsInForce
    <2>4. OneMoment'
      BY <1>0, <1>8, IdleKeepsMoment DEF LoadTenant, OneMoment
    <2> QED
      BY <2>2, <2>3, <2>4 DEF EInv
  <1>9. ASSUME NEW o \in Operators, SetModuleOverride(o) PROVE EInv'
    BY <1>0, <1>9, ChangeKeepsOneMoment, ChangeIsTyped, FinishedAlone
       DEF SetModuleOverride, EInv, EntitlementsTypeOK, SeenIsInForce
  <1>10. ASSUME NEW o \in Operators, ClearModuleOverride(o) PROVE EInv'
    BY <1>0, <1>10, ChangeKeepsOneMoment, ChangeIsTyped, FinishedAlone
       DEF ClearModuleOverride, EInv, EntitlementsTypeOK, SeenIsInForce
  <1>11. ASSUME NEW o \in Operators, DeactivateTenant(o) PROVE EInv'
    BY <1>0, <1>11, ChangeKeepsOneMoment, ChangeIsTyped, FinishedAlone
       DEF DeactivateTenant, EInv, EntitlementsTypeOK, SeenIsInForce
  <1>12. ASSUME NEW o \in Operators, RestoreTenant(o) PROVE EInv'
    BY <1>0, <1>12, ChangeKeepsOneMoment, ChangeIsTyped, FinishedAlone
       DEF RestoreTenant, EInv, EntitlementsTypeOK, SeenIsInForce
  <1>13. ASSUME NEW o \in Operators, AbortOperator(o) PROVE EInv'
    <2>1. EntitlementsTypeOK'
      BY <1>0, <1>13, FinishedAlone DEF AbortOperator, EntitlementsTypeOK
    <2>2. SeenIsInForce'
      BY <1>0, <1>13, FinishedAlone DEF AbortOperator, SeenIsInForce
    <2>3. OneMoment'
      BY <1>0, <1>13, IdleKeepsMoment DEF AbortOperator, OneMoment
    <2> QED
      BY <2>1, <2>2, <2>3 DEF EInv
  <1>14. CASE UNCHANGED evars
    <2>1. EntitlementsTypeOK' /\ SeenIsInForce'
      BY <1>0, <1>14 DEF evars, EntitlementsTypeOK, SeenIsInForce
    <2>2. OneMoment'
      BY <1>0, <1>14, IdleKeepsMoment DEF evars, OneMoment
    <2> QED
      BY <2>1, <2>2 DEF EInv
  <1> QED
    BY <1>1, <1>2, <1>3, <1>4, <1>5, <1>6, <1>7, <1>8, <1>9, <1>10, <1>11, <1>12, <1>13, <1>14
       DEF NextEntitlements

\* A company uses only what it was entitled to at one moment of the request, although four moments
\* are read, and the audit trail of a console used by one person at a time tells what is in force.
THEOREM AdmittedIsEntitled == EntitlementsSpec => []EntitlementsHold
  <1>1. EInv => EntitlementsHold
    <2> SUFFICES ASSUME EInv PROVE EntitlementsHold
      OBVIOUS
    <2>1. AdmittedOnce
      <3>1. ASSUME NEW w \in Writers, write[w].at = "admitted", ~(changes - write[w].since > 1)
            PROVE  write[w].allowed
        <4>1. changes \in Int /\ write[w].since \in Int
          BY ChangesAssumption DEF EInv, EntitlementsTypeOK
        <4>2. write[w].allowed \/ TurnedAway(w)
          BY <3>1, <4>1 DEF EInv, OneMoment, HasMoment
        <4> QED
          BY <3>1, <4>2 DEF TurnedAway
      <3> QED
        BY <3>1 DEF AdmittedOnce
    <2>2. AuditTells
      BY DEF EInv, SeenIsInForce, AuditTells
    <2> QED
      BY <2>1, <2>2 DEF EntitlementsHold
  <1> QED
    BY <1>1, InitEInv, NextEInv, PTL DEF EntitlementsSpec

-----------------------------------------------------------------------------
(***************************************************************************)
(* The team directory.                                                     *)
(***************************************************************************)

\* Every updated_at given so far is at most the last one.
StampsAreGiven ==
    /\ profile.id <= clock /\ profile.stamp <= clock
    /\ \A e \in Edits : edit[e].expects <= clock

\* An updated_at stands for the contact columns that were written with it, as long as the record
\* has it: a client that saw it saw these.
StampTellsContact ==
    \A e \in Edits : edit[e].at = "open" /\ edit[e].expects # 0 /\ profile.id # 0
                     /\ profile.stamp = edit[e].expects => profile.contact = edit[e].saw

\* As long as nothing has overtaken a save that has compared, the contact columns are those its
\* client was shown, or none.
ShownStands ==
    \A e \in Edits : edit[e].at \in {"compared", "loaded"} /\ edit[e].expects # 0 /\ ~edit[e].overtaken =>
        profile.contact \in {Nothing, edit[e].saw}

\* No row has no contact columns.
NoRowIsEmpty == profile.id = 0 => profile.contact = Nothing

\* A photo that is written is on the disk, under its extension, and stays there.
WrittenIsOnDisk ==
    \A p \in Photos : photo[p].at = "written" =>
        photo[p].image \in Extensions /\ disk[photo[p].image] # Nothing

Editing == [at : {"new", "open", "compared", "loaded", "done"}, expects : Nat,
            saw : Edits \cup {Nothing}, shown : SUBSET Edits, seen : Profiles,
            rows : SUBSET Edits, contact : BOOLEAN, list : {"absent", "empty", "one"},
            trade : Trades \cup {Nothing, "absent"}, overtaken : BOOLEAN]

\* What every step of the directory preserves.
TInv ==
    /\ TeamTypeOK /\ StampsAreGiven /\ StampTellsContact /\ ShownStands /\ NoRowIsEmpty /\ WrittenIsOnDisk
    /\ ReplacesTheShown /\ ListIsTheList /\ PhotoShown /\ RecordOfMember

LEMMA NoProfileIsTyped == NoProfile \in Profiles
  BY DEF NoProfile, Profiles

\* A profile that is written keeps what its writer does not name, and gets the next updated_at.
LEMMA WrittenIs ==
    ASSUME NEW seen \in Profiles, NEW new \in Profiles, clock \in Nat
    PROVE  /\ Written(seen, new) \in Profiles
           /\ Written(seen, new).stamp = clock + 1
           /\ Written(seen, new).id = IF seen.id = 0 THEN clock + 1 ELSE new.id
           /\ Written(seen, new).contact = new.contact
           /\ Written(seen, new).trade = new.trade
           /\ Written(seen, new).image = new.image
  <1>1. CASE seen.id = 0
    <2>1. Written(seen, new) = [new EXCEPT !.id = clock + 1, !.stamp = clock + 1]
      BY <1>1 DEF Written
    <2>2. clock + 1 \in Nat
      OBVIOUS
    <2>3. Written(seen, new) \in Profiles
      BY <2>1, <2>2 DEF Profiles
    <2>4. /\ Written(seen, new).stamp = clock + 1 /\ Written(seen, new).id = clock + 1
          /\ Written(seen, new).contact = new.contact /\ Written(seen, new).trade = new.trade
          /\ Written(seen, new).image = new.image
      BY <2>1 DEF Profiles
    <2> QED
      BY <1>1, <2>3, <2>4
  <1>2. CASE seen.id # 0
    <2>1. Written(seen, new) = [new EXCEPT !.stamp = clock + 1]
      BY <1>2 DEF Written
    <2> QED
      BY <1>2, <2>1 DEF Profiles
  <1> QED
    BY <1>1, <1>2

LEMMA InitTInv == InitTeam => TInv
  <1> SUFFICES ASSUME InitTeam PROVE TInv
    OBVIOUS
  <1> USE NoProfileIsTyped
  <1>1. edit \in [Edits -> Editing]
    BY DEF InitTeam, NewEdit, Editing
  <1>2. photo \in [Photos -> [at : {"new", "written", "done"}, image : Extensions \cup {Nothing},
                              seen : Profiles]]
    BY DEF InitTeam, NewPhoto
  <1>3. TeamTypeOK
    BY <1>1, <1>2 DEF InitTeam, TeamTypeOK, Editing
  <1>4. StampsAreGiven /\ StampTellsContact /\ ShownStands /\ NoRowIsEmpty /\ WrittenIsOnDisk
    BY DEF InitTeam, NewEdit, NewPhoto, NoProfile, StampsAreGiven, StampTellsContact, ShownStands, NoRowIsEmpty,
           WrittenIsOnDisk
  <1>5. ReplacesTheShown /\ ListIsTheList /\ PhotoShown /\ RecordOfMember
    BY DEF InitTeam, NewEdit, NoProfile, ReplacesTheShown, ListIsTheList, PhotoShown, RecordOfMember
  <1> QED
    BY <1>3, <1>4, <1>5 DEF TInv

\* The profile after a commit: it is there, has a new updated_at, and says what it says of a trade
\* that is there and of a photo that is on the disk.
LEMMA ProfileWritten ==
    ASSUME TInv, NEW seen \in Profiles, NEW new \in Profiles, RowFor(seen),
           profile' = Written(seen, new), clock' = clock + 1, member' = member,
           seen.id # 0 => new.id = profile.id
    PROVE  /\ profile' \in Profiles /\ clock' \in Nat
           /\ profile'.id # 0 /\ member'
           /\ profile'.id <= clock' /\ profile'.stamp = clock' /\ clock' > clock
           /\ profile'.contact = new.contact /\ profile'.trade = new.trade /\ profile'.image = new.image
  <1>1. clock \in Nat /\ profile \in Profiles /\ profile.id <= clock /\ (profile.id # 0 => member)
    BY DEF TInv, TeamTypeOK, StampsAreGiven, RecordOfMember
  <1>2. profile.id \in Nat /\ seen.id \in Nat
    BY <1>1 DEF Profiles
  <1> QED
    BY <1>1, <1>2, WrittenIs DEF RowFor

\* What a step makes of an edit: nothing, or its end, or one that is overtaken.
EditGoesOn(x) ==
    \/ edit'[x] = edit[x] \/ edit'[x] = [NewEdit EXCEPT !.at = "done"]
    \/ edit[x].at \in {"compared", "loaded"} /\ edit'[x] = [edit[x] EXCEPT !.overtaken = TRUE]

\* Whoever gives a new updated_at keeps what an open record and its updated_at say.
LEMMA NewStamp ==
    ASSUME TInv, clock' \in Nat, clock' > clock, profile'.stamp = clock', profile'.id <= clock',
           \A e \in Edits : EditGoesOn(e)
    PROVE  StampsAreGiven' /\ StampTellsContact'
  <1>1. /\ clock \in Nat
        /\ \A e \in Edits : edit[e].expects \in Nat /\ edit[e].expects <= clock /\ edit[e] \in Editing
    BY DEF TInv, TeamTypeOK, StampsAreGiven, Editing
  <1>2. \A e \in Edits : edit'[e].expects \in Nat /\ edit'[e].expects <= clock
    <2> SUFFICES ASSUME NEW e \in Edits PROVE edit'[e].expects \in Nat /\ edit'[e].expects <= clock
      OBVIOUS
    <2>1. CASE edit'[e] = edit[e]
      BY <1>1, <2>1
    <2>2. CASE edit'[e] = [NewEdit EXCEPT !.at = "done"]
      <3>1. edit'[e].expects = 0
        BY <2>2 DEF NewEdit
      <3> QED
        BY <1>1, <3>1
    <2>3. CASE edit'[e] = [edit[e] EXCEPT !.overtaken = TRUE]
      <3>1. edit'[e].expects = edit[e].expects
        BY <1>1, <2>3 DEF Editing
      <3> QED
        BY <1>1, <3>1
    <2> QED
      BY <2>1, <2>2, <2>3 DEF EditGoesOn
  <1>3. ASSUME NEW e \in Edits, edit'[e].at = "open" PROVE edit'[e] = edit[e]
    <2>1. edit'[e] # [NewEdit EXCEPT !.at = "done"]
      BY <1>3 DEF NewEdit
    <2>2. edit'[e] = [edit[e] EXCEPT !.overtaken = TRUE] => edit'[e].at = edit[e].at
      BY <1>1 DEF Editing
    <2> QED
      BY <1>3, <2>1, <2>2 DEF EditGoesOn
  <1> QED
    BY <1>1, <1>2, <1>3 DEF StampsAreGiven, StampTellsContact

\* An edit that ends, and others that it may overtake.
LEMMA EditEnds ==
    ASSUME TInv, NEW e \in Edits, NEW over \in BOOLEAN,
           edit' = [f \in Edits |->
                      IF f = e THEN [NewEdit EXCEPT !.at = "done"]
                      ELSE IF over /\ edit[f].at \in {"compared", "loaded"}
                           THEN [edit[f] EXCEPT !.overtaken = TRUE] ELSE edit[f]]
    PROVE  /\ edit' \in [Edits -> Editing]
           /\ \A x \in Edits : EditGoesOn(x)
           /\ over \/ profile'.contact \in {Nothing, profile.contact} => ShownStands'
  <1>1. [NewEdit EXCEPT !.at = "done"] \in Editing
    BY NoProfileIsTyped DEF NewEdit, Editing
  <1>2. ASSUME NEW x \in Edits PROVE edit[x] \in Editing /\ [edit[x] EXCEPT !.overtaken = TRUE] \in Editing
    <2>1. edit[x] \in Editing
      BY DEF TInv, TeamTypeOK, Editing
    <2> QED
      BY <2>1 DEF Editing
  <1>3. \A x \in Edits : EditGoesOn(x)
    BY DEF EditGoesOn
  <1>4. ASSUME NEW x \in Edits, edit'[x].at \in {"compared", "loaded"}, edit'[x].expects # 0, ~edit'[x].overtaken,
               over \/ profile'.contact \in {Nothing, profile.contact}
        PROVE  profile'.contact \in {Nothing, edit'[x].saw}
    <2>1. x # e
      BY <1>4 DEF NewEdit
    <2>2. edit'[x] = edit[x] /\ ~over
      BY <1>2, <1>4, <2>1 DEF Editing
    <2> QED
      BY <1>4, <2>2 DEF TInv, ShownStands
  <1> QED
    BY <1>1, <1>2, <1>3, <1>4 DEF ShownStands

\* Each step preserves the invariant.
LEMMA NextTInv == TInv /\ [NextTeam]_tvars => TInv'
  <1> SUFFICES ASSUME TInv, [NextTeam]_tvars PROVE TInv'
    OBVIOUS
  <1>0. /\ TeamTypeOK /\ StampsAreGiven /\ StampTellsContact /\ ShownStands /\ NoRowIsEmpty /\ WrittenIsOnDisk
        /\ ReplacesTheShown /\ ListIsTheList /\ PhotoShown /\ RecordOfMember
    BY DEF TInv
  <1> USE NoProfileIsTyped
  <1>1. CASE RemoveMember
    <2>1. TeamTypeOK'
      BY <1>0, <1>1 DEF RemoveMember, TeamTypeOK
    <2>2. StampsAreGiven' /\ StampTellsContact' /\ ShownStands' /\ NoRowIsEmpty' /\ WrittenIsOnDisk' /\ ReplacesTheShown'
      BY <1>0, <1>1 DEF RemoveMember, TeamTypeOK, NoProfile, StampsAreGiven, StampTellsContact, ShownStands, NoRowIsEmpty, WrittenIsOnDisk, ReplacesTheShown
    <2>3. ListIsTheList' /\ PhotoShown' /\ RecordOfMember'
      BY <1>1 DEF RemoveMember, NoProfile, ListIsTheList, PhotoShown, RecordOfMember
    <2> QED
      BY <2>1, <2>2, <2>3 DEF TInv
  <1>2. CASE RejoinCompany
    <2>1. TeamTypeOK' /\ RecordOfMember'
      BY <1>0, <1>2 DEF RejoinCompany, TeamTypeOK, RecordOfMember
    <2>2. StampsAreGiven' /\ StampTellsContact' /\ ShownStands' /\ NoRowIsEmpty' /\ WrittenIsOnDisk' /\ ReplacesTheShown' /\ ListIsTheList' /\ PhotoShown'
      BY <1>0, <1>2 DEF RejoinCompany, StampsAreGiven, StampTellsContact, ShownStands, NoRowIsEmpty, WrittenIsOnDisk, ReplacesTheShown, ListIsTheList, PhotoShown, Served
    <2> QED
      BY <2>1, <2>2 DEF TInv
  <1>3. ASSUME NEW t \in Trades, CreateProfession(t) PROVE TInv'
    <2>1. TeamTypeOK' /\ RecordOfMember'
      BY <1>0, <1>3 DEF CreateProfession, TeamTypeOK, RecordOfMember, Profiles
    <2>2. StampsAreGiven' /\ StampTellsContact' /\ ShownStands' /\ NoRowIsEmpty' /\ WrittenIsOnDisk' /\ ReplacesTheShown' /\ ListIsTheList' /\ PhotoShown'
      BY <1>0, <1>3 DEF CreateProfession, StampsAreGiven, StampTellsContact, ShownStands, NoRowIsEmpty, WrittenIsOnDisk, ReplacesTheShown, ListIsTheList, PhotoShown, Served
    <2> QED
      BY <2>1, <2>2 DEF TInv
  <1>4. ASSUME NEW t \in Trades, DeleteProfession(t) PROVE TInv'
    <2>1. /\ profile' \in Profiles
          /\ profile'.id = profile.id /\ profile'.stamp = profile.stamp
          /\ profile'.contact = profile.contact /\ profile'.image = profile.image
          /\ profile'.trade = IF profile.trade = t THEN Nothing ELSE profile.trade
      BY <1>0, <1>4 DEF DeleteProfession, TeamTypeOK, Profiles
    <2>2. TeamTypeOK'
      BY <1>0, <1>4, <2>1 DEF DeleteProfession, TeamTypeOK
    <2>3. RecordOfMember'
      <3>1. profile.trade # Nothing => profile.trade \in Trades /\ trades[profile.trade] = "there"
        BY <1>0 DEF TeamTypeOK, Profiles, RecordOfMember
      <3> QED
        BY <1>0, <1>4, <2>1, <3>1 DEF DeleteProfession, TeamTypeOK, RecordOfMember
    <2>4. StampsAreGiven' /\ StampTellsContact' /\ ShownStands' /\ NoRowIsEmpty' /\ WrittenIsOnDisk' /\ ReplacesTheShown' /\ ListIsTheList' /\ PhotoShown'
      BY <1>0, <1>4, <2>1 DEF DeleteProfession, StampsAreGiven, StampTellsContact, ShownStands, NoRowIsEmpty, WrittenIsOnDisk, ReplacesTheShown, ListIsTheList, PhotoShown, Served
    <2> QED
      BY <2>2, <2>3, <2>4 DEF TInv
  <1>5. ASSUME NEW e \in Edits, OpenRecord(e) PROVE TInv'
    <2>1. /\ \A x \in Edits : x # e => edit'[x] = edit[x]
          /\ edit'[e].at = "open" /\ edit'[e].expects = profile.stamp /\ edit'[e].saw = profile.contact
          /\ UNCHANGED <<member, profile, phones, trades, disk, photo, clock, newest, mixed, clobbered>>
      BY <1>0, <1>5 DEF OpenRecord, TeamTypeOK
    <2>2. TeamTypeOK'
      <3>1. edit'[e] \in Editing
        <4>1. edit[e] \in Editing /\ profile.stamp \in Nat /\ profile.contact \in Edits \cup {Nothing} /\ phones \in SUBSET Edits
          BY <1>0 DEF TeamTypeOK, Editing, Profiles
        <4>2. edit'[e] = [edit[e] EXCEPT !.at = "open", !.expects = profile.stamp, !.saw = profile.contact, !.shown = phones]
          BY <1>0, <1>5 DEF OpenRecord, TeamTypeOK
        <4> HIDE DEF Profiles
        <4> QED
          BY <4>1, <4>2 DEF Editing
      <3> QED
        BY <1>0, <1>5, <3>1 DEF OpenRecord, TeamTypeOK, Editing
    <2>3. StampsAreGiven' /\ StampTellsContact' /\ ShownStands' /\ NoRowIsEmpty' /\ ReplacesTheShown'
      BY <1>0, <2>1 DEF StampsAreGiven, StampTellsContact, ShownStands, NoRowIsEmpty, ReplacesTheShown
    <2>4. WrittenIsOnDisk' /\ ListIsTheList' /\ PhotoShown' /\ RecordOfMember'
      BY <1>0, <2>1 DEF WrittenIsOnDisk, ListIsTheList, PhotoShown, Served, RecordOfMember
    <2> QED
      BY <2>2, <2>3, <2>4 DEF TInv
  \* The guard: an updated_at that is still the record's is about what the client was shown.
  <1>6. ASSUME NEW e \in Edits, NEW contact \in BOOLEAN, NEW list \in {"absent", "empty", "one"},
               NEW trade \in Trades \cup {Nothing, "absent"}, Compare(e, contact, list, trade)
        PROVE  TInv'
    <2>1. /\ \A x \in Edits : x # e => edit'[x] = edit[x]
          /\ edit'[e].at = "compared" /\ edit'[e].expects = edit[e].expects /\ edit'[e].saw = edit[e].saw
          /\ UNCHANGED <<member, profile, phones, trades, disk, photo, clock, newest, mixed, clobbered>>
      BY <1>0, <1>6 DEF Compare, TeamTypeOK
    <2>2. TeamTypeOK'
      <3>1. edit'[e] \in Editing
        <4>1. edit[e] \in Editing /\ profile \in Profiles /\ phones \in SUBSET Edits
          BY <1>0 DEF TeamTypeOK, Editing
        <4>2. edit'[e] = [edit[e] EXCEPT !.at = "compared", !.seen = profile, !.rows = phones,
                                         !.contact = contact, !.list = list, !.trade = trade]
          BY <1>0, <1>6 DEF Compare, TeamTypeOK
        <4> QED
          BY <4>1, <4>2 DEF Editing
      <3> QED
        BY <1>0, <1>6, <3>1 DEF Compare, TeamTypeOK, Editing
    <2>3. edit[e].expects # 0 => profile.contact \in {Nothing, edit[e].saw}
      BY <1>0, <1>6 DEF Compare, PassesGuard, StampTellsContact, NoRowIsEmpty
    <2>4. StampsAreGiven' /\ StampTellsContact' /\ ShownStands' /\ NoRowIsEmpty' /\ ReplacesTheShown'
      BY <1>0, <2>1, <2>3 DEF StampsAreGiven, StampTellsContact, ShownStands, NoRowIsEmpty, ReplacesTheShown
    <2>5. WrittenIsOnDisk' /\ ListIsTheList' /\ PhotoShown' /\ RecordOfMember'
      BY <1>0, <2>1 DEF WrittenIsOnDisk, ListIsTheList, PhotoShown, Served, RecordOfMember
    <2> QED
      BY <2>2, <2>4, <2>5 DEF TInv
  <1>14. ASSUME NEW e \in Edits, LoadRecord(e) PROVE TInv'
    <2>1. /\ \A x \in Edits : x # e => edit'[x] = edit[x]
          /\ edit[e].at = "compared" /\ edit'[e].at = "loaded" /\ edit'[e].expects = edit[e].expects
          /\ edit'[e].saw = edit[e].saw /\ edit'[e].overtaken = edit[e].overtaken
          /\ UNCHANGED <<member, profile, phones, trades, disk, photo, clock, newest, mixed, clobbered>>
      BY <1>0, <1>14 DEF LoadRecord, TeamTypeOK
    <2>2. TeamTypeOK'
      <3>1. edit'[e] \in Editing
        <4>1. edit[e] \in Editing /\ profile \in Profiles /\ phones \in SUBSET Edits
          BY <1>0 DEF TeamTypeOK, Editing
        <4>2. \/ edit'[e] = [edit[e] EXCEPT !.at = "loaded"]
              \/ edit'[e] = [edit[e] EXCEPT !.at = "loaded", !.seen = profile, !.rows = phones]
          BY <1>0, <1>14 DEF LoadRecord, TeamTypeOK
        <4> QED
          BY <4>1, <4>2 DEF Editing
      <3> QED
        BY <1>0, <1>14, <3>1 DEF LoadRecord, TeamTypeOK, Editing
    <2>3. StampsAreGiven' /\ StampTellsContact' /\ ShownStands' /\ NoRowIsEmpty' /\ ReplacesTheShown'
      BY <1>0, <2>1 DEF StampsAreGiven, StampTellsContact, ShownStands, NoRowIsEmpty, ReplacesTheShown
    <2>4. WrittenIsOnDisk' /\ ListIsTheList' /\ PhotoShown' /\ RecordOfMember'
      BY <1>0, <2>1 DEF WrittenIsOnDisk, ListIsTheList, PhotoShown, Served, RecordOfMember
    <2> QED
      BY <2>2, <2>3, <2>4 DEF TInv
  <1>7. ASSUME NEW e \in Edits, CommitEdit(e) PROVE TInv'
    <2> DEFINE seen  == edit[e].seen
               base  == IF seen.id = 0 THEN NoProfile ELSE profile
               wrote == seen.id = 0 \/ edit[e].contact \/ Retrades(e)
               list  == IF edit[e].list = "one" THEN {e} ELSE {}
               new   == [base EXCEPT !.contact = IF edit[e].contact THEN e ELSE @,
                                     !.trade = IF Retrades(e) THEN edit[e].trade ELSE @]
    <2>1. /\ seen \in Profiles /\ base \in Profiles /\ edit[e].trade \in Trades \cup {Nothing, "absent"}
          /\ edit[e].rows \subseteq Edits /\ list \subseteq Edits
      BY <1>0 DEF TeamTypeOK
    <2>2. /\ new \in Profiles /\ new.id = base.id /\ new.image = base.image
          /\ ~edit[e].contact => new.contact = base.contact
          /\ new.trade = IF Retrades(e) THEN edit[e].trade ELSE base.trade
      <3> DEFINE c == IF edit[e].contact THEN e ELSE base.contact
                 t == IF Retrades(e) THEN edit[e].trade ELSE base.trade
      <3>1. c \in Edits \cup {Nothing} /\ t \in Trades \cup {Nothing}
        BY <2>1 DEF Profiles, Retrades
      <3>2. new = [base EXCEPT !.contact = c, !.trade = t]
        OBVIOUS
      <3> HIDE DEF base, c, t, new
      <3>3. new \in Profiles /\ new.id = base.id /\ new.image = base.image /\ new.trade = t /\ new.contact = c
        BY <2>1, <3>1, <3>2 DEF Profiles
      <3> QED
        BY <3>3 DEF c, t
    <2>3. /\ wrote \/ list # {} => RowFor(seen)
          /\ Retrades(e) /\ edit[e].trade # Nothing => trades[edit[e].trade] = "there"
          /\ wrote => profile' = Written(seen, new) /\ clock' = clock + 1
          /\ ~wrote => UNCHANGED <<profile, clock>>
          /\ edit[e].list = "absent" => UNCHANGED <<phones, newest, mixed>>
          /\ edit[e].list # "absent" => /\ phones' = (phones \ edit[e].rows) \cup list
                                        /\ newest' = list /\ mixed' = (phones # edit[e].rows)
          /\ edit' = [f \in Edits |->
                        IF f = e THEN [NewEdit EXCEPT !.at = "done"]
                        ELSE IF edit[e].contact /\ edit[f].at \in {"compared", "loaded"}
                             THEN [edit[f] EXCEPT !.overtaken = TRUE] ELSE edit[f]]
          /\ UNCHANGED <<member, trades, disk, photo>>
      BY <1>7 DEF CommitEdit, Replaced
    <2>a. edit[e].contact \in BOOLEAN /\ (edit[e].contact => wrote)
      BY <1>0 DEF TeamTypeOK
    <2>b. base.contact \in {Nothing, profile.contact}
      BY DEF NoProfile
    <2>c. ReplacesTheShown'
      <3>1. Unshown(e) => edit[e].overtaken
        BY <1>0, <1>7 DEF CommitEdit, Unshown, ShownStands
      <3> QED
        BY <1>0, <1>7, <3>1 DEF CommitEdit, ReplacesTheShown
    <2>d. clobbered' \subseteq {"overlapped", "alone"}
      BY <1>0, <1>7 DEF CommitEdit, TeamTypeOK
    <2>4. base.trade # Nothing => base.trade \in Trades /\ trades[base.trade] = "there"
      BY <1>0 DEF NoProfile, TeamTypeOK, Profiles, RecordOfMember
    <2>5. base.image # Nothing => disk[base.image] # Nothing
      BY <1>0 DEF NoProfile, PhotoShown, Served
    <2>6. seen.id # 0 => new.id = profile.id
      BY <2>2
    <2> HIDE DEF seen, base, wrote, list, new
    <2>7. ASSUME wrote
          PROVE  /\ profile' \in Profiles /\ clock' \in Nat /\ profile'.id # 0 /\ member'
                 /\ profile'.id <= clock' /\ profile'.stamp = clock' /\ clock' > clock
                 /\ profile'.trade = new.trade /\ profile'.image = base.image /\ profile'.contact = new.contact
      BY <2>1, <2>2, <2>3, <2>6, <2>7, ProfileWritten
    <2>8. TeamTypeOK'
      <3>1. profile' \in Profiles /\ clock' \in Nat
        BY <1>0, <2>3, <2>7 DEF TeamTypeOK
      <3>2. phones' \subseteq Edits /\ newest' \subseteq Edits /\ mixed' \in BOOLEAN
        BY <1>0, <2>1, <2>3 DEF TeamTypeOK
      <3>3. edit' \in [Edits -> Editing]
        BY <2>3, <2>a, EditEnds
      <3> QED
        BY <1>0, <2>3, <2>d, <3>1, <3>2, <3>3 DEF TeamTypeOK, Editing
    <2>9. StampsAreGiven' /\ StampTellsContact' /\ ShownStands' /\ NoRowIsEmpty'
      <3>0. /\ \A x \in Edits : EditGoesOn(x)
            /\ edit[e].contact \/ profile'.contact \in {Nothing, profile.contact} => ShownStands'
        BY <2>3, <2>a, EditEnds
      <3>1. CASE wrote
        <4>1. StampsAreGiven' /\ StampTellsContact'
          BY <2>7, <3>0, <3>1, NewStamp
        <4>2. ShownStands' /\ NoRowIsEmpty'
          BY <2>2, <2>7, <2>b, <3>0, <3>1 DEF NoRowIsEmpty
        <4> QED
          BY <4>1, <4>2
      <3>2. CASE ~wrote
        BY <1>0, <2>3, <2>a, <3>0, <3>2 DEF StampsAreGiven, StampTellsContact, ShownStands, NoRowIsEmpty, ReplacesTheShown, NewEdit, TeamTypeOK
      <3> QED
        BY <3>1, <3>2
    <2>10. ListIsTheList'
      <3>1. CASE edit[e].list = "absent"
        BY <1>0, <2>3, <3>1 DEF ListIsTheList
      <3>2. CASE edit[e].list # "absent" /\ phones = edit[e].rows
        <4>1. phones' = list /\ newest' = list
          BY <2>3, <3>2
        <4> QED
          BY <4>1 DEF ListIsTheList
      <3>3. CASE edit[e].list # "absent" /\ phones # edit[e].rows
        <4>1. mixed'
          BY <2>3, <3>3, Zenon
        <4>2. newest' \subseteq phones'
          BY <2>3, <3>3
        <4> QED
          BY <4>1, <4>2 DEF ListIsTheList
      <3> QED
        BY <3>1, <3>2, <3>3
    <2>11. WrittenIsOnDisk' /\ PhotoShown'
      BY <1>0, <2>3, <2>5, <2>7 DEF WrittenIsOnDisk, PhotoShown, Served
    <2>12. RecordOfMember'
      <3>1. profile'.id # 0 => member'
        BY <1>0, <2>3, <2>7 DEF RecordOfMember
      <3>2. phones' # {} => profile'.id # 0
        <4>1. CASE wrote
          BY <2>7, <4>1
        <4>2. CASE ~wrote /\ list # {}
          BY <2>3, <4>2 DEF RowFor, wrote
        <4>3. CASE ~wrote /\ list = {}
          BY <1>0, <2>3, <4>3 DEF RecordOfMember
        <4> QED
          BY <4>1, <4>2, <4>3
      <3>3. profile'.trade # Nothing => trades'[profile'.trade] = "there"
        BY <1>0, <2>2, <2>3, <2>4, <2>7 DEF RecordOfMember
      <3> QED
        BY <3>1, <3>2, <3>3 DEF RecordOfMember
    <2> QED
      BY <2>8, <2>9, <2>10, <2>11, <2>12, <2>c DEF TInv
  <1>8. ASSUME NEW e \in Edits, AbortEdit(e) PROVE TInv'
    <2>1. /\ edit' = [f \in Edits |->
                        IF f = e THEN [NewEdit EXCEPT !.at = "done"]
                        ELSE IF FALSE /\ edit[f].at \in {"compared", "loaded"}
                             THEN [edit[f] EXCEPT !.overtaken = TRUE] ELSE edit[f]]
          /\ UNCHANGED <<member, profile, phones, trades, disk, photo, clock, newest, mixed, clobbered>>
      BY <1>0, <1>8 DEF AbortEdit, TeamTypeOK
    <2>e. edit' \in [Edits -> Editing] /\ (\A x \in Edits : EditGoesOn(x)) /\ ShownStands'
      BY <2>1, EditEnds
    <2>2. TeamTypeOK'
      BY <1>0, <2>1, <2>e DEF TeamTypeOK, Editing
    <2>3. StampsAreGiven' /\ StampTellsContact' /\ ShownStands' /\ NoRowIsEmpty' /\ ReplacesTheShown'
      BY <1>0, <2>1, <2>e DEF StampsAreGiven, StampTellsContact, ShownStands, NoRowIsEmpty, ReplacesTheShown, NewEdit, TeamTypeOK
    <2>4. WrittenIsOnDisk' /\ ListIsTheList' /\ PhotoShown' /\ RecordOfMember'
      BY <1>0, <2>1 DEF WrittenIsOnDisk, ListIsTheList, PhotoShown, Served, RecordOfMember
    <2> QED
      BY <2>2, <2>3, <2>4 DEF TInv
  <1>9. ASSUME NEW p \in Photos, NEW x \in Extensions, UploadPhoto(p, x) PROVE TInv'
    <2>1. TeamTypeOK'
      BY <1>0, <1>9 DEF UploadPhoto, TeamTypeOK
    <2>2. \A y \in Extensions : disk[y] # Nothing \/ y = x => disk'[y] # Nothing
      BY <1>0, <1>9, NothingAssumption DEF UploadPhoto, TeamTypeOK
    <2>3. WrittenIsOnDisk'
      BY <1>0, <1>9, <2>2 DEF UploadPhoto, TeamTypeOK, WrittenIsOnDisk
    <2>4. PhotoShown'
      BY <1>0, <1>9, <2>2 DEF UploadPhoto, TeamTypeOK, Profiles, PhotoShown, Served
    <2>5. StampsAreGiven' /\ StampTellsContact' /\ ShownStands' /\ NoRowIsEmpty' /\ ReplacesTheShown' /\ ListIsTheList' /\ RecordOfMember'
      BY <1>0, <1>9 DEF UploadPhoto, StampsAreGiven, StampTellsContact, ShownStands, NoRowIsEmpty, ReplacesTheShown, ListIsTheList, RecordOfMember
    <2> QED
      BY <2>1, <2>3, <2>4, <2>5 DEF TInv
  <1>10. ASSUME NEW p \in Photos, CommitPhoto(p) PROVE TInv'
    <2> DEFINE seen == photo[p].seen
               base == IF seen.id = 0 THEN NoProfile ELSE profile
               new  == [base EXCEPT !.image = photo[p].image]
               same == seen.image = photo[p].image
    <2>1. /\ seen \in Profiles /\ base \in Profiles
          /\ photo[p].image \in Extensions /\ disk[photo[p].image] # Nothing
      BY <1>0, <1>10 DEF CommitPhoto, TeamTypeOK, WrittenIsOnDisk
    <2>2. /\ new \in Profiles /\ new.id = base.id /\ new.image = photo[p].image
          /\ new.trade = base.trade /\ new.contact = base.contact
      BY <2>1 DEF Profiles
    <2>3. /\ same => UNCHANGED <<profile, clock>>
          /\ ~same => RowFor(seen) /\ profile' = Written(seen, new) /\ clock' = clock + 1
          /\ photo' = [photo EXCEPT ![p] = [NewPhoto EXCEPT !.at = "done"]]
          /\ UNCHANGED <<member, phones, trades, disk, edit, newest, mixed, clobbered>>
      BY <1>10 DEF CommitPhoto
    <2>4. base.trade # Nothing => trades[base.trade] = "there"
      BY <1>0 DEF NoProfile, RecordOfMember
    <2>5. seen.id # 0 => new.id = profile.id
      BY <2>2
    <2>a. base.contact \in {Nothing, profile.contact}
      BY DEF NoProfile
    <2> HIDE DEF seen, base, new, same
    <2>6. ASSUME ~same
          PROVE  /\ profile' \in Profiles /\ clock' \in Nat /\ profile'.id # 0 /\ member'
                 /\ profile'.id <= clock' /\ profile'.stamp = clock' /\ clock' > clock
                 /\ profile'.trade = base.trade /\ profile'.image = photo[p].image
                 /\ profile'.contact = base.contact
      BY <2>1, <2>2, <2>3, <2>5, <2>6, ProfileWritten
    <2>7. TeamTypeOK'
      <3>1. [NewPhoto EXCEPT !.at = "done"]
                \in [at : {"new", "written", "done"}, image : Extensions \cup {Nothing}, seen : Profiles]
        BY DEF NewPhoto
      <3> QED
        BY <1>0, <2>3, <2>6, <3>1 DEF TeamTypeOK
    <2>8. StampsAreGiven' /\ StampTellsContact' /\ ShownStands' /\ NoRowIsEmpty' /\ ReplacesTheShown'
      <3>1. CASE ~same
        <4>1. StampsAreGiven' /\ StampTellsContact'
          BY <2>3, <2>6, <3>1, NewStamp DEF EditGoesOn
        <4>2. ShownStands' /\ NoRowIsEmpty' /\ ReplacesTheShown'
          BY <1>0, <2>3, <2>6, <2>a, <3>1 DEF ShownStands, NoRowIsEmpty, ReplacesTheShown
        <4> QED
          BY <4>1, <4>2
      <3>2. CASE same
        BY <1>0, <2>3, <3>2 DEF StampsAreGiven, StampTellsContact, ShownStands, NoRowIsEmpty, ReplacesTheShown
      <3> QED
        BY <3>1, <3>2
    <2>9. WrittenIsOnDisk'
      <3>1. \A q \in Photos : photo'[q].at = "written" => photo'[q] = photo[q]
        BY <1>0, <2>3 DEF TeamTypeOK, NewPhoto
      <3> QED
        BY <1>0, <2>3, <3>1 DEF WrittenIsOnDisk
    <2>10. PhotoShown' /\ ListIsTheList' /\ RecordOfMember'
      BY <1>0, <2>1, <2>3, <2>4, <2>6 DEF PhotoShown, Served, ListIsTheList, RecordOfMember
    <2> QED
      BY <2>7, <2>8, <2>9, <2>10 DEF TInv
  <1>11. ASSUME NEW p \in Photos, AbortPhoto(p) PROVE TInv'
    <2>1. [NewPhoto EXCEPT !.at = "done"]
              \in [at : {"new", "written", "done"}, image : Extensions \cup {Nothing}, seen : Profiles]
      BY DEF NewPhoto
    <2>2. TeamTypeOK'
      BY <1>0, <1>11, <2>1 DEF AbortPhoto, TeamTypeOK
    <2>3. \A q \in Photos : photo'[q].at = "written" => photo'[q] = photo[q]
      BY <1>0, <1>11 DEF AbortPhoto, TeamTypeOK, NewPhoto
    <2>4. WrittenIsOnDisk'
      BY <1>0, <1>11, <2>3 DEF AbortPhoto, WrittenIsOnDisk
    <2>5. StampsAreGiven' /\ StampTellsContact' /\ ShownStands' /\ NoRowIsEmpty' /\ ReplacesTheShown' /\ ListIsTheList' /\ PhotoShown' /\ RecordOfMember'
      BY <1>0, <1>11 DEF AbortPhoto, StampsAreGiven, StampTellsContact, ShownStands, NoRowIsEmpty, ReplacesTheShown, ListIsTheList, PhotoShown, Served, RecordOfMember
    <2> QED
      BY <2>2, <2>4, <2>5 DEF TInv
  <1>12. CASE UNCHANGED tvars
    <2>1. TeamTypeOK'
      BY <1>0, <1>12 DEF tvars, TeamTypeOK
    <2>2. StampsAreGiven' /\ StampTellsContact' /\ ShownStands' /\ NoRowIsEmpty' /\ WrittenIsOnDisk' /\ ReplacesTheShown' /\ ListIsTheList' /\ PhotoShown' /\ RecordOfMember'
      BY <1>0, <1>12 DEF tvars, StampsAreGiven, StampTellsContact, ShownStands, NoRowIsEmpty, WrittenIsOnDisk, ReplacesTheShown, ListIsTheList, PhotoShown, Served, RecordOfMember
    <2> QED
      BY <2>1, <2>2 DEF TInv
  <1>13. ASSUME NEW e \in Edits, NEW contact \in BOOLEAN, NEW list \in {"absent", "empty", "one"},
                \/ UpdateMyProfile(e, contact, list)
                \/ \E trade \in Trades \cup {Nothing, "absent"} : UpdateTeamMember(e, contact, list, trade)
         PROVE  TInv'
    BY <1>6, <1>13 DEF UpdateMyProfile, UpdateTeamMember
  <1> QED
    BY <1>1, <1>2, <1>3, <1>4, <1>5, <1>7, <1>8, <1>9, <1>10, <1>11, <1>12, <1>13, <1>14 DEF NextTeam

\* Whatever edits, photos, removals and deletions of professions overlap, a save that sends updated_at
\* replaces no contact data its client never saw, unless another save committed it after the comparison;
\* the last list of phones stands, an announced photo can be shown, and no record outlives its member.
THEOREM DirectoryIsSound == TeamSpec => []DirectoryHolds
  <1>1. TInv => DirectoryHolds
    BY DEF TInv, DirectoryHolds
  <1> QED
    BY <1>1, InitTInv, NextTInv, PTL DEF TeamSpec
-----------------------------------------------------------------------------
(***************************************************************************)
(* Subscriptions: one trial, an override that stands, a row that mirrors   *)
(* Stripe.                                                                 *)
(***************************************************************************)

\* The one trial is the one the key remembers; who has paid has that one, and a tenant, too.
TrialsInOrder ==
    /\ trials.made = trials.keyed /\ trials.keyed \in {0, 1}
    /\ \A r \in Requests : Doing(r, "register", "paid") => req[r].trial = trials.keyed /\ req[r].trial # 0
    /\ Registered => row.trial = trials.keyed

\* A request is at a step of its kind; before the registration there is nothing to load.
TasksInOrder ==
    /\ ~Registered => row = NoRow
    /\ \A r \in Requests :
          /\ req[r].kind \in {"webhook", "console"} => req[r].pc = "loaded"
          /\ req[r].kind = "console" => Registered /\ console # 0
          /\ req[r].kind = "webhook" /\ ~Registered => req[r].was.trial = 0

\* As long as no console request has met another request, what it and the webhooks have loaded of
\* the override is still so, and the status that it covers is the operator's.
OverrideInOrder ==
    "console" \notin overlapped =>
        /\ row.override => row.status = decided
        /\ \A r \in Requests : req[r].kind = "console" =>
              /\ req[r].was.status = row.status /\ req[r].was.override = row.override
              /\ \A d \in Requests \ {r} : req[d].kind \notin {"webhook", "console"}
        /\ \A r \in Requests : req[r].kind = "webhook" => req[r].was.override = row.override

\* As long as the events come in order, the row has the status of the latest one applied; Stripe
\* still holds its latest event unless it is that one; and one webhook at most is at work, on an
\* event that is not older and on the row as it is.
EventsInOrder ==
    /\ \A e \in events : e.n <= stripe.last /\ NewStatus(e) = e.status
    /\ \A e, f \in events : e.n = f.n => e = f
    /\ applied <= stripe.last /\ \A r \in Requests : req[r].kind = "webhook" => req[r].event.n <= stripe.last
    /\ console = 0 => ~row.override
    /\ "webhooks" \notin overlapped =>
          /\ \A e \in events : e.n = stripe.last => e.status = stripe.status
          /\ applied < stripe.last => \E e \in events : e.n = stripe.last
          /\ \A r \in Requests : req[r].kind = "webhook" =>
                /\ req[r].event \in events /\ applied <= req[r].event.n
                /\ Registered /\ req[r].was.trial # 0
                /\ \A d \in Requests \ {r} : req[d].kind # "webhook"
                /\ console = 0 => req[r].was.status = row.status /\ ~req[r].was.override
          /\ console = 0 =>
                /\ \A e \in events : e.n = applied => e.status = row.status
                /\ applied = stripe.last => row.status = stripe.status

\* What every request, event and night preserves.
SInv == SubscriptionsTypeOK /\ TrialsInOrder /\ TasksInOrder /\ OverrideInOrder /\ EventsInOrder

LEMMA LeastAllowance ==
    (CHOOSE a \in Allowances : \A b \in Allowances : a <= b) \in Allowances
  <1>1. PICK a \in Allowances : \A b \in Allowances : ~(<<b, a>> \in OpToRel(<, Nat))
    BY AllowanceAssumption, NatLessThanWellFounded, WFMin
  <1>2. \A b \in Allowances : a \in Nat /\ b \in Nat
    BY AllowanceAssumption
  <1>3. \A b \in Allowances : ~(b < a)
    BY <1>1, <1>2, Zenon DEF OpToRel
  <1>4. \A b \in Allowances : a <= b
    BY <1>2, <1>3
  <1> QED
    BY <1>4

TrialTypes == [made : 0 .. MaxTrials, keyed : 0 .. MaxTrials, items : SUBSET (1 .. MaxTrials)]

LEMMA NoRequestIsTyped ==
    /\ NoRow \in RowTypes /\ Idle \in Asked /\ NoRow.trial = 0 /\ ~NoRow.override /\ NoRow.status = "trialing"
    /\ Idle.kind = "none" /\ Idle.pc = "idle" /\ Idle.trial = 0
  <1>1. NoRow \in RowTypes
    BY BoundAssumption DEF NoRow, RowTypes, Statuses
  <1>2. NoEvent \in EventFacts \cup {NoEvent}
    OBVIOUS
  <1>3. Idle \in Asked
    BY <1>1, <1>2, BoundAssumption DEF Idle, Asked
  <1> QED
    BY <1>1, <1>3 DEF NoRow, Idle

LEMMA InitSInv == InitSubscriptions => SInv
  <1> SUFFICES ASSUME InitSubscriptions PROVE SInv
    OBVIOUS
  <1> USE DEF InitSubscriptions
  <1>1. SubscriptionsTypeOK
    <2>1. req \in [Requests -> Asked] /\ row \in RowTypes
      BY NoRequestIsTyped
    <2> QED
      BY <2>1, BoundAssumption DEF SubscriptionsTypeOK, Statuses
  <1>2. \A r \in Requests : req[r].kind = "none"
    BY NoRequestIsTyped
  <1>3. TrialsInOrder /\ TasksInOrder /\ OverrideInOrder
    BY <1>2, NoRequestIsTyped DEF TrialsInOrder, TasksInOrder, OverrideInOrder, Doing, Registered
  <1>4. EventsInOrder
    BY <1>2, NoRequestIsTyped DEF EventsInOrder
  <1> QED
    BY <1>1, <1>3, <1>4 DEF SInv

\* What a step does to the requests: at most one of them is another one afterwards, and if so it
\* has begun, gone on or ended.
Untouched(r) == \A d \in Requests \ {r} : req'[d] = req[d]

LEMMA Went ==
    ASSUME SubscriptionsTypeOK, NEW r \in Requests, NEW x \in Asked, Go(r, x)
    PROVE  req' \in [Requests -> Asked] /\ req'[r] = x /\ Untouched(r)
  BY DEF Go, Untouched, SubscriptionsTypeOK

LEMMA Ended ==
    ASSUME SubscriptionsTypeOK, NEW r \in Requests, Ends(r)
    PROVE  req' \in [Requests -> Asked] /\ req'[r] = Idle /\ Untouched(r)
  BY NoRequestIsTyped, Went DEF Ends

LEMMA TypesNext == SInv /\ [NextSubscriptions]_svars => SubscriptionsTypeOK'
  <1> SUFFICES ASSUME SInv, [NextSubscriptions]_svars PROVE SubscriptionsTypeOK'
    OBVIOUS
  <1>1. SubscriptionsTypeOK
    BY DEF SInv
  <1>2. ASSUME NEW r \in Requests, Register(r) PROVE SubscriptionsTypeOK'
    <2>1. [Idle EXCEPT !.kind = "register", !.pc = "checked"] \in Asked
      BY NoRequestIsTyped DEF Asked
    <2>2. req' \in [Requests -> Asked]
      BY <1>1, <1>2, <2>1, Went DEF Register
    <2> QED
      BY <1>1, <1>2, <2>2 DEF Register, SubscriptionsTypeOK, external, history
  <1>3. ASSUME NEW r \in Requests, CreateTrial(r) PROVE SubscriptionsTypeOK'
    <2>1. req[r] \in Asked /\ trials \in TrialTypes
      BY <1>1 DEF SubscriptionsTypeOK, TrialTypes
    <2>2. CASE Remembered # 0
      <3>1. [req[r] EXCEPT !.pc = "paid", !.trial = Remembered] \in Asked
        BY <2>1 DEF Asked, Remembered, TrialTypes
      <3>2. req' \in [Requests -> Asked]
        BY <1>1, <1>3, <2>2, <3>1, Went DEF CreateTrial
      <3> QED
        BY <1>1, <1>3, <2>2, <3>2 DEF CreateTrial, SubscriptionsTypeOK, history
    <2>3. CASE Remembered = 0
      <3>1. trials.made + 1 \in 1 .. MaxTrials /\ trials.made + 1 \in 0 .. MaxTrials
        BY <1>3, <2>1, <2>3, BoundAssumption DEF CreateTrial, TrialTypes
      <3>2. [req[r] EXCEPT !.pc = "paid", !.trial = trials.made + 1] \in Asked
        BY <2>1, <3>1 DEF Asked
      <3>3. req' \in [Requests -> Asked]
        BY <1>1, <1>3, <2>3, <3>2, Went DEF CreateTrial
      <3>4. trials' \in TrialTypes
        BY <1>3, <2>1, <2>3, <3>1 DEF CreateTrial, TrialTypes
      <3> QED
        BY <1>1, <1>3, <2>3, <3>3, <3>4 DEF CreateTrial, SubscriptionsTypeOK, TrialTypes, history
    <2> QED
      BY <2>2, <2>3
  <1>4. ASSUME NEW r \in Requests, CommitTenant(r) PROVE SubscriptionsTypeOK'
    <2>1. req[r] \in Asked /\ row \in RowTypes
      BY <1>1 DEF SubscriptionsTypeOK
    <2>2. req[r].trial \in 0 .. MaxTrials /\ InitialStatus \in Statuses
      BY <2>1 DEF Asked, InitialStatus, Statuses
    <2>3. row' \in RowTypes
      BY <1>4, <2>1, <2>2, NoRequestIsTyped, LeastAllowance DEF CommitTenant, RowTypes
    <2>4. req' \in [Requests -> Asked]
      BY <1>1, <1>4, Ended DEF CommitTenant
    <2> QED
      BY <1>1, <1>4, <2>3, <2>4 DEF CommitTenant, SubscriptionsTypeOK, external, history
  <1>5. ASSUME NEW r \in Requests, Deliver(r) PROVE SubscriptionsTypeOK'
    <2>1. PICK e \in events :
              /\ Go(r, [Idle EXCEPT !.kind = "webhook", !.pc = "loaded", !.event = e, !.was = row])
              /\ overlapped' \subseteq overlapped \cup {"webhooks", "console"}
      BY <1>5 DEF Deliver
    <2>2. [Idle EXCEPT !.kind = "webhook", !.pc = "loaded", !.event = e, !.was = row] \in Asked
      BY <1>1, NoRequestIsTyped DEF Asked, SubscriptionsTypeOK
    <2>3. req' \in [Requests -> Asked]
      BY <1>1, <2>1, <2>2, Went
    <2> QED
      BY <1>1, <1>5, <2>1, <2>3 DEF Deliver, SubscriptionsTypeOK, external
  <1>6. ASSUME NEW r \in Requests, Acknowledge(r) PROVE SubscriptionsTypeOK'
    <2>1. req[r] \in Asked /\ row \in RowTypes
      BY <1>1 DEF SubscriptionsTypeOK
    <2>2. req[r].event \in EventFacts \cup {NoEvent} /\ req[r].event.n \in 0 .. MaxEvents
          /\ req[r].event.status \in Statuses /\ NewStatus(req[r].event) \in Statuses
      BY <2>1, BoundAssumption DEF Asked, EventFacts, NoEvent, NewStatus, Statuses, EventTypes
    <2>3. Synced(r) \in RowTypes
      BY <2>1, <2>2 DEF Synced, RowTypes
    <2>4. req' \in [Requests -> Asked]
      BY <1>1, <1>6, Ended DEF Acknowledge
    <2>5. faults' \in 0 .. MaxFaults /\ events' \subseteq EventFacts
      BY <1>1, <1>6, BoundAssumption DEF Acknowledge, SubscriptionsTypeOK
    <2> QED
      BY <1>1, <1>6, <2>2, <2>3, <2>4, <2>5 DEF Acknowledge, SubscriptionsTypeOK
  <1>7. ASSUME NEW r \in Requests, LoadSubscription(r) PROVE SubscriptionsTypeOK'
    <2>1. PICK status \in {"none", "active", "canceled"}, included \in Allowances, clear \in BOOLEAN :
              Go(r, [Idle EXCEPT !.kind = "console", !.pc = "loaded", !.was = row, !.status = status,
                                 !.included = included, !.clear = clear])
      BY <1>7 DEF LoadSubscription
    <2>2. [Idle EXCEPT !.kind = "console", !.pc = "loaded", !.was = row, !.status = status,
                       !.included = included, !.clear = clear] \in Asked
      BY <1>1, NoRequestIsTyped DEF Asked, SubscriptionsTypeOK, Statuses
    <2>3. req' \in [Requests -> Asked]
      BY <1>1, <2>1, <2>2, Went
    <2>4. console' \in 0 .. MaxConsole
      BY <1>1, <1>7, BoundAssumption DEF LoadSubscription, SubscriptionsTypeOK
    <2> QED
      BY <1>1, <1>7, <2>3, <2>4 DEF LoadSubscription, SubscriptionsTypeOK, external
  <1>8. ASSUME NEW r \in Requests, CommitSubscription(r) PROVE SubscriptionsTypeOK'
    <2>1. req[r] \in Asked /\ row \in RowTypes
      BY <1>1 DEF SubscriptionsTypeOK
    <2>2. /\ req[r].status \in Statuses \cup {"none"} /\ req[r].included \in Allowances \cup {0}
          /\ req[r].was.override \in BOOLEAN /\ req[r].clear \in BOOLEAN
      BY <2>1 DEF Asked, RowTypes
    <2>3. row' \in RowTypes
      <3> DEFINE x == req[r]
                 chosen == IF x.clear THEN FALSE ELSE x.was.override \/ x.status # "none"
                 s == IF x.status # "none" /\ x.status # x.was.status THEN x.status ELSE row.status
                 o == IF chosen # x.was.override THEN chosen ELSE row.override
                 i == IF x.included # x.was.included THEN x.included ELSE row.included
      <3>1. s \in Statuses /\ i \in Allowances \cup {0}
        BY <2>1, <2>2 DEF RowTypes
      <3>2. o \in BOOLEAN
        <4>1. chosen \in BOOLEAN /\ row.override \in BOOLEAN
          BY <2>1, <2>2 DEF RowTypes
        <4> HIDE DEF chosen
        <4> QED
          BY <4>1
      <3>3. row' = [row EXCEPT !.status = s, !.override = o, !.included = i]
        BY <1>8 DEF CommitSubscription
      <3> HIDE DEF s, o, i, chosen, x
      <3>4. ASSUME NEW a \in Statuses, NEW b \in BOOLEAN, NEW c \in Allowances \cup {0}
            PROVE  [row EXCEPT !.status = a, !.override = b, !.included = c] \in RowTypes
        BY <2>1 DEF RowTypes
      <3> QED
        BY <3>1, <3>2, <3>3, <3>4
    <2>4. req' \in [Requests -> Asked]
      BY <1>1, <1>8, Ended DEF CommitSubscription
    <2> QED
      BY <1>1, <1>8, <2>2, <2>3, <2>4 DEF CommitSubscription, SubscriptionsTypeOK, external
  <1>9. ASSUME NEW r \in Requests, RequestFails(r) PROVE SubscriptionsTypeOK'
    <2>1. req' \in [Requests -> Asked]
      BY <1>1, <1>9, Ended DEF RequestFails
    <2>2. faults' \in 0 .. MaxFaults
      BY <1>1, <1>9, BoundAssumption DEF RequestFails, Fault, SubscriptionsTypeOK
    <2> QED
      BY <1>1, <1>9, <2>1, <2>2 DEF RequestFails, SubscriptionsTypeOK, external, history
  <1>16. ASSUME NEW r \in Requests, TrialRefused(r) PROVE SubscriptionsTypeOK'
    <2>1. req' \in [Requests -> Asked]
      BY <1>1, <1>16, Ended DEF TrialRefused
    <2> QED
      BY <1>1, <1>16, <2>1 DEF TrialRefused, SubscriptionsTypeOK, external, history
  <1>17. CASE ConfigurePrice
    BY <1>1, <1>17 DEF ConfigurePrice, SubscriptionsTypeOK, external, history
  <1>10. CASE StartScan
    BY <1>1, <1>10 DEF StartScan, SubscriptionsTypeOK, RowTypes, external, history
  <1>11. CASE ReportSeatUsage
    <2>1. Overage(seats, report.included) \in 0 .. MaxSeats
      <3>1. report.included \in Nat /\ seats \in 1 .. MaxSeats /\ MaxSeats \in Nat
        <4>1. report.included \in Allowances \cup {0} /\ seats \in 1 .. MaxSeats
          BY <1>1 DEF SubscriptionsTypeOK
        <4>2. MaxSeats \in Nat
          BY BoundAssumption
        <4>3. \A a \in Allowances \cup {0} : a \in Nat
          BY AllowanceAssumption
        <4> QED
          BY <4>1, <4>2, <4>3
      <3> QED
        BY <3>1 DEF Overage
    <2> QED
      BY <1>1, <1>11, <2>1 DEF ReportSeatUsage, SubscriptionsTypeOK, history
  <1>12. CASE ReportFails
    BY <1>1, <1>12 DEF ReportFails, SubscriptionsTypeOK, external, history
  <1>13. CASE SeatsChange
    BY <1>1, <1>13 DEF SeatsChange, SubscriptionsTypeOK, external, history
  <1>14. CASE StripeChanges
    <2>1. PICK type \in EventTypes, status \in Statuses :
              /\ stripe' = [status |-> status, last |-> stripe.last + 1]
              /\ events' = events \cup {[n |-> stripe.last + 1, type |-> type, status |-> status]}
      BY <1>14 DEF StripeChanges
    <2>2. stripe.last + 1 \in 1 .. MaxEvents
      BY <1>1, <1>14, BoundAssumption DEF StripeChanges, SubscriptionsTypeOK
    <2> QED
      BY <1>1, <1>14, <2>1, <2>2 DEF StripeChanges, SubscriptionsTypeOK, EventFacts, history
  <1>15. CASE UNCHANGED svars
    BY <1>1, <1>15 DEF svars, SubscriptionsTypeOK, external, history
  <1> QED
    BY <1>2, <1>3, <1>4, <1>5, <1>6, <1>7, <1>8, <1>9, <1>10, <1>11, <1>12, <1>13, <1>14, <1>15, <1>16, <1>17
    DEF NextSubscriptions

\* What a step does to the requests: it changes at most one, which begins, goes on or ends.
Begun(r, kind) == req[r] = Idle /\ req'[r].kind = kind /\ req'[r].pc # "paid"
GoneOn(r)      == /\ req[r].kind = "register" /\ req'[r].kind = "register"
                  /\ req'[r].was = req[r].was /\ req'[r].event = req[r].event
Ceased(r)      == req'[r].kind = "none" /\ req'[r].pc = "idle"

LEMMA RegisterIs ==
    ASSUME SubscriptionsTypeOK, NEW r \in Requests, Register(r)
    PROVE  Untouched(r) /\ Begun(r, "register") /\ req'[r].pc = "checked" /\ ~Registered
  <1>1. [Idle EXCEPT !.kind = "register", !.pc = "checked"] \in Asked
    BY NoRequestIsTyped DEF Asked
  <1>2. req'[r] = [Idle EXCEPT !.kind = "register", !.pc = "checked"] /\ Untouched(r)
    BY <1>1, Went DEF Register
  <1> QED
    BY <1>2, NoRequestIsTyped DEF Register, Begun, Asked

LEMMA CreateTrialIs ==
    ASSUME SubscriptionsTypeOK, TrialsInOrder, NEW r \in Requests, CreateTrial(r)
    PROVE  /\ Untouched(r) /\ GoneOn(r) /\ req'[r].trial = 1
           /\ trials'.made = 1 /\ trials'.keyed = 1 /\ (trials.keyed = 0 \/ trials' = trials)
  <1>1. req[r] \in Asked /\ req[r].kind = "register" /\ trials \in TrialTypes
    BY DEF SubscriptionsTypeOK, TrialTypes, CreateTrial, Doing
  <1>2. CASE Remembered # 0
    <2>1. [req[r] EXCEPT !.pc = "paid", !.trial = Remembered] \in Asked
      BY <1>1 DEF Asked, Remembered, TrialTypes
    <2>2. req'[r] = [req[r] EXCEPT !.pc = "paid", !.trial = Remembered] /\ Untouched(r)
      BY <1>2, <2>1, Went DEF CreateTrial
    <2>3. trials' = trials /\ trials.keyed = 1 /\ trials.made = 1
      BY <1>2 DEF CreateTrial, TrialsInOrder, Remembered
    <2> QED
      BY <1>1, <2>2, <2>3 DEF GoneOn, Asked, Remembered
  <1>3. CASE Remembered = 0
    <2>1. trials.keyed = 0 /\ trials.made = 0 /\ 0 + 1 = 1
      BY <1>3 DEF TrialsInOrder, Remembered
    <2>2. 1 \in 0 .. MaxTrials
      BY BoundAssumption
    <2>3. [req[r] EXCEPT !.pc = "paid", !.trial = 1] \in Asked
      BY <1>1, <2>2 DEF Asked
    <2>4. Go(r, [req[r] EXCEPT !.pc = "paid", !.trial = 1]) /\ trials'.made = 1 /\ trials'.keyed = 1
      BY <1>3, <2>1 DEF CreateTrial
    <2>5. req'[r] = [req[r] EXCEPT !.pc = "paid", !.trial = 1] /\ Untouched(r)
      BY <2>3, <2>4, Went
    <2> QED
      BY <1>1, <2>1, <2>4, <2>5 DEF GoneOn, Asked
  <1> QED
    BY <1>2, <1>3

LEMMA CommitTenantIs ==
    ASSUME SubscriptionsTypeOK, NEW r \in Requests, CommitTenant(r)
    PROVE  /\ Untouched(r) /\ Ceased(r)
           /\ IF Registered THEN row' = row
              ELSE row'.trial = req[r].trial /\ row'.status = "trialing" /\ ~row'.override
  <1>1. Untouched(r) /\ Ceased(r)
    BY Ended, NoRequestIsTyped DEF CommitTenant, Ceased
  <1> QED
    BY <1>1, NoRequestIsTyped DEF CommitTenant, InitialStatus, RowTypes

LEMMA DeliverIs ==
    ASSUME SubscriptionsTypeOK, NEW r \in Requests, Deliver(r)
    PROVE  /\ Untouched(r) /\ Begun(r, "webhook") /\ req'[r].pc = "loaded"
           /\ req'[r].was = row /\ req'[r].event \in events
           /\ overlapped \subseteq overlapped'
           /\ "webhooks" \notin overlapped' =>
                 ~Others(r, {"webhook"}) /\ req'[r].event.n >= applied /\ Registered
           /\ "console" \notin overlapped' => ~Others(r, {"console"})
  <1>1. PICK e \in events :
            /\ Go(r, [Idle EXCEPT !.kind = "webhook", !.pc = "loaded", !.event = e, !.was = row])
            /\ overlapped' = overlapped
                \cup (IF Others(r, {"webhook"}) \/ e.n < applied \/ ~Registered THEN {"webhooks"} ELSE {})
                \cup (IF Others(r, {"console"}) THEN {"console"} ELSE {})
    BY DEF Deliver
  <1>2. [Idle EXCEPT !.kind = "webhook", !.pc = "loaded", !.event = e, !.was = row] \in Asked
    BY NoRequestIsTyped DEF Asked, SubscriptionsTypeOK
  <1>3. req'[r] = [Idle EXCEPT !.kind = "webhook", !.pc = "loaded", !.event = e, !.was = row] /\ Untouched(r)
    BY <1>1, <1>2, Went
  <1>4. Begun(r, "webhook") /\ req'[r].pc = "loaded" /\ req'[r].was = row /\ req'[r].event = e
    BY <1>3, NoRequestIsTyped DEF Begun, Deliver, Asked
  <1>5. e.n \in Int /\ applied \in Int
    BY DEF SubscriptionsTypeOK, EventFacts
  <1>6. /\ overlapped \subseteq overlapped'
        /\ "webhooks" \notin overlapped' => ~Others(r, {"webhook"}) /\ e.n >= applied /\ Registered
        /\ "console" \notin overlapped' => ~Others(r, {"console"})
    <2> HIDE DEF Others, Registered
    <2> QED
      BY <1>1, <1>5
  <1> QED
    BY <1>3, <1>4, <1>6

LEMMA AcknowledgeIs ==
    ASSUME SubscriptionsTypeOK, NEW r \in Requests, Acknowledge(r)
    PROVE  /\ Untouched(r) /\ Ceased(r) /\ req[r].kind = "webhook"
           /\ row'.trial = row.trial /\ row'.override = row.override
           /\ req[r].was.trial = 0 => row' = row
           /\ row'.status # row.status =>
                 ~req[r].was.override /\ row'.status = NewStatus(req[r].event)
           /\ req[r].was.trial # 0 /\ ~req[r].was.override =>
                 row'.status = IF req[r].was.status = NewStatus(req[r].event) THEN row.status
                               ELSE NewStatus(req[r].event)
  <1>1. Untouched(r) /\ Ceased(r) /\ req[r].kind = "webhook"
    BY Ended, NoRequestIsTyped DEF Acknowledge, Ceased, Doing
  <1>2. row \in RowTypes
    BY DEF SubscriptionsTypeOK
  <1>3. /\ Synced(r).trial = row.trial /\ Synced(r).override = row.override
        /\ Synced(r).status = IF Overruled(req[r].was) \/ req[r].was.status = NewStatus(req[r].event)
                              THEN row.status ELSE NewStatus(req[r].event)
    BY <1>2 DEF Synced, RowTypes
  <1>4. row' = IF req[r].was.trial = 0 THEN row ELSE Synced(r)
    BY DEF Acknowledge
  <1> QED
    BY <1>1, <1>3, <1>4 DEF Overruled

LEMMA LoadSubscriptionIs ==
    ASSUME SubscriptionsTypeOK, NEW r \in Requests, LoadSubscription(r)
    PROVE  /\ Untouched(r) /\ Begun(r, "console") /\ req'[r].pc = "loaded" /\ req'[r].was = row
           /\ Registered /\ console' # 0
           /\ overlapped \subseteq overlapped'
           /\ "console" \notin overlapped' => ~Others(r, {"webhook", "console"})
           /\ "webhooks" \in overlapped' => "webhooks" \in overlapped
  <1>1. PICK status \in {"none", "active", "canceled"}, included \in Allowances, clear \in BOOLEAN :
            Go(r, [Idle EXCEPT !.kind = "console", !.pc = "loaded", !.was = row, !.status = status,
                               !.included = included, !.clear = clear])
    BY DEF LoadSubscription
  <1>2. [Idle EXCEPT !.kind = "console", !.pc = "loaded", !.was = row, !.status = status,
                     !.included = included, !.clear = clear] \in Asked
    BY NoRequestIsTyped DEF Asked, SubscriptionsTypeOK, Statuses
  <1>3. req'[r] = [Idle EXCEPT !.kind = "console", !.pc = "loaded", !.was = row, !.status = status,
                               !.included = included, !.clear = clear] /\ Untouched(r)
    BY <1>1, <1>2, Went
  <1>4. Begun(r, "console") /\ req'[r].pc = "loaded" /\ req'[r].was = row
    BY <1>3, NoRequestIsTyped DEF Begun, LoadSubscription, Asked
  <1>5. console' # 0
    BY DEF LoadSubscription, SubscriptionsTypeOK
  <1>6. /\ overlapped \subseteq overlapped'
        /\ "console" \notin overlapped' => ~Others(r, {"webhook", "console"})
        /\ "webhooks" \in overlapped' => "webhooks" \in overlapped
    <2> HIDE DEF Others
    <2> QED
      BY DEF LoadSubscription
  <1> QED
    BY <1>3, <1>4, <1>5, <1>6 DEF LoadSubscription

LEMMA CommitSubscriptionIs ==
    ASSUME SubscriptionsTypeOK, NEW r \in Requests, CommitSubscription(r)
    PROVE  /\ Untouched(r) /\ Ceased(r) /\ req[r].kind = "console"
           /\ row'.trial = row.trial
           /\ row.status = req[r].was.status /\ row.override = req[r].was.override
              /\ (row.override => row.status = decided) => (row'.override => row'.status = decided')
  <1> DEFINE x == req[r]
             chosen == IF x.clear THEN FALSE ELSE x.was.override \/ x.status # "none"
  <1>1. Untouched(r) /\ Ceased(r) /\ req[r].kind = "console"
    BY Ended, NoRequestIsTyped DEF CommitSubscription, Ceased, Doing
  <1>2. row \in RowTypes /\ req[r] \in Asked
    BY DEF SubscriptionsTypeOK
  <1>3. /\ row'.trial = row.trial
        /\ row'.status = IF x.status # "none" /\ x.status # x.was.status THEN x.status ELSE row.status
        /\ row'.override = IF chosen # x.was.override THEN chosen ELSE row.override
        /\ decided' = IF x.status # "none" THEN x.status ELSE IF chosen THEN decided ELSE "none"
    BY <1>2 DEF CommitSubscription, RowTypes
  <1>4. ASSUME row.status = x.was.status, row.override = x.was.override, row.override => row.status = decided,
               row'.override
        PROVE  row'.status = decided'
    <2>1. chosen
      BY <1>3, <1>4
    <2>2. CASE x.status # "none"
      BY <1>3, <1>4, <2>2
    <2>3. CASE x.status = "none"
      <3>1. x.was.override
        BY <2>1, <2>3
      <3> QED
        BY <1>3, <1>4, <2>1, <2>3, <3>1
    <2> QED
      BY <2>2, <2>3
  <1> QED
    BY <1>1, <1>3, <1>4

\* What a step that is of no request leaves.
LEMMA NoRequestSteps ==
    ASSUME SubscriptionsTypeOK,
           StartScan \/ ReportSeatUsage \/ ReportFails \/ SeatsChange \/ ConfigurePrice \/ StripeChanges \/ UNCHANGED svars
    PROVE  /\ row' = row /\ req' = req /\ trials' = trials /\ console' = console
           /\ decided' = decided /\ applied' = applied /\ overlapped' = overlapped
  BY DEF StartScan, ReportSeatUsage, ReportFails, SeatsChange, ConfigurePrice, StripeChanges, svars, external, history

LEMMA TrialsNext == SInv /\ [NextSubscriptions]_svars => TrialsInOrder' /\ TasksInOrder'
  <1> SUFFICES ASSUME SInv, [NextSubscriptions]_svars PROVE TrialsInOrder' /\ TasksInOrder'
    OBVIOUS
  <1>1. SubscriptionsTypeOK /\ TrialsInOrder /\ TasksInOrder
    BY DEF SInv
  <1>2. /\ trials.made = trials.keyed /\ trials.keyed \in {0, 1}
        /\ \A d \in Requests : req[d].kind = "register" /\ req[d].pc = "paid" =>
              req[d].trial = trials.keyed /\ req[d].trial # 0
        /\ Registered => row.trial = trials.keyed
        /\ ~Registered => row = NoRow
        /\ \A d \in Requests :
              /\ req[d].kind \in {"webhook", "console"} => req[d].pc = "loaded"
              /\ req[d].kind = "console" => Registered /\ console # 0
              /\ req[d].kind = "webhook" /\ ~Registered => req[d].was.trial = 0
    BY <1>1 DEF TrialsInOrder, TasksInOrder, Doing
  <1>3. ASSUME NEW r \in Requests, Register(r) PROVE TrialsInOrder' /\ TasksInOrder'
    <2>1. Untouched(r) /\ req'[r].kind = "register" /\ req'[r].pc = "checked"
      BY <1>1, <1>3, RegisterIs DEF Begun
    <2>2. row' = row /\ trials' = trials /\ console' = console
      BY <1>3 DEF Register, external
    <2> QED
      BY <1>2, <2>1, <2>2 DEF TrialsInOrder, TasksInOrder, Doing, Untouched, Registered
  <1>4. ASSUME NEW r \in Requests, CreateTrial(r) PROVE TrialsInOrder' /\ TasksInOrder'
    <2>1. /\ Untouched(r) /\ req'[r].trial = 1 /\ req'[r].kind = "register"
          /\ trials'.made = 1 /\ trials'.keyed = 1
          /\ trials.keyed = 0 \/ trials' = trials
      BY <1>1, <1>4, CreateTrialIs DEF GoneOn
    <2>2. row' = row /\ console' = console
      BY <1>4 DEF CreateTrial
    <2>3. trials.keyed = 0 => ~Registered /\ \A d \in Requests : ~(req[d].kind = "register" /\ req[d].pc = "paid")
      BY <1>2 DEF Registered
    <2> QED
      BY <1>2, <2>1, <2>2, <2>3 DEF TrialsInOrder, TasksInOrder, Doing, Untouched, Registered
  <1>5. ASSUME NEW r \in Requests, CommitTenant(r) PROVE TrialsInOrder' /\ TasksInOrder'
    <2>1. /\ Untouched(r) /\ req'[r].kind = "none"
          /\ IF Registered THEN row' = row ELSE row'.trial = req[r].trial
      BY <1>1, <1>5, CommitTenantIs DEF Ceased
    <2>2. trials' = trials /\ console' = console /\ req[r].kind = "register" /\ req[r].pc = "paid"
      BY <1>5 DEF CommitTenant, external, Doing
    <2> QED
      BY <1>2, <2>1, <2>2 DEF TrialsInOrder, TasksInOrder, Doing, Untouched, Registered
  <1>6. ASSUME NEW r \in Requests, Deliver(r) PROVE TrialsInOrder' /\ TasksInOrder'
    <2>1. Untouched(r) /\ req'[r].kind = "webhook" /\ req'[r].pc = "loaded" /\ req'[r].was = row
      BY <1>1, <1>6, DeliverIs DEF Begun
    <2>2. row' = row /\ trials' = trials /\ console' = console
      BY <1>6 DEF Deliver, external
    <2> QED
      BY <1>2, <2>1, <2>2 DEF TrialsInOrder, TasksInOrder, Doing, Untouched, Registered
  <1>7. ASSUME NEW r \in Requests, Acknowledge(r) PROVE TrialsInOrder' /\ TasksInOrder'
    <2>1. Untouched(r) /\ req'[r].kind = "none" /\ row'.trial = row.trial
          /\ (req[r].was.trial = 0 => row' = row)
      BY <1>1, <1>7, AcknowledgeIs DEF Ceased
    <2>2. trials' = trials /\ console' = console
      BY <1>7 DEF Acknowledge
    <2>3. ~Registered => row' = row
      BY <1>1, <1>2, <1>7, <2>1, AcknowledgeIs
    <2> QED
      BY <1>2, <2>1, <2>2, <2>3 DEF TrialsInOrder, TasksInOrder, Doing, Untouched, Registered
  <1>8. ASSUME NEW r \in Requests, LoadSubscription(r) PROVE TrialsInOrder' /\ TasksInOrder'
    <2>1. Untouched(r) /\ req'[r].kind = "console" /\ req'[r].pc = "loaded" /\ Registered /\ console' # 0
      BY <1>1, <1>8, LoadSubscriptionIs DEF Begun
    <2>2. row' = row /\ trials' = trials
      BY <1>8 DEF LoadSubscription, external
    <2> QED
      BY <1>2, <2>1, <2>2 DEF TrialsInOrder, TasksInOrder, Doing, Untouched, Registered
  <1>9. ASSUME NEW r \in Requests, CommitSubscription(r) PROVE TrialsInOrder' /\ TasksInOrder'
    <2>1. Untouched(r) /\ req'[r].kind = "none" /\ req[r].kind = "console" /\ row'.trial = row.trial
      BY <1>1, <1>9, CommitSubscriptionIs DEF Ceased
    <2>2. trials' = trials /\ console' = console
      BY <1>9 DEF CommitSubscription, external
    <2> QED
      BY <1>2, <2>1, <2>2 DEF TrialsInOrder, TasksInOrder, Doing, Untouched, Registered
  <1>10. ASSUME NEW r \in Requests, RequestFails(r) PROVE TrialsInOrder' /\ TasksInOrder'
    <2>1. Untouched(r) /\ req'[r].kind = "none"
      BY <1>1, <1>10, Ended, NoRequestIsTyped DEF RequestFails
    <2>2. row' = row /\ trials' = trials /\ console' = console
      BY <1>10 DEF RequestFails, external
    <2> QED
      BY <1>2, <2>1, <2>2 DEF TrialsInOrder, TasksInOrder, Doing, Untouched, Registered
  <1>12. ASSUME NEW r \in Requests, TrialRefused(r) PROVE TrialsInOrder' /\ TasksInOrder'
    <2>1. Untouched(r) /\ req'[r].kind = "none"
      BY <1>1, <1>12, Ended, NoRequestIsTyped DEF TrialRefused
    <2>2. row' = row /\ trials' = trials /\ console' = console
      BY <1>12 DEF TrialRefused, external
    <2> QED
      BY <1>2, <2>1, <2>2 DEF TrialsInOrder, TasksInOrder, Doing, Untouched, Registered
  <1>11. CASE StartScan \/ ReportSeatUsage \/ ReportFails \/ SeatsChange \/ ConfigurePrice \/ StripeChanges \/ UNCHANGED svars
    BY <1>1, <1>11, NoRequestSteps DEF TrialsInOrder, TasksInOrder, Doing, Registered
  <1> QED
    BY <1>3, <1>4, <1>5, <1>6, <1>7, <1>8, <1>9, <1>10, <1>11, <1>12 DEF NextSubscriptions

LEMMA OverrideNext == SInv /\ [NextSubscriptions]_svars => OverrideInOrder'
  <1> SUFFICES ASSUME SInv, [NextSubscriptions]_svars, "console" \notin overlapped' PROVE OverrideInOrder'
    BY DEF OverrideInOrder
  <1>1. SubscriptionsTypeOK /\ TrialsInOrder /\ TasksInOrder
    BY DEF SInv
  <1> DEFINE Kept == "console" \notin overlapped /\ (row.override => row.status = decided)
             Calm(d) == /\ req[d].was.status = row.status /\ req[d].was.override = row.override
                        /\ \A e \in Requests \ {d} : req[e].kind \notin {"webhook", "console"}
  <1>2. "console" \notin overlapped =>
            /\ Kept
            /\ \A d \in Requests : req[d].kind = "console" => Calm(d)
            /\ \A d \in Requests : req[d].kind = "webhook" => req[d].was.override = row.override
    BY DEF SInv, OverrideInOrder
  <1>3. \* A step that leaves the row, and ends a request or begins a registration.
        ASSUME NEW r \in Requests, Untouched(r), req'[r].kind \in {"none", "register"}, row' = row,
               decided' = decided, overlapped' = overlapped
        PROVE  OverrideInOrder'
    BY <1>2, <1>3 DEF OverrideInOrder, Untouched
  <1>4. ASSUME NEW r \in Requests, Register(r) PROVE OverrideInOrder'
    <2>1. Untouched(r) /\ req'[r].kind = "register"
      BY <1>1, <1>4, RegisterIs DEF Begun
    <2> QED
      BY <1>3, <1>4, <2>1 DEF Register, history
  <1>5. ASSUME NEW r \in Requests, CreateTrial(r) PROVE OverrideInOrder'
    <2>1. Untouched(r) /\ req'[r].kind = "register"
      BY <1>1, <1>5, CreateTrialIs DEF GoneOn
    <2> QED
      BY <1>3, <1>5, <2>1 DEF CreateTrial, history
  <1>6. ASSUME NEW r \in Requests, CommitTenant(r) PROVE OverrideInOrder'
    <2>1. Untouched(r) /\ req'[r].kind = "none" /\ (Registered => row' = row)
          /\ (~Registered => ~row'.override)
      BY <1>1, <1>6, CommitTenantIs DEF Ceased
    <2>2. decided' = decided /\ overlapped' = overlapped
      BY <1>6 DEF CommitTenant, history
    <2>3. CASE Registered
      BY <1>3, <2>1, <2>2, <2>3
    <2>4. CASE ~Registered
      <3>1. row = NoRow /\ ~row.override /\ row.override \in BOOLEAN /\ row'.override \in BOOLEAN
        BY <1>1, <2>4, NoRequestIsTyped, TypesNext DEF TasksInOrder, SInv, SubscriptionsTypeOK, RowTypes
      <3>2. row'.override = row.override
        BY <2>1, <2>4, <3>1
      <3>3. \A d \in Requests : req[d].kind # "console"
        BY <1>1, <2>4 DEF TasksInOrder
      <3> QED
        BY <1>2, <2>1, <2>2, <2>4, <3>2, <3>3 DEF OverrideInOrder, Untouched
    <2> QED
      BY <2>3, <2>4
  <1>7. ASSUME NEW r \in Requests, Deliver(r) PROVE OverrideInOrder'
    <2>1. /\ Untouched(r) /\ req'[r].kind = "webhook" /\ req'[r].was = row
          /\ overlapped \subseteq overlapped' /\ ~Others(r, {"console"})
      BY <1>1, <1>7, DeliverIs DEF Begun
    <2>2. row' = row /\ decided' = decided
      BY <1>7 DEF Deliver
    <2>3. \A d \in Requests \ {r} : req[d].kind # "console"
      BY <2>1 DEF Others
    <2> QED
      BY <1>2, <2>1, <2>2, <2>3 DEF OverrideInOrder, Untouched
  <1>8. ASSUME NEW r \in Requests, Acknowledge(r) PROVE OverrideInOrder'
    <2>1. /\ Untouched(r) /\ req'[r].kind = "none" /\ req[r].kind = "webhook"
          /\ row'.override = row.override
          /\ row'.status # row.status => ~req[r].was.override
      BY <1>1, <1>8, AcknowledgeIs DEF Ceased
    <2>2. decided' = decided /\ overlapped \subseteq overlapped'
      BY <1>8 DEF Acknowledge
    <2>3. \A d \in Requests \ {r} : req[d].kind # "console"
      BY <1>2, <2>1, <2>2
    <2> QED
      BY <1>2, <2>1, <2>2, <2>3 DEF OverrideInOrder, Untouched
  <1>9. ASSUME NEW r \in Requests, LoadSubscription(r) PROVE OverrideInOrder'
    <2>1. /\ Untouched(r) /\ req'[r].kind = "console" /\ req'[r].was = row
          /\ overlapped \subseteq overlapped' /\ ~Others(r, {"webhook", "console"})
      BY <1>1, <1>9, LoadSubscriptionIs DEF Begun
    <2>2. row' = row /\ decided' = decided
      BY <1>9 DEF LoadSubscription
    <2>3. \A d \in Requests \ {r} : req[d].kind \notin {"webhook", "console"}
      BY <2>1 DEF Others
    <2> QED
      BY <1>2, <2>1, <2>2, <2>3 DEF OverrideInOrder, Untouched
  <1>10. ASSUME NEW r \in Requests, CommitSubscription(r) PROVE OverrideInOrder'
    <2>1. /\ Untouched(r) /\ req'[r].kind = "none" /\ req[r].kind = "console"
          /\ row.status = req[r].was.status /\ row.override = req[r].was.override
             /\ (row.override => row.status = decided) => (row'.override => row'.status = decided')
      BY <1>1, <1>10, CommitSubscriptionIs DEF Ceased
    <2>2. overlapped' = overlapped
      BY <1>10 DEF CommitSubscription
    <2>3. \A d \in Requests \ {r} : req[d].kind \notin {"webhook", "console"}
      BY <1>2, <2>1, <2>2
    <2> QED
      BY <1>2, <2>1, <2>2, <2>3 DEF OverrideInOrder, Untouched
  <1>11. ASSUME NEW r \in Requests, RequestFails(r) PROVE OverrideInOrder'
    <2>1. Untouched(r) /\ req'[r].kind = "none"
      BY <1>1, <1>11, Ended, NoRequestIsTyped DEF RequestFails
    <2> QED
      BY <1>3, <1>11, <2>1 DEF RequestFails, history
  <1>13. ASSUME NEW r \in Requests, TrialRefused(r) PROVE OverrideInOrder'
    <2>1. Untouched(r) /\ req'[r].kind = "none"
      BY <1>1, <1>13, Ended, NoRequestIsTyped DEF TrialRefused
    <2> QED
      BY <1>3, <1>13, <2>1 DEF TrialRefused, history
  <1>12. CASE StartScan \/ ReportSeatUsage \/ ReportFails \/ SeatsChange \/ ConfigurePrice \/ StripeChanges \/ UNCHANGED svars
    BY <1>1, <1>2, <1>12, NoRequestSteps DEF OverrideInOrder
  <1> QED
    BY <1>4, <1>5, <1>6, <1>7, <1>8, <1>9, <1>10, <1>11, <1>12, <1>13 DEF NextSubscriptions

\* An event is of the status it brings, and the number of the next one is not taken.
LEMMA NextEvent ==
    ASSUME SubscriptionsTypeOK, StripeChanges
    PROVE  \E e : /\ events' = events \cup {e} /\ e.n = stripe.last + 1 /\ NewStatus(e) = e.status
                  /\ stripe'.last = stripe.last + 1 /\ stripe'.status = e.status
  <1>1. PICK type \in EventTypes, status \in Statuses \ {"trialing"} :
            /\ (type = "deleted") = (status = "canceled")
            /\ type = "payment_failed" => status = "past_due"
            /\ stripe' = [status |-> status, last |-> stripe.last + 1]
            /\ events' = events \cup {[n |-> stripe.last + 1, type |-> type, status |-> status]}
    BY DEF StripeChanges
  <1> DEFINE e == [n |-> stripe.last + 1, type |-> type, status |-> status]
  <1>2. NewStatus(e) = e.status
    BY <1>1 DEF NewStatus, EventTypes
  <1> QED
    BY <1>1, <1>2

LEMMA EventsNext == SInv /\ [NextSubscriptions]_svars => EventsInOrder'
  <1> SUFFICES ASSUME SInv, [NextSubscriptions]_svars PROVE EventsInOrder'
    OBVIOUS
  <1>1. SubscriptionsTypeOK /\ TasksInOrder /\ EventsInOrder
    BY DEF SInv
  <1>2. /\ stripe.last \in Nat /\ applied \in Nat /\ \A e \in events : e.n \in Nat /\ e.n >= 1
        /\ row.override \in BOOLEAN
    BY <1>1 DEF SubscriptionsTypeOK, EventFacts, RowTypes
  <1> DEFINE Ordered(r) ==
                /\ req[r].event \in events /\ applied <= req[r].event.n
                /\ Registered /\ req[r].was.trial # 0
                /\ \A d \in Requests \ {r} : req[d].kind # "webhook"
                /\ console = 0 => req[r].was.status = row.status /\ ~req[r].was.override
  <1>3. /\ \A e \in events : e.n <= stripe.last /\ NewStatus(e) = e.status
        /\ \A e, f \in events : e.n = f.n => e = f
        /\ applied <= stripe.last /\ \A r \in Requests : req[r].kind = "webhook" => req[r].event.n <= stripe.last
        /\ console = 0 => ~row.override
        /\ "webhooks" \notin overlapped =>
              /\ \A e \in events : e.n = stripe.last => e.status = stripe.status
              /\ applied < stripe.last => \E e \in events : e.n = stripe.last
              /\ \A r \in Requests : req[r].kind = "webhook" => Ordered(r)
              /\ console = 0 =>
                    /\ \A e \in events : e.n = applied => e.status = row.status
                    /\ applied = stripe.last => row.status = stripe.status
    BY <1>1 DEF EventsInOrder
  <1>4. \* A step that leaves the row and the events, and ends a request or begins a registration.
        ASSUME NEW r \in Requests, Untouched(r), req'[r].kind \in {"none", "register"}, row' = row,
               events' = events, stripe' = stripe, console' = console, applied' = applied,
               overlapped' = overlapped
        PROVE  EventsInOrder'
    BY <1>3, <1>4 DEF EventsInOrder, Untouched, Registered
  <1>5. ASSUME NEW r \in Requests, Register(r) PROVE EventsInOrder'
    <2>1. Untouched(r) /\ req'[r].kind = "register"
      BY <1>1, <1>5, RegisterIs DEF Begun
    <2> QED
      BY <1>4, <1>5, <2>1 DEF Register, history, external
  <1>6. ASSUME NEW r \in Requests, CreateTrial(r) PROVE EventsInOrder'
    <2>1. Untouched(r) /\ req'[r].kind = "register"
      BY <1>1, <1>6, CreateTrialIs DEF GoneOn, SInv
    <2> QED
      BY <1>4, <1>6, <2>1 DEF CreateTrial, history
  <1>7. ASSUME NEW r \in Requests, CommitTenant(r) PROVE EventsInOrder'
    <2>1. /\ Untouched(r) /\ req'[r].kind = "none"
          /\ IF Registered THEN row' = row ELSE row'.status = "trialing" /\ ~row'.override
      BY <1>1, <1>7, CommitTenantIs DEF Ceased
    <2>2. UNCHANGED <<events, stripe, console, applied, overlapped>>
      BY <1>7 DEF CommitTenant, history, external
    <2>3. CASE Registered
      BY <1>4, <2>1, <2>2, <2>3
    <2>4. CASE ~Registered
      <3>1. row.status = "trialing"
        BY <1>1, <2>4, NoRequestIsTyped DEF TasksInOrder
      <3>2. row'.status = row.status /\ ~row'.override
        BY <2>1, <2>4, <3>1
      <3>3. "webhooks" \notin overlapped => \A d \in Requests : req[d].kind # "webhook"
        BY <1>3, <2>4
      <3> QED
        BY <1>3, <2>1, <2>2, <3>2, <3>3 DEF EventsInOrder, Untouched
    <2> QED
      BY <2>3, <2>4
  <1>8. ASSUME NEW r \in Requests, Deliver(r) PROVE EventsInOrder'
    <2>1. /\ Untouched(r) /\ req'[r].was = row /\ req'[r].event \in events
          /\ overlapped \subseteq overlapped'
          /\ "webhooks" \notin overlapped' =>
                ~Others(r, {"webhook"}) /\ req'[r].event.n >= applied /\ Registered
      BY <1>1, <1>8, DeliverIs
    <2>2. UNCHANGED <<row, events, stripe, console, applied>>
      BY <1>8 DEF Deliver, external
    <2>4. \A d \in Requests : req'[d].kind = "webhook" => req'[d].event.n <= stripe.last
      BY <1>3, <2>1 DEF Untouched
    <2>3. "webhooks" \notin overlapped' =>
             /\ \A d \in Requests \ {r} : req'[d].kind # "webhook"
             /\ req'[r].event.n \in Nat /\ applied <= req'[r].event.n
             /\ row.trial # 0 /\ (console = 0 => ~row.override)
      BY <1>2, <1>3, <2>1 DEF Others, Untouched, Registered
    <2> QED
      BY <1>3, <2>1, <2>2, <2>3, <2>4 DEF EventsInOrder, Registered
  <1>9. ASSUME NEW r \in Requests, Acknowledge(r) PROVE EventsInOrder'
    <2> DEFINE e == req[r].event
    <2>1. /\ Untouched(r) /\ req'[r].kind = "none" /\ req[r].kind = "webhook"
          /\ row'.trial = row.trial /\ row'.override = row.override
          /\ req[r].was.trial # 0 /\ ~req[r].was.override =>
                 row'.status = IF req[r].was.status = NewStatus(e) THEN row.status ELSE NewStatus(e)
      BY <1>1, <1>9, AcknowledgeIs DEF Ceased
    <2>2. /\ UNCHANGED <<stripe, console>>
          /\ applied' = IF e.n > applied THEN e.n ELSE applied
          /\ events' = events \/ events' = events \ {e}
          /\ overlapped \subseteq overlapped'
          /\ "webhooks" \notin overlapped' => \A f \in events : ~(f.n < e.n)
      BY <1>9 DEF Acknowledge
    <2>3. e.n \in Nat /\ e.n <= stripe.last
      <3>1. e \in EventFacts \cup {NoEvent}
        BY <1>1 DEF SubscriptionsTypeOK, Asked
      <3>2. e.n \in Nat
        BY <3>1 DEF EventFacts, NoEvent
      <3> QED
        BY <1>3, <2>1, <3>2
    <2>4. applied' <= stripe.last /\ events' \subseteq events
      BY <1>2, <1>3, <2>2, <2>3
    <2>5. ASSUME "webhooks" \notin overlapped'
          PROVE  /\ \A f \in events' : f.n = stripe.last => f.status = stripe.status
                 /\ applied' < stripe.last => \E f \in events' : f.n = stripe.last
                 /\ \A d \in Requests : req'[d].kind # "webhook"
                 /\ console = 0 =>
                       /\ \A f \in events' : f.n = applied' => f.status = row'.status
                       /\ applied' = stripe.last => row'.status = stripe.status
      <3>1. "webhooks" \notin overlapped /\ \A f \in events : ~(f.n < e.n)
        BY <2>2, <2>5
      <3>2. Ordered(r)
        BY <1>3, <2>1, <3>1
      <3>3. \A d \in Requests : req'[d].kind # "webhook"
        BY <2>1, <3>2 DEF Untouched
      <3>4. applied' = e.n
        BY <1>2, <2>2, <2>3, <3>2
      <3>5. e \in events /\ NewStatus(e) = e.status
        BY <1>3, <3>2
      <3>6. applied' < stripe.last => \E f \in events' : f.n = stripe.last
        <4>1. e.n < stripe.last => applied < stripe.last
          BY <1>2, <2>3, <3>2
        <4>2. e.n < stripe.last => \E f \in events : f.n = stripe.last /\ f # e
          <5>1. e.n < stripe.last => e.n # stripe.last
            BY <1>2, <2>3
          <5> QED
            BY <1>3, <3>1, <4>1, <5>1
        <4> QED
          BY <2>2, <3>4, <4>2
      <3>7. ASSUME console = 0
            PROVE  row'.status = e.status
        BY <2>1, <3>2, <3>5, <3>7
      <3>8. \A f \in events' : f.n = e.n => f = e
        BY <1>3, <2>4, <3>5
      <3> QED
        BY <1>3, <2>4, <3>1, <3>3, <3>4, <3>5, <3>6, <3>7, <3>8
    <2>6. /\ \A f \in events' : f.n <= stripe.last /\ NewStatus(f) = f.status
          /\ \A f, g \in events' : f.n = g.n => f = g
          /\ \A d \in Requests : req'[d].kind = "webhook" => req'[d].event.n <= stripe.last
          /\ console = 0 => ~row'.override
      BY <1>3, <2>1, <2>4 DEF Untouched
    <2> HIDE DEF e
    <2> QED
      BY <2>2, <2>4, <2>5, <2>6 DEF EventsInOrder
  <1>10. ASSUME NEW r \in Requests, LoadSubscription(r) PROVE EventsInOrder'
    <2>1. /\ Untouched(r) /\ req'[r].kind = "console" /\ console' # 0
          /\ "webhooks" \in overlapped' => "webhooks" \in overlapped
          /\ overlapped \subseteq overlapped'
      BY <1>1, <1>10, LoadSubscriptionIs DEF Begun
    <2>2. UNCHANGED <<row, events, stripe, applied>>
      BY <1>10 DEF LoadSubscription, external
    <2>3. \A d \in Requests : req'[d].kind = "webhook" => d # r /\ req'[d] = req[d]
      BY <2>1 DEF Untouched
    <2> QED
      BY <1>3, <2>1, <2>2, <2>3 DEF EventsInOrder, Registered, Untouched
  <1>11. ASSUME NEW r \in Requests, CommitSubscription(r) PROVE EventsInOrder'
    <2>1. Untouched(r) /\ req'[r].kind = "none" /\ req[r].kind = "console" /\ row'.trial = row.trial
      BY <1>1, <1>11, CommitSubscriptionIs DEF Ceased
    <2>2. UNCHANGED <<events, stripe, console, applied, overlapped>>
      BY <1>11 DEF CommitSubscription, external
    <2>3. console # 0
      BY <1>1, <2>1 DEF TasksInOrder
    <2> QED
      BY <1>3, <2>1, <2>2, <2>3 DEF EventsInOrder, Registered, Untouched
  <1>12. ASSUME NEW r \in Requests, RequestFails(r) PROVE EventsInOrder'
    <2>1. Untouched(r) /\ req'[r].kind = "none"
      BY <1>1, <1>12, Ended, NoRequestIsTyped DEF RequestFails
    <2> QED
      BY <1>4, <1>12, <2>1 DEF RequestFails, history, external
  <1>15. ASSUME NEW r \in Requests, TrialRefused(r) PROVE EventsInOrder'
    <2>1. Untouched(r) /\ req'[r].kind = "none"
      BY <1>1, <1>15, Ended, NoRequestIsTyped DEF TrialRefused
    <2> QED
      BY <1>4, <1>15, <2>1 DEF TrialRefused, history, external
  <1>13. CASE StripeChanges
    <2>1. PICK e : /\ events' = events \cup {e} /\ e.n = stripe.last + 1 /\ NewStatus(e) = e.status
                   /\ stripe'.last = stripe.last + 1 /\ stripe'.status = e.status
      BY <1>1, <1>13, NextEvent
    <2>2. UNCHANGED <<row, req, console, applied, overlapped>>
      BY <1>1, <1>13, NoRequestSteps
    <2>3. /\ \A f \in events : f.n # e.n /\ f.n <= stripe'.last
          /\ applied < stripe'.last /\ applied # stripe'.last /\ e.n = stripe'.last /\ e.n # applied
      BY <1>2, <1>3, <2>1
    <2>4. \A d \in Requests : req[d].kind = "webhook" => req[d].event.n <= stripe'.last
      <3>1. \A d \in Requests : req[d].event.n \in Nat
        <4>1. \A d \in Requests : req[d].event \in EventFacts \cup {NoEvent}
          BY <1>1 DEF SubscriptionsTypeOK, Asked
        <4> QED
          BY <4>1 DEF EventFacts, NoEvent
      <3> QED
        BY <1>2, <1>3, <2>1, <3>1
    <2>5. e.n <= stripe'.last
      BY <1>2, <2>1
    <2>6. /\ \A f \in events' : f.n <= stripe'.last /\ NewStatus(f) = f.status
          /\ \A f, g \in events' : f.n = g.n => f = g
          /\ applied' <= stripe'.last
          /\ \A f \in events' : f.n = stripe'.last => f.status = stripe'.status
      <3>1. \A f \in events' : f \in events \/ f = e
        BY <2>1
      <3>2. \A f \in events' : f.n <= stripe'.last /\ NewStatus(f) = f.status
        BY <1>3, <2>1, <2>3, <2>5, <3>1
      <3>3. \A f, g \in events' : f.n = g.n => f = g
        BY <1>3, <2>3, <3>1
      <3>4. applied' <= stripe'.last
        BY <1>2, <1>3, <2>1, <2>2
      <3>5. \A f \in events' : f.n = stripe'.last => f.status = stripe'.status
        BY <2>1, <2>3, <3>1
      <3> QED
        BY <3>2, <3>3, <3>4, <3>5
    <2>7. "webhooks" \notin overlapped' =>
             /\ \E f \in events' : f.n = stripe'.last
             /\ \A d \in Requests : req[d].kind = "webhook" => Ordered(d) /\ req[d].event \in events'
             /\ console = 0 => \A f \in events' : f.n = applied => f.status = row.status
      BY <1>3, <2>1, <2>2, <2>3
    <2> QED
      BY <1>3, <2>2, <2>3, <2>4, <2>6, <2>7 DEF EventsInOrder, Registered
  <1>14. CASE StartScan \/ ReportSeatUsage \/ ReportFails \/ SeatsChange \/ ConfigurePrice \/ UNCHANGED svars
    <2>1. UNCHANGED <<events, stripe>>
      BY <1>14 DEF StartScan, ReportSeatUsage, ReportFails, SeatsChange, ConfigurePrice, svars, external
    <2>2. UNCHANGED <<row, req, console, applied, overlapped>>
      BY <1>1, <1>14, NoRequestSteps
    <2> QED
      BY <1>3, <2>1, <2>2 DEF EventsInOrder, Registered
  <1> QED
    BY <1>5, <1>6, <1>7, <1>8, <1>9, <1>10, <1>11, <1>12, <1>13, <1>14, <1>15 DEF NextSubscriptions

\* The inductive invariant of Subscriptions.
THEOREM SubscriptionsInvariant == SubscriptionsSpec => []SInv
  <1>1. SInv /\ [NextSubscriptions]_svars => SInv'
    BY TypesNext, TrialsNext, OverrideNext, EventsNext DEF SInv
  <1> QED
    BY <1>1, InitSInv, PTL DEF SubscriptionsSpec

\* Stripe holds one trial for an address, however many registrations of it race and fail.
THEOREM OneTrial == SubscriptionsSpec => []OneTrialPerAddress
  <1>1. SInv => OneTrialPerAddress
    BY DEF SInv, TrialsInOrder, OneTrialPerAddress
  <1> QED
    BY <1>1, SubscriptionsInvariant, PTL

\* A status set by an operator stands while the override does, whatever webhooks arrive, unless a
\* console request has overlapped another request.
THEOREM OverrideStands == SubscriptionsSpec => []OverrideHolds
  <1>1. SInv => OverrideHolds
    BY DEF SInv, OverrideInOrder, OverrideHolds
  <1> QED
    BY <1>1, SubscriptionsInvariant, PTL

\* Once every event is acknowledged, the row mirrors Stripe, if the events came in order and no
\* operator has meddled.
THEOREM RowMirrorsStripe == SubscriptionsSpec => []MirrorsInOrder
  <1>1. SInv => MirrorsInOrder
    <2> SUFFICES ASSUME SInv, console = 0, "webhooks" \notin overlapped, events = {}
                 PROVE  row.status = stripe.status
      BY DEF MirrorsInOrder
    <2>1. applied \in Nat /\ stripe.last \in Nat
      BY DEF SInv, SubscriptionsTypeOK
    <2>2. ~(applied < stripe.last) /\ applied <= stripe.last
      BY DEF SInv, EventsInOrder
    <2>3. applied = stripe.last
      BY <2>1, <2>2
    <2> QED
      BY <2>3 DEF SInv, EventsInOrder
  <1> QED
    BY <1>1, SubscriptionsInvariant, PTL
=============================================================================
