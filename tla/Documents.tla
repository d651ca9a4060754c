----------------------------- MODULE Documents ------------------------------
(***************************************************************************)
(* The versioned documents of a project: upload_document in                *)
(* routers/projects.py and write_document_file in                          *)
(* services/document_storage.py.                                           *)
(*                                                                         *)
(* An upload reads the highest committed version of its file name without  *)
(* a lock, awaits the body, creates the file of the next version, and only *)
(* then inserts the row; no key of the documents table orders two uploads. *)
(* The file system takes no part in the transaction: what a failed upload  *)
(* wrote stays.                                                            *)
(***************************************************************************)
EXTENDS Integers, FiniteSetsExt

CONSTANTS
    Uploads,      \* the requests, each one also the content it carries
    FileNames,    \* of one project
    NoContent

ASSUME UploadAssumption == IsFiniteSet(Uploads) /\ NoContent \notin Uploads

VARIABLES
    documents,    \* the rows, as [name, version, content]
    stored,       \* the content of the file at each name and version
    up            \* where each upload stands

dvars == <<documents, stored, up>>

Versions == 1 .. Cardinality(Uploads)

UploadStates == {"new", "counted", "written", "done", "refused", "failed"}

DocumentsTypeOK ==
    /\ documents \subseteq [name : FileNames, version : Versions, content : Uploads]
    /\ stored \in [FileNames \X Versions -> Uploads \cup {NoContent}]
    /\ up \in [Uploads -> [at : UploadStates, name : FileNames \cup {NoContent},
                       version : Versions \cup {0}]]

NewUpload == [at |-> "new", name |-> NoContent, version |-> 0]

InitDocuments ==
    /\ documents = {}
    /\ stored = [file \in FileNames \X Versions |-> NoContent]
    /\ up = [u \in Uploads |-> NewUpload]

RowsOf(n)     == {d \in documents : d.name = n}
VersionsOf(n) == {d.version : d \in RowsOf(n)}

\* previous_max_version + 1
NextVersion_Count(n) == Cardinality(documents) + 1
NextVersion(n) == Max(VersionsOf(n) \cup {0}) + 1

\* open("xb"), and the "wb" that would overwrite.
Creatable_Overwrite(n, v) == TRUE
Creatable(n, v) == stored[<<n, v>>] = NoContent

At(u, state) == up[u].at = state
Move(u, state) == up' = [up EXCEPT ![u].at = state]

CountVersions(u, n) ==
    /\ At(u, "new")
    /\ up' = [up EXCEPT ![u] = [at |-> "counted", name |-> n, version |-> NextVersion(n)]]
    /\ UNCHANGED <<documents, stored>>

\* The body is read between the two: a file too large ends the request first.
WriteFile(u) ==
    /\ At(u, "counted")
    /\ Creatable(up[u].name, up[u].version)
    /\ stored' = [stored EXCEPT ![<<up[u].name, up[u].version>>] = u]
    /\ Move(u, "written")
    /\ UNCHANGED documents

\* FileExistsError, answered with 409 and "retry the upload".
Conflict(u) ==
    /\ At(u, "counted")
    /\ ~Creatable(up[u].name, up[u].version)
    /\ Move(u, "refused")
    /\ UNCHANGED <<documents, stored>>

CommitDocument(u) ==
    /\ At(u, "written")
    /\ documents' = documents \cup
           {[name |-> up[u].name, version |-> up[u].version, content |-> u]}
    /\ Move(u, "done")
    /\ UNCHANGED stored

\* The client is gone, the flush or the commit fails, or the process dies.
AbortUpload(u) ==
    /\ up[u].at \in {"counted", "written"}
    /\ Move(u, "failed")
    /\ UNCHANGED <<documents, stored>>

NextDocuments ==
    \E u \in Uploads :
        (\E n \in FileNames : CountVersions(u, n)) \/ WriteFile(u) \/ Conflict(u) \/ CommitDocument(u) \/ AbortUpload(u)

DocumentsSpec == InitDocuments /\ [][NextDocuments]_dvars

-----------------------------------------------------------------------------

\* However uploads overlap or fail, the committed versions of a file name are
\* 1, 2, ... without a gap or a repetition, and each row's path holds what its
\* own upload sent: nothing in the database says so.
VersionsInOrder ==
    /\ \A n \in FileNames : VersionsOf(n) = 1 .. Cardinality(RowsOf(n))
    /\ \A d \in documents : stored[<<d.name, d.version>>] = d.content
=============================================================================
