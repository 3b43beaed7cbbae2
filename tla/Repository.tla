----------------------------- MODULE Repository -----------------------------
(***************************************************************************)
(* The Postgres tables behind the upload service, for one drive, and the   *)
(* statements internal/upload/repository/repository.go runs on them.  A    *)
(* table is a partial function from its key to a row, every operator below *)
(* is one statement or one transaction.                                    *)
(*                                                                         *)
(* A request that creates a file draws file_id, revision_id, upload_id and *)
(* hence the object key together and never again, so one identifier of     *)
(* FileIDs stands for the four of them.                                    *)
(*                                                                         *)
(* No statement of the service reads upload_parts, so only its keys are    *)
(* kept, without status, size and etag.                                    *)
(***************************************************************************)
EXTENDS Tables, Integers, FiniteSets, Sequences

CONSTANTS
    FileIDs,    \* the identifiers newHexID can draw
    Names,      \* the names clients give files and folders
    MaxPart,    \* bound: the largest part number of a multipart upload
    Blobs,      \* the contents a client can PUT on a presigned object URL
    Seed,       \* the folders of the drive when the service starts
    NULL        \* a SQL NULL

VARIABLES
    entries,    \* table entries: file_id -> row
    sessions,   \* table upload_sessions: upload_id -> row
    parts       \* table upload_parts: its keys <<upload_id, part_number>>

tables == <<entries, sessions, parts>>

Root == "root"
Bin  == "recyclebin"

Folder   == FileIDs \cup {Root, Bin}
PartNo   == 1..MaxPart
Name     == [base : Names, tags : Seq(Nat)]
Content  == Blobs \cup SUBSET PartNo

Entry ==
    [type   : {"file", "folder"},
     parent : Folder,
     name   : Name,
     origin : {NULL} \cup Folder,       \* trashed_parent_file_id
     hash   : {NULL} \cup Content]      \* content_hash

Session ==
    [status    : {"init", "completed"},
     partCount : PartNo,
     chunked   : BOOLEAN]               \* chunk_size > 0

FolderRow(p, n) ==
    [type |-> "folder", parent |-> p, name |-> n, origin |-> NULL, hash |-> NULL]

FileRow(p, n) ==
    [type |-> "file", parent |-> p, name |-> n, origin |-> NULL, hash |-> NULL]

ASSUME RepositoryAssumption ==
    /\ MaxPart \in Nat \ {0}
    /\ {Root, Bin} \cap FileIDs = {}
    /\ NULL \notin Folder
    /\ NULL \notin Name
    /\ \A c \in Content : c # NULL
    /\ DOMAIN Seed \subseteq FileIDs
    /\ \A f \in DOMAIN Seed : Seed[f] \in Entry /\ Seed[f].type = "folder"
    /\ \A f \in DOMAIN Seed : Seed[f].parent \in {Root, Bin} \cup DOMAIN Seed

-----------------------------------------------------------------------------
(***************************************************************************)
(* Reads of entries.                                                       *)
(***************************************************************************)
Exists(f) == f \in DOMAIN entries

IsFile(f) == Exists(f) /\ entries[f].type = "file"

IsFolder(f) == Exists(f) /\ entries[f].type = "folder"

InRecycleBin(f) == Exists(f) /\ entries[f].parent = Bin

(* GetEntryByParentAndName: the unique index leaves at most one such row.  *)
EntryAt(p, n) == {e \in DOMAIN entries : entries[e].parent = p /\ entries[e].name = n}

(* Mutant: no unique index.                                                *)
ConflictUnindexed(f, p, n) == FALSE

(* The unique index on (drive_id, parent_file_id, name), for a statement   *)
(* that gives row f the place (p, n).                                      *)
Conflict(f, p, n) == EntryAt(p, n) \ {f} # {}

(* What the recursive queries reach below p: the least set that holds the  *)
(* children of p and of its own members.                                   *)
Below(p) ==
    LET D == DOMAIN entries
        Closed(S) == \A c \in D : entries[c].parent \in S \cup {p} => c \in S
    IN  {e \in D : \A S \in SUBSET D : Closed(S) => e \in S}

Subtree(f) == IF Exists(f) THEN {f} \cup Below(f) ELSE {}

(* The queries use UNION ALL: on a folder that is its own descendant they  *)
(* never end.                                                              *)
Looping(f) == Exists(f) /\ f \in Below(f)

-----------------------------------------------------------------------------
(***************************************************************************)
(* Writes of entries.                                                      *)
(***************************************************************************)
CreateFolder(f, p, n) ==
    /\ entries' = Put(entries, f, FolderRow(p, n))
    /\ UNCHANGED <<sessions, parts>>

(* Mutant: the part count is one short.                                    *)
CreateFileWithUploadShort(f, p, n, numbers, chunked) ==
    /\ entries' = Put(entries, f, FileRow(p, n))
    /\ sessions' = Put(sessions, f, [status |-> "init",
                                     partCount |-> Cardinality(numbers) - 1,
                                     chunked |-> chunked])
    /\ UNCHANGED parts

CreateFileWithUpload(f, p, n, numbers, chunked) ==
    /\ entries' = Put(entries, f, FileRow(p, n))
    /\ sessions' = Put(sessions, f, [status |-> "init",
                                     partCount |-> Cardinality(numbers),
                                     chunked |-> chunked])
    /\ parts' = parts \cup ({f} \X numbers)

RenameEntry(f, n) ==
    /\ entries' = [entries EXCEPT ![f].name = n]
    /\ UNCHANGED <<sessions, parts>>

MoveEntry(f, p) ==
    /\ entries' = [entries EXCEPT ![f].parent = p]
    /\ UNCHANGED <<sessions, parts>>

TrashEntry(f, n, from) ==
    /\ entries' = [entries EXCEPT ![f].name = n, ![f].parent = Bin, ![f].origin = from]
    /\ UNCHANGED <<sessions, parts>>

RestoreEntry(f, n, p) ==
    /\ entries' = [entries EXCEPT ![f].name = n, ![f].parent = p, ![f].origin = NULL]
    /\ UNCHANGED <<sessions, parts>>

UpdateEntryHash(f, hash) ==
    /\ entries' = IF Exists(f) THEN [entries EXCEPT ![f].hash = hash] ELSE entries
    /\ UNCHANGED <<sessions, parts>>

(* Mutants: the sessions stay; the entries below f stay.                   *)
DeleteEntryTreeKeepSessions(f, selected) ==
    /\ entries' = Drop(entries, Subtree(f))
    /\ parts' = parts \ (selected \X PartNo)
    /\ UNCHANGED sessions

DeleteEntryTreeTopOnly(f, selected) ==
    /\ entries' = Drop(entries, {f})
    /\ sessions' = Drop(sessions, selected)
    /\ parts' = parts \ (selected \X PartNo)

(* The writes of DeleteEntryTree, seen by others at its commit: the        *)
(* sessions and parts of the rows it selected, but the entries that a      *)
(* second recursive query finds below f when it runs.                      *)
DeleteEntryTree(f, selected) ==
    /\ entries' = Drop(entries, Subtree(f))
    /\ sessions' = Drop(sessions, selected)
    /\ parts' = parts \ (selected \X PartNo)

-----------------------------------------------------------------------------
(***************************************************************************)
(* Upload sessions and parts.                                              *)
(***************************************************************************)
HasSession(u) == u \in DOMAIN sessions

Completed(u) == HasSession(u) /\ sessions[u].status = "completed"

(* Mutant: an upsert, which brings a deleted session back.                 *)
SetUploadSessionStatusUpsert(u, status) ==
    /\ sessions' = IF HasSession(u) THEN [sessions EXCEPT ![u].status = status]
                   ELSE Put(sessions, u, [status |-> status, partCount |-> 1, chunked |-> FALSE])
    /\ UNCHANGED <<entries, parts>>

SetUploadSessionStatus(u, status) ==
    /\ sessions' = IF HasSession(u) THEN [sessions EXCEPT ![u].status = status] ELSE sessions
    /\ UNCHANGED <<entries, parts>>

(* EnsureUploadParts, first the rows, one statement each: one step here,   *)
(* as nothing reads them.                                                  *)
EnsurePartRows(u, numbers) ==
    /\ parts' = parts \cup ({u} \X numbers)
    /\ UNCHANGED <<entries, sessions>>

(* Mutant: the session starts over.                                        *)
RaisePartCountReset(u, count) ==
    /\ sessions' = IF HasSession(u) /\ sessions[u].partCount < count
                   THEN [sessions EXCEPT ![u].partCount = count, ![u].status = "init"]
                   ELSE sessions
    /\ UNCHANGED <<entries, parts>>

(* EnsureUploadParts, then part_count, which only ever grows.              *)
RaisePartCount(u, count) ==
    /\ sessions' = IF HasSession(u) /\ sessions[u].partCount < count
                   THEN [sessions EXCEPT ![u].partCount = count] ELSE sessions
    /\ UNCHANGED <<entries, parts>>

(* The update of the part's row, or the insert when there is none.         *)
MarkUploadPartUploaded(u, n) ==
    /\ parts' = parts \cup {<<u, n>>}
    /\ UNCHANGED <<entries, sessions>>

-----------------------------------------------------------------------------
RepositoryInit ==
    /\ entries = Seed
    /\ sessions = Empty
    /\ parts = {}

RepositoryTypeOK ==
    /\ DOMAIN entries \subseteq FileIDs
    /\ \A f \in DOMAIN entries : entries[f] \in Entry
    /\ DOMAIN sessions \subseteq FileIDs
    /\ \A u \in DOMAIN sessions : sessions[u] \in Session
    /\ parts \subseteq FileIDs \X PartNo
=============================================================================
