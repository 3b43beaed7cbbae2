------------------------------ MODULE FileStore ------------------------------
(***************************************************************************)
(* What the file application keeps: the tables of internal/ent/schema it   *)
(* uses, with the statements infrastructure/persistence runs on them, and  *)
(* the files under StoragePath.  Every operator is one statement.          *)
(*                                                                         *)
(* A file is known by its content, which stands for its chunk signature,   *)
(* size and chunk hashes; its size is one unit of quota.  The row of       *)
(* file_info and the physical file it names share one identifier.  Names,  *)
(* visibility, MIME types and time stamps decide nothing here.  Every key  *)
(* is drawn once: keys are the numbers 1, 2, ... in the order drawn.       *)
(***************************************************************************)
EXTENDS Tables, Integers, FiniteSets

CONSTANTS
    Users,      \* the registered users
    Contents,   \* what clients upload
    Chunks,     \* how many chunk indices clients use
    Totals,     \* the total_chunks they state, 0 for one that is not positive
    Single,     \* upload.tmp, a file that is sent in one piece
    Space,      \* the quota given to a user, 0 for none, as Register leaves it
    Limit,      \* bound: how many keys of each kind are drawn
    Workers,    \* the requests and background jobs in flight at the same time
    NULL        \* an empty string, a SQL NULL

VARIABLES
    db,         \* the tables
    disk,       \* StoragePath/files: file -> what it holds
    temp,       \* StoragePath/temp: task -> part -> what it holds
    used        \* kind -> the last key drawn

stored == <<db, disk, temp, used>>

Kinds == {"file", "userFile", "recycled", "task", "dir"}

ASSUME FileStoreAssumption ==
    /\ Chunks \in Nat \ {0}
    /\ Totals \subseteq 0..Chunks
    /\ Space \in Nat
    /\ Limit \in [Kinds -> Nat]
    /\ NULL \notin Nat \cup Users \cup Contents \cup Workers
    /\ Single \notin Nat \cup {NULL}
    /\ {"Whole", "Half"} \cap Workers = {}

Key(kind) == 1..Limit[kind]

Parts == (0..Chunks - 1) \cup {Single}

(* What a file holds: all of it, not all of it, or what a worker has got   *)
(* to when it is writing it.                                               *)
Data == {"Whole", "Half"} \cup Workers

UserFile ==
    [user : Users, file : Key("file"), dir : {NULL} \cup Key("dir"), deleted : BOOLEAN]

Recycled == [id : Key("recycled"), user : Users, userFile : Key("userFile")]

Statuses == {"pending", "uploading", "completed", "failed"}

UploadTask == [status : Statuses, uploaded : 0..Chunks, expiresAt : Nat]

VirtualPath == [user : Users, parent : {NULL} \cup Key("dir")]

StoreInit ==
    /\ db = [fileInfos    |-> Empty,
             userFiles    |-> Empty,
             recycled     |-> {},
             uploadTasks  |-> Empty,
             virtualPaths |-> Empty,
             freeSpace    |-> [u \in Users |-> Space]]
    /\ disk = Empty
    /\ temp = Empty
    /\ used = [k \in Kinds |-> 0]

-----------------------------------------------------------------------------
(***************************************************************************)
(* Keys.  A step that draws one waits for ever once the bound is reached.  *)
(***************************************************************************)
NextKey(kind) == used[kind] + 1

Draw(kind) == used[kind] < Limit[kind] /\ used' = [used EXCEPT ![kind] = @ + 1]

(* Keys clients may know: also of rows that have gone.                     *)
Known(kind) == 1..used[kind]

-----------------------------------------------------------------------------
(***************************************************************************)
(* file_repo.go, recycled_repo.go and user_repo.go.                        *)
(***************************************************************************)
CreateFileInfo(f, c) == db' = [db EXCEPT !.fileInfos = Put(@, f, c)]

DeleteFileInfo(f) == db' = [db EXCEPT !.fileInfos = Drop(@, {f})]

(* GetByChunkSignature finds a row only when it is the only one.           *)
Candidates(c) == {f \in DOMAIN db.fileInfos : db.fileInfos[f] = c}

CreateUserFile(l, u, f, d) ==
    db' = [db EXCEPT !.userFiles =
                Put(@, l, [user |-> u, file |-> f, dir |-> d, deleted |-> FALSE])]

HasUserFile(l) == l \in DOMAIN db.userFiles

Deleted(l) == HasUserFile(l) /\ db.userFiles[l].deleted
Active(l)  == HasUserFile(l) /\ ~db.userFiles[l].deleted

SoftDelete(l) == db' = [db EXCEPT !.userFiles[l].deleted = TRUE]

MoveUserFile(l, d) == db' = [db EXCEPT !.userFiles[l].dir = d]

RestoreUserFile(l, d) ==
    db' = [db EXCEPT !.userFiles[l].deleted = FALSE, !.userFiles[l].dir = d]

HardDelete(l) == db' = [db EXCEPT !.userFiles = Drop(@, {l})]

(* CountActiveUserFiles, as the set it counts.                             *)
ActiveUserFiles(f) == {l \in DOMAIN db.userFiles : Active(l) /\ db.userFiles[l].file = f}

CreateRecycled(r, u, l) ==
    db' = [db EXCEPT !.recycled = @ \cup {[id |-> r, user |-> u, userFile |-> l]}]

(* Mutant: the records of the file go, not one record.                     *)
DeleteRecycledOfFile(row) ==
    db' = [db EXCEPT !.recycled = {r \in @ : r.userFile # row.userFile}]

DeleteRecycled(row) == db' = [db EXCEPT !.recycled = @ \ {row}]

HasTask(t) == t \in DOMAIN db.uploadTasks

PutTask(t, row) == db' = [db EXCEPT !.uploadTasks = Put(@, t, row)]

DeleteTasks(ts) == db' = [db EXCEPT !.uploadTasks = Drop(@, ts)]

CreateDir(d, u, p) ==
    db' = [db EXCEPT !.virtualPaths = Put(@, d, [user |-> u, parent |-> p])]

HasDir(d) == d \in DOMAIN db.virtualPaths

DeleteDirRow(d) == db' = [db EXCEPT !.virtualPaths = Drop(@, {d})]

(* GetRoot returns any one of them.                                        *)
Roots(u) ==
    {d \in DOMAIN db.virtualPaths :
        db.virtualPaths[d].user = u /\ db.virtualPaths[d].parent = NULL}

SubFolders(u, d) ==
    {e \in DOMAIN db.virtualPaths :
        db.virtualPaths[e].user = u /\ db.virtualPaths[e].parent = d}

(* Update writes the whole row of the user.                                *)
UpdateUser(u, free) == db' = [db EXCEPT !.freeSpace[u] = free]

-----------------------------------------------------------------------------
(***************************************************************************)
(* Files.                                                                  *)
(***************************************************************************)
MkdirTemp(t) == temp' = IF t \in DOMAIN temp THEN temp ELSE Put(temp, t, Empty)

RemoveTemp(t) == temp' = Drop(temp, {t})

HasPart(t, p) == t \in DOMAIN temp /\ p \in DOMAIN temp[t]

(* The chunks countChunks finds below a total.                             *)
ChunksOf(t, total) == {i \in 0..total - 1 : HasPart(t, i)}

(* os.Create: the file is cut to nothing and is the writer's from here on, *)
(* also when another worker has it open.                                   *)
OpenPart(t, p, w) == temp' = [temp EXCEPT ![t] = Put(@, p, w)]

(* Worker w has stopped writing: what it opened last now holds result.     *)
EndWriting(w, result) ==
    LET After(d) == IF d = w THEN result ELSE d IN
    /\ temp' = [t \in DOMAIN temp |-> [p \in DOMAIN temp[t] |-> After(temp[t][p])]]
    /\ disk' = [f \in DOMAIN disk |-> After(disk[f])]
=============================================================================
