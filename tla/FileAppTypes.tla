---------------------------- MODULE FileAppTypes -----------------------------
(***************************************************************************)
(* Type correctness of the file application, for all users, contents and   *)
(* workers, every number of chunks, every quota and every bound.           *)
(***************************************************************************)
EXTENDS FileApp, FiniteSetTheorems, TLAPS

-----------------------------------------------------------------------------
(***************************************************************************)
(* TypeOK lets any field be NULL; what makes it inductive is which fields  *)
(* a request has filled in at which step.                                  *)
(***************************************************************************)
PrecheckSteps == {"candidate", "instant", "deduct", "rollback", "task", "cache"}

ChunkSteps ==
    {"mkdir", "open", "copy", "count", "progress", "write", "lock", "merge", "remove temp",
     "info", "link", "clean", "unlock", "rename"}

OwnerSteps == {"record", "make dir", "refs", "purge info", "unlink", "quota", "return"}

(* The fields a request has filled in by the time a step uses them.        *)
Filled(r) ==
    /\ r.pc \in PrecheckSteps => r.user # NULL /\ r.content # NULL
    /\ r.pc \in ChunkSteps =>
            r.user # NULL /\ r.content # NULL /\ r.task # NULL /\ r.part # NULL
    /\ r.pc \in OwnerSteps => r.user # NULL
    /\ r.pc \in {"instant", "merge", "info", "link"} => r.file # NULL
    /\ r.pc = "remove temp" /\ r.part # Single => r.file # NULL
    /\ r.pc = "cache" => r.task # NULL
    /\ r.pc = "record" => r.userFile # NULL
    /\ r.pc = "renew" => r.status \in Statuses
    /\ r.pc \in {"progress", "write"} => r.status \in {"uploading", "completed", "failed"}
    /\ r.pc \in {"count", "progress", "write", "lock", "merge", "unlock"} => r.part # Single
    /\ r.pc = "rename" => r.part = Single
    /\ r.part \notin {NULL, Single} => r.total \in Totals
    /\ r.pc = "idle" => r.merged = 0
    /\ r.merged <= r.total
    /\ r.pc = "merge" => r.merged < r.total

GoodRequest == {r \in Request : Filled(r)}

RequestsFilled == req \in [Workers -> GoodRequest]

Typed == TypeOK /\ RequestsFilled

(* What the requests add to TypeOK, before and after a step.               *)
MergedBound == \A w \in Workers : req[w].merged <= req[w].total

LEMMA FilledBound ==
    /\ RequestsFilled => req \in [Workers -> Request] /\ MergedBound
    /\ RequestsFilled' => req' \in [Workers -> Request] /\ MergedBound'
BY DEF RequestsFilled, GoodRequest, Filled, MergedBound

-----------------------------------------------------------------------------
(***************************************************************************)
(* Tables.                                                                 *)
(***************************************************************************)
LEMMA PutType ==
    ASSUME NEW table, NEW keys, NEW rows, NEW key \in keys, NEW row \in rows,
           IsTable(table, keys, rows)
    PROVE  IsTable(Put(table, key, row), keys, rows)
BY DEF IsTable, Put

LEMMA DropType ==
    ASSUME NEW table, NEW keys, NEW rows, NEW gone, IsTable(table, keys, rows)
    PROVE  IsTable(Drop(table, gone), keys, rows)
BY DEF IsTable, Drop

LEMMA ExceptType ==
    ASSUME NEW table, NEW keys, NEW rows, NEW key \in DOMAIN table, NEW row \in rows,
           IsTable(table, keys, rows)
    PROVE  IsTable([table EXCEPT ![key] = row], keys, rows)
BY DEF IsTable

LEMMA EmptyType ==
    ASSUME NEW keys, NEW rows
    PROVE  IsTable(Empty, keys, rows)
BY DEF IsTable, Empty

LEMMA RowType ==
    ASSUME NEW table, NEW keys, NEW rows, NEW key \in DOMAIN table,
           IsTable(table, keys, rows)
    PROVE  key \in keys /\ table[key] \in rows
BY DEF IsTable

-----------------------------------------------------------------------------
(***************************************************************************)
(* What a step leaves alone keeps its type.                                *)
(***************************************************************************)
LEMMA KeepTables == TablesOK /\ UNCHANGED db => TablesOK'
BY DEF TablesOK

LEMMA KeepFiles == FilesOK /\ UNCHANGED <<disk, temp>> => FilesOK'
BY DEF FilesOK

LEMMA KeepCache == CacheOK /\ UNCHANGED cache => CacheOK'
BY DEF CacheOK, cache

LEMMA KeepKeys == KeysOK /\ UNCHANGED used => KeysOK'
BY DEF KeysOK

LEMMA StepType ==
    ASSUME Typed, TablesOK', FilesOK', CacheOK', KeysOK', RequestsFilled', UNCHANGED shared
    PROVE  Typed'
BY FilledBound DEF Typed, TypeOK, MergedBound, shared

(* A step that changes its request only.                                   *)
LEMMA QuietStep ==
    ASSUME Typed, RequestsFilled', UNCHANGED <<stored, cache, shared>>
    PROVE  Typed'
<1>1. TablesOK' /\ FilesOK' /\ CacheOK' /\ KeysOK'
      BY KeepTables, KeepFiles, KeepCache, KeepKeys DEF Typed, TypeOK, stored
<1> QED BY <1>1, StepType

(* A step that changes its request and the tables.                         *)
LEMMA TablesStep ==
    ASSUME Typed, RequestsFilled', TablesOK', UNCHANGED <<disk, temp, used, cache, shared>>
    PROVE  Typed'
<1>1. FilesOK' /\ CacheOK' /\ KeysOK'
      BY KeepFiles, KeepCache, KeepKeys DEF Typed, TypeOK
<1> QED BY <1>1, StepType

(* A step that draws a key besides.                                        *)
LEMMA DrawStep ==
    ASSUME Typed, RequestsFilled', TablesOK', KeysOK', UNCHANGED <<disk, temp, cache, shared>>
    PROVE  Typed'
<1>1. FilesOK' /\ CacheOK'
      BY KeepFiles, KeepCache DEF Typed, TypeOK
<1> QED BY <1>1, StepType

(* A step that changes its request and files.                              *)
LEMMA FilesStep ==
    ASSUME Typed, RequestsFilled', FilesOK', UNCHANGED <<db, used, cache, shared>>
    PROVE  Typed'
<1>1. TablesOK' /\ CacheOK' /\ KeysOK'
      BY KeepTables, KeepCache, KeepKeys DEF Typed, TypeOK
<1> QED BY <1>1, StepType

(* A step that changes its request and the cache.                          *)
LEMMA CacheStep ==
    ASSUME Typed, RequestsFilled', CacheOK', UNCHANGED <<stored, shared>>
    PROVE  Typed'
<1>1. TablesOK' /\ FilesOK' /\ KeysOK'
      BY KeepTables, KeepFiles, KeepKeys DEF Typed, TypeOK, stored
<1> QED BY <1>1, StepType

-----------------------------------------------------------------------------
(***************************************************************************)
(* Keys.                                                                   *)
(***************************************************************************)
LEMMA DrawType ==
    ASSUME KeysOK, NEW kind \in Kinds, Draw(kind)
    PROVE  KeysOK' /\ NextKey(kind) \in Key(kind)
<1>1. used[kind] \in Nat /\ Limit[kind] \in Nat /\ used[kind] < Limit[kind]
      BY FileStoreAssumption DEF KeysOK, Draw
<1>2. NextKey(kind) \in Key(kind)
      BY <1>1 DEF NextKey, Key
<1>3. used' \in [Kinds -> Nat]
      BY <1>1 DEF KeysOK, Draw
<1>4. ASSUME NEW k \in Kinds
      PROVE  used'[k] <= Limit[k]
      BY <1>1 DEF KeysOK, Draw
<1> QED BY <1>2, <1>3, <1>4 DEF KeysOK

LEMMA KnownType ==
    ASSUME KeysOK, NEW kind \in Kinds
    PROVE  Known(kind) \subseteq Key(kind)
BY FileStoreAssumption DEF KeysOK, Known, Key

LEMMA KeyIsNotNull ==
    ASSUME NEW kind \in Kinds
    PROVE  NULL \notin Key(kind) /\ Single \notin Key(kind)
BY FileStoreAssumption DEF Key

LEMMA ChunksOfType ==
    ASSUME NEW t, NEW total \in 0..Chunks
    PROVE  Cardinality(ChunksOf(t, total)) \in 0..Chunks
<1> Chunks \in Nat
    BY FileStoreAssumption
<1>1. IsFiniteSet(0..Chunks - 1) /\ Cardinality(0..Chunks - 1) = Chunks
      BY FS_Interval
<1>2. ChunksOf(t, total) \subseteq 0..Chunks - 1
      BY DEF ChunksOf
<1>3. /\ IsFiniteSet(ChunksOf(t, total))
      /\ Cardinality(ChunksOf(t, total)) <= Chunks
      BY <1>1, <1>2, FS_Subset
<1> QED BY <1>3, FS_CardinalityType

-----------------------------------------------------------------------------
(***************************************************************************)
(* Statements.                                                             *)
(***************************************************************************)
LEMMA CreateFileInfoType ==
    ASSUME TablesOK, NEW f \in Key("file"), NEW k \in Contents, CreateFileInfo(f, k)
    PROVE  TablesOK'
<1>1. IsTable(Put(db.fileInfos, f, k), Key("file"), Contents)
      BY PutType DEF TablesOK
<1> QED BY <1>1 DEF TablesOK, CreateFileInfo

LEMMA DeleteFileInfoType ==
    ASSUME TablesOK, NEW f, DeleteFileInfo(f)
    PROVE  TablesOK'
<1>1. IsTable(Drop(db.fileInfos, {f}), Key("file"), Contents)
      BY DropType DEF TablesOK
<1> QED BY <1>1 DEF TablesOK, DeleteFileInfo

LEMMA CreateUserFileType ==
    ASSUME TablesOK, NEW l \in Key("userFile"), NEW user \in Users, NEW f \in Key("file"),
           NEW d \in {NULL} \cup Key("dir"), CreateUserFile(l, user, f, d)
    PROVE  TablesOK'
<1> DEFINE row == [user |-> user, file |-> f, dir |-> d, deleted |-> FALSE]
<1>1. row \in UserFile
      BY DEF UserFile
<1>2. db' = [db EXCEPT !.userFiles = Put(@, l, row)]
      BY DEF CreateUserFile
<1> HIDE DEF row
<1>3. IsTable(Put(db.userFiles, l, row), Key("userFile"), UserFile)
      BY <1>1, PutType DEF TablesOK
<1> QED BY <1>2, <1>3 DEF TablesOK

(* Every update of a row of user_file.                                     *)
LEMMA UpdateUserFileType ==
    ASSUME TablesOK, NEW l \in DOMAIN db.userFiles, NEW row \in UserFile,
           db' = [db EXCEPT !.userFiles = [@ EXCEPT ![l] = row]]
    PROVE  TablesOK'
<1>1. IsTable([db.userFiles EXCEPT ![l] = row], Key("userFile"), UserFile)
      BY ExceptType DEF TablesOK
<1> QED BY <1>1 DEF TablesOK

LEMMA UserFileRow ==
    ASSUME TablesOK, NEW l, HasUserFile(l)
    PROVE  /\ l \in Key("userFile")
           /\ db.userFiles[l] \in UserFile
           /\ db.userFiles[l].user \in Users
           /\ db.userFiles[l].file \in Key("file")
           /\ db.userFiles[l].dir \in {NULL} \cup Key("dir")
<1>1. l \in Key("userFile") /\ db.userFiles[l] \in UserFile
      BY RowType DEF TablesOK, HasUserFile
<1> QED BY <1>1 DEF UserFile

LEMMA SoftDeleteType ==
    ASSUME TablesOK, NEW l, HasUserFile(l), SoftDelete(l)
    PROVE  TablesOK'
<1> DEFINE row == [db.userFiles[l] EXCEPT !.deleted = TRUE]
<1>1. row \in UserFile
      BY UserFileRow DEF UserFile
<1>2. db' = [db EXCEPT !.userFiles = [@ EXCEPT ![l] = row]]
      BY DEF SoftDelete
<1> HIDE DEF row
<1> QED BY <1>1, <1>2, UpdateUserFileType DEF HasUserFile

LEMMA MoveUserFileType ==
    ASSUME TablesOK, NEW l, HasUserFile(l), NEW d \in {NULL} \cup Key("dir"),
           MoveUserFile(l, d)
    PROVE  TablesOK'
<1> DEFINE row == [db.userFiles[l] EXCEPT !.dir = d]
<1>1. row \in UserFile
      BY UserFileRow DEF UserFile
<1>2. db' = [db EXCEPT !.userFiles = [@ EXCEPT ![l] = row]]
      BY DEF MoveUserFile
<1> HIDE DEF row
<1> QED BY <1>1, <1>2, UpdateUserFileType DEF HasUserFile

LEMMA RestoreUserFileType ==
    ASSUME TablesOK, NEW l, HasUserFile(l), NEW d \in {NULL} \cup Key("dir"),
           RestoreUserFile(l, d)
    PROVE  TablesOK'
<1> DEFINE row == [db.userFiles[l] EXCEPT !.deleted = FALSE, !.dir = d]
<1>1. row \in UserFile
      BY UserFileRow DEF UserFile
<1>2. db' = [db EXCEPT !.userFiles = [@ EXCEPT ![l] = row]]
      BY DEF RestoreUserFile, HasUserFile, TablesOK, IsTable
<1> HIDE DEF row
<1> QED BY <1>1, <1>2, UpdateUserFileType DEF HasUserFile

LEMMA HardDeleteType ==
    ASSUME TablesOK, NEW l, HardDelete(l)
    PROVE  TablesOK'
<1>1. IsTable(Drop(db.userFiles, {l}), Key("userFile"), UserFile)
      BY DropType DEF TablesOK
<1> QED BY <1>1 DEF TablesOK, HardDelete

LEMMA CreateRecycledType ==
    ASSUME TablesOK, NEW r \in Key("recycled"), NEW user \in Users,
           NEW l \in Key("userFile"), CreateRecycled(r, user, l)
    PROVE  TablesOK'
<1>1. [id |-> r, user |-> user, userFile |-> l] \in Recycled
      BY DEF Recycled
<1> QED BY <1>1 DEF TablesOK, CreateRecycled

LEMMA DeleteRecycledType ==
    ASSUME TablesOK, NEW row, DeleteRecycled(row)
    PROVE  TablesOK'
BY DEF TablesOK, DeleteRecycled

LEMMA PutTaskType ==
    ASSUME TablesOK, NEW t \in Key("task"), NEW row \in UploadTask, PutTask(t, row)
    PROVE  TablesOK'
<1>1. IsTable(Put(db.uploadTasks, t, row), Key("task"), UploadTask)
      BY PutType DEF TablesOK
<1> QED BY <1>1 DEF TablesOK, PutTask

LEMMA DeleteTasksType ==
    ASSUME TablesOK, NEW ts, DeleteTasks(ts)
    PROVE  TablesOK'
<1>1. IsTable(Drop(db.uploadTasks, ts), Key("task"), UploadTask)
      BY DropType DEF TablesOK
<1> QED BY <1>1 DEF TablesOK, DeleteTasks

LEMMA CreateDirType ==
    ASSUME TablesOK, NEW d \in Key("dir"), NEW user \in Users,
           NEW p \in {NULL} \cup Key("dir"), CreateDir(d, user, p)
    PROVE  TablesOK'
<1> DEFINE row == [user |-> user, parent |-> p]
<1>1. row \in VirtualPath
      BY DEF VirtualPath
<1>2. db' = [db EXCEPT !.virtualPaths = Put(@, d, row)]
      BY DEF CreateDir
<1> HIDE DEF row
<1>3. IsTable(Put(db.virtualPaths, d, row), Key("dir"), VirtualPath)
      BY <1>1, PutType DEF TablesOK
<1> QED BY <1>2, <1>3 DEF TablesOK

LEMMA DeleteDirRowType ==
    ASSUME TablesOK, NEW d, DeleteDirRow(d)
    PROVE  TablesOK'
<1>1. IsTable(Drop(db.virtualPaths, {d}), Key("dir"), VirtualPath)
      BY DropType DEF TablesOK
<1> QED BY <1>1 DEF TablesOK, DeleteDirRow

LEMMA UpdateUserType ==
    ASSUME TablesOK, NEW user \in Users, NEW free \in Int, UpdateUser(user, free)
    PROVE  TablesOK'
<1>1. db'.freeSpace = [db.freeSpace EXCEPT ![user] = free]
      BY DEF TablesOK, UpdateUser
<1>2. db'.freeSpace \in [Users -> Int]
      BY <1>1 DEF TablesOK
<1> QED BY <1>2 DEF TablesOK, UpdateUser

-----------------------------------------------------------------------------
(***************************************************************************)
(* Files and the cache.                                                    *)
(***************************************************************************)
LEMMA PutFileType ==
    ASSUME FilesOK, NEW f \in Key("file"), NEW d \in Data, disk' = Put(disk, f, d),
           UNCHANGED temp
    PROVE  FilesOK'
BY PutType DEF FilesOK

LEMMA PartType ==
    ASSUME FilesOK, NEW t, NEW p, HasPart(t, p)
    PROVE  t \in Key("task") /\ p \in Parts /\ temp[t][p] \in Data
<1>1. t \in DOMAIN temp /\ p \in DOMAIN temp[t] /\ IsTable(temp[t], Parts, Data)
      BY DEF FilesOK, HasPart
<1> QED BY <1>1, RowType DEF FilesOK

LEMMA MkdirTempType ==
    ASSUME FilesOK, NEW t \in Key("task"), MkdirTemp(t), UNCHANGED disk
    PROVE  FilesOK'
<1>1. CASE t \in DOMAIN temp
      BY <1>1 DEF FilesOK, MkdirTemp
<1>2. CASE t \notin DOMAIN temp
      <2>1. temp' = Put(temp, t, Empty)
            BY <1>2 DEF MkdirTemp
      <2>2. /\ DOMAIN temp' = DOMAIN temp \cup {t}
            /\ \A s \in DOMAIN temp' : temp'[s] = IF s = t THEN Empty ELSE temp[s]
            BY <2>1 DEF Put
      <2> QED BY <2>2, EmptyType DEF FilesOK
<1> QED BY <1>1, <1>2

LEMMA RemoveTempType ==
    ASSUME FilesOK, NEW t, RemoveTemp(t), UNCHANGED disk
    PROVE  FilesOK'
BY DEF FilesOK, RemoveTemp, Drop

(* Every change of the parts of one task.                                  *)
LEMMA PartsType ==
    ASSUME FilesOK, NEW t \in DOMAIN temp, NEW parts, IsTable(parts, Parts, Data),
           temp' = [temp EXCEPT ![t] = parts]
    PROVE  /\ DOMAIN temp' \subseteq Key("task")
           /\ \A s \in DOMAIN temp' : IsTable(temp'[s], Parts, Data)
BY DEF FilesOK

LEMMA OpenPartType ==
    ASSUME FilesOK, NEW t \in DOMAIN temp, NEW p \in Parts, NEW w \in Workers,
           OpenPart(t, p, w), UNCHANGED disk
    PROVE  FilesOK'
<1>1. IsTable(Put(temp[t], p, w), Parts, Data)
      BY PutType DEF FilesOK, Data
<1>2. temp' = [temp EXCEPT ![t] = Put(temp[t], p, w)]
      BY DEF OpenPart
<1> QED BY <1>1, <1>2, PartsType DEF FilesOK

(* Worker w has stopped writing.                                           *)
LEMMA EndWritingType ==
    ASSUME FilesOK, NEW w \in Workers, NEW result \in {"Whole", "Half"}, EndWriting(w, result)
    PROVE  FilesOK'
<1>1. IsTable(disk', Key("file"), Data)
      BY DEF FilesOK, IsTable, EndWriting, Data
<1>2. ASSUME NEW t \in DOMAIN temp
      PROVE  IsTable(temp'[t], Parts, Data)
      BY <1>2 DEF FilesOK, IsTable, EndWriting, Data
<1> QED BY <1>1, <1>2 DEF FilesOK, EndWriting

LEMMA CacheSetType ==
    ASSUME CacheOK, NEW t \in Key("task"), NEW k \in Contents,
           NEW d \in Key("dir") \cup {NULL}, NEW ttl \in Nat,
           CacheSet(t, [content |-> k, dir |-> d], ttl)
    PROVE  CacheOK'
<1> DEFINE entry == [value |-> [content |-> k, dir |-> d], expiresAt |-> clock + ttl]
<1>1. clock \in Nat
      BY MemoryCacheAssumption DEF CacheOK
<1>2. entry \in PrecheckEntry
      BY <1>1 DEF PrecheckEntry
<1>3. items' = Put(items, t, entry) /\ UNCHANGED clock
      BY DEF CacheSet
<1> HIDE DEF entry
<1> QED BY <1>2, <1>3, PutType DEF CacheOK

LEMMA CacheDropType ==
    ASSUME CacheOK, NEW gone, items' = Drop(items, gone), UNCHANGED clock
    PROVE  CacheOK'
BY DropType DEF CacheOK

-----------------------------------------------------------------------------
(***************************************************************************)
(* Requests.                                                               *)
(***************************************************************************)
LEMMA RequestOf ==
    ASSUME RequestsFilled, NEW w \in Workers
    PROVE  req[w] \in Request /\ Filled(req[w])
BY DEF RequestsFilled, GoodRequest

LEMMA RequestStep ==
    ASSUME RequestsFilled, NEW w \in Workers, NEW r \in Request, Filled(r),
           req' = [req EXCEPT ![w] = r]
    PROVE  RequestsFilled'
BY DEF RequestsFilled, GoodRequest

LEMMA IdleType == Idle \in Request /\ Filled(Idle)
<1>1. Idle \in Request
      BY FileStoreAssumption DEF Idle, Request, Steps
<1> QED BY <1>1 DEF Idle, Filled, PrecheckSteps, ChunkSteps, OwnerSteps

LEMMA FinishStep ==
    ASSUME RequestsFilled, NEW w \in Workers, Finish(w)
    PROVE  RequestsFilled'
BY IdleType, RequestStep DEF Finish

LEMMA GotoStep ==
    ASSUME RequestsFilled, NEW w \in Workers, NEW pc \in Steps, Goto(w, pc),
           Filled([req[w] EXCEPT !.pc = pc])
    PROVE  RequestsFilled'
<1>1. [req[w] EXCEPT !.pc = pc] \in Request
      BY RequestOf DEF Request
<1>2. req' = [req EXCEPT ![w] = [req[w] EXCEPT !.pc = pc]]
      BY DEF Goto
<1> QED BY <1>1, <1>2, RequestStep

-----------------------------------------------------------------------------
(***************************************************************************)
(* Precheck.                                                               *)
(***************************************************************************)
LEMMA PrecheckType ==
    ASSUME Typed, NEW w \in Workers, Precheck(w)
    PROVE  Typed'
<1>0. req[w] \in Request /\ Filled(req[w]) /\ TablesOK /\ KeysOK /\ RequestsFilled
      BY RequestOf DEF Typed, TypeOK
<1>1. PICK user \in Users, k \in Contents, d \in Dirs :
        req' = [req EXCEPT ![w].pc = "candidate", ![w].user = user, ![w].content = k,
                           ![w].dir = d, ![w].free = db.freeSpace[user]]
      BY DEF Precheck
<1>2. d \in Key("dir") \cup {NULL}
      BY <1>0, KnownType DEF Dirs, Kinds
<1>3. db.freeSpace[user] \in Int
      BY <1>0 DEF TablesOK
<1> DEFINE r == [req[w] EXCEPT !.pc = "candidate", !.user = user, !.content = k,
                               !.dir = d, !.free = db.freeSpace[user]]
<1>4. r \in Request
      BY <1>0, <1>2, <1>3 DEF Request, Steps
<1>5. Filled(r)
      BY <1>0, FileStoreAssumption DEF Request, Filled, PrecheckSteps, ChunkSteps, OwnerSteps
<1>6. req' = [req EXCEPT ![w] = r]
      BY <1>1
<1> HIDE DEF r
<1>7. RequestsFilled'
      BY <1>0, <1>4, <1>5, <1>6, RequestStep
<1> QED BY <1>7, QuietStep DEF Precheck

LEMMA FindCandidateType ==
    ASSUME Typed, NEW w \in Workers, FindCandidate(w)
    PROVE  Typed'
<1>0. req[w] \in Request /\ Filled(req[w]) /\ TablesOK /\ RequestsFilled
      BY RequestOf DEF Typed, TypeOK
<1>1. CASE Goto(w, "task")
      <2>1. Filled([req[w] EXCEPT !.pc = "task"])
            BY <1>0 DEF FindCandidate, At, Request, Filled, PrecheckSteps, ChunkSteps, OwnerSteps
      <2>2. RequestsFilled'
            BY <1>0, <1>1, <2>1, GotoStep DEF Steps
      <2> QED BY <2>2, QuietStep DEF FindCandidate
<1>2. ASSUME NEW f \in Candidates(req[w].content),
             req' = [req EXCEPT ![w].pc = "instant", ![w].file = f]
      PROVE  Typed'
      <2> DEFINE r == [req[w] EXCEPT !.pc = "instant", !.file = f]
      <2>1. f \in Key("file") /\ f # NULL
            BY <1>0, KeyIsNotNull DEF Candidates, TablesOK, IsTable, Kinds
      <2>2. r \in Request
            BY <1>0, <2>1 DEF Request, Steps
      <2>3. Filled(r)
            BY <1>0, <2>1 DEF FindCandidate, At, Request, Filled, PrecheckSteps, ChunkSteps,
                              OwnerSteps
      <2>4. req' = [req EXCEPT ![w] = r]
            BY <1>2
      <2> HIDE DEF r
      <2>5. RequestsFilled'
            BY <1>0, <2>2, <2>3, <2>4, RequestStep
      <2> QED BY <2>5, QuietStep DEF FindCandidate
<1> QED BY <1>1, <1>2 DEF FindCandidate

LEMMA InstantLinkType ==
    ASSUME Typed, NEW w \in Workers, InstantLink(w)
    PROVE  Typed'
<1>0. req[w] \in Request /\ Filled(req[w]) /\ TypeOK /\ RequestsFilled
      BY RequestOf DEF Typed
<1> DEFINE l == NextKey("userFile")
<1>1. KeysOK' /\ l \in Key("userFile")
      BY <1>0, DrawType DEF InstantLink, Kinds, TypeOK
<1>2. req[w].user \in Users /\ req[w].file \in Key("file")
      BY <1>0 DEF InstantLink, At, Request, Filled, PrecheckSteps, ChunkSteps, OwnerSteps
<1>3. req[w].dir \in {NULL} \cup Key("dir")
      BY <1>0 DEF Request
<1>4. TablesOK'
      BY <1>0, <1>1, <1>2, <1>3, CreateUserFileType DEF InstantLink, TypeOK
<1>5. ASSUME Space > 0
      PROVE  RequestsFilled'
      <2>0. l # NULL
            BY <1>1, KeyIsNotNull DEF Kinds
      <2> HIDE DEF l
      <2> DEFINE r == [req[w] EXCEPT !.pc = "deduct", !.userFile = l]
      <2>1. r \in Request
            BY <1>0, <1>1, <2>0 DEF Request, Steps, InstantLink, At
      <2>2. Filled(r)
            BY <1>0, <1>1, <2>0 DEF Request, Filled, PrecheckSteps, ChunkSteps,
               OwnerSteps, InstantLink, At
      <2>3. req' = [req EXCEPT ![w] = r]
            BY <1>5 DEF InstantLink, l
      <2> HIDE DEF r
      <2>4. RequestsFilled'
            BY <1>0, <2>1, <2>2, <2>3, RequestStep
      <2> QED BY <2>4
<1>6. ASSUME ~(Space > 0)
      PROVE  RequestsFilled'
      BY <1>0, <1>6, FinishStep DEF InstantLink
<1>7. RequestsFilled'
      BY <1>5, <1>6
<1> QED BY <1>1, <1>4, <1>7, DrawStep DEF InstantLink

LEMMA InstantDeductType ==
    ASSUME Typed, NEW w \in Workers, InstantDeduct(w)
    PROVE  Typed'
<1>0. req[w] \in Request /\ Filled(req[w]) /\ TypeOK /\ RequestsFilled
      BY RequestOf DEF Typed
<1>1. req[w].user \in Users /\ req[w].free - 1 \in Int
      BY <1>0 DEF InstantDeduct, At, Request, Filled, PrecheckSteps, ChunkSteps, OwnerSteps
<1>2. TablesOK'
      BY <1>0, <1>1, UpdateUserType DEF InstantDeduct, TypeOK
<1>3. RequestsFilled'
      BY <1>0, FinishStep DEF InstantDeduct
<1> QED BY <1>2, <1>3, TablesStep DEF InstantDeduct

LEMMA InstantRollbackType ==
    ASSUME Typed, NEW w \in Workers, InstantRollback(w)
    PROVE  Typed'
<1>0. req[w] \in Request /\ Filled(req[w]) /\ TypeOK /\ RequestsFilled
      BY RequestOf DEF Typed
<1>1. TablesOK'
      BY <1>0, SoftDeleteType, KeepTables DEF InstantRollback, TypeOK
<1>2. Filled([req[w] EXCEPT !.pc = "task"])
      BY <1>0 DEF InstantRollback, At, Request, Filled, PrecheckSteps, ChunkSteps,
         OwnerSteps
<1>3. RequestsFilled'
      BY <1>0, <1>2, GotoStep DEF InstantRollback, Steps
<1> QED BY <1>1, <1>3, TablesStep DEF InstantRollback

LEMMA TaskRowType ==
    ASSUME NEW status \in Statuses, NEW uploaded \in 0..Chunks, NEW expires \in Nat
    PROVE  [status |-> status, uploaded |-> uploaded, expiresAt |-> expires] \in UploadTask
BY DEF UploadTask

LEMMA TaskTimeType == CacheOK => clock + TaskTTL \in Nat
BY MemoryCacheAssumption DEF CacheOK, TaskTTL

LEMMA CreateTaskType ==
    ASSUME Typed, NEW w \in Workers, CreateTask(w)
    PROVE  Typed'
<1>0. req[w] \in Request /\ Filled(req[w]) /\ TypeOK /\ RequestsFilled
      BY RequestOf DEF Typed
<1> DEFINE t == NextKey("task")
           row == [status |-> "pending", uploaded |-> 0, expiresAt |-> clock + TaskTTL]
<1>1. KeysOK' /\ t \in Key("task")
      BY <1>0, DrawType DEF CreateTask, Kinds, TypeOK
<1>2. t # NULL
      BY <1>1, KeyIsNotNull DEF Kinds
<1>3. row \in UploadTask
      BY <1>0, TaskRowType, TaskTimeType, FileStoreAssumption DEF Statuses, TypeOK
<1>4. PutTask(t, row)
      BY DEF CreateTask
<1> HIDE DEF row
<1>5. TablesOK'
      BY <1>0, <1>1, <1>3, <1>4, PutTaskType DEF TypeOK
<1> HIDE DEF t
<1> DEFINE r == [req[w] EXCEPT !.pc = "cache", !.task = t]
<1>6. r \in Request
      BY <1>0, <1>1, <1>2 DEF Request, Steps, CreateTask, At
<1>7. Filled(r)
      BY <1>0, <1>1, <1>2 DEF Request, Filled, PrecheckSteps, ChunkSteps, OwnerSteps,
         CreateTask, At
<1>8. req' = [req EXCEPT ![w] = r]
      BY DEF CreateTask, t
<1> HIDE DEF r
<1>9. RequestsFilled'
      BY <1>0, <1>6, <1>7, <1>8, RequestStep
<1> QED BY <1>1, <1>5, <1>9, DrawStep DEF CreateTask

LEMMA CachePrecheckType ==
    ASSUME Typed, NEW w \in Workers, CachePrecheck(w)
    PROVE  Typed'
<1>0. req[w] \in Request /\ Filled(req[w]) /\ TypeOK /\ RequestsFilled
      BY RequestOf DEF Typed
<1>1. req[w].task \in Key("task") /\ req[w].content \in Contents
      BY <1>0 DEF CachePrecheck, At, Request, Filled, PrecheckSteps, ChunkSteps, OwnerSteps
<1>2. req[w].dir \in Key("dir") \cup {NULL} /\ CacheTTL \in Nat
      BY <1>0 DEF Request, CacheTTL
<1>3. CacheOK'
      BY <1>0, <1>1, <1>2, CacheSetType DEF CachePrecheck, TypeOK
<1>4. RequestsFilled'
      BY <1>0, FinishStep DEF CachePrecheck
<1> QED BY <1>3, <1>4, CacheStep DEF CachePrecheck

-----------------------------------------------------------------------------
(***************************************************************************)
(* UploadChunk, up to the merge.                                           *)
(***************************************************************************)
(* What the client sends; a file in one piece comes without a total.       *)
LEMMA ChunkRequest ==
    ASSUME NEW w, UploadChunk(w)
    PROVE  \E t \in DOMAIN items, p \in UploadParts, u \in Users, n \in {0} \cup Totals :
            /\ p # Single => n \in Totals
            /\ req' = [req EXCEPT ![w].pc = "mkdir", ![w].task = t, ![w].part = p, ![w].user = u,
                                  ![w].total = n,
                                  ![w].content = items[t].value.content,
                                  ![w].dir = items[t].value.dir]
<1>1. PICK t \in DOMAIN items, p \in UploadParts, u \in Users :
       \E n \in IF p = Single THEN {0} ELSE Totals :
        /\ Live(t)
        /\ req' = [req EXCEPT ![w].pc = "mkdir", ![w].task = t, ![w].part = p, ![w].user = u,
                              ![w].total = n,
                              ![w].content = items[t].value.content,
                              ![w].dir = items[t].value.dir]
      BY Zenon DEF UploadChunk
<1>2. PICK n \in IF p = Single THEN {0} ELSE Totals :
        req' = [req EXCEPT ![w].pc = "mkdir", ![w].task = t, ![w].part = p, ![w].user = u,
                           ![w].total = n,
                           ![w].content = items[t].value.content,
                           ![w].dir = items[t].value.dir]
      BY <1>1, Zenon
<1>3. n \in {0} \cup Totals /\ (p # Single => n \in Totals)
      BY <1>2
<1> QED BY <1>2, <1>3, Zenon

LEMMA UploadChunkType ==
    ASSUME Typed, NEW w \in Workers, UploadChunk(w)
    PROVE  Typed'
<1>0. req[w] \in Request /\ Filled(req[w]) /\ TypeOK /\ RequestsFilled
      BY RequestOf DEF Typed
<1>1. PICK t \in DOMAIN items, p \in UploadParts, user \in Users,
           total \in {0} \cup Totals :
        /\ p # Single => total \in Totals
        /\ req' = [req EXCEPT ![w].pc = "mkdir", ![w].task = t, ![w].part = p,
                              ![w].user = user, ![w].total = total,
                              ![w].content = items[t].value.content,
                              ![w].dir = items[t].value.dir]
      BY ChunkRequest, Zenon
<1>m. total \in 0..Chunks /\ (p # Single => total \in Totals)
      BY <1>1, FileStoreAssumption
<1>z. req[w].merged = 0 /\ 0 <= total
      BY <1>0, <1>m DEF Filled, UploadChunk, At
<1>2. t \in Key("task") /\ items[t] \in PrecheckEntry
      BY <1>0, <1>1, RowType DEF TypeOK, CacheOK
<1>3. t # NULL
      BY <1>2, KeyIsNotNull DEF Kinds
<1>4. p \in Parts /\ p # NULL
      BY <1>1, FileStoreAssumption DEF UploadParts, Parts
<1> DEFINE k == items[t].value.content
           d == items[t].value.dir
<1>5. k \in Contents /\ k # NULL /\ d \in Key("dir") \cup {NULL} /\ user # NULL
      BY <1>1, <1>2, FileStoreAssumption DEF PrecheckEntry
<1> HIDE DEF k, d
<1> DEFINE r == [req[w] EXCEPT !.pc = "mkdir", !.task = t, !.part = p, !.user = user,
              !.total = total, !.content = k, !.dir = d]
<1>6. r \in Request
      BY <1>0, <1>1, <1>m, <1>2, <1>4, <1>5 DEF Request, Steps
<1>7. Filled(r)
      BY <1>0, <1>1, <1>m, <1>z, <1>2, <1>3, <1>4, <1>5 DEF Request, Filled, PrecheckSteps, ChunkSteps,
         OwnerSteps
<1>8. req' = [req EXCEPT ![w] = r]
      BY <1>1 DEF k, d
<1> HIDE DEF r
<1>9. RequestsFilled'
      BY <1>0, <1>6, <1>7, <1>8, RequestStep
<1> QED BY <1>9, QuietStep DEF UploadChunk

LEMMA UploadChunkLateType ==
    ASSUME Typed, NEW w \in Workers, UploadChunkLate(w)
    PROVE  Typed'
<1>0. req[w] \in Request /\ Filled(req[w]) /\ TypeOK /\ RequestsFilled
      BY RequestOf DEF Typed
<1>1. PICK t \in DOMAIN items : req' = [req EXCEPT ![w].pc = "evict", ![w].task = t]
      BY DEF UploadChunkLate
<1>2. t \in Key("task")
      BY <1>0 DEF TypeOK, CacheOK, IsTable
<1> DEFINE r == [req[w] EXCEPT !.pc = "evict", !.task = t]
<1>3. r \in Request
      BY <1>0, <1>2 DEF Request, Steps
<1>4. Filled(r)
      BY <1>0, <1>2 DEF Request, Filled, PrecheckSteps, ChunkSteps, OwnerSteps
<1>5. req' = [req EXCEPT ![w] = r]
      BY <1>1
<1> HIDE DEF r
<1>6. RequestsFilled'
      BY <1>0, <1>3, <1>4, <1>5, RequestStep
<1> QED BY <1>6, QuietStep DEF UploadChunkLate

LEMMA EvictPrecheckType ==
    ASSUME Typed, NEW w \in Workers, EvictPrecheck(w)
    PROVE  Typed'
<1>0. req[w] \in Request /\ Filled(req[w]) /\ TypeOK /\ RequestsFilled
      BY RequestOf DEF Typed
<1>1. CacheOK'
      BY <1>0, CacheDropType DEF EvictPrecheck, CacheDelete, TypeOK
<1>2. RequestsFilled'
      BY <1>0, FinishStep DEF EvictPrecheck
<1> QED BY <1>1, <1>2, CacheStep DEF EvictPrecheck

LEMMA MakeTempDirType ==
    ASSUME Typed, NEW w \in Workers, MakeTempDir(w)
    PROVE  Typed'
<1>0. req[w] \in Request /\ Filled(req[w]) /\ TypeOK /\ RequestsFilled
      BY RequestOf DEF Typed
<1>1. req[w].task \in Key("task")
      BY <1>0 DEF MakeTempDir, At, Request, Filled, PrecheckSteps, ChunkSteps, OwnerSteps
<1>2. FilesOK'
      BY <1>0, <1>1, MkdirTempType DEF MakeTempDir, TypeOK
<1>3. Filled([req[w] EXCEPT !.pc = "open"])
      BY <1>0 DEF MakeTempDir, At, Request, Filled, PrecheckSteps, ChunkSteps,
         OwnerSteps
<1>4. RequestsFilled'
      BY <1>0, <1>3, GotoStep DEF MakeTempDir, Steps
<1> QED BY <1>2, <1>4, FilesStep DEF MakeTempDir

LEMMA SaveOpenType ==
    ASSUME Typed, NEW w \in Workers, SaveOpen(w)
    PROVE  Typed'
<1>0. req[w] \in Request /\ Filled(req[w]) /\ TypeOK /\ RequestsFilled
      BY RequestOf DEF Typed
<1>1. req[w].part \in Parts
      BY <1>0 DEF SaveOpen, At, Request, Filled, PrecheckSteps, ChunkSteps, OwnerSteps
<1>2. FilesOK'
      BY <1>0, <1>1, OpenPartType, KeepFiles DEF SaveOpen, TypeOK
<1>3. Filled([req[w] EXCEPT !.pc = "copy"])
      BY <1>0 DEF SaveOpen, At, Request, Filled, PrecheckSteps, ChunkSteps, OwnerSteps
<1>4. RequestsFilled'
      BY <1>0, <1>3, GotoStep, FinishStep DEF SaveOpen, Steps
<1> QED BY <1>2, <1>4, FilesStep DEF SaveOpen

LEMMA SaveCopyType ==
    ASSUME Typed, NEW w \in Workers, SaveCopy(w)
    PROVE  Typed'
<1>0. req[w] \in Request /\ Filled(req[w]) /\ TypeOK /\ RequestsFilled
      BY RequestOf DEF Typed
<1>1. FilesOK'
      BY <1>0, EndWritingType DEF SaveCopy, TypeOK
<1> DEFINE next == IF req[w].part = Single THEN "rename" ELSE "count"
<1>2. Filled([req[w] EXCEPT !.pc = next])
      BY <1>0 DEF SaveCopy, At, Request, Filled, PrecheckSteps, ChunkSteps, OwnerSteps
<1>3. RequestsFilled'
      BY <1>0, <1>2, GotoStep DEF SaveCopy, Steps
<1> QED BY <1>1, <1>3, FilesStep DEF SaveCopy

LEMMA CountChunksType ==
    ASSUME Typed, NEW w \in Workers, CountChunks(w)
    PROVE  Typed'
<1>0. req[w] \in Request /\ Filled(req[w]) /\ TypeOK /\ RequestsFilled
      BY RequestOf DEF Typed
<1> DEFINE n == Cardinality(ChunksOf(req[w].task, req[w].total))
<1>1. n \in 0..Chunks
      BY <1>0, ChunksOfType DEF Request
<1> HIDE DEF n
<1> DEFINE r == [req[w] EXCEPT !.pc = "progress", !.status = "uploading", !.uploaded =
              n]
<1>2. r \in Request
      BY <1>0, <1>1 DEF Request, Steps, CountChunks, At, Statuses
<1>3. Filled(r)
      BY <1>0, <1>1 DEF Request, Filled, PrecheckSteps, ChunkSteps, OwnerSteps,
         CountChunks, At, Statuses
<1>4. req' = [req EXCEPT ![w] = r]
      BY DEF CountChunks, n
<1> HIDE DEF r
<1>5. RequestsFilled'
      BY <1>0, <1>2, <1>3, <1>4, RequestStep
<1> QED BY <1>5, QuietStep DEF CountChunks

LEMMA AfterProgressStep ==
    ASSUME Typed, NEW w \in Workers, req[w].pc \in {"progress", "write"}, AfterProgress(w)
    PROVE  RequestsFilled'
<1>0. req[w] \in Request /\ Filled(req[w]) /\ TypeOK /\ RequestsFilled
      BY RequestOf DEF Typed
<1>1. /\ Filled([req[w] EXCEPT !.pc = "clean"])
      /\ Filled([req[w] EXCEPT !.pc = "unlock"])
      /\ Filled([req[w] EXCEPT !.pc = "lock"])
      BY <1>0 DEF Request, Filled, PrecheckSteps, ChunkSteps, OwnerSteps
<1> QED BY <1>0, <1>1, GotoStep, FinishStep DEF AfterProgress, Steps

LEMMA ReadTaskType ==
    ASSUME Typed, NEW w \in Workers, ReadTask(w)
    PROVE  Typed'
<1>0. req[w] \in Request /\ Filled(req[w]) /\ TypeOK /\ RequestsFilled
      BY RequestOf DEF Typed
<1>1. CASE HasTask(req[w].task)
      <2> DEFINE e == db.uploadTasks[req[w].task].expiresAt
      <2>1. db.uploadTasks[req[w].task] \in UploadTask
            BY <1>0, <1>1, RowType DEF HasTask, TypeOK, TablesOK
      <2>2. e \in Nat
            BY <2>1 DEF UploadTask
      <2> HIDE DEF e
      <2> DEFINE r == [req[w] EXCEPT !.pc = "write", !.expires = e]
      <2>3. r \in Request
            BY <1>0, <2>2 DEF Request, Steps, ReadTask, At
      <2>4. Filled(r)
            BY <1>0, <2>2 DEF Request, Filled, PrecheckSteps, ChunkSteps, OwnerSteps,
               ReadTask, At
      <2>5. req' = [req EXCEPT ![w] = r]
            BY <1>1 DEF ReadTask, e
      <2> HIDE DEF r
      <2>6. RequestsFilled'
            BY <1>0, <2>3, <2>4, <2>5, RequestStep
      <2> QED BY <2>6, QuietStep DEF ReadTask
<1>2. CASE ~HasTask(req[w].task)
      BY <1>2, AfterProgressStep, QuietStep DEF ReadTask, At
<1> QED BY <1>1, <1>2

(* The row a request writes back is one.                                   *)
LEMMA WriteBackType ==
    ASSUME Typed, NEW w \in Workers, req[w].status \in Statuses,
           IF HasTask(req[w].task)
           THEN PutTask(req[w].task, [status    |-> req[w].status,
                                      uploaded  |-> req[w].uploaded,
                                      expiresAt |-> req[w].expires])
           ELSE UNCHANGED db
    PROVE  TablesOK'
<1>0. req[w] \in Request /\ TablesOK
      BY RequestOf DEF Typed, TypeOK
<1> DEFINE row == [status |-> req[w].status, uploaded |-> req[w].uploaded,
                   expiresAt |-> req[w].expires]
<1>1. row \in UploadTask
      BY <1>0, TaskRowType DEF Request
<1> HIDE DEF row
<1>2. CASE HasTask(req[w].task)
      <2>1. req[w].task \in Key("task")
            BY <1>0, <1>2 DEF HasTask, TablesOK, IsTable
      <2>2. PutTask(req[w].task, row)
            BY <1>2 DEF row
      <2> QED BY <1>0, <1>1, <2>1, <2>2, PutTaskType
<1>3. CASE ~HasTask(req[w].task)
      BY <1>0, <1>3, KeepTables
<1> QED BY <1>2, <1>3

LEMMA WriteTaskType ==
    ASSUME Typed, NEW w \in Workers, WriteTask(w)
    PROVE  Typed'
<1>0. req[w] \in Request /\ Filled(req[w])
      BY RequestOf DEF Typed
<1>1. req[w].status \in Statuses
      BY <1>0 DEF WriteTask, At, Filled, Statuses
<1>2. TablesOK'
      BY <1>1, WriteBackType DEF WriteTask
<1>3. RequestsFilled'
      BY AfterProgressStep DEF WriteTask, At
<1> QED BY <1>2, <1>3, TablesStep DEF WriteTask

-----------------------------------------------------------------------------
(***************************************************************************)
(* The merge.                                                              *)
(***************************************************************************)
LEMMA MergeFailedStep ==
    ASSUME Typed, NEW w \in Workers, req[w].pc \in {"merge", "info", "link"},
           req[w].part # Single, MergeFailed(w)
    PROVE  RequestsFilled'
<1>0. req[w] \in Request /\ Filled(req[w]) /\ TypeOK /\ RequestsFilled
      BY RequestOf DEF Typed
<1> DEFINE r == [req[w] EXCEPT !.pc = "progress", !.status = "failed"]
<1>1. r \in Request
      BY <1>0 DEF Request, Steps, Statuses
<1>2. Filled(r)
      BY <1>0 DEF Request, Filled, PrecheckSteps, ChunkSteps, OwnerSteps, Statuses
<1>3. req' = [req EXCEPT ![w] = r]
      BY DEF MergeFailed
<1> HIDE DEF r
<1>4. RequestsFilled'
      BY <1>0, <1>1, <1>2, <1>3, RequestStep
<1> QED BY <1>4

LEMMA LockMergeType ==
    ASSUME Typed, NEW w \in Workers, LockMerge(w)
    PROVE  Typed'
<1>0. req[w] \in Request /\ Filled(req[w]) /\ TypeOK /\ RequestsFilled
      BY RequestOf DEF Typed
<1> DEFINE f == NextKey("file")
<1>1. CASE req[w].task \in mergeLocks
      <2>1. RequestsFilled'
            BY <1>0, <1>1, FinishStep DEF LockMerge
      <2>2. TablesOK' /\ FilesOK' /\ CacheOK' /\ KeysOK'
            BY <1>0, <1>1, KeepTables, KeepFiles, KeepCache, KeepKeys DEF LockMerge, TypeOK
      <2> QED BY <1>1, <2>1, <2>2, StepType DEF LockMerge, shared
<1>2. CASE req[w].task \notin mergeLocks
      <2>1. KeysOK' /\ f \in Key("file")
            BY <1>0, <1>2, DrawType DEF LockMerge, Kinds, TypeOK
      <2>2. f # NULL
            BY <2>1, KeyIsNotNull DEF Kinds
      <2>3. FilesOK'
            BY <1>0, <1>2, <2>1, PutFileType DEF LockMerge, Data, TypeOK
      <2>4. TablesOK' /\ CacheOK'
            BY <1>0, KeepTables, KeepCache DEF LockMerge, TypeOK
      <2>5. mergeLocks' \subseteq Key("task") /\ UNCHANGED failures
            BY <1>0, <1>2 DEF LockMerge, At, TypeOK, Request, Filled, PrecheckSteps, ChunkSteps, OwnerSteps
      <2> HIDE DEF f
      <2> DEFINE next == IF req[w].total = 0 THEN "remove temp" ELSE "merge"
      <2>a. next \in Steps /\ next \in {"merge", "remove temp"} /\ 0 \in 0..Chunks
            BY FileStoreAssumption DEF Steps
      <2>b. 0 <= req[w].total /\ (next = "merge" => 0 < req[w].total)
            BY <1>0 DEF Request
      <2> DEFINE r == [req[w] EXCEPT !.pc = next, !.file = f, !.merged = 0]
      <2> HIDE DEF next
      <2>6. r \in Request
            BY <1>0, <2>1, <2>a DEF Request
      <2>7. Filled(r)
            BY <1>0, <2>1, <2>2, <2>a, <2>b DEF Request, Filled, PrecheckSteps, ChunkSteps,
               OwnerSteps, LockMerge, At
      <2>8. req' = [req EXCEPT ![w] = r]
            BY <1>2 DEF LockMerge, StartMerge, f, next
      <2> HIDE DEF r
      <2>9. RequestsFilled'
            BY <1>0, <2>6, <2>7, <2>8, RequestStep
      <2> QED BY <1>0, <2>1, <2>3, <2>4, <2>5, <2>9, FilledBound DEF Typed, TypeOK, MergedBound
<1> QED BY <1>1, <1>2

LEMMA MergeChunkType ==
    ASSUME Typed, NEW w \in Workers, MergeChunk(w)
    PROVE  Typed'
<1>0. req[w] \in Request /\ Filled(req[w]) /\ TypeOK /\ RequestsFilled
      BY RequestOf DEF Typed
<1>m. req[w].merged \in 0..Chunks /\ req[w].total \in 0..Chunks /\ Chunks \in Nat
      BY <1>0, FileStoreAssumption DEF Request
<1>t. req[w].merged < req[w].total
      BY <1>0 DEF Filled, MergeChunk, At
<1> DEFINE i == req[w].merged
           n == i + 1
           next == IF n = req[w].total THEN "remove temp" ELSE "merge"
<1>1. CASE HasPart(req[w].task, i)
      <2>1. n \in 0..Chunks /\ n <= req[w].total /\ (next = "merge" => n < req[w].total)
            BY <1>m, <1>t
      <2>2. req[w].file \in Key("file")
            BY <1>0 DEF MergeChunk, At, Request, Filled, PrecheckSteps, ChunkSteps, OwnerSteps
      <2>3. FilesOK'
            <3>1. CASE temp[req[w].task][i] = "Whole"
                  BY <1>0, <1>1, <3>1, KeepFiles DEF MergeChunk, TypeOK
            <3>2. CASE temp[req[w].task][i] # "Whole"
                  BY <1>0, <1>1, <2>2, <3>2, PutFileType DEF MergeChunk, Data, TypeOK
            <3> QED BY <3>1, <3>2
      <2>4. next \in {"merge", "remove temp"} /\ next \in Steps
            BY DEF Steps
      <2> HIDE DEF i, n, next
      <2> DEFINE r == [req[w] EXCEPT !.pc = next, !.merged = n]
      <2>5. r \in Request
            BY <1>0, <2>1, <2>4 DEF Request
      <2>6. Filled(r)
            BY <1>0, <2>1, <2>4 DEF Request, Filled, PrecheckSteps, ChunkSteps,
               OwnerSteps, MergeChunk, At
      <2>7. req' = [req EXCEPT ![w] = r]
            BY <1>1 DEF MergeChunk, i, n, next
      <2> HIDE DEF r
      <2>8. RequestsFilled'
            BY <1>0, <2>5, <2>6, <2>7, RequestStep
      <2> QED BY <2>3, <2>8, FilesStep DEF MergeChunk
<1>2. CASE ~HasPart(req[w].task, i)
      <2>1. req[w].pc = "merge" /\ req[w].part # Single
            BY <1>0 DEF MergeChunk, At, Filled
      <2>2. RequestsFilled' /\ FilesOK'
            BY <1>0, <1>2, <2>1, MergeFailedStep, KeepFiles DEF MergeChunk, TypeOK
      <2> QED BY <2>2, FilesStep DEF MergeChunk
<1> QED BY <1>1, <1>2

LEMMA RemoveTempDirType ==
    ASSUME Typed, NEW w \in Workers, RemoveTempDir(w)
    PROVE  Typed'
<1>0. req[w] \in Request /\ Filled(req[w]) /\ TypeOK /\ RequestsFilled
      BY RequestOf DEF Typed
<1>1. FilesOK'
      BY <1>0, RemoveTempType DEF RemoveTempDir, TypeOK
<1>2. RequestsFilled'
      <2>1. CASE req[w].part = Single
            BY <1>0, <2>1, FinishStep DEF RemoveTempDir
      <2>2. CASE req[w].part # Single
            <3>1. Filled([req[w] EXCEPT !.pc = "info"])
                  BY <1>0, <2>2 DEF RemoveTempDir, At, Request, Filled, PrecheckSteps, ChunkSteps, OwnerSteps
            <3> QED BY <1>0, <2>2, <3>1, GotoStep DEF RemoveTempDir, Steps
      <2> QED BY <2>1, <2>2
<1> QED BY <1>1, <1>2, FilesStep DEF RemoveTempDir

LEMMA InsertFileInfoType ==
    ASSUME Typed, NEW w \in Workers, InsertFileInfo(w)
    PROVE  Typed'
<1>0. req[w] \in Request /\ Filled(req[w]) /\ TypeOK /\ RequestsFilled
      BY RequestOf DEF Typed
<1>1. req[w].file \in Key("file") /\ req[w].content \in Contents
      BY <1>0 DEF InsertFileInfo, At, Request, Filled, PrecheckSteps, ChunkSteps, OwnerSteps
<1>2. TablesOK'
      BY <1>0, <1>1, CreateFileInfoType DEF InsertFileInfo, TypeOK
<1>3. Filled([req[w] EXCEPT !.pc = "link"])
      BY <1>0 DEF InsertFileInfo, At, Request, Filled, PrecheckSteps, ChunkSteps,
         OwnerSteps
<1>4. RequestsFilled'
      BY <1>0, <1>3, GotoStep DEF InsertFileInfo, Steps
<1> QED BY <1>2, <1>4, TablesStep DEF InsertFileInfo

LEMMA InsertUserFileType ==
    ASSUME Typed, NEW w \in Workers, InsertUserFile(w)
    PROVE  Typed'
<1>0. req[w] \in Request /\ Filled(req[w]) /\ TypeOK /\ RequestsFilled
      BY RequestOf DEF Typed
<1> DEFINE l == NextKey("userFile")
<1>1. KeysOK' /\ l \in Key("userFile")
      BY <1>0, DrawType DEF InsertUserFile, Kinds, TypeOK
<1>2. req[w].user \in Users /\ req[w].file \in Key("file")
      BY <1>0 DEF InsertUserFile, At, Request, Filled, PrecheckSteps, ChunkSteps, OwnerSteps
<1>3. req[w].dir \in {NULL} \cup Key("dir")
      BY <1>0 DEF Request
<1>4. TablesOK'
      BY <1>0, <1>1, <1>2, <1>3, CreateUserFileType DEF InsertUserFile, TypeOK
<1>5. ASSUME req[w].part = Single
      PROVE  RequestsFilled'
      <2> HIDE DEF l
      <2> DEFINE r == [req[w] EXCEPT !.pc = "clean", !.userFile = l]
      <2>1. r \in Request
            BY <1>0, <1>1 DEF Request, Steps, InsertUserFile, At
      <2>2. Filled(r)
            BY <1>0, <1>1 DEF Request, Filled, PrecheckSteps, ChunkSteps, OwnerSteps,
               InsertUserFile, At
      <2>3. req' = [req EXCEPT ![w] = r]
            BY <1>5 DEF InsertUserFile, l
      <2> HIDE DEF r
      <2>4. RequestsFilled'
            BY <1>0, <2>1, <2>2, <2>3, RequestStep
      <2> QED BY <2>4
<1>6. ASSUME req[w].part # Single
      PROVE  RequestsFilled'
      <2> DEFINE n == req[w].total
      <2>0. n \in 0..Chunks
            BY <1>0 DEF Request
      <2> HIDE DEF l, n
      <2> DEFINE r == [req[w] EXCEPT !.pc = "progress", !.userFile = l, !.status =
                    "completed", !.uploaded = n]
      <2>1. r \in Request
            BY <1>0, <1>1, <1>6, <2>0 DEF Request, Steps, Statuses
      <2>2. Filled(r)
            BY <1>0, <1>1, <1>6, <2>0 DEF Request, Filled, PrecheckSteps, ChunkSteps,
               OwnerSteps, InsertUserFile, At
      <2>3. req' = [req EXCEPT ![w] = r]
            BY <1>6 DEF InsertUserFile, l, n
      <2> HIDE DEF r
      <2>4. RequestsFilled'
            BY <1>0, <2>1, <2>2, <2>3, RequestStep
      <2> QED BY <2>4
<1>7. RequestsFilled'
      BY <1>5, <1>6
<1> QED BY <1>1, <1>4, <1>7, DrawStep DEF InsertUserFile

LEMMA CleanPrecheckCacheType ==
    ASSUME Typed, NEW w \in Workers, CleanPrecheckCache(w)
    PROVE  Typed'
<1>0. req[w] \in Request /\ Filled(req[w]) /\ TypeOK /\ RequestsFilled
      BY RequestOf DEF Typed
<1>1. CacheOK'
      BY <1>0, CacheDropType DEF CleanPrecheckCache, CacheDelete, TypeOK
<1> DEFINE next == IF req[w].part = Single THEN "remove temp" ELSE "unlock"
<1>2. Filled([req[w] EXCEPT !.pc = next])
      BY <1>0 DEF CleanPrecheckCache, At, Request, Filled, PrecheckSteps, ChunkSteps, OwnerSteps
<1>3. RequestsFilled'
      BY <1>0, <1>2, GotoStep DEF CleanPrecheckCache, Steps
<1> QED BY <1>1, <1>3, CacheStep DEF CleanPrecheckCache

LEMMA UnlockMergeType ==
    ASSUME Typed, NEW w \in Workers, UnlockMerge(w)
    PROVE  Typed'
<1>0. req[w] \in Request /\ Filled(req[w]) /\ TypeOK /\ RequestsFilled
      BY RequestOf DEF Typed
<1>1. RequestsFilled'
      BY <1>0, FinishStep DEF UnlockMerge
<1>2. TablesOK' /\ FilesOK' /\ CacheOK' /\ KeysOK'
      BY <1>0, KeepTables, KeepFiles, KeepCache, KeepKeys DEF UnlockMerge, stored, TypeOK
<1>3. mergeLocks' \subseteq Key("task") /\ UNCHANGED failures
      BY <1>0 DEF UnlockMerge, TypeOK
<1> QED BY <1>0, <1>1, <1>2, <1>3, FilledBound DEF Typed, TypeOK, MergedBound

LEMMA RenameUploadType ==
    ASSUME Typed, NEW w \in Workers, RenameUpload(w)
    PROVE  Typed'
<1>0. req[w] \in Request /\ Filled(req[w]) /\ TypeOK /\ RequestsFilled
      BY RequestOf DEF Typed
<1> DEFINE t == req[w].task
           f == NextKey("file")
<1>1. CASE HasPart(t, Single)
      <2>1. KeysOK' /\ f \in Key("file")
            BY <1>0, <1>1, DrawType DEF RenameUpload, Kinds, TypeOK
      <2>2. f # NULL
            BY <2>1, KeyIsNotNull DEF Kinds
      <2>3. t \in DOMAIN temp /\ temp[t][Single] \in Data
            BY <1>0, <1>1, PartType DEF HasPart, TypeOK
      <2>4. IsTable(disk', Key("file"), Data)
            BY <1>0, <1>1, <2>1, <2>3, PutType DEF RenameUpload, TypeOK, FilesOK
      <2>5. IsTable(Drop(temp[t], {Single}), Parts, Data)
            BY <1>0, <2>3, DropType DEF TypeOK, FilesOK
      <2>6. temp' = [temp EXCEPT ![t] = Drop(temp[t], {Single})]
            BY <1>1 DEF RenameUpload
      <2>7. FilesOK'
            BY <1>0, <2>3, <2>4, <2>5, <2>6, PartsType DEF TypeOK, FilesOK
      <2>8. TablesOK' /\ CacheOK'
            BY <1>0, KeepTables, KeepCache DEF RenameUpload, TypeOK
      <2> HIDE DEF f
      <2> DEFINE r == [req[w] EXCEPT !.pc = "info", !.file = f]
      <2>9. r \in Request
            BY <1>0, <2>1, <2>2 DEF Request, Steps, RenameUpload, At
      <2>10. Filled(r)
            BY <1>0, <2>1, <2>2 DEF Request, Filled, PrecheckSteps, ChunkSteps,
               OwnerSteps, RenameUpload, At
      <2>11. req' = [req EXCEPT ![w] = r]
            BY <1>1 DEF RenameUpload, f
      <2> HIDE DEF r
      <2>12. RequestsFilled'
            BY <1>0, <2>9, <2>10, <2>11, RequestStep
      <2> QED BY <2>1, <2>7, <2>8, <2>12, StepType DEF RenameUpload
<1>2. CASE ~HasPart(t, Single)
      <2>1. RequestsFilled'
            BY <1>0, <1>2, FinishStep DEF RenameUpload
      <2> QED BY <1>2, <2>1, QuietStep DEF RenameUpload, stored
<1> QED BY <1>1, <1>2

-----------------------------------------------------------------------------
(***************************************************************************)
(* Tasks, folders and MoveFile.                                            *)
(***************************************************************************)
LEMMA RenewUploadTaskType ==
    ASSUME Typed, NEW w \in Workers, RenewUploadTask(w)
    PROVE  Typed'
<1>0. req[w] \in Request /\ Filled(req[w]) /\ TypeOK /\ RequestsFilled
      BY RequestOf DEF Typed
<1>1. PICK t \in DOMAIN db.uploadTasks :
        req' = [req EXCEPT ![w].pc = "renew", ![w].task = t,
                           ![w].status = db.uploadTasks[t].status,
                           ![w].uploaded = db.uploadTasks[t].uploaded,
                           ![w].expires = clock + TaskTTL]
      BY DEF RenewUploadTask
<1>2. t \in Key("task") /\ db.uploadTasks[t] \in UploadTask
      BY <1>0, RowType DEF TypeOK, TablesOK
<1> DEFINE status == db.uploadTasks[t].status
           uploaded == db.uploadTasks[t].uploaded
           expires == clock + TaskTTL
<1>3. status \in Statuses /\ uploaded \in 0..Chunks /\ expires \in Nat
      BY <1>0, <1>2, TaskTimeType DEF UploadTask, TypeOK
<1> HIDE DEF status, uploaded, expires
<1> DEFINE r == [req[w] EXCEPT !.pc = "renew", !.task = t, !.status = status, !.uploaded
              = uploaded, !.expires = expires]
<1>4. r \in Request
      BY <1>0, <1>2, <1>3 DEF Request, Steps
<1>5. Filled(r)
      BY <1>0, <1>2, <1>3 DEF Request, Filled, PrecheckSteps, ChunkSteps, OwnerSteps
<1>6. req' = [req EXCEPT ![w] = r]
      BY <1>1 DEF status, uploaded, expires
<1> HIDE DEF r
<1>7. RequestsFilled'
      BY <1>0, <1>4, <1>5, <1>6, RequestStep
<1> QED BY <1>7, QuietStep DEF RenewUploadTask

LEMMA RenewWriteTaskType ==
    ASSUME Typed, NEW w \in Workers, RenewWriteTask(w)
    PROVE  Typed'
<1>0. req[w] \in Request /\ Filled(req[w]) /\ TypeOK /\ RequestsFilled
      BY RequestOf DEF Typed
<1>1. req[w].status \in Statuses
      BY <1>0 DEF RenewWriteTask, At, Filled
<1>2. TablesOK'
      BY <1>1, WriteBackType DEF RenewWriteTask
<1>3. RequestsFilled'
      BY <1>0, FinishStep DEF RenewWriteTask
<1> QED BY <1>2, <1>3, TablesStep DEF RenewWriteTask

LEMMA DeleteUploadTaskType ==
    ASSUME Typed, NEW w \in Workers, DeleteUploadTask(w)
    PROVE  Typed'
<1>0. req[w] \in Request /\ Filled(req[w]) /\ TypeOK /\ RequestsFilled
      BY RequestOf DEF Typed
<1>1. PICK t \in DOMAIN db.uploadTasks :
        req' = [req EXCEPT ![w].pc = "delete task", ![w].task = t]
      BY DEF DeleteUploadTask
<1>2. t \in Key("task")
      BY <1>0, RowType DEF TypeOK, TablesOK
<1> DEFINE r == [req[w] EXCEPT !.pc = "delete task", !.task = t]
<1>3. r \in Request
      BY <1>0, <1>2 DEF Request, Steps
<1>4. Filled(r)
      BY <1>0, <1>2 DEF Request, Filled, PrecheckSteps, ChunkSteps, OwnerSteps
<1>5. req' = [req EXCEPT ![w] = r]
      BY <1>1
<1> HIDE DEF r
<1>6. RequestsFilled'
      BY <1>0, <1>3, <1>4, <1>5, RequestStep
<1> QED BY <1>6, QuietStep DEF DeleteUploadTask

LEMMA DropTaskType ==
    ASSUME Typed, NEW w \in Workers, DropTask(w)
    PROVE  Typed'
<1>0. req[w] \in Request /\ Filled(req[w]) /\ TypeOK /\ RequestsFilled
      BY RequestOf DEF Typed
<1>1. TablesOK'
      BY <1>0, DeleteTasksType DEF DropTask, TypeOK
<1>2. RequestsFilled'
      BY <1>0, FinishStep DEF DropTask
<1> QED BY <1>1, <1>2, TablesStep DEF DropTask

LEMMA DeleteExpiredTasksType ==
    ASSUME Typed, DeleteExpiredTasks
    PROVE  Typed'
<1>1. TablesOK'
      BY DeleteTasksType DEF DeleteExpiredTasks, Typed, TypeOK
<1>2. RequestsFilled'
      BY DEF DeleteExpiredTasks, Typed, RequestsFilled
<1> QED BY <1>1, <1>2, TablesStep DEF DeleteExpiredTasks

LEMMA MakeDirType ==
    ASSUME Typed, NEW w \in Workers, MakeDir(w)
    PROVE  Typed'
<1>0. req[w] \in Request /\ Filled(req[w]) /\ TypeOK /\ RequestsFilled
      BY RequestOf DEF Typed
<1>1. PICK user \in Users, p \in {NULL} \cup DOMAIN db.virtualPaths :
        req' = [req EXCEPT ![w].pc = "make dir", ![w].user = user, ![w].dir = p]
      BY DEF MakeDir
<1>2. p \in Key("dir") \cup {NULL}
      BY <1>0, RowType DEF TypeOK, TablesOK
<1> DEFINE r == [req[w] EXCEPT !.pc = "make dir", !.user = user, !.dir = p]
<1>3. r \in Request
      BY <1>0, <1>2 DEF Request, Steps
<1>4. Filled(r)
      BY <1>0, <1>2, FileStoreAssumption DEF Request, Filled, PrecheckSteps, ChunkSteps,
         OwnerSteps
<1>5. req' = [req EXCEPT ![w] = r]
      BY <1>1
<1> HIDE DEF r
<1>6. RequestsFilled'
      BY <1>0, <1>3, <1>4, <1>5, RequestStep
<1> QED BY <1>6, QuietStep DEF MakeDir

LEMMA InsertDirType ==
    ASSUME Typed, NEW w \in Workers, InsertDir(w)
    PROVE  Typed'
<1>0. req[w] \in Request /\ Filled(req[w]) /\ TypeOK /\ RequestsFilled
      BY RequestOf DEF Typed
<1>1. KeysOK' /\ NextKey("dir") \in Key("dir")
      BY <1>0, DrawType DEF InsertDir, Kinds, TypeOK
<1>2. req[w].user \in Users /\ req[w].dir \in {NULL} \cup Key("dir")
      BY <1>0 DEF InsertDir, At, Request, Filled, PrecheckSteps, ChunkSteps, OwnerSteps
<1>3. TablesOK'
      BY <1>0, <1>1, <1>2, CreateDirType DEF InsertDir, TypeOK
<1>4. RequestsFilled'
      BY <1>0, FinishStep DEF InsertDir
<1> QED BY <1>1, <1>3, <1>4, DrawStep DEF InsertDir

LEMMA DeleteDirType ==
    ASSUME Typed, NEW w \in Workers, DeleteDir(w)
    PROVE  Typed'
<1>0. req[w] \in Request /\ Filled(req[w]) /\ TypeOK /\ RequestsFilled
      BY RequestOf DEF Typed
<1>1. PICK d \in DOMAIN db.virtualPaths :
        req' = [req EXCEPT ![w].pc = "delete dirs",
                           ![w].doomed = CollectDirs(db.virtualPaths[d].user, d)]
      BY DEF DeleteDir
<1> DEFINE doomed == CollectDirs(db.virtualPaths[d].user, d)
<1>2. doomed \subseteq Key("dir")
      BY <1>0 DEF CollectDirs, TypeOK, TablesOK, IsTable
<1> HIDE DEF doomed
<1> DEFINE r == [req[w] EXCEPT !.pc = "delete dirs", !.doomed = doomed]
<1>3. r \in Request
      BY <1>0, <1>2 DEF Request, Steps
<1>4. Filled(r)
      BY <1>0, <1>2 DEF Request, Filled, PrecheckSteps, ChunkSteps, OwnerSteps
<1>5. req' = [req EXCEPT ![w] = r]
      BY <1>1 DEF doomed
<1> HIDE DEF r
<1>6. RequestsFilled'
      BY <1>0, <1>3, <1>4, <1>5, RequestStep
<1> QED BY <1>6, QuietStep DEF DeleteDir

LEMMA NextDirStep ==
    ASSUME Typed, NEW w \in Workers, At(w, "delete dirs"), NEW d, NextDir(w, d)
    PROVE  RequestsFilled'
<1>0. req[w] \in Request /\ Filled(req[w]) /\ TypeOK /\ RequestsFilled
      BY RequestOf DEF Typed
<1>1. CASE req[w].doomed = {d}
      BY <1>0, <1>1, FinishStep DEF NextDir
<1>2. CASE req[w].doomed # {d}
      <2> DEFINE r == [req[w] EXCEPT !.doomed = @ \ {d}]
      <2>1. r \in Request
            BY <1>0 DEF Request, Steps
      <2>2. Filled(r)
            BY <1>0 DEF At, Request, Filled, PrecheckSteps, ChunkSteps, OwnerSteps
      <2>3. req' = [req EXCEPT ![w] = r]
            BY <1>2 DEF NextDir
      <2> HIDE DEF r
      <2>4. RequestsFilled'
            BY <1>0, <2>1, <2>2, <2>3, RequestStep
      <2> QED BY <2>4
<1> QED BY <1>1, <1>2

LEMMA DropDirType ==
    ASSUME Typed, NEW w \in Workers, DropDir(w)
    PROVE  Typed'
<1>0. req[w] \in Request /\ Filled(req[w]) /\ TypeOK /\ RequestsFilled
      BY RequestOf DEF Typed
<1>1. TablesOK'
      BY <1>0, DeleteDirRowType DEF DropDir, TypeOK
<1>2. RequestsFilled'
      BY NextDirStep DEF DropDir
<1> QED BY <1>1, <1>2, TablesStep DEF DropDir

LEMMA MoveFileType ==
    ASSUME Typed, NEW w \in Workers, MoveFile(w)
    PROVE  Typed'
<1>0. TypeOK /\ RequestsFilled
      BY DEF Typed
<1>1. PICK l \in DOMAIN db.userFiles, d \in Dirs : MoveUserFile(l, d)
      BY DEF MoveFile
<1>2. HasUserFile(l) /\ d \in {NULL} \cup Key("dir")
      BY <1>0, KnownType DEF HasUserFile, Dirs, Kinds, TypeOK
<1>3. TablesOK'
      BY <1>0, <1>1, <1>2, MoveUserFileType DEF TypeOK
<1>4. RequestsFilled'
      BY <1>0 DEF MoveFile, RequestsFilled
<1> QED BY <1>3, <1>4, TablesStep DEF MoveFile

-----------------------------------------------------------------------------
(***************************************************************************)
(* The recycle bin.                                                        *)
(***************************************************************************)
LEMMA MoveToRecycledType ==
    ASSUME Typed, NEW w \in Workers, MoveToRecycled(w)
    PROVE  Typed'
<1>0. req[w] \in Request /\ Filled(req[w]) /\ TypeOK /\ RequestsFilled
      BY RequestOf DEF Typed
<1>1. PICK l \in DOMAIN db.userFiles :
        /\ SoftDelete(l)
        /\ req' = [req EXCEPT ![w].pc = "record", ![w].userFile = l,
                              ![w].user = db.userFiles[l].user]
      BY DEF MoveToRecycled
<1> DEFINE user == db.userFiles[l].user
<1>2. HasUserFile(l)
      BY DEF HasUserFile
<1>3. l \in Key("userFile") /\ user \in Users
      BY <1>0, <1>2, UserFileRow DEF TypeOK
<1>4. l # NULL /\ user # NULL
      BY <1>3, KeyIsNotNull, FileStoreAssumption DEF Kinds
<1>5. TablesOK'
      BY <1>0, <1>1, <1>2, SoftDeleteType DEF TypeOK
<1> HIDE DEF user
<1> DEFINE r == [req[w] EXCEPT !.pc = "record", !.userFile = l, !.user = user]
<1>6. r \in Request
      BY <1>0, <1>3, <1>4 DEF Request, Steps
<1>7. Filled(r)
      BY <1>0, <1>3, <1>4 DEF Request, Filled, PrecheckSteps, ChunkSteps, OwnerSteps
<1>8. req' = [req EXCEPT ![w] = r]
      BY <1>1 DEF user
<1> HIDE DEF r
<1>9. RequestsFilled'
      BY <1>0, <1>6, <1>7, <1>8, RequestStep
<1> QED BY <1>5, <1>9, TablesStep DEF MoveToRecycled

LEMMA InsertRecycledType ==
    ASSUME Typed, NEW w \in Workers, InsertRecycled(w)
    PROVE  Typed'
<1>0. req[w] \in Request /\ Filled(req[w]) /\ TypeOK /\ RequestsFilled
      BY RequestOf DEF Typed
<1>1. KeysOK' /\ NextKey("recycled") \in Key("recycled")
      BY <1>0, DrawType DEF InsertRecycled, Kinds, TypeOK
<1>2. req[w].user \in Users /\ req[w].userFile \in Key("userFile")
      BY <1>0 DEF InsertRecycled, At, Request, Filled, PrecheckSteps, ChunkSteps, OwnerSteps
<1>3. TablesOK'
      BY <1>0, <1>1, <1>2, CreateRecycledType DEF InsertRecycled, TypeOK
<1>4. RequestsFilled'
      BY <1>0, FinishStep DEF InsertRecycled
<1> QED BY <1>1, <1>3, <1>4, DrawStep DEF InsertRecycled

LEMMA RecordType ==
    ASSUME NEW row \in Recycled
    PROVE  row.user \in Users /\ row.userFile \in Key("userFile") /\ row.user # NULL
BY FileStoreAssumption DEF Recycled

LEMMA RestoreType ==
    ASSUME Typed, NEW w \in Workers, Restore(w)
    PROVE  Typed'
<1>0. req[w] \in Request /\ Filled(req[w]) /\ TypeOK /\ RequestsFilled
      BY RequestOf DEF Typed
<1>1. PICK row \in db.recycled :
        req' = [req EXCEPT ![w].pc = "restore file", ![w].record = row,
                           ![w].user = row.user, ![w].userFile = row.userFile]
      BY DEF Restore
<1>2. row \in Recycled
      BY <1>0 DEF TypeOK, TablesOK
<1> DEFINE user == row.user
           l == row.userFile
<1>3. user \in Users /\ l \in Key("userFile")
      BY <1>2, RecordType
<1> HIDE DEF user, l
<1> DEFINE r == [req[w] EXCEPT !.pc = "restore file", !.record = row, !.user = user,
              !.userFile = l]
<1>4. r \in Request
      BY <1>0, <1>2, <1>3 DEF Request, Steps
<1>5. Filled(r)
      BY <1>0, <1>2, <1>3 DEF Request, Filled, PrecheckSteps, ChunkSteps, OwnerSteps
<1>6. req' = [req EXCEPT ![w] = r]
      BY <1>1 DEF user, l
<1> HIDE DEF r
<1>7. RequestsFilled'
      BY <1>0, <1>4, <1>5, <1>6, RequestStep
<1> QED BY <1>7, QuietStep DEF Restore

LEMMA RestoreReadFileType ==
    ASSUME Typed, NEW w \in Workers, RestoreReadFile(w)
    PROVE  Typed'
<1>0. req[w] \in Request /\ Filled(req[w]) /\ TypeOK /\ RequestsFilled
      BY RequestOf DEF Typed
<1>1. CASE HasUserFile(req[w].userFile)
      <2> DEFINE d == db.userFiles[req[w].userFile].dir
                 next == IF d = NULL THEN "restore" ELSE "restore dir"
      <2>1. d \in Key("dir") \cup {NULL}
            BY <1>0, <1>1, UserFileRow DEF TypeOK
      <2>2. next \in Steps /\ next \in {"restore", "restore dir"}
            BY DEF Steps
      <2>3. req' = [req EXCEPT ![w].pc = next, ![w].dir = d]
            BY <1>1 DEF RestoreReadFile
      <2> HIDE DEF d, next
      <2> DEFINE r == [req[w] EXCEPT !.pc = next, !.dir = d]
      <2>4. r \in Request
            BY <1>0, <2>1, <2>2 DEF Request
      <2>5. Filled(r)
            BY <1>0, <2>1, <2>2 DEF Request, Filled, PrecheckSteps, ChunkSteps,
               OwnerSteps
      <2>6. req' = [req EXCEPT ![w] = r]
            BY <2>3
      <2> HIDE DEF r
      <2>7. RequestsFilled'
            BY <1>0, <2>4, <2>5, <2>6, RequestStep
      <2> QED BY <2>7, QuietStep DEF RestoreReadFile
<1>2. CASE ~HasUserFile(req[w].userFile)
      <2>1. RequestsFilled'
            BY <1>0, <1>2, FinishStep DEF RestoreReadFile
      <2> QED BY <2>1, QuietStep DEF RestoreReadFile
<1> QED BY <1>1, <1>2

LEMMA RestoreToRootStep ==
    ASSUME Typed, NEW w \in Workers, RestoreToRoot(w)
    PROVE  RequestsFilled'
<1>0. req[w] \in Request /\ Filled(req[w]) /\ TypeOK /\ RequestsFilled
      BY RequestOf DEF Typed
<1>1. CASE Finish(w)
      BY <1>0, <1>1, FinishStep
<1>2. ASSUME NEW d \in Roots(req[w].user),
             req' = [req EXCEPT ![w].pc = "restore", ![w].dir = d]
      PROVE  RequestsFilled'
      <2>1. d \in Key("dir")
            BY <1>0 DEF Roots, TypeOK, TablesOK, IsTable
      <2> DEFINE r == [req[w] EXCEPT !.pc = "restore", !.dir = d]
      <2>2. r \in Request
            BY <1>0, <2>1 DEF Request, Steps
      <2>3. Filled(r)
            BY <1>0, <2>1 DEF Request, Filled, PrecheckSteps, ChunkSteps, OwnerSteps
      <2>4. req' = [req EXCEPT ![w] = r]
            BY <1>2
      <2> HIDE DEF r
      <2>5. RequestsFilled'
            BY <1>0, <2>2, <2>3, <2>4, RequestStep
      <2> QED BY <2>5
<1> QED BY <1>1, <1>2 DEF RestoreToRoot

LEMMA RestoreReadDirType ==
    ASSUME Typed, NEW w \in Workers, RestoreReadDir(w)
    PROVE  Typed'
<1>0. req[w] \in Request /\ Filled(req[w]) /\ TypeOK /\ RequestsFilled
      BY RequestOf DEF Typed
<1>1. Filled([req[w] EXCEPT !.pc = "restore"])
      BY <1>0 DEF RestoreReadDir, At, Request, Filled, PrecheckSteps, ChunkSteps,
         OwnerSteps
<1>2. RequestsFilled'
      BY <1>0, <1>1, GotoStep, RestoreToRootStep DEF RestoreReadDir, Steps
<1> QED BY <1>2, QuietStep DEF RestoreReadDir

LEMMA RestoreApplyType ==
    ASSUME Typed, NEW w \in Workers, RestoreApply(w)
    PROVE  Typed'
<1>0. req[w] \in Request /\ Filled(req[w]) /\ TypeOK /\ RequestsFilled
      BY RequestOf DEF Typed
<1>1. CASE HasUserFile(req[w].userFile)
      <2>1. req[w].dir \in {NULL} \cup Key("dir")
            BY <1>0 DEF Request
      <2>2. TablesOK'
            BY <1>0, <1>1, <2>1, RestoreUserFileType DEF RestoreApply, TypeOK
      <2>3. Filled([req[w] EXCEPT !.pc = "drop record"])
            BY <1>0 DEF RestoreApply, At, Request, Filled, PrecheckSteps, ChunkSteps,
               OwnerSteps
      <2>4. RequestsFilled'
            BY <1>0, <1>1, <2>3, GotoStep DEF RestoreApply, Steps
      <2> QED BY <2>2, <2>4, TablesStep DEF RestoreApply
<1>2. CASE ~HasUserFile(req[w].userFile)
      <2>1. TablesOK' /\ RequestsFilled'
            BY <1>0, <1>2, KeepTables, FinishStep DEF RestoreApply, TypeOK
      <2> QED BY <2>1, TablesStep DEF RestoreApply
<1> QED BY <1>1, <1>2

(* Every way to start permanentlyDelete.                                   *)
LEMMA PurgesType ==
    ASSUME Typed, NEW w \in Workers, NEW rows \in SUBSET db.recycled, Purges(w, rows)
    PROVE  Typed'
<1>0. req[w] \in Request /\ Filled(req[w]) /\ TypeOK /\ RequestsFilled
      BY RequestOf DEF Typed
<1>1. rows \subseteq Recycled
      BY <1>0 DEF TypeOK, TablesOK
<1> DEFINE r == [req[w] EXCEPT !.pc = "purge", !.todo = rows]
<1>2. r \in Request
      BY <1>0, <1>1 DEF Request, Steps
<1>3. Filled(r)
      BY <1>0, <1>1 DEF Request, Filled, PrecheckSteps, ChunkSteps, OwnerSteps
<1>4. req' = [req EXCEPT ![w] = r]
      BY DEF Purges
<1> HIDE DEF r
<1>5. RequestsFilled'
      BY <1>0, <1>2, <1>3, <1>4, RequestStep
<1> QED BY <1>5, QuietStep DEF Purges

LEMMA NextRecordStep ==
    ASSUME Typed, NEW w \in Workers, NextRecord(w)
    PROVE  RequestsFilled'
<1>0. req[w] \in Request /\ Filled(req[w]) /\ TypeOK /\ RequestsFilled
      BY RequestOf DEF Typed
<1>1. CASE req[w].todo = {}
      BY <1>0, <1>1, FinishStep DEF NextRecord
<1>2. CASE req[w].todo # {}
      <2> DEFINE todo == req[w].todo
                 r == [Idle EXCEPT !.pc = "purge", !.todo = todo]
      <2>1. todo \subseteq Recycled
            BY <1>0 DEF Request
      <2>2. req' = [req EXCEPT ![w] = r]
            BY <1>2 DEF NextRecord
      <2> HIDE DEF todo
      <2>3. r \in Request
            BY <2>1, IdleType DEF Request, Steps
      <2>4. Filled(r)
            BY <2>1, IdleType DEF Request, Filled, PrecheckSteps, ChunkSteps, OwnerSteps
      <2> HIDE DEF r
      <2> QED BY <1>0, <2>2, <2>3, <2>4, RequestStep
<1> QED BY <1>1, <1>2

(* A file taken from the list, for one of two steps.                       *)
LEMMA TakeStep ==
    ASSUME Typed, NEW w \in Workers, NEW row \in req[w].todo,
           NEW pc \in {"refs", "drop record"}, NEW f \in Key("file") \cup {NULL},
           Take(w, row, pc, f)
    PROVE  RequestsFilled'
<1>0. req[w] \in Request /\ Filled(req[w]) /\ TypeOK /\ RequestsFilled
      BY RequestOf DEF Typed
<1> DEFINE user == row.user
           l == row.userFile
           todo == req[w].todo \ {row}
<1>1. row \in Recycled /\ todo \subseteq Recycled
      BY <1>0 DEF Request
<1>2. user \in Users /\ l \in Key("userFile") /\ user # NULL
      BY <1>1, RecordType
<1>3. pc \in Steps
      BY DEF Steps
<1> HIDE DEF user, l, todo
<1> DEFINE r == [req[w] EXCEPT !.pc = pc, !.record = row, !.user = user, !.userFile = l,
              !.file = f, !.todo = todo]
<1>4. r \in Request
      BY <1>0, <1>1, <1>2, <1>3 DEF Request
<1>5. Filled(r)
      BY <1>0, <1>1, <1>2, <1>3 DEF Request, Filled, PrecheckSteps, ChunkSteps,
         OwnerSteps
<1>6. req' = [req EXCEPT ![w] = r]
      BY DEF Take, user, l, todo
<1> HIDE DEF r
<1>7. RequestsFilled'
      BY <1>0, <1>4, <1>5, <1>6, RequestStep
<1> QED BY <1>7

LEMMA PurgeReadFileType ==
    ASSUME Typed, NEW w \in Workers, PurgeReadFile(w)
    PROVE  Typed'
<1>0. req[w] \in Request /\ Filled(req[w]) /\ TypeOK /\ RequestsFilled
      BY RequestOf DEF Typed
<1>1. PICK row \in req[w].todo :
        IF HasUserFile(row.userFile)
        THEN Take(w, row, "refs", db.userFiles[row.userFile].file)
        ELSE Take(w, row, "drop record", NULL)
      BY DEF PurgeReadFile
<1>2. RequestsFilled'
      <2>1. CASE HasUserFile(row.userFile)
            <3>1. db.userFiles[row.userFile].file \in Key("file")
                  BY <1>0, <2>1, UserFileRow DEF TypeOK
            <3> QED BY <1>1, <2>1, <3>1, TakeStep
      <2>2. CASE ~HasUserFile(row.userFile)
            BY <1>1, <2>2, TakeStep
      <2> QED BY <2>1, <2>2
<1> QED BY <1>2, QuietStep DEF PurgeReadFile

LEMMA PurgeCountRefsType ==
    ASSUME Typed, NEW w \in Workers, PurgeCountRefs(w)
    PROVE  Typed'
<1>0. req[w] \in Request /\ Filled(req[w]) /\ TypeOK /\ RequestsFilled
      BY RequestOf DEF Typed
<1>1. /\ Filled([req[w] EXCEPT !.pc = "purge info"])
      /\ Filled([req[w] EXCEPT !.pc = "hard delete"])
      BY <1>0 DEF PurgeCountRefs, At, Request, Filled, PrecheckSteps, ChunkSteps,
         OwnerSteps
<1>2. RequestsFilled'
      BY <1>0, <1>1, GotoStep DEF PurgeCountRefs, Steps
<1> QED BY <1>2, QuietStep DEF PurgeCountRefs

LEMMA PurgeReadInfoType ==
    ASSUME Typed, NEW w \in Workers, PurgeReadInfo(w)
    PROVE  Typed'
<1>0. req[w] \in Request /\ Filled(req[w]) /\ TypeOK /\ RequestsFilled
      BY RequestOf DEF Typed
<1>1. /\ Filled([req[w] EXCEPT !.pc = "unlink"])
      /\ Filled([req[w] EXCEPT !.pc = "hard delete"])
      BY <1>0 DEF PurgeReadInfo, At, Request, Filled, PrecheckSteps, ChunkSteps,
         OwnerSteps
<1>2. RequestsFilled'
      BY <1>0, <1>1, GotoStep DEF PurgeReadInfo, Steps
<1> QED BY <1>2, QuietStep DEF PurgeReadInfo

LEMMA PurgeUnlinkType ==
    ASSUME Typed, NEW w \in Workers, PurgeUnlink(w)
    PROVE  Typed'
<1>0. req[w] \in Request /\ Filled(req[w]) /\ TypeOK /\ RequestsFilled
      BY RequestOf DEF Typed
<1>1. FilesOK'
      BY <1>0, DropType DEF PurgeUnlink, FilesOK, TypeOK
<1>2. Filled([req[w] EXCEPT !.pc = "quota"])
      BY <1>0 DEF PurgeUnlink, At, Request, Filled, PrecheckSteps, ChunkSteps,
         OwnerSteps
<1>3. RequestsFilled'
      BY <1>0, <1>2, GotoStep DEF PurgeUnlink, Steps
<1> QED BY <1>1, <1>3, FilesStep DEF PurgeUnlink

LEMMA PurgeReadQuotaType ==
    ASSUME Typed, NEW w \in Workers, PurgeReadQuota(w)
    PROVE  Typed'
<1>0. req[w] \in Request /\ Filled(req[w]) /\ TypeOK /\ RequestsFilled
      BY RequestOf DEF Typed
<1>1. ASSUME Space > 0
      PROVE  RequestsFilled'
      <2> DEFINE free == db.freeSpace[req[w].user]
      <2>1. req[w].user \in Users
            BY <1>0 DEF PurgeReadQuota, At, Request, Filled, PrecheckSteps, ChunkSteps, OwnerSteps
      <2>2. free \in Int
            BY <1>0, <2>1 DEF TypeOK, TablesOK
      <2> HIDE DEF free
      <2> DEFINE r == [req[w] EXCEPT !.pc = "return", !.free = free]
      <2>3. r \in Request
            BY <1>0, <2>2 DEF Request, Steps, PurgeReadQuota, At
      <2>4. Filled(r)
            BY <1>0, <2>2 DEF Request, Filled, PrecheckSteps, ChunkSteps, OwnerSteps,
               PurgeReadQuota, At
      <2>5. req' = [req EXCEPT ![w] = r]
            BY <1>1 DEF PurgeReadQuota, free
      <2> HIDE DEF r
      <2>6. RequestsFilled'
            BY <1>0, <2>3, <2>4, <2>5, RequestStep
      <2> QED BY <2>6
<1>2. ASSUME ~(Space > 0)
      PROVE  RequestsFilled'
      <2>1. Filled([req[w] EXCEPT !.pc = "drop info"])
            BY <1>0 DEF PurgeReadQuota, At, Request, Filled, PrecheckSteps, ChunkSteps,
               OwnerSteps
      <2>2. RequestsFilled'
            BY <1>0, <1>2, <2>1, GotoStep DEF PurgeReadQuota, Steps
      <2> QED BY <2>2
<1> QED BY <1>1, <1>2, QuietStep DEF PurgeReadQuota

LEMMA PurgeWriteQuotaType ==
    ASSUME Typed, NEW w \in Workers, PurgeWriteQuota(w)
    PROVE  Typed'
<1>0. req[w] \in Request /\ Filled(req[w]) /\ TypeOK /\ RequestsFilled
      BY RequestOf DEF Typed
<1>1. req[w].user \in Users
      BY <1>0 DEF PurgeWriteQuota, At, Request, Filled, PrecheckSteps, ChunkSteps, OwnerSteps
<1>2. req[w].free + 1 \in Int
      BY <1>0 DEF Request
<1>3. TablesOK'
      BY <1>0, <1>1, <1>2, UpdateUserType DEF PurgeWriteQuota, TypeOK
<1>4. Filled([req[w] EXCEPT !.pc = "drop info"])
      BY <1>0 DEF PurgeWriteQuota, At, Request, Filled, PrecheckSteps, ChunkSteps,
         OwnerSteps
<1>5. RequestsFilled'
      BY <1>0, <1>4, GotoStep DEF PurgeWriteQuota, Steps
<1> QED BY <1>3, <1>5, TablesStep DEF PurgeWriteQuota

LEMMA PurgeDropInfoType ==
    ASSUME Typed, NEW w \in Workers, PurgeDropInfo(w)
    PROVE  Typed'
<1>0. req[w] \in Request /\ Filled(req[w]) /\ TypeOK /\ RequestsFilled
      BY RequestOf DEF Typed
<1>1. TablesOK'
      BY <1>0, DeleteFileInfoType, KeepTables DEF PurgeDropInfo, TypeOK
<1>2. Filled([req[w] EXCEPT !.pc = "hard delete"])
      BY <1>0 DEF PurgeDropInfo, At, Request, Filled, PrecheckSteps, ChunkSteps,
         OwnerSteps
<1>3. RequestsFilled'
      BY <1>0, <1>2, GotoStep, NextRecordStep DEF PurgeDropInfo, Steps
<1> QED BY <1>1, <1>3, TablesStep DEF PurgeDropInfo

LEMMA PurgeHardDeleteType ==
    ASSUME Typed, NEW w \in Workers, PurgeHardDelete(w)
    PROVE  Typed'
<1>0. req[w] \in Request /\ Filled(req[w]) /\ TypeOK /\ RequestsFilled
      BY RequestOf DEF Typed
<1>1. TablesOK'
      BY <1>0, HardDeleteType, KeepTables DEF PurgeHardDelete, TypeOK
<1>2. Filled([req[w] EXCEPT !.pc = "drop record"])
      BY <1>0 DEF PurgeHardDelete, At, Request, Filled, PrecheckSteps, ChunkSteps,
         OwnerSteps
<1>3. RequestsFilled'
      BY <1>0, <1>2, GotoStep, NextRecordStep DEF PurgeHardDelete, Steps
<1> QED BY <1>1, <1>3, TablesStep DEF PurgeHardDelete

LEMMA DropRecordType ==
    ASSUME Typed, NEW w \in Workers, DropRecord(w)
    PROVE  Typed'
<1>0. req[w] \in Request /\ Filled(req[w]) /\ TypeOK /\ RequestsFilled
      BY RequestOf DEF Typed
<1>1. TablesOK'
      BY <1>0, DeleteRecycledType DEF DropRecord, TypeOK
<1>2. RequestsFilled'
      BY NextRecordStep DEF DropRecord
<1> QED BY <1>1, <1>2, TablesStep DEF DropRecord

-----------------------------------------------------------------------------
(***************************************************************************)
(* Failures and time.                                                      *)
(***************************************************************************)
LEMMA UploadFailsStep ==
    ASSUME Typed, NEW w \in Workers, UploadFails(w)
    PROVE  RequestsFilled'
<1>0. req[w] \in Request /\ Filled(req[w]) /\ TypeOK /\ RequestsFilled
      BY RequestOf DEF Typed
<1>1. ASSUME req[w].pc \in {"candidate", "instant", "rollback"}, Goto(w, "task")
      PROVE  RequestsFilled'
      <2>1. Filled([req[w] EXCEPT !.pc = "task"])
            BY <1>0, <1>1 DEF Request, Filled, PrecheckSteps, ChunkSteps, OwnerSteps
      <2> QED BY <1>0, <1>1, <2>1, GotoStep DEF Steps
<1>2. ASSUME req[w].pc = "deduct", Goto(w, "rollback")
      PROVE  RequestsFilled'
      <2>1. Filled([req[w] EXCEPT !.pc = "rollback"])
            BY <1>0, <1>2 DEF Request, Filled, PrecheckSteps, ChunkSteps, OwnerSteps
      <2> QED BY <1>0, <1>2, <2>1, GotoStep DEF Steps
<1>3. ASSUME Finish(w)
      PROVE  RequestsFilled'
      BY <1>0, <1>3, FinishStep
<1>4. ASSUME req[w].pc \in {"progress", "write"}, AfterProgress(w)
      PROVE  RequestsFilled'
      BY <1>4, AfterProgressStep
<1>5. ASSUME req[w].pc \in {"merge", "info", "link"},
             IF req[w].part = Single THEN Goto(w, "remove temp") ELSE MergeFailed(w)
      PROVE  RequestsFilled'
      <2>1. Filled([req[w] EXCEPT !.pc = "remove temp"])
            BY <1>0, <1>5 DEF Request, Filled, PrecheckSteps, ChunkSteps, OwnerSteps
      <2> QED BY <1>0, <1>5, <2>1, GotoStep, MergeFailedStep DEF Steps
<1>6. ASSUME req[w].pc = "remove temp", req[w].part # Single, Goto(w, "info")
      PROVE  RequestsFilled'
      <2>1. Filled([req[w] EXCEPT !.pc = "info"])
            BY <1>0, <1>6 DEF Request, Filled, PrecheckSteps, ChunkSteps, OwnerSteps
      <2> QED BY <1>0, <1>6, <2>1, GotoStep DEF Steps
<1>7. ASSUME At(w, "delete dirs"), NEW d, NextDir(w, d)
      PROVE  RequestsFilled'
      BY <1>7, NextDirStep
<1> QED BY <1>1, <1>2, <1>3, <1>4, <1>5, <1>6, <1>7 DEF UploadFails, At

LEMMA RecycledFailsStep ==
    ASSUME Typed, NEW w \in Workers, RecycledFails(w)
    PROVE  RequestsFilled'
<1>0. req[w] \in Request /\ Filled(req[w]) /\ TypeOK /\ RequestsFilled
      BY RequestOf DEF Typed
<1>1. ASSUME Finish(w)
      PROVE  RequestsFilled'
      BY <1>0, <1>1, FinishStep
<1>2. ASSUME RestoreToRoot(w)
      PROVE  RequestsFilled'
      BY <1>2, RestoreToRootStep
<1>3. ASSUME NEW row \in req[w].todo, Take(w, row, "drop record", NULL)
      PROVE  RequestsFilled'
      BY <1>3, TakeStep
<1>4. ASSUME NextRecord(w)
      PROVE  RequestsFilled'
      BY <1>4, NextRecordStep
<1>5. ASSUME req[w].pc = "purge info", Goto(w, "hard delete")
      PROVE  RequestsFilled'
      <2>1. Filled([req[w] EXCEPT !.pc = "hard delete"])
            BY <1>0, <1>5 DEF Request, Filled, PrecheckSteps, ChunkSteps, OwnerSteps
      <2> QED BY <1>0, <1>5, <2>1, GotoStep DEF Steps
<1>6. ASSUME req[w].pc = "unlink", Goto(w, "quota")
      PROVE  RequestsFilled'
      <2>1. Filled([req[w] EXCEPT !.pc = "quota"])
            BY <1>0, <1>6 DEF Request, Filled, PrecheckSteps, ChunkSteps, OwnerSteps
      <2> QED BY <1>0, <1>6, <2>1, GotoStep DEF Steps
<1>7. ASSUME req[w].pc \in {"quota", "return"}, Goto(w, "drop info")
      PROVE  RequestsFilled'
      <2>1. Filled([req[w] EXCEPT !.pc = "drop info"])
            BY <1>0, <1>7 DEF Request, Filled, PrecheckSteps, ChunkSteps, OwnerSteps
      <2> QED BY <1>0, <1>7, <2>1, GotoStep DEF Steps
<1> QED BY <1>1, <1>2, <1>3, <1>4, <1>5, <1>6, <1>7 DEF RecycledFails, At

LEMMA FailureType ==
    ASSUME TypeOK, Failure
    PROVE  failures' \in 0..MaxFailures
BY FileRequestsAssumption DEF TypeOK, Failure

LEMMA CallFailsType ==
    ASSUME Typed, NEW w \in Workers, CallFails(w)
    PROVE  Typed'
<1>0. TypeOK /\ RequestsFilled
      BY DEF Typed
<1>1. failures' \in 0..MaxFailures /\ UNCHANGED mergeLocks
      BY <1>0, FailureType DEF CallFails, SaveFails
<1>2. RequestsFilled'
      BY <1>0, UploadFailsStep, RecycledFailsStep, FinishStep DEF CallFails, SaveFails
<1>3. TablesOK' /\ CacheOK' /\ KeysOK'
      BY <1>0, KeepTables, KeepCache, KeepKeys DEF CallFails, SaveFails, stored, TypeOK
<1>4. FilesOK'
      BY <1>0, KeepFiles, EndWritingType DEF CallFails, SaveFails, stored, TypeOK
<1> QED BY <1>0, <1>1, <1>2, <1>3, <1>4, FilledBound DEF Typed, TypeOK, MergedBound

LEMMA CrashType ==
    ASSUME Typed, Crash
    PROVE  Typed'
<1>0. TypeOK /\ RequestsFilled
      BY DEF Typed
<1>1. failures' \in 0..MaxFailures /\ mergeLocks' = {}
      BY <1>0, FailureType DEF Crash
<1>2. RequestsFilled'
      BY IdleType DEF Crash, RequestsFilled, GoodRequest
<1>3. TablesOK' /\ KeysOK'
      BY <1>0, KeepTables, KeepKeys DEF Crash, TypeOK
<1>4. CacheOK'
      BY <1>0, EmptyType DEF Crash, CacheOK, TypeOK
<1>5. FilesOK'
      <2>1. IsTable(disk', Key("file"), Data)
            BY <1>0 DEF TypeOK, FilesOK, IsTable, Crash, Data
      <2>2. ASSUME NEW t \in DOMAIN temp
            PROVE  IsTable(temp'[t], Parts, Data)
            BY <1>0, <2>2 DEF TypeOK, FilesOK, IsTable, Crash, Data
      <2>3. DOMAIN temp' = DOMAIN temp
            BY DEF Crash
      <2> QED BY <1>0, <2>1, <2>2, <2>3 DEF TypeOK, FilesOK
<1> QED BY <1>0, <1>1, <1>2, <1>3, <1>4, <1>5, FilledBound DEF Typed, TypeOK, MergedBound

LEMMA TickingType ==
    ASSUME Typed, Ticking
    PROVE  Typed'
<1>0. TypeOK /\ RequestsFilled
      BY DEF Typed
<1>1. CASE DeleteExpiredTasks
      BY <1>1, DeleteExpiredTasksType
<1>2. CASE (TimePasses \/ DeleteExpired) /\ UNCHANGED <<stored, req, shared>>
      <2>1. CacheOK'
            BY <1>0, <1>2, CacheDropType, MemoryCacheAssumption
               DEF TimePasses, DeleteExpired, CacheOK, TypeOK
      <2>2. RequestsFilled'
            BY <1>0, <1>2 DEF RequestsFilled
      <2> QED BY <1>2, <2>1, <2>2, CacheStep
<1> QED BY <1>1, <1>2 DEF Ticking

-----------------------------------------------------------------------------
(***************************************************************************)
(* The specification.                                                      *)
(***************************************************************************)
LEMMA InitTyped == Init => Typed
<1> SUFFICES ASSUME Init
             PROVE  Typed
    OBVIOUS
<1> USE DEF Init
<1>1. TablesOK
      BY EmptyType, FileStoreAssumption DEF StoreInit, TablesOK
<1>2. FilesOK
      BY EmptyType DEF StoreInit, FilesOK, Empty
<1>3. CacheOK
      BY EmptyType, MemoryCacheAssumption DEF CacheInit, CacheOK
<1>4. KeysOK
      BY FileStoreAssumption DEF StoreInit, KeysOK
<1>5. mergeLocks \subseteq Key("task") /\ failures \in 0..MaxFailures
      BY FileRequestsAssumption DEF RequestsInit
<1>6. RequestsFilled
      BY IdleType DEF RequestsInit, RequestsFilled, GoodRequest
<1> QED BY <1>1, <1>2, <1>3, <1>4, <1>5, <1>6, FilledBound DEF Typed, TypeOK, MergedBound

LEMMA NextTyped == Typed /\ [Next]_vars => Typed'
<1> SUFFICES ASSUME Typed, [Next]_vars
             PROVE  Typed'
    OBVIOUS
<1>1. ASSUME NEW w \in Workers, Uploading(w)
      PROVE  Typed'
      BY <1>1, PrecheckType, FindCandidateType, InstantLinkType, InstantDeductType,
         InstantRollbackType, CreateTaskType, CachePrecheckType, UploadChunkType,
         UploadChunkLateType, EvictPrecheckType, MakeTempDirType, SaveOpenType, SaveCopyType,
         CountChunksType, ReadTaskType, WriteTaskType, LockMergeType, MergeChunkType,
         RemoveTempDirType, InsertFileInfoType, InsertUserFileType, CleanPrecheckCacheType,
         UnlockMergeType, RenameUploadType DEF Uploading
<1>2. ASSUME NEW w \in Workers, Managing(w)
      PROVE  Typed'
      BY <1>2, RenewUploadTaskType, RenewWriteTaskType, DeleteUploadTaskType, DropTaskType,
         MakeDirType, InsertDirType, DeleteDirType, DropDirType, MoveFileType DEF Managing
<1>3. ASSUME NEW w \in Workers, Recycling(w)
      PROVE  Typed'
      <2>1. ASSUME DeletePermanently(w) \/ EmptyBin(w) \/ CleanExpired(w)
            PROVE  \E rows \in SUBSET db.recycled : Purges(w, rows)
            BY <2>1 DEF DeletePermanently, EmptyBin, CleanExpired
      <2> QED BY <1>3, <2>1, PurgesType, MoveToRecycledType, InsertRecycledType, RestoreType,
                 RestoreReadFileType, RestoreReadDirType, RestoreApplyType,
                 PurgeReadFileType, PurgeCountRefsType, PurgeReadInfoType, PurgeUnlinkType,
                 PurgeReadQuotaType, PurgeWriteQuotaType, PurgeDropInfoType,
                 PurgeHardDeleteType, DropRecordType DEF Recycling
<1>4. CASE UNCHANGED vars
      <2>1. RequestsFilled' /\ UNCHANGED <<stored, cache, shared>>
            BY <1>4 DEF vars, Typed, RequestsFilled
      <2> QED BY <2>1, QuietStep
<1> QED BY <1>1, <1>2, <1>3, <1>4, CallFailsType, TickingType, CrashType DEF Next

(* Every reachable state has its types, and every request has filled in    *)
(* what its next step reads.                                               *)
THEOREM TypedIsInvariant == Spec => []Typed
BY InitTyped, NextTyped, PTL DEF Spec

(* The tables, the files, the cache and the requests have their types: no  *)
(* statement is given a key that was never drawn, or NULL for one, and     *)
(* whatever totals the requests for the chunks of an upload state, no      *)
(* merge copies more chunks than its own request stated.                   *)
THEOREM TypeCorrect == Spec => []TypeOK
<1>1. Typed => TypeOK
      BY DEF Typed
<1> QED BY <1>1, TypedIsInvariant, PTL
=============================================================================
