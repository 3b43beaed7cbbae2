------------------------- MODULE FileExpiryProofs -------------------------
(***************************************************************************)
(* What expires: a precheck entry goes before its time only when its       *)
(* upload is done, and UploadCleanup takes the task of no upload that can  *)
(* still go on, however many requests renew, write and delete tasks.  And  *)
(* an upload whose chunks are all there has a request that goes on with it.*)
(***************************************************************************)
EXTENDS FileAppProofs

(* Every task there is a trace of was drawn, so the next one is new.       *)
Drawn ==
    /\ DOMAIN items \cup DOMAIN db.uploadTasks \subseteq Known("task")
    /\ \A w \in Workers : req[w].task \in Known("task") \cup {NULL}

(* A task is good for longer than its precheck entry, and so is what a     *)
(* request is about to write over its expires_at.                          *)
TaskOutlives ==
    \A t \in DOMAIN items \cap DOMAIN db.uploadTasks :
        items[t].expiresAt < db.uploadTasks[t].expiresAt

WritesLater(w) ==
    req[w].pc \in {"write", "renew"} /\ req[w].task \in DOMAIN items =>
        items[req[w].task].expiresAt < req[w].expires

(* What Get found expired has not been set again.                          *)
EvictsExpired(w) ==
    At(w, "evict") /\ req[w].task \in DOMAIN items => Expired(items[req[w].task])

(* A request that says it has completed the upload has linked the file.    *)
LinkedWhenDone(w) ==
    At(w, "clean") \/ (req[w].pc \in {"progress", "write"} /\ req[w].status = "completed") =>
        req[w].userFile # NULL

(* A Precheck that has made its task and not yet its entry is alone with   *)
(* it, but for a client that deletes it.                                   *)
NewTask(w) ==
    At(w, "cache") =>
        /\ req[w].task \notin DOMAIN items
        /\ HasTask(req[w].task) => clock + TaskTTL <= db.uploadTasks[req[w].task].expiresAt
        /\ \A v \in Workers \ {w} : req[v].task = req[w].task => At(v, "delete task")

RequestInv(w) == WritesLater(w) /\ EvictsExpired(w) /\ LinkedWhenDone(w) /\ NewTask(w)

ExpiryInv == Drawn /\ TaskOutlives /\ \A w \in Workers : RequestInv(w)

(* The steps of LiveRequestKept and LiveTaskKept.                          *)
RequestKept ==
    \A t \in DOMAIN items :
        Live(t) /\ t \notin DOMAIN items' =>
            \E w \in Workers :
                At(w, "clean") /\ req[w].task = t /\ req[w].userFile # NULL

TaskKept ==
    \A t \in DOMAIN db.uploadTasks :
        Live(t) /\ t \notin DOMAIN db'.uploadTasks =>
            \E w \in Workers : At(w, "delete task") /\ req[w].task = t

Kept == RequestKept /\ TaskKept

-----------------------------------------------------------------------------
(***************************************************************************)
(* Types, and what a step leaves alone.                                    *)
(***************************************************************************)
LEMMA Times ==
    ASSUME Typed
    PROVE  /\ clock \in Nat
           /\ \A t \in DOMAIN items : items[t].expiresAt \in Nat
           /\ \A t \in DOMAIN db.uploadTasks : db.uploadTasks[t].expiresAt \in Nat
           /\ \A w \in Workers : req[w].expires \in Nat
<1>1. clock \in Nat
      BY MemoryCacheAssumption DEF Typed, TypeOK, CacheOK
<1>2. \A t \in DOMAIN items : items[t].expiresAt \in Nat
      BY DEF Typed, TypeOK, CacheOK, IsTable, PrecheckEntry
<1>3. \A t \in DOMAIN db.uploadTasks : db.uploadTasks[t].expiresAt \in Nat
      BY DEF Typed, TypeOK, TablesOK, IsTable, UploadTask
<1>4. \A w \in Workers : req[w].expires \in Nat
      BY RequestsType DEF Request
<1> QED BY <1>1, <1>2, <1>3, <1>4

LEMMA ExpiryFields ==
    ASSUME Typed, NEW w \in Workers
    PROVE  /\ w \in DOMAIN req
           /\ {"pc", "task", "expires", "userFile", "status", "uploaded"} \subseteq DOMAIN req[w]
BY RequestsType DEF Request

LEMMA CacheHasTask ==
    ASSUME Typed, NEW w \in Workers, At(w, "cache")
    PROVE  req[w].task # NULL
BY DEF Typed, RequestsFilled, GoodRequest, Filled, At

LEMMA LastTask ==
    ASSUME Typed
    PROVE  used["task"] \in Nat /\ "task" \in DOMAIN used /\ NULL \notin Nat
BY FileStoreAssumption DEF Typed, TypeOK, KeysOK, Kinds

KeepsTask(w) == req'[w].task \in {NULL, req[w].task}

LEMMA GotoKeeps ==
    ASSUME Typed, NEW w \in Workers, NEW pc, Goto(w, pc)
    PROVE  KeepsTask(w)
BY GotoMoves DEF KeepsTask

LEMMA FinishKeeps ==
    ASSUME Typed, NEW w \in Workers, Finish(w)
    PROVE  KeepsTask(w) /\ req'[w].task = NULL
BY FinishMoves DEF KeepsTask, Idle

LEMMA NextRecordKeeps ==
    ASSUME Typed, NEW w \in Workers, NextRecord(w)
    PROVE  KeepsTask(w)
BY Fields, FinishKeeps DEF NextRecord, Idle, KeepsTask

LEMMA NextDirKeeps ==
    ASSUME Typed, NEW w \in Workers, NEW d, NextDir(w, d)
    PROVE  KeepsTask(w)
BY Fields, FinishKeeps DEF NextDir, KeepsTask

LEMMA RestoreToRootKeeps ==
    ASSUME Typed, NEW w \in Workers, RestoreToRoot(w)
    PROVE  KeepsTask(w)
BY Fields, FinishKeeps DEF RestoreToRoot, KeepsTask

LEMMA TakeKeeps ==
    ASSUME Typed, NEW w \in Workers, NEW row, NEW pc, NEW f, Take(w, row, pc, f)
    PROVE  KeepsTask(w)
BY Fields DEF Take, KeepsTask

TasksSame == db'.uploadTasks = db.uploadTasks

Same == TasksSame /\ UNCHANGED cache /\ used'["task"] = used["task"]

LEMMA SameKept ==
    ASSUME Same
    PROVE  Kept
BY DEF Same, TasksSame, cache, Kept, RequestKept, TaskKept

LEMMA TasksThere == Typed => "uploadTasks" \in DOMAIN db
BY DEF Typed, TypeOK, TablesOK

LEMMA StatementsKeepTasks ==
    ASSUME Typed
    PROVE  /\ \A f, c : CreateFileInfo(f, c) => TasksSame
           /\ \A f : DeleteFileInfo(f) => TasksSame
           /\ \A l, u, f, d : CreateUserFile(l, u, f, d) => TasksSame
           /\ \A l : SoftDelete(l) => TasksSame
           /\ \A l, d : MoveUserFile(l, d) => TasksSame
           /\ \A l, d : RestoreUserFile(l, d) => TasksSame
           /\ \A l : HardDelete(l) => TasksSame
           /\ \A r, u, l : CreateRecycled(r, u, l) => TasksSame
           /\ \A row : DeleteRecycled(row) => TasksSame
           /\ \A d, u, p : CreateDir(d, u, p) => TasksSame
           /\ \A d : DeleteDirRow(d) => TasksSame
           /\ \A u, n : UpdateUser(u, n) => TasksSame
<1>1. \A f, c : CreateFileInfo(f, c) => TasksSame
      BY TasksThere DEF CreateFileInfo, TasksSame
<1>2. \A f : DeleteFileInfo(f) => TasksSame
      BY TasksThere DEF DeleteFileInfo, TasksSame
<1>3. \A l, u, f, d : CreateUserFile(l, u, f, d) => TasksSame
      BY TasksThere DEF CreateUserFile, TasksSame
<1>4. \A l : SoftDelete(l) => TasksSame
      BY TasksThere DEF SoftDelete, TasksSame
<1>5. \A l, d : MoveUserFile(l, d) => TasksSame
      BY TasksThere DEF MoveUserFile, TasksSame
<1>6. \A l, d : RestoreUserFile(l, d) => TasksSame
      BY TasksThere DEF RestoreUserFile, TasksSame
<1>7. \A l : HardDelete(l) => TasksSame
      BY TasksThere DEF HardDelete, TasksSame
<1>8. \A r, u, l : CreateRecycled(r, u, l) => TasksSame
      BY TasksThere DEF CreateRecycled, TasksSame
<1>9. \A row : DeleteRecycled(row) => TasksSame
      BY TasksThere DEF DeleteRecycled, TasksSame
<1>10. \A d, u, p : CreateDir(d, u, p) => TasksSame
      BY TasksThere DEF CreateDir, TasksSame
<1>11. \A d : DeleteDirRow(d) => TasksSame
      BY TasksThere DEF DeleteDirRow, TasksSame
<1>12. \A u, n : UpdateUser(u, n) => TasksSame
      BY TasksThere DEF UpdateUser, TasksSame
<1> QED BY <1>1, <1>2, <1>3, <1>4, <1>5, <1>6, <1>7, <1>8, <1>9, <1>10, <1>11, <1>12

LEMMA DrawOther ==
    ASSUME Typed, NEW kind, kind # "task", Draw(kind)
    PROVE  used'["task"] = used["task"]
BY LastTask DEF Draw

-----------------------------------------------------------------------------
(***************************************************************************)
(* A step of one request that changes neither the cache nor the tasks.     *)
(***************************************************************************)
(* Steps at which RequestInv says something.                               *)
NotedSteps == {"cache", "write", "renew", "evict", "clean", "progress"}

LEMMA UnnotedInv ==
    ASSUME NEW w \in Workers, req'[w].pc \notin NotedSteps
    PROVE  RequestInv(w)'
BY DEF RequestInv, WritesLater, EvictsExpired, LinkedWhenDone, NewTask, At, NotedSteps

(* A request that goes near no task of a Precheck that has just made one.  *)
Away(w) ==
    /\ req'[w].task \in Known("task") \cup {NULL}
    /\ \A v \in Workers \ {w} :
        At(v, "cache") /\ req'[w].task = req[v].task => req'[w].pc = "delete task"

LEMMA KeepsAway ==
    ASSUME Typed, ExpiryInv, NEW w \in Workers, KeepsTask(w), req[w].pc # "delete task"
    PROVE  Away(w)
<1>1. req'[w].task \in Known("task") \cup {NULL}
      BY DEF ExpiryInv, Drawn, KeepsTask
<1>2. ASSUME NEW v \in Workers \ {w}, At(v, "cache"), req'[w].task = req[v].task
      PROVE  FALSE
      <2>1. req[w].task = req[v].task
            BY <1>2, CacheHasTask DEF KeepsTask
      <2> QED BY <1>2, <2>1 DEF ExpiryInv, RequestInv, NewTask, At
<1> QED BY <1>1, <1>2 DEF Away

LEMMA OtherInv ==
    ASSUME Typed, ExpiryInv, NEW w \in Workers, Others(w), Same, Away(w),
           NEW v \in Workers \ {w}
    PROVE  RequestInv(v)'
<1>1. req'[v] = req[v] /\ RequestInv(v)
      BY DEF Others, ExpiryInv
<1>2. items' = items /\ clock' = clock /\ db'.uploadTasks = db.uploadTasks
      BY DEF Same, TasksSame, cache
<1>3. WritesLater(v)' /\ EvictsExpired(v)' /\ LinkedWhenDone(v)'
      BY <1>1, <1>2 DEF RequestInv, WritesLater, EvictsExpired, LinkedWhenDone, At, Expired
<1>4. ASSUME At(v, "cache")'
      PROVE  /\ req'[v].task \notin DOMAIN items'
             /\ HasTask(req[v].task)' =>
                    clock' + TaskTTL <= db'.uploadTasks[req'[v].task].expiresAt
             /\ \A x \in Workers \ {v} : req'[x].task = req'[v].task => At(x, "delete task")'
      <2>1. At(v, "cache")
            BY <1>1, <1>4 DEF At
      <2>2. /\ req[v].task \notin DOMAIN items
            /\ HasTask(req[v].task) => clock + TaskTTL <= db.uploadTasks[req[v].task].expiresAt
            /\ \A x \in Workers \ {v} : req[x].task = req[v].task => At(x, "delete task")
            BY <1>1, <2>1 DEF RequestInv, NewTask
      <2>3. ASSUME NEW x \in Workers \ {v}, req'[x].task = req'[v].task
            PROVE  At(x, "delete task")'
            <3>1. CASE x = w
                  BY <1>1, <2>1, <2>3, <3>1 DEF Away, At
            <3>2. CASE x # w
                  BY <1>1, <2>2, <2>3, <3>2 DEF Others, At
            <3> QED BY <3>1, <3>2
      <2> QED BY <1>1, <1>2, <2>2, <2>3 DEF HasTask
<1> QED BY <1>1, <1>2, <1>3, <1>4 DEF RequestInv, NewTask, HasTask

LEMMA SameInv ==
    ASSUME Typed, ExpiryInv, NEW w \in Workers, Others(w), Same, Away(w), RequestInv(w)'
    PROVE  ExpiryInv' /\ Kept
<1>1. Known("task")' = Known("task")
      BY DEF Same, Known
<1>2. \A v \in Workers : req'[v].task \in Known("task") \cup {NULL}
      BY DEF Others, Away, ExpiryInv, Drawn
<1>3. Drawn'
      BY <1>1, <1>2 DEF Same, TasksSame, cache, ExpiryInv, Drawn
<1>4. TaskOutlives'
      BY DEF Same, TasksSame, cache, ExpiryInv, TaskOutlives
<1>5. \A v \in Workers : RequestInv(v)'
      BY OtherInv
<1> QED BY <1>3, <1>4, <1>5, SameKept DEF ExpiryInv

LEMMA UnnotedStep ==
    ASSUME Typed, ExpiryInv, NEW w \in Workers, NEW from, NEW to, Moves(w, from, to),
           to \cap NotedSteps = {}, from # "delete task", KeepsTask(w), Same
    PROVE  ExpiryInv' /\ Kept
<1>1. Others(w) /\ req[w].pc # "delete task" /\ req'[w].pc \notin NotedSteps
      BY DEF Moves, At
<1> QED BY <1>1, KeepsAway, UnnotedInv, SameInv

LEMMA UploadQuiet ==
    ASSUME Typed, ExpiryInv, NEW w \in Workers,
           Precheck(w) \/ FindCandidate(w) \/ InstantLink(w) \/
           InstantDeduct(w) \/ InstantRollback(w) \/ MakeTempDir(w) \/
           SaveOpen(w) \/ SaveCopy(w) \/ LockMerge(w) \/ RemoveTempDir(w) \/
           InsertFileInfo(w) \/ UnlockMerge(w) \/ RenameUpload(w)
    PROVE  ExpiryInv' /\ Kept
<1>1. CASE Precheck(w)
      <2>1. KeepsTask(w)
            <3>1. PICK u \in Users, c \in Contents, d \in Dirs :
                    req' = [req EXCEPT ![w].pc = "candidate", ![w].user = u, ![w].content = c,
                                       ![w].dir = d, ![w].free = db.freeSpace[u]]
                  BY <1>1 DEF Precheck
            <3> QED BY <3>1, Fields DEF KeepsTask
      <2>2. Same
            BY <1>1 DEF Precheck, Same, TasksSame, stored
      <2> QED BY <1>1, <2>1, <2>2, PrecheckMoves, UnnotedStep DEF NotedSteps
<1>2. CASE FindCandidate(w)
      <2>1. KeepsTask(w)
            BY <1>2, Fields, GotoKeeps DEF FindCandidate, KeepsTask
      <2>2. Same
            BY <1>2 DEF FindCandidate, Same, TasksSame, stored
      <2> QED BY <1>2, <2>1, <2>2, FindCandidateMoves, UnnotedStep DEF NotedSteps
<1>3. CASE InstantLink(w)
      <2>1. KeepsTask(w)
            BY <1>3, Fields, FinishKeeps DEF InstantLink, KeepsTask
      <2>2. Same
            BY <1>3, StatementsKeepTasks, DrawOther DEF InstantLink, Same, TasksSame, stored
      <2> QED BY <1>3, <2>1, <2>2, InstantLinkMoves, UnnotedStep DEF NotedSteps
<1>4. CASE InstantDeduct(w)
      <2>1. KeepsTask(w)
            BY <1>4, FinishKeeps DEF InstantDeduct
      <2>2. Same
            BY <1>4, StatementsKeepTasks DEF InstantDeduct, Same, TasksSame, stored
      <2> QED BY <1>4, <2>1, <2>2, InstantDeductMoves, UnnotedStep DEF NotedSteps
<1>5. CASE InstantRollback(w)
      <2>1. KeepsTask(w)
            BY <1>5, GotoKeeps DEF InstantRollback
      <2>2. Same
            BY <1>5, StatementsKeepTasks DEF InstantRollback, Same, TasksSame, stored
      <2> QED BY <1>5, <2>1, <2>2, InstantRollbackMoves, UnnotedStep DEF NotedSteps
<1>6. CASE MakeTempDir(w)
      <2>1. KeepsTask(w)
            BY <1>6, GotoKeeps DEF MakeTempDir
      <2>2. Same
            BY <1>6 DEF MakeTempDir, Same, TasksSame, stored
      <2> QED BY <1>6, <2>1, <2>2, MakeTempDirMoves, UnnotedStep DEF NotedSteps
<1>7. CASE SaveOpen(w)
      <2>1. KeepsTask(w)
            BY <1>7, GotoKeeps, FinishKeeps DEF SaveOpen
      <2>2. Same
            BY <1>7 DEF SaveOpen, Same, TasksSame, stored
      <2> QED BY <1>7, <2>1, <2>2, SaveOpenMoves, UnnotedStep DEF NotedSteps
<1>8. CASE SaveCopy(w)
      <2>1. KeepsTask(w)
            BY <1>8, GotoKeeps DEF SaveCopy
      <2>2. Same
            BY <1>8 DEF SaveCopy, Same, TasksSame, stored
      <2> QED BY <1>8, <2>1, <2>2, SaveCopyMoves, UnnotedStep DEF NotedSteps
<1>9. CASE LockMerge(w)
      <2>1. KeepsTask(w)
            BY <1>9, StartMergeMoves, FinishKeeps DEF LockMerge, KeepsTask
      <2>2. Same
            BY <1>9, DrawOther DEF LockMerge, Same, TasksSame, stored
      <2> QED BY <1>9, <2>1, <2>2, LockMergeMoves, UnnotedStep DEF NotedSteps
<1>10. CASE RemoveTempDir(w)
      <2>1. KeepsTask(w)
            BY <1>10, GotoKeeps, FinishKeeps DEF RemoveTempDir
      <2>2. Same
            BY <1>10 DEF RemoveTempDir, Same, TasksSame, stored
      <2> QED BY <1>10, <2>1, <2>2, RemoveTempDirMoves, UnnotedStep DEF NotedSteps
<1>11. CASE InsertFileInfo(w)
      <2>1. KeepsTask(w)
            BY <1>11, GotoKeeps DEF InsertFileInfo
      <2>2. Same
            BY <1>11, StatementsKeepTasks DEF InsertFileInfo, Same, TasksSame, stored
      <2> QED BY <1>11, <2>1, <2>2, InsertFileInfoMoves, UnnotedStep DEF NotedSteps
<1>12. CASE UnlockMerge(w)
      <2>1. KeepsTask(w)
            BY <1>12, FinishKeeps DEF UnlockMerge
      <2>2. Same
            BY <1>12 DEF UnlockMerge, Same, TasksSame, stored
      <2> QED BY <1>12, <2>1, <2>2, UnlockMergeMoves, UnnotedStep DEF NotedSteps
<1>13. CASE RenameUpload(w)
      <2>1. KeepsTask(w)
            BY <1>13, Fields, FinishKeeps DEF RenameUpload, KeepsTask
      <2>2. Same
            BY <1>13, DrawOther DEF RenameUpload, Same, TasksSame, stored
      <2> QED BY <1>13, <2>1, <2>2, RenameUploadMoves, UnnotedStep DEF NotedSteps
<1> QED BY <1>1, <1>2, <1>3, <1>4, <1>5, <1>6, <1>7, <1>8, <1>9, <1>10, <1>11, <1>12,
           <1>13

LEMMA DirsQuiet ==
    ASSUME Typed, ExpiryInv, NEW w \in Workers,
           MakeDir(w) \/ InsertDir(w) \/ DeleteDir(w) \/ DropDir(w)
    PROVE  ExpiryInv' /\ Kept
<1>1. CASE MakeDir(w)
      <2>1. KeepsTask(w)
            BY <1>1, Fields DEF MakeDir, KeepsTask
      <2>2. Same
            BY <1>1 DEF MakeDir, Same, TasksSame, stored
      <2> QED BY <1>1, <2>1, <2>2, MakeDirMoves, UnnotedStep DEF NotedSteps
<1>2. CASE InsertDir(w)
      <2>1. KeepsTask(w)
            BY <1>2, FinishKeeps DEF InsertDir
      <2>2. Same
            BY <1>2, StatementsKeepTasks, DrawOther DEF InsertDir, Same, TasksSame, stored
      <2> QED BY <1>2, <2>1, <2>2, InsertDirMoves, UnnotedStep DEF NotedSteps
<1>3. CASE DeleteDir(w)
      <2>1. KeepsTask(w)
            BY <1>3, Fields DEF DeleteDir, KeepsTask
      <2>2. Same
            BY <1>3 DEF DeleteDir, Same, TasksSame, stored
      <2> QED BY <1>3, <2>1, <2>2, DeleteDirMoves, UnnotedStep DEF NotedSteps
<1>4. CASE DropDir(w)
      <2>1. KeepsTask(w)
            BY <1>4, NextDirKeeps DEF DropDir
      <2>2. Same
            BY <1>4, StatementsKeepTasks DEF DropDir, Same, TasksSame, stored
      <2> QED BY <1>4, <2>1, <2>2, DropDirMoves, UnnotedStep DEF NotedSteps
<1> QED BY <1>1, <1>2, <1>3, <1>4

LEMMA RecycleQuiet ==
    ASSUME Typed, ExpiryInv, NEW w \in Workers,
           MoveToRecycled(w) \/ InsertRecycled(w) \/ Restore(w) \/
           RestoreReadFile(w) \/ RestoreReadDir(w) \/ RestoreApply(w) \/
           PurgeReadFile(w) \/ PurgeCountRefs(w) \/ PurgeReadInfo(w) \/
           PurgeUnlink(w) \/ PurgeReadQuota(w) \/ PurgeWriteQuota(w) \/
           PurgeDropInfo(w) \/ PurgeHardDelete(w) \/ DropRecord(w)
    PROVE  ExpiryInv' /\ Kept
<1>1. CASE MoveToRecycled(w)
      <2>1. KeepsTask(w)
            BY <1>1, Fields DEF MoveToRecycled, KeepsTask
      <2>2. Same
            BY <1>1, StatementsKeepTasks DEF MoveToRecycled, Same, TasksSame, stored
      <2> QED BY <1>1, <2>1, <2>2, MoveToRecycledMoves, UnnotedStep DEF NotedSteps
<1>2. CASE InsertRecycled(w)
      <2>1. KeepsTask(w)
            BY <1>2, FinishKeeps DEF InsertRecycled
      <2>2. Same
            BY <1>2, StatementsKeepTasks, DrawOther DEF InsertRecycled, Same, TasksSame, stored
      <2> QED BY <1>2, <2>1, <2>2, InsertRecycledMoves, UnnotedStep DEF NotedSteps
<1>3. CASE Restore(w)
      <2>1. KeepsTask(w)
            <3>1. ASSUME NEW r, NEW u, NEW f,
                         req' = [req EXCEPT ![w].pc = "restore file", ![w].record = r,
                                            ![w].user = u, ![w].userFile = f]
                  PROVE  KeepsTask(w)
                  BY <3>1, Fields DEF KeepsTask
            <3>2. PICK row \in db.recycled :
                    req' = [req EXCEPT ![w].pc = "restore file", ![w].record = row,
                                       ![w].user = row.user, ![w].userFile = row.userFile]
                  BY <1>3 DEF Restore
            <3> DEFINE u == row.user
                       f == row.userFile
            <3>3. req' = [req EXCEPT ![w].pc = "restore file", ![w].record = row,
                                     ![w].user = u, ![w].userFile = f]
                  BY <3>2
            <3> HIDE DEF u, f
            <3> QED BY <3>1, <3>3
      <2>2. Same
            BY <1>3 DEF Restore, Same, TasksSame, stored
      <2> QED BY <1>3, <2>1, <2>2, RestoreMoves, UnnotedStep DEF NotedSteps
<1>4. CASE RestoreReadFile(w)
      <2>1. KeepsTask(w)
            BY <1>4, Fields, FinishKeeps DEF RestoreReadFile, KeepsTask
      <2>2. Same
            BY <1>4 DEF RestoreReadFile, Same, TasksSame, stored
      <2> QED BY <1>4, <2>1, <2>2, RestoreReadFileMoves, UnnotedStep DEF NotedSteps
<1>5. CASE RestoreReadDir(w)
      <2>1. KeepsTask(w)
            BY <1>5, GotoKeeps, RestoreToRootKeeps DEF RestoreReadDir
      <2>2. Same
            BY <1>5 DEF RestoreReadDir, Same, TasksSame, stored
      <2> QED BY <1>5, <2>1, <2>2, RestoreReadDirMoves, UnnotedStep DEF NotedSteps
<1>6. CASE RestoreApply(w)
      <2>1. KeepsTask(w)
            BY <1>6, GotoKeeps, FinishKeeps DEF RestoreApply
      <2>2. Same
            BY <1>6, StatementsKeepTasks DEF RestoreApply, Same, TasksSame, stored
      <2> QED BY <1>6, <2>1, <2>2, RestoreApplyMoves, UnnotedStep DEF NotedSteps
<1>7. CASE PurgeReadFile(w)
      <2>1. KeepsTask(w)
            BY <1>7, TakeKeeps DEF PurgeReadFile
      <2>2. Same
            BY <1>7 DEF PurgeReadFile, Same, TasksSame, stored
      <2> QED BY <1>7, <2>1, <2>2, PurgeReadFileMoves, UnnotedStep DEF NotedSteps
<1>8. CASE PurgeCountRefs(w)
      <2>1. KeepsTask(w)
            BY <1>8, GotoKeeps DEF PurgeCountRefs
      <2>2. Same
            BY <1>8 DEF PurgeCountRefs, Same, TasksSame, stored
      <2> QED BY <1>8, <2>1, <2>2, PurgeCountRefsMoves, UnnotedStep DEF NotedSteps
<1>9. CASE PurgeReadInfo(w)
      <2>1. KeepsTask(w)
            BY <1>9, GotoKeeps DEF PurgeReadInfo
      <2>2. Same
            BY <1>9 DEF PurgeReadInfo, Same, TasksSame, stored
      <2> QED BY <1>9, <2>1, <2>2, PurgeReadInfoMoves, UnnotedStep DEF NotedSteps
<1>10. CASE PurgeUnlink(w)
      <2>1. KeepsTask(w)
            BY <1>10, GotoKeeps DEF PurgeUnlink
      <2>2. Same
            BY <1>10 DEF PurgeUnlink, Same, TasksSame, stored
      <2> QED BY <1>10, <2>1, <2>2, PurgeUnlinkMoves, UnnotedStep DEF NotedSteps
<1>11. CASE PurgeReadQuota(w)
      <2>1. KeepsTask(w)
            BY <1>11, Fields, GotoKeeps DEF PurgeReadQuota, KeepsTask
      <2>2. Same
            BY <1>11 DEF PurgeReadQuota, Same, TasksSame, stored
      <2> QED BY <1>11, <2>1, <2>2, PurgeReadQuotaMoves, UnnotedStep DEF NotedSteps
<1>12. CASE PurgeWriteQuota(w)
      <2>1. KeepsTask(w)
            BY <1>12, GotoKeeps DEF PurgeWriteQuota
      <2>2. Same
            BY <1>12, StatementsKeepTasks DEF PurgeWriteQuota, Same, TasksSame, stored
      <2> QED BY <1>12, <2>1, <2>2, PurgeWriteQuotaMoves, UnnotedStep DEF NotedSteps
<1>13. CASE PurgeDropInfo(w)
      <2>1. KeepsTask(w)
            BY <1>13, GotoKeeps, NextRecordKeeps DEF PurgeDropInfo
      <2>2. Same
            BY <1>13, StatementsKeepTasks DEF PurgeDropInfo, Same, TasksSame, stored
      <2> QED BY <1>13, <2>1, <2>2, PurgeDropInfoMoves, UnnotedStep DEF NotedSteps
<1>14. CASE PurgeHardDelete(w)
      <2>1. KeepsTask(w)
            BY <1>14, GotoKeeps, NextRecordKeeps DEF PurgeHardDelete
      <2>2. Same
            BY <1>14, StatementsKeepTasks DEF PurgeHardDelete, Same, TasksSame, stored
      <2> QED BY <1>14, <2>1, <2>2, PurgeHardDeleteMoves, UnnotedStep DEF NotedSteps
<1>15. CASE DropRecord(w)
      <2>1. KeepsTask(w)
            BY <1>15, NextRecordKeeps DEF DropRecord
      <2>2. Same
            BY <1>15, StatementsKeepTasks DEF DropRecord, Same, TasksSame, stored
      <2> QED BY <1>15, <2>1, <2>2, DropRecordMoves, UnnotedStep DEF NotedSteps
<1> QED BY <1>1, <1>2, <1>3, <1>4, <1>5, <1>6, <1>7, <1>8, <1>9, <1>10, <1>11, <1>12,
           <1>13, <1>14, <1>15

LEMMA PurgesQuiet ==
    ASSUME Typed, ExpiryInv, NEW w \in Workers,
           DeletePermanently(w) \/ EmptyBin(w) \/ CleanExpired(w)
    PROVE  ExpiryInv' /\ Kept
<1>1. PICK rows : Purges(w, rows) /\ At(w, "idle")
      BY DEF DeletePermanently, EmptyBin, CleanExpired, Starts
<1>2. KeepsTask(w)
      BY <1>1, Fields DEF Purges, KeepsTask
<1>3. Same
      BY <1>1 DEF Purges, Same, TasksSame, stored
<1> QED BY <1>1, <1>2, <1>3, PurgesMoves, UnnotedStep DEF NotedSteps

LEMMA MoveFileQuiet ==
    ASSUME Typed, ExpiryInv, NEW w \in Workers, MoveFile(w)
    PROVE  ExpiryInv' /\ Kept
<1>1. req' = req /\ At(w, "idle")
      BY DEF MoveFile, Starts
<1>2. KeepsTask(w)
      BY <1>1 DEF KeepsTask
<1>3. Same
      BY StatementsKeepTasks DEF MoveFile, Same, TasksSame
<1>4. Moves(w, "idle", {"idle"})
      BY <1>1 DEF Moves, Others, At
<1> QED BY <1>2, <1>3, <1>4, UnnotedStep DEF NotedSteps

-----------------------------------------------------------------------------
(***************************************************************************)
(* Steps that take up a task, or say that an upload is done.               *)
(***************************************************************************)
LEMMA UploadChunkExpiry ==
    ASSUME Typed, ExpiryInv, NEW w \in Workers, UploadChunk(w) \/ UploadChunkLate(w)
    PROVE  ExpiryInv' /\ Kept
<1>1. Same
      BY DEF UploadChunk, UploadChunkLate, Same, TasksSame, stored
<1>2. Others(w)
      BY UploadChunkMoves, UploadChunkLateMoves DEF Moves
<1>3. req'[w].task \in DOMAIN items
      <2>1. CASE UploadChunk(w)
            <3>1. PICK t \in DOMAIN items, p \in UploadParts, u \in Users, n \in {0} \cup Totals :
                    /\ p # Single => n \in Totals
                    /\ req' = [req EXCEPT ![w].pc = "mkdir", ![w].task = t, ![w].part = p,
                                          ![w].user = u, ![w].total = n,
                                          ![w].content = items[t].value.content,
                                          ![w].dir = items[t].value.dir]
                  BY <2>1, ChunkRequest, Zenon
            <3> QED BY <3>1, Fields
      <2>2. CASE UploadChunkLate(w)
            BY <2>2, ExpiryFields DEF UploadChunkLate
      <2> QED BY <2>1, <2>2
<1>4. Away(w)
      BY <1>3 DEF Away, ExpiryInv, Drawn, RequestInv, NewTask
<1>5. CASE UploadChunk(w)
      <2>1. req'[w].pc \notin NotedSteps
            BY <1>5, UploadChunkMoves DEF Moves, NotedSteps
      <2> QED BY <1>1, <1>2, <1>4, <2>1, UnnotedInv, SameInv
<1>6. CASE UploadChunkLate(w)
      <2>1. req'[w].pc = "evict" /\ Expired(items[req'[w].task])
            BY <1>6, ExpiryFields DEF UploadChunkLate, Live
      <2>2. EvictsExpired(w)'
            BY <1>1, <2>1 DEF EvictsExpired, Expired, Same, cache
      <2>3. RequestInv(w)'
            BY <2>1, <2>2 DEF RequestInv, WritesLater, LinkedWhenDone, NewTask, At
      <2> QED BY <1>1, <1>2, <1>4, <2>3, SameInv
<1> QED BY <1>5, <1>6

LEMMA CountChunksExpiry ==
    ASSUME Typed, ExpiryInv, NEW w \in Workers, CountChunks(w)
    PROVE  ExpiryInv' /\ Kept
<1>1. Same
      BY DEF CountChunks, Same, TasksSame, stored
<1>2. KeepsTask(w) /\ req'[w].pc = "progress" /\ req'[w].status = "uploading"
      BY ExpiryFields DEF CountChunks, KeepsTask
<1>3. Others(w) /\ req[w].pc # "delete task"
      BY CountChunksMoves DEF Moves, At
<1>4. RequestInv(w)'
      BY <1>2 DEF RequestInv, WritesLater, EvictsExpired, LinkedWhenDone, NewTask, At
<1> QED BY <1>1, <1>2, <1>3, <1>4, KeepsAway, SameInv

LEMMA MergeFailedExpiry ==
    ASSUME Typed, ExpiryInv, NEW w \in Workers, MergeFailed(w), Same,
           req[w].pc # "delete task"
    PROVE  ExpiryInv' /\ Kept
<1>1. KeepsTask(w)
      BY MergeFailedMoves DEF KeepsTask
<1>2. RequestInv(w)'
      BY MergeFailedMoves
      DEF RequestInv, WritesLater, EvictsExpired, LinkedWhenDone, NewTask, At
<1> QED BY <1>1, <1>2, MergeFailedMoves, KeepsAway, SameInv

LEMMA MergeChunkExpiry ==
    ASSUME Typed, ExpiryInv, NEW w \in Workers, MergeChunk(w)
    PROVE  ExpiryInv' /\ Kept
<1>1. Same
      BY DEF MergeChunk, Same, TasksSame
<1>2. CASE MergeFailed(w)
      BY <1>1, <1>2, MergeFailedExpiry DEF MergeChunk, At
<1>3. CASE ~MergeFailed(w)
      <2>0. \E pc \in {"merge", "remove temp"} : \E i :
                req' = [req EXCEPT ![w].pc = pc, ![w].merged = i]
            BY <1>3 DEF MergeChunk
      <2>1. /\ Others(w)
            /\ KeepsTask(w)
            /\ req'[w].pc \in {"merge", "remove temp"}
            BY <2>0, Fields DEF KeepsTask, Others
      <2>2. req'[w].pc \notin NotedSteps /\ req[w].pc # "delete task"
            BY <2>1 DEF NotedSteps, MergeChunk, At
      <2> QED BY <1>1, <2>1, <2>2, KeepsAway, UnnotedInv, SameInv
<1> QED BY <1>2, <1>3

LEMMA InsertUserFileExpiry ==
    ASSUME Typed, ExpiryInv, NEW w \in Workers, InsertUserFile(w)
    PROVE  ExpiryInv' /\ Kept
<1>1. Same
      BY StatementsKeepTasks, DrawOther DEF InsertUserFile, Same, TasksSame
<1>2. KeepsTask(w) /\ req'[w].userFile = NextKey("userFile")
      BY ExpiryFields DEF InsertUserFile, KeepsTask
<1>3. Others(w) /\ req[w].pc # "delete task" /\ req'[w].pc \in {"clean", "progress"}
      BY InsertUserFileMoves DEF Moves, At
<1>4. req'[w].userFile # NULL
      BY <1>2, FileStoreAssumption DEF NextKey, Typed, TypeOK, KeysOK, Kinds
<1>5. RequestInv(w)'
      BY <1>3, <1>4 DEF RequestInv, WritesLater, EvictsExpired, LinkedWhenDone, NewTask, At
<1> QED BY <1>1, <1>2, <1>3, <1>5, KeepsAway, SameInv

(* The end of updateTaskProgress: "completed" leads to "clean".            *)
LEMMA AfterProgressInv ==
    ASSUME Typed, ExpiryInv, NEW w \in Workers, AfterProgress(w),
           req[w].pc \in {"progress", "write"}
    PROVE  /\ Others(w)
           /\ KeepsTask(w)
           /\ RequestInv(w)'
<1>1. Others(w) /\ KeepsTask(w) /\ req'[w].pc \in {"clean", "unlock", "lock", "idle"}
      BY AfterProgressMoves, GotoKeeps, FinishKeeps DEF AfterProgress
<1>2. CASE req[w].status = "completed"
      <2>1. req[w].userFile # NULL
            BY <1>2 DEF ExpiryInv, RequestInv, LinkedWhenDone
      <2>2. req'[w].userFile = req[w].userFile
            BY <1>2, GotoMoves DEF AfterProgress
      <2> QED BY <1>1, <2>1, <2>2
              DEF RequestInv, WritesLater, EvictsExpired, LinkedWhenDone, NewTask, At
<1>3. CASE req[w].status # "completed"
      <2>1. req'[w].pc \in {"unlock", "lock", "idle"}
            BY <1>3, GotoMoves, FinishMoves DEF AfterProgress
      <2> QED BY <1>1, <2>1, UnnotedInv DEF NotedSteps
<1> QED BY <1>1, <1>2, <1>3

LEMMA AfterProgressExpiry ==
    ASSUME Typed, ExpiryInv, NEW w \in Workers, AfterProgress(w), Same,
           req[w].pc \in {"progress", "write"}
    PROVE  ExpiryInv' /\ Kept
BY AfterProgressInv, KeepsAway, SameInv

LEMMA ReadTaskExpiry ==
    ASSUME Typed, ExpiryInv, NEW w \in Workers, ReadTask(w)
    PROVE  ExpiryInv' /\ Kept
<1>1. Same /\ req[w].pc = "progress"
      BY DEF ReadTask, Same, TasksSame, stored, At
<1>2. CASE HasTask(req[w].task)
      <2>1. /\ req'[w].pc = "write"
            /\ req'[w].expires = db.uploadTasks[req[w].task].expiresAt
            /\ req'[w].task = req[w].task
            /\ req'[w].status = req[w].status
            /\ req'[w].userFile = req[w].userFile
            /\ Others(w)
            BY <1>2, ExpiryFields DEF ReadTask, Others
      <2>2. WritesLater(w)'
            BY <1>1, <1>2, <2>1 DEF WritesLater, HasTask, ExpiryInv, TaskOutlives, Same, cache
      <2>3. LinkedWhenDone(w)'
            BY <1>1, <2>1 DEF ExpiryInv, RequestInv, LinkedWhenDone, At
      <2>4. RequestInv(w)'
            BY <2>1, <2>2, <2>3 DEF RequestInv, EvictsExpired, NewTask, At
      <2>5. KeepsTask(w) /\ req[w].pc # "delete task"
            BY <1>1, <2>1 DEF KeepsTask
      <2> QED BY <1>1, <2>1, <2>4, <2>5, KeepsAway, SameInv
<1>3. CASE ~HasTask(req[w].task)
      BY <1>1, <1>3, AfterProgressExpiry DEF ReadTask
<1> QED BY <1>2, <1>3

LEMMA RenewUploadTaskExpiry ==
    ASSUME Typed, ExpiryInv, NEW w \in Workers, RenewUploadTask(w)
    PROVE  ExpiryInv' /\ Kept
<1>1. Same /\ Others(w)
      BY RequestsType DEF RenewUploadTask, Same, TasksSame, stored, Others
<1>2. PICK t \in DOMAIN db.uploadTasks :
        /\ Expired(db.uploadTasks[t])
        /\ req'[w].pc = "renew"
        /\ req'[w].task = t
        /\ req'[w].expires = clock + TaskTTL
      BY ExpiryFields DEF RenewUploadTask
<1>3. Away(w)
      <2>1. ASSUME NEW v \in Workers \ {w}, At(v, "cache"), req[v].task = t
            PROVE  FALSE
            <3>1. clock + TaskTTL <= db.uploadTasks[t].expiresAt
                  BY <2>1 DEF ExpiryInv, RequestInv, NewTask, HasTask
            <3> QED BY <1>2, <3>1, Times DEF Expired, TaskTTL
      <2> QED BY <1>2, <2>1 DEF Away, ExpiryInv, Drawn
<1>4. WritesLater(w)'
      <2>1. CASE t \in DOMAIN items
            <3>1. items[t].expiresAt < db.uploadTasks[t].expiresAt
                  BY <2>1 DEF ExpiryInv, TaskOutlives
            <3>2. items[t].expiresAt < clock + TaskTTL
                  BY <1>2, <2>1, <3>1, Times DEF Expired, TaskTTL
            <3> QED BY <1>1, <1>2, <3>2 DEF WritesLater, Same, cache
      <2>2. CASE t \notin DOMAIN items
            BY <1>1, <1>2, <2>2 DEF WritesLater, Same, cache
      <2> QED BY <2>1, <2>2
<1>5. RequestInv(w)'
      BY <1>2, <1>4 DEF RequestInv, EvictsExpired, LinkedWhenDone, NewTask, At
<1> QED BY <1>1, <1>3, <1>5, SameInv

LEMMA DeleteUploadTaskExpiry ==
    ASSUME Typed, ExpiryInv, NEW w \in Workers, DeleteUploadTask(w)
    PROVE  ExpiryInv' /\ Kept
<1>1. Same /\ Others(w)
      BY RequestsType DEF DeleteUploadTask, Same, TasksSame, stored, Others
<1>2. req'[w].pc = "delete task" /\ req'[w].task \in DOMAIN db.uploadTasks
      BY ExpiryFields DEF DeleteUploadTask
<1>3. Away(w)
      BY <1>2 DEF Away, ExpiryInv, Drawn
<1>4. RequestInv(w)'
      BY <1>2, UnnotedInv DEF NotedSteps
<1> QED BY <1>1, <1>3, <1>4, SameInv

-----------------------------------------------------------------------------
(***************************************************************************)
(* Steps that change the cache or the tasks.                               *)
(***************************************************************************)
Shrinks(new, old) == DOMAIN new \subseteq DOMAIN old /\ \A k \in DOMAIN new : new[k] = old[k]

LEMMA DropShrinks ==
    ASSUME NEW table, NEW keys
    PROVE  Shrinks(Drop(table, keys), table)
BY DEF Shrinks, Drop

(* Entries and tasks may go at any time; time stands still.                *)
LEMMA ShrinkInv ==
    ASSUME Typed, ExpiryInv,
           Shrinks(items', items), Shrinks(db'.uploadTasks, db.uploadTasks),
           clock' = clock, used'["task"] = used["task"],
           \A v \in Workers : req'[v] = req[v] \/ (req'[v].pc = "idle" /\ req'[v].task = NULL)
    PROVE  ExpiryInv'
<1>1. Known("task")' = Known("task")
      BY DEF Known
<1>2. Drawn'
      BY <1>1 DEF ExpiryInv, Drawn, Shrinks
<1>3. TaskOutlives'
      BY DEF ExpiryInv, TaskOutlives, Shrinks
<1>4. ASSUME NEW v \in Workers, req'[v].pc = "idle"
      PROVE  RequestInv(v)'
      BY <1>4, UnnotedInv DEF NotedSteps
<1>5. ASSUME NEW v \in Workers, req'[v] = req[v]
      PROVE  RequestInv(v)'
      <2>1. RequestInv(v)
            BY DEF ExpiryInv
      <2>2. WritesLater(v)' /\ EvictsExpired(v)' /\ LinkedWhenDone(v)'
            BY <1>5, <2>1 DEF RequestInv, WritesLater, EvictsExpired, LinkedWhenDone, At,
               Expired, Shrinks
      <2>3. ASSUME At(v, "cache")
            PROVE  \A x \in Workers \ {v} :
                        req'[x].task = req'[v].task => At(x, "delete task")'
            BY <1>5, <2>1, <2>3, CacheHasTask DEF RequestInv, NewTask, At
      <2>4. NewTask(v)'
            BY <1>5, <2>1, <2>3 DEF RequestInv, NewTask, At, HasTask, Shrinks
      <2> QED BY <2>2, <2>4 DEF RequestInv
<1> QED BY <1>2, <1>3, <1>4, <1>5 DEF ExpiryInv

LEMMA DropTaskExpiry ==
    ASSUME Typed, ExpiryInv, NEW w \in Workers, DropTask(w)
    PROVE  ExpiryInv' /\ Kept
<1>1. items' = items /\ clock' = clock /\ used' = used
      BY DEF DropTask, cache
<1>2. db'.uploadTasks = Drop(db.uploadTasks, {req[w].task})
      BY TasksThere DEF DropTask, DeleteTasks
<1>3. \A v \in Workers : req'[v] = req[v] \/ (req'[v].pc = "idle" /\ req'[v].task = NULL)
      BY FinishMoves, FinishKeeps DEF DropTask, Others
<1>4. Shrinks(items', items) /\ Shrinks(db'.uploadTasks, db.uploadTasks)
      BY <1>1, <1>2, DropShrinks DEF Shrinks
<1>5. ExpiryInv'
      BY <1>1, <1>3, <1>4, ShrinkInv
<1>6. Kept
      BY <1>1, <1>2 DEF Kept, RequestKept, TaskKept, Drop, DropTask
<1> QED BY <1>5, <1>6

LEMMA EvictPrecheckExpiry ==
    ASSUME Typed, ExpiryInv, NEW w \in Workers, EvictPrecheck(w)
    PROVE  ExpiryInv' /\ Kept
<1>1. items' = Drop(items, {req[w].task}) /\ clock' = clock
      BY DEF EvictPrecheck, CacheDelete
<1>2. UNCHANGED stored
      BY DEF EvictPrecheck
<1>3. \A v \in Workers : req'[v] = req[v] \/ (req'[v].pc = "idle" /\ req'[v].task = NULL)
      BY FinishMoves, FinishKeeps DEF EvictPrecheck, Others
<1>4. Shrinks(items', items) /\ Shrinks(db'.uploadTasks, db.uploadTasks)
      BY <1>1, <1>2, DropShrinks DEF Shrinks, stored
<1>5. ExpiryInv'
      BY <1>1, <1>2, <1>3, <1>4, ShrinkInv DEF stored
<1>6. EvictsExpired(w) /\ At(w, "evict")
      BY DEF ExpiryInv, RequestInv, EvictPrecheck
<1>7. Kept
      BY <1>1, <1>2, <1>6 DEF Kept, RequestKept, TaskKept, Drop, stored, EvictsExpired, Live
<1> QED BY <1>5, <1>7

LEMMA CleanPrecheckCacheExpiry ==
    ASSUME Typed, ExpiryInv, NEW w \in Workers, CleanPrecheckCache(w)
    PROVE  ExpiryInv' /\ Kept
<1>1. items' = Drop(items, {req[w].task}) /\ clock' = clock
      BY DEF CleanPrecheckCache, CacheDelete
<1>2. UNCHANGED stored /\ At(w, "clean")
      BY DEF CleanPrecheckCache
<1>3. PICK pc \in {"remove temp", "unlock"} : Goto(w, pc)
      BY DEF CleanPrecheckCache
<1>4. Others(w) /\ req'[w].pc = pc /\ req'[w].task = req[w].task
      BY <1>3, GotoMoves
<1>5. RequestInv(w)'
      BY <1>4, UnnotedInv DEF NotedSteps
<1>6. Shrinks(items', items) /\ db'.uploadTasks = db.uploadTasks /\ used' = used
      BY <1>1, <1>2, DropShrinks DEF stored
<1>7. ExpiryInv'
      <2>1. Drawn'
            BY <1>4, <1>6 DEF ExpiryInv, Drawn, Known, Shrinks, Others
      <2>2. TaskOutlives'
            BY <1>6 DEF ExpiryInv, TaskOutlives, Shrinks
      <2>3. ASSUME NEW v \in Workers \ {w}
            PROVE  RequestInv(v)'
            <3>1. req'[v] = req[v] /\ RequestInv(v)
                  BY <1>4 DEF Others, ExpiryInv
            <3>2. WritesLater(v)' /\ EvictsExpired(v)' /\ LinkedWhenDone(v)'
                  BY <1>1, <1>6, <3>1 DEF RequestInv, WritesLater, EvictsExpired,
                     LinkedWhenDone, At, Expired, Shrinks
            <3>3. ASSUME At(v, "cache")
                  PROVE  \A x \in Workers \ {v} :
                            req'[x].task = req'[v].task => At(x, "delete task")'
                  <4>1. req[w].task # req[v].task
                        BY <1>2, <3>1, <3>3 DEF RequestInv, NewTask, At
                  <4> QED BY <1>4, <3>1, <3>3, <4>1 DEF RequestInv, NewTask, At, Others
            <3>4. NewTask(v)'
                  BY <1>1, <1>6, <3>1, <3>3 DEF RequestInv, NewTask, At, HasTask, Shrinks
            <3> QED BY <3>2, <3>4 DEF RequestInv
      <2> QED BY <1>5, <2>1, <2>2, <2>3 DEF ExpiryInv
<1>8. LinkedWhenDone(w)
      BY DEF ExpiryInv, RequestInv
<1>9. Kept
      BY <1>1, <1>2, <1>6, <1>8 DEF Kept, RequestKept, TaskKept, Drop, LinkedWhenDone
<1> QED BY <1>7, <1>9

(* The task is new: nothing refers to it.                                  *)
LEMMA CreateTaskExpiry ==
    ASSUME Typed, ExpiryInv, NEW w \in Workers, CreateTask(w)
    PROVE  ExpiryInv' /\ Kept
<1> DEFINE t == NextKey("task")
<1>1. /\ items' = items
      /\ clock' = clock
      /\ used'["task"] = t
      /\ Others(w)
      /\ req'[w].pc = "cache"
      /\ req'[w].task = t
      BY ExpiryFields, LastTask, RequestsType DEF CreateTask, cache, Draw, NextKey, Others
<1>2. /\ DOMAIN db'.uploadTasks = DOMAIN db.uploadTasks \cup {t}
      /\ db'.uploadTasks[t].expiresAt = clock + TaskTTL
      /\ \A k \in DOMAIN db.uploadTasks \ {t} : db'.uploadTasks[k] = db.uploadTasks[k]
      BY TasksThere DEF CreateTask, PutTask, Put
<1>3. /\ Known("task")' = Known("task") \cup {t}
      /\ t \notin Known("task")
      /\ t # NULL
      BY <1>1, LastTask DEF Known, NextKey
<1>4. /\ t \notin DOMAIN items
      /\ t \notin DOMAIN db.uploadTasks
      /\ \A v \in Workers : req[v].task # t
      BY <1>3 DEF ExpiryInv, Drawn
<1>5. Drawn'
      BY <1>1, <1>2, <1>3 DEF ExpiryInv, Drawn, Others
<1>6. TaskOutlives'
      BY <1>1, <1>2, <1>4 DEF ExpiryInv, TaskOutlives
<1>7. RequestInv(w)'
      <2>1. NewTask(w)'
            <3>1. clock' + TaskTTL <= db'.uploadTasks[t].expiresAt
                  BY <1>1, <1>2, Times DEF TaskTTL
            <3>2. \A v \in Workers \ {w} : req'[v].task # t
                  BY <1>1, <1>4 DEF Others
            <3> QED BY <1>1, <1>4, <3>1, <3>2 DEF NewTask
      <2> QED BY <1>1, <2>1 DEF RequestInv, WritesLater, EvictsExpired, LinkedWhenDone, At
<1>8. ASSUME NEW v \in Workers \ {w}
      PROVE  RequestInv(v)'
      <2>1. req'[v] = req[v] /\ RequestInv(v)
            BY <1>1 DEF Others, ExpiryInv
      <2>2. WritesLater(v)' /\ EvictsExpired(v)' /\ LinkedWhenDone(v)'
            BY <1>1, <2>1
            DEF RequestInv, WritesLater, EvictsExpired, LinkedWhenDone, At, Expired
      <2>3. \A x \in Workers \ {v} : At(v, "cache") /\ req'[x].task = req'[v].task =>
                                        At(x, "delete task")'
            BY <1>1, <1>4, <2>1 DEF RequestInv, NewTask, At, Others
      <2>4. req[v].task # t
            BY <1>4
      <2>5. NewTask(v)'
            BY <1>1, <1>2, <2>1, <2>3, <2>4 DEF RequestInv, NewTask, At, HasTask
      <2> QED BY <2>2, <2>5 DEF RequestInv
<1>9. Kept
      BY <1>1, <1>2 DEF Kept, RequestKept, TaskKept
<1> QED BY <1>5, <1>6, <1>7, <1>8, <1>9 DEF ExpiryInv

(* The entry expires before the task does, and nobody has it in hand.      *)
LEMMA CachePrecheckExpiry ==
    ASSUME Typed, ExpiryInv, NEW w \in Workers, CachePrecheck(w)
    PROVE  ExpiryInv' /\ Kept
<1> DEFINE t == req[w].task
<1>1. /\ clock' = clock
      /\ DOMAIN items' = DOMAIN items \cup {t}
      /\ items'[t].expiresAt = clock + CacheTTL
      /\ \A k \in DOMAIN items \ {t} : items'[k] = items[k]
      BY DEF CachePrecheck, CacheSet, Put
<1>2. db' = db /\ used' = used /\ At(w, "cache") /\ Others(w) /\ req'[w] = Idle
      BY FinishMoves DEF CachePrecheck, stored
<1>3. /\ t \notin DOMAIN items
      /\ HasTask(t) => clock + TaskTTL <= db.uploadTasks[t].expiresAt
      /\ \A v \in Workers \ {w} : req[v].task = t => At(v, "delete task")
      BY <1>2 DEF ExpiryInv, RequestInv, NewTask
<1>4. Drawn'
      <2>1. t \in Known("task")
            BY <1>2, CacheHasTask DEF ExpiryInv, Drawn
      <2> QED BY <1>1, <1>2, <2>1 DEF ExpiryInv, Drawn, Known, Others, Idle
<1>5. TaskOutlives'
      <2>1. ASSUME HasTask(t)
            PROVE  clock + CacheTTL < db.uploadTasks[t].expiresAt
            <3>1. clock + 2 <= db.uploadTasks[t].expiresAt
                  BY <1>3, <2>1 DEF TaskTTL
            <3>2. clock \in Nat /\ db.uploadTasks[t].expiresAt \in Nat
                  BY <2>1, Times DEF HasTask
            <3> QED BY <3>1, <3>2 DEF CacheTTL
      <2>2. ASSUME NEW k \in DOMAIN items' \cap DOMAIN db'.uploadTasks
            PROVE  items'[k].expiresAt < db'.uploadTasks[k].expiresAt
            <3>1. CASE k = t
                  BY <1>1, <1>2, <2>1, <2>2, <3>1 DEF HasTask
            <3>2. CASE k # t
                  BY <1>1, <1>2, <2>2, <3>2 DEF ExpiryInv, TaskOutlives
            <3> QED BY <3>1, <3>2
      <2> QED BY <2>2 DEF TaskOutlives
<1>6. RequestInv(w)'
      <2>1. req'[w].pc = "idle"
            BY <1>2 DEF Idle
      <2> QED BY <2>1, UnnotedInv DEF NotedSteps
<1>7. ASSUME NEW v \in Workers \ {w}
      PROVE  RequestInv(v)'
      <2>1. req'[v] = req[v] /\ RequestInv(v)
            BY <1>2 DEF Others, ExpiryInv
      <2>2. req[v].pc \in {"cache", "write", "renew", "evict"} => req[v].task # t
            BY <1>3 DEF At
      <2>3. WritesLater(v)' /\ EvictsExpired(v)' /\ LinkedWhenDone(v)'
            BY <1>1, <2>1, <2>2
            DEF RequestInv, WritesLater, EvictsExpired, LinkedWhenDone, At, Expired
      <2>4. ASSUME At(v, "cache")
            PROVE  \A x \in Workers \ {v} :
                        req'[x].task = req'[v].task => At(x, "delete task")'
            <3>1. req[v].task # NULL
                  BY <2>4, CacheHasTask
            <3>2. req'[w].task = NULL
                  BY <1>2 DEF Idle
            <3> QED BY <1>2, <2>1, <2>4, <3>1, <3>2 DEF RequestInv, NewTask, At, Others
      <2>5. NewTask(v)'
            BY <1>1, <1>2, <2>1, <2>2, <2>4 DEF RequestInv, NewTask, At, HasTask
      <2> QED BY <2>3, <2>5 DEF RequestInv
<1>8. Kept
      BY <1>1, <1>2 DEF Kept, RequestKept, TaskKept
<1> QED BY <1>4, <1>5, <1>6, <1>7, <1>8 DEF ExpiryInv

(* A row is written back: its expires_at is later than its entry's.        *)
LEMMA WriteBackInv ==
    ASSUME Typed, ExpiryInv, NEW w \in Workers, req[w].pc \in {"write", "renew"},
           Others(w), KeepsTask(w), RequestInv(w)', UNCHANGED <<items, clock, used>>,
           IF HasTask(req[w].task)
           THEN \E row : row.expiresAt = req[w].expires /\ PutTask(req[w].task, row)
           ELSE UNCHANGED db
    PROVE  ExpiryInv' /\ Kept
<1> DEFINE t == req[w].task
<1>1. /\ DOMAIN db'.uploadTasks = DOMAIN db.uploadTasks
      /\ \A k \in DOMAIN db.uploadTasks \ {t} : db'.uploadTasks[k] = db.uploadTasks[k]
      /\ HasTask(t) => db'.uploadTasks[t].expiresAt = req[w].expires
      <2>1. CASE HasTask(t)
            <3>1. PICK row : row.expiresAt = req[w].expires /\ PutTask(t, row)
                  BY <2>1
            <3>2. db'.uploadTasks = Put(db.uploadTasks, t, row)
                  BY <3>1, TasksThere DEF PutTask
            <3> QED BY <2>1, <3>1, <3>2 DEF Put, HasTask
      <2>2. CASE ~HasTask(t)
            BY <2>2
      <2> QED BY <2>1, <2>2
<1>2. Drawn'
      BY <1>1 DEF ExpiryInv, Drawn, Known, Others, KeepsTask
<1>3. TaskOutlives'
      <2>1. t \in DOMAIN items => items[t].expiresAt < req[w].expires
            BY DEF ExpiryInv, RequestInv, WritesLater
      <2> QED BY <1>1, <2>1 DEF ExpiryInv, TaskOutlives, HasTask
<1>4. Away(w)
      BY KeepsAway
<1>5. ASSUME NEW v \in Workers \ {w}
      PROVE  RequestInv(v)'
      <2>1. req'[v] = req[v] /\ RequestInv(v)
            BY DEF Others, ExpiryInv
      <2>2. WritesLater(v)' /\ EvictsExpired(v)' /\ LinkedWhenDone(v)'
            BY <2>1 DEF RequestInv, WritesLater, EvictsExpired, LinkedWhenDone, At, Expired
      <2>3. At(v, "cache") => req[v].task # t
            BY <2>1 DEF RequestInv, NewTask, At
      <2>4. ASSUME At(v, "cache")
            PROVE  \A x \in Workers \ {v} :
                        req'[x].task = req'[v].task => At(x, "delete task")'
            <3>1. ASSUME NEW x \in Workers \ {v}, req'[x].task = req'[v].task
                  PROVE  At(x, "delete task")'
                  <4>1. CASE x = w
                        BY <1>4, <2>1, <2>4, <3>1, <4>1 DEF Away, At
                  <4>2. CASE x # w
                        BY <2>1, <2>4, <3>1, <4>2 DEF RequestInv, NewTask, Others, At
                  <4> QED BY <4>1, <4>2
            <3> QED BY <3>1
      <2>5. NewTask(v)'
            BY <1>1, <2>1, <2>3, <2>4 DEF RequestInv, NewTask, At, HasTask
      <2> QED BY <2>2, <2>5 DEF RequestInv
<1>6. Kept
      BY <1>1 DEF Kept, RequestKept, TaskKept
<1> QED BY <1>2, <1>3, <1>5, <1>6 DEF ExpiryInv

LEMMA WriteTaskExpiry ==
    ASSUME Typed, ExpiryInv, NEW w \in Workers, WriteTask(w) \/ RenewWriteTask(w)
    PROVE  ExpiryInv' /\ Kept
<1>1. UNCHANGED <<items, clock, used>> /\ req[w].pc \in {"write", "renew"}
      BY DEF WriteTask, RenewWriteTask, cache, At
<1>2. IF HasTask(req[w].task)
      THEN \E row : row.expiresAt = req[w].expires /\ PutTask(req[w].task, row)
      ELSE UNCHANGED db
      <2> DEFINE row == [status    |-> req[w].status,
                         uploaded  |-> req[w].uploaded,
                         expiresAt |-> req[w].expires]
      <2>1. row.expiresAt = req[w].expires
            OBVIOUS
      <2>2. HasTask(req[w].task) => PutTask(req[w].task, row)
            BY DEF WriteTask, RenewWriteTask
      <2>3. ~HasTask(req[w].task) => UNCHANGED db
            BY DEF WriteTask, RenewWriteTask
      <2> HIDE DEF row
      <2> QED BY <2>1, <2>2, <2>3
<1>3. CASE WriteTask(w)
      <2>1. req[w].pc = "write" /\ AfterProgress(w)
            BY <1>3 DEF WriteTask, At
      <2> QED BY <1>1, <1>2, <2>1, AfterProgressInv, WriteBackInv
<1>4. CASE RenewWriteTask(w)
      <2>1. Finish(w)
            BY <1>4 DEF RenewWriteTask
      <2>2. Others(w) /\ KeepsTask(w) /\ req'[w].pc = "idle"
            BY <2>1, FinishMoves, FinishKeeps
      <2>3. RequestInv(w)'
            BY <2>2, UnnotedInv DEF NotedSteps
      <2> QED BY <1>1, <1>2, <2>2, <2>3, WriteBackInv
<1> QED BY <1>3, <1>4

-----------------------------------------------------------------------------
(***************************************************************************)
(* Failures, time, and the two theorems.                                   *)
(***************************************************************************)
LEMMA CallFailsExpiry ==
    ASSUME Typed, ExpiryInv, NEW w \in Workers, CallFails(w)
    PROVE  ExpiryInv' /\ Kept
<1>1. Same
      BY DEF CallFails, SaveFails, Same, TasksSame, stored
<1>2. ASSUME Others(w), KeepsTask(w), req[w].pc # "delete task", req'[w].pc \notin NotedSteps
      PROVE  ExpiryInv' /\ Kept
      BY <1>1, <1>2, KeepsAway, UnnotedInv, SameInv
<1>3. CASE Finish(w)
      <2>1. Others(w) /\ req'[w].task = NULL /\ req'[w].pc = "idle"
            BY <1>3, FinishMoves, FinishKeeps
      <2>2. req'[w].pc \notin NotedSteps
            BY <2>1 DEF NotedSteps
      <2>3. Away(w)
            BY <2>1, CacheHasTask DEF Away
      <2> QED BY <1>1, <2>1, <2>2, <2>3, UnnotedInv, SameInv
<1>4. ASSUME NEW pc, Goto(w, pc), pc \notin NotedSteps, req[w].pc # "delete task"
      PROVE  ExpiryInv' /\ Kept
      BY <1>2, <1>4, GotoMoves, GotoKeeps
<1>5. CASE SaveFails(w)
      BY <1>3, <1>5 DEF SaveFails
<1>6. CASE UploadFails(w)
      <2>1. CASE AfterProgress(w) /\ req[w].pc \in {"progress", "write"}
            BY <1>1, <2>1, AfterProgressExpiry
      <2>2. CASE MergeFailed(w) /\ req[w].pc \in {"merge", "info", "link"}
            BY <1>1, <2>2, MergeFailedExpiry
      <2>3. ASSUME NEW pc \in {"task", "rollback", "remove temp", "info"}, Goto(w, pc),
                   req[w].pc # "delete task"
            PROVE  ExpiryInv' /\ Kept
            <3>1. pc \notin NotedSteps
                  BY DEF NotedSteps
            <3> QED BY <1>4, <2>3, <3>1
      <2>4. ASSUME NEW d, At(w, "delete dirs"), NextDir(w, d)
            PROVE  ExpiryInv' /\ Kept
            <3>1. Others(w) /\ req'[w].pc \in {"idle", "delete dirs"}
                  BY <2>4, NextDirMoves DEF At
            <3>2. req'[w].pc \notin NotedSteps /\ req[w].pc # "delete task"
                  BY <2>4, <3>1 DEF NotedSteps, At
            <3> QED BY <1>2, <2>4, <3>1, <3>2, NextDirKeeps
      <2> QED BY <1>3, <1>6, <2>1, <2>2, <2>3, <2>4 DEF UploadFails, At
<1>7. CASE RecycledFails(w)
      <2>1. CASE RestoreToRoot(w) /\ At(w, "restore dir")
            <3>1. Others(w) /\ req'[w].pc \in {"idle", "restore"}
                  BY <2>1, RestoreToRootMoves
            <3>2. req'[w].pc \notin NotedSteps /\ req[w].pc # "delete task"
                  BY <2>1, <3>1 DEF NotedSteps, At
            <3> QED BY <1>2, <2>1, <3>1, <3>2, RestoreToRootKeeps
      <2>2. CASE NextRecord(w) /\ req[w].pc # "delete task"
            <3>1. Others(w) /\ req'[w].pc \in {"idle", "purge"}
                  BY <2>2, NextRecordMoves
            <3>2. req'[w].pc \notin NotedSteps
                  BY <3>1 DEF NotedSteps
            <3> QED BY <1>2, <2>2, <3>1, <3>2, NextRecordKeeps
      <2>3. ASSUME NEW pc \in {"hard delete", "quota", "drop info"}, Goto(w, pc),
                   req[w].pc # "delete task"
            PROVE  ExpiryInv' /\ Kept
            <3>1. pc \notin NotedSteps
                  BY DEF NotedSteps
            <3> QED BY <1>4, <2>3, <3>1
      <2>4. ASSUME NEW row, Take(w, row, "drop record", NULL), At(w, "purge")
            PROVE  ExpiryInv' /\ Kept
            <3>1. Others(w) /\ req'[w].pc = "drop record"
                  BY <2>4, TakeMoves
            <3>2. req'[w].pc \notin NotedSteps /\ req[w].pc # "delete task"
                  BY <2>4, <3>1 DEF NotedSteps, At
            <3> QED BY <1>2, <2>4, <3>1, <3>2, TakeKeeps
      <2> QED BY <1>3, <1>7, <2>1, <2>2, <2>3, <2>4 DEF RecycledFails, At
<1> QED BY <1>5, <1>6, <1>7 DEF CallFails

LEMMA CrashExpiry ==
    ASSUME Typed, ExpiryInv, Crash
    PROVE  ExpiryInv'
<1>1. items' = Empty /\ clock' = clock /\ db' = db /\ used' = used
      BY DEF Crash
<1>2. \A v \in Workers : req'[v] = Idle
      BY DEF Crash
<1>3. Shrinks(items', items) /\ Shrinks(db'.uploadTasks, db.uploadTasks)
      BY <1>1 DEF Shrinks, Empty
<1>4. \A v \in Workers : req'[v].pc = "idle" /\ req'[v].task = NULL
      BY <1>2 DEF Idle
<1> QED BY <1>1, <1>3, <1>4, ShrinkInv

LEMMA TickingExpiry ==
    ASSUME Typed, ExpiryInv, Ticking
    PROVE  ExpiryInv' /\ Kept
<1>1. CASE TimePasses /\ (\A w \in Workers : ~At(w, "cache")) /\ UNCHANGED <<stored, req, shared>>
      <2>1. /\ clock' = clock + 1
            /\ UNCHANGED <<items, db, used, req>>
            BY <1>1 DEF TimePasses, stored
      <2>2. Drawn' /\ TaskOutlives'
            BY <2>1 DEF ExpiryInv, Drawn, TaskOutlives, Known
      <2>3. ASSUME NEW v \in Workers
            PROVE  RequestInv(v)'
            <3>1. RequestInv(v)
                  BY DEF ExpiryInv
            <3>2. EvictsExpired(v)'
                  BY <2>1, <3>1, Times DEF RequestInv, EvictsExpired, At, Expired
            <3> QED BY <1>1, <2>1, <3>1, <3>2
                    DEF RequestInv, WritesLater, LinkedWhenDone, NewTask, At
      <2>4. Kept
            BY <2>1 DEF Kept, RequestKept, TaskKept
      <2> QED BY <2>2, <2>3, <2>4 DEF ExpiryInv
<1>2. CASE DeleteExpired /\ UNCHANGED <<stored, req, shared>>
      <2>1. /\ items' = Drop(items, {k \in DOMAIN items : Expired(items[k])})
            /\ UNCHANGED <<clock, db, used, req>>
            BY <1>2 DEF DeleteExpired, stored
      <2>2. Shrinks(items', items) /\ Shrinks(db'.uploadTasks, db.uploadTasks)
            BY <2>1, DropShrinks DEF Shrinks
      <2>3. ExpiryInv'
            BY <2>1, <2>2, ShrinkInv
      <2>4. Kept
            BY <2>1 DEF Kept, RequestKept, TaskKept, Drop, Live
      <2> QED BY <2>3, <2>4
<1>3. CASE DeleteExpiredTasks
      <2> DEFINE gone == {t \in DOMAIN db.uploadTasks :
                            /\ db.uploadTasks[t].status \in {"pending", "uploading"}
                            /\ Expired(db.uploadTasks[t])}
      <2>1. /\ db'.uploadTasks = Drop(db.uploadTasks, gone)
            /\ UNCHANGED <<items, clock, used, req>>
            BY <1>3, TasksThere DEF DeleteExpiredTasks, DeleteTasks, cache
      <2>2. Shrinks(items', items) /\ Shrinks(db'.uploadTasks, db.uploadTasks)
            BY <2>1, DropShrinks DEF Shrinks
      <2>3. ExpiryInv'
            BY <2>1, <2>2, ShrinkInv
      <2>4. ASSUME NEW t \in gone, Live(t)
            PROVE  FALSE
            <3>1. items[t].expiresAt < db.uploadTasks[t].expiresAt
                  BY <2>4 DEF ExpiryInv, TaskOutlives, Live
            <3> QED BY <2>4, <3>1, Times DEF Live, Expired
      <2>5. Kept
            BY <2>1, <2>4 DEF Kept, RequestKept, TaskKept, Drop
      <2> QED BY <2>3, <2>5
<1> QED BY <1>1, <1>2, <1>3 DEF Ticking

LEMMA NextExpiry ==
    ASSUME Typed, ExpiryInv, [Next]_vars
    PROVE  ExpiryInv' /\ TaskKept /\ (Crash \/ RequestKept)
<1>0. Kept => TaskKept /\ (Crash \/ RequestKept)
      BY DEF Kept
<1>1. ASSUME NEW w \in Workers, Uploading(w)
      PROVE  ExpiryInv' /\ Kept
      BY <1>1, UploadQuiet, CreateTaskExpiry, CachePrecheckExpiry, UploadChunkExpiry,
         EvictPrecheckExpiry, CountChunksExpiry, ReadTaskExpiry, WriteTaskExpiry,
         MergeChunkExpiry, InsertUserFileExpiry, CleanPrecheckCacheExpiry
      DEF Uploading
<1>2. ASSUME NEW w \in Workers, Managing(w)
      PROVE  ExpiryInv' /\ Kept
      BY <1>2, RenewUploadTaskExpiry, WriteTaskExpiry, DeleteUploadTaskExpiry, DropTaskExpiry,
         DirsQuiet, MoveFileQuiet
      DEF Managing
<1>3. ASSUME NEW w \in Workers, Recycling(w)
      PROVE  ExpiryInv' /\ Kept
      BY <1>3, RecycleQuiet, PurgesQuiet DEF Recycling
<1>4. CASE Crash
      <2>1. TaskKept
            BY <1>4 DEF Crash, TaskKept
      <2> QED BY <1>4, <2>1, CrashExpiry
<1>5. CASE UNCHANGED vars
      <2>1. Same
            BY <1>5 DEF vars, stored, Same, TasksSame
      <2>2. ExpiryInv'
            <3>1. UNCHANGED <<items, clock, db, used, req>>
                  BY <1>5 DEF vars, stored, cache
            <3>2. Drawn' /\ TaskOutlives'
                  BY <3>1 DEF ExpiryInv, Drawn, TaskOutlives, Known
            <3>3. \A v \in Workers : RequestInv(v)'
                  BY <3>1 DEF ExpiryInv, RequestInv, WritesLater, EvictsExpired, LinkedWhenDone,
                     NewTask, HasTask, At, Expired
            <3> QED BY <3>2, <3>3 DEF ExpiryInv
      <2> QED BY <1>0, <2>1, <2>2, SameKept
<1> QED BY <1>0, <1>1, <1>2, <1>3, <1>4, <1>5, CallFailsExpiry, TickingExpiry DEF Next

LEMMA InitExpiry == Init => ExpiryInv
<1>1. ASSUME Init
      PROVE  ExpiryInv
      <2>1. /\ DOMAIN items = {}
            /\ DOMAIN db.uploadTasks = {}
            /\ \A w \in Workers : req[w].pc = "idle" /\ req[w].task = NULL
            BY <1>1 DEF Init, CacheInit, StoreInit, RequestsInit, Idle, Empty
      <2> QED BY <2>1 DEF ExpiryInv, Drawn, TaskOutlives, RequestInv, WritesLater, EvictsExpired,
                  LinkedWhenDone, NewTask, At
<1> QED BY <1>1

LEMMA ExpiryIsInvariant ==
    Spec => [](Typed /\ ExpiryInv) /\ [][TaskKept /\ (Crash \/ RequestKept)]_vars
<1>1. Typed /\ ExpiryInv /\ [Next]_vars => ExpiryInv'
      BY NextExpiry
<1>2. Typed /\ ExpiryInv /\ [Next]_vars => [TaskKept /\ (Crash \/ RequestKept)]_vars
      BY NextExpiry
<1> QED BY <1>1, <1>2, InitExpiry, TypedIsInvariant, PTL DEF Spec

(* A precheck entry goes before its time only when its upload is done or   *)
(* the process ends, also when Get removes what it found expired after the *)
(* lock was free for a while.                                              *)
THEOREM LiveRequestKeptHolds == Spec => LiveRequestKept
<1>1. TaskKept /\ (Crash \/ RequestKept) =>
        (Crash \/
            \A t \in DOMAIN items :
                Live(t) /\ t \notin DOMAIN items' =>
                    \E w \in Workers :
                        At(w, "clean") /\ req[w].task = t /\ req[w].userFile # NULL)
      BY DEF RequestKept
<1> QED BY <1>1, ExpiryIsInvariant, PTL DEF LiveRequestKept

(* UploadCleanup takes no task whose precheck entry is alive, whatever     *)
(* expires_at requests write back over one another's.                      *)
THEOREM LiveTaskKeptHolds == Spec => LiveTaskKept
<1>1. TaskKept /\ (Crash \/ RequestKept) =>
        (\A t \in DOMAIN db.uploadTasks :
            Live(t) /\ t \notin DOMAIN db'.uploadTasks =>
                \E w \in Workers : At(w, "delete task") /\ req[w].task = t)
      BY DEF TaskKept
<1> QED BY <1>1, ExpiryIsInvariant, PTL DEF LiveTaskKept

-----------------------------------------------------------------------------
(***************************************************************************)
(* NoStrandedUpload, for any number of chunks arriving at the same time.   *)
(* A chunk counts when it is being written, so the last request to open    *)
(* one sees all of them; it merges them, or the lock it is refused belongs *)
(* to a merge that ends the upload; and that merge cannot fail, as no one  *)
(* else removes the chunks while the precheck entry is there.  A request   *)
(* that states fewer of them than another merges all the earlier.          *)
(***************************************************************************)
(* The first n chunks of a task are there.                                 *)
Arrived(t, n) == ChunksOf(t, n) = 0..n - 1

Full(t) == Arrived(t, Chunks)

(* A request for a chunk that has seen all of those it asks for there.     *)
SawAll(w) ==
    /\ req[w].part # Single
    /\ \/ req[w].pc \in {"lock", "merge", "remove temp"}
       \/ /\ req[w].pc \in {"progress", "write"}
          /\ req[w].status = "uploading" /\ req[w].uploaded >= req[w].total

(* One that has merged them, up to the removal of the precheck entry.      *)
Copied(w) ==
    /\ req[w].part # Single
    /\ \/ req[w].pc \in {"info", "link", "clean"}
       \/ req[w].pc \in {"progress", "write"} /\ req[w].status = "completed"

(* One that has opened its chunk and not yet counted them.                 *)
Sends(w) == req[w].part # Single /\ req[w].pc \in {"copy", "count"}

(* The upload is over: its precheck entry has gone.                        *)
Ended(w) ==
    IF req[w].part = Single
    THEN At(w, "remove temp")
    ELSE \/ At(w, "unlock")
         \/ req[w].pc \in {"progress", "write"} /\ req[w].status = "failed"

(* An upload with an entry goes on.                                        *)
GoesOn(t) ==
    /\ Full(t) => \E w \in Workers : req[w].task = t /\ (SawAll(w) \/ Copied(w) \/ Sends(w))
    /\ \A w \in Workers : req[w].task = t => ~Ended(w)
    /\ \A w \in Workers :
        req[w].task = t /\ SawAll(w) =>
            Arrived(t, req[w].total) \/ \E v \in Workers : req[v].task = t /\ Copied(v)

(* A task has a folder only after its Precheck.                            *)
TempInv ==
    /\ DOMAIN temp \subseteq Known("task")
    /\ \A w \in Workers : At(w, "cache") => req[w].task \notin DOMAIN temp

StrandInv ==
    /\ \A t \in DOMAIN items : GoesOn(t)
    /\ TempInv

InvStrand == Typed /\ ExpiryInv /\ MergeLock /\ StrandInv

LEMMA TotalField ==
    ASSUME Typed, NEW w \in Workers
    PROVE  /\ {"total", "uploaded", "merged"} \subseteq DOMAIN req[w]
           /\ req[w].total \in 0..Chunks
           /\ req[w].uploaded \in 0..Chunks
           /\ Chunks \in Nat \ {0}
BY RequestsType, FileStoreAssumption DEF Request

RoleSteps ==
    {"copy", "count", "progress", "write", "lock", "merge", "remove temp", "info", "link",
     "clean", "unlock"}

HasRole(w) == SawAll(w) \/ Copied(w) \/ Sends(w) \/ Ended(w)

LEMMA RoleAt ==
    ASSUME NEW w \in Workers
    PROVE  /\ req[w].pc \notin RoleSteps => ~HasRole(w)
           /\ req'[w].pc \notin RoleSteps => ~HasRole(w)'
BY DEF HasRole, SawAll, Copied, Sends, Ended, At, RoleSteps

(* The part of a request in its upload stays what it was.                  *)
KeepsRole(w) ==
    /\ SawAll(w)' <=> SawAll(w)
    /\ Copied(w)' <=> Copied(w)
    /\ Sends(w)' <=> Sends(w)
    /\ Ended(w)' => Ended(w)
    /\ HasRole(w)' => req'[w].task = req[w].task
    /\ SawAll(w)' => req'[w].total = req[w].total

LEMMA NoRole ==
    ASSUME NEW w \in Workers, ~HasRole(w), ~HasRole(w)'
    PROVE  KeepsRole(w)
BY DEF KeepsRole, HasRole

LEMMA OtherRole ==
    ASSUME NEW w \in Workers, Others(w), NEW v \in Workers, v # w
    PROVE  /\ req'[v] = req[v]
           /\ SawAll(v)' <=> SawAll(v)
           /\ Copied(v)' <=> Copied(v)
           /\ Sends(v)' <=> Sends(v)
           /\ Ended(v)' <=> Ended(v)
<1>1. req'[v] = req[v]
      BY DEF Others
<1> QED BY <1>1 DEF SawAll, Copied, Sends, Ended, At

(* What has arrived of a task stays as it was.                             *)
SameArrived(t) == \A n \in 0..Chunks : Arrived(t, n)' <=> Arrived(t, n)

LEMMA SameIsFull ==
    ASSUME NEW t, SameArrived(t)
    PROVE  Full(t)' <=> Full(t)
BY FileStoreAssumption DEF SameArrived, Full

LEMMA KeepsGoing ==
    ASSUME Typed, NEW w \in Workers, Others(w), KeepsRole(w), NEW t, GoesOn(t), SameArrived(t)
    PROVE  GoesOn(t)'
<1>1. ASSUME NEW v \in Workers
      PROVE  /\ SawAll(v)' <=> SawAll(v)
             /\ Copied(v)' <=> Copied(v)
             /\ Sends(v)' <=> Sends(v)
             /\ Ended(v)' => Ended(v)
             /\ SawAll(v)' \/ Copied(v)' \/ Sends(v)' \/ Ended(v)' => req'[v].task = req[v].task
             /\ SawAll(v)' => req'[v].total = req[v].total
      BY OtherRole DEF KeepsRole, HasRole
<1>2. ASSUME NEW v \in Workers, SawAll(v)'
      PROVE  Arrived(t, req[v].total) => Arrived(t, req[v].total)'
      BY <1>1, <1>2, TotalField DEF SameArrived
<1> QED BY <1>1, <1>2, SameIsFull DEF GoesOn

LEMMA GoesOnElsewhere ==
    ASSUME Typed, NEW w \in Workers, Others(w), NEW t, GoesOn(t), SameArrived(t),
           req[w].task # t, req'[w].task # t
    PROVE  GoesOn(t)'
<1>1. ASSUME NEW v \in Workers, req[v].task = t \/ req'[v].task = t
      PROVE  /\ req'[v] = req[v]
             /\ SawAll(v)' <=> SawAll(v)
             /\ Copied(v)' <=> Copied(v)
             /\ Sends(v)' <=> Sends(v)
             /\ Ended(v)' <=> Ended(v)
      BY <1>1, OtherRole
<1>2. ASSUME NEW v \in Workers, req'[v].task = t
      PROVE  Arrived(t, req[v].total) => Arrived(t, req[v].total)'
      BY <1>1, <1>2, TotalField DEF SameArrived
<1> QED BY <1>1, <1>2, SameIsFull DEF GoesOn

LEMMA SameFull ==
    ASSUME UNCHANGED temp, NEW t
    PROVE  SameArrived(t)
BY DEF SameArrived, Arrived, ChunksOf, HasPart

LEMMA StrandStep ==
    ASSUME StrandInv, NEW w \in Workers, Others(w), \A t \in DOMAIN items' : GoesOn(t)',
           DOMAIN temp' \subseteq DOMAIN temp, Known("task") \subseteq Known("task")',
           ~At(w, "cache")'
    PROVE  StrandInv'
<1>1. ASSUME NEW v \in Workers
      PROVE  At(v, "cache")' => req'[v].task \notin DOMAIN temp'
      BY OtherRole DEF StrandInv, TempInv, At, Others
<1> QED BY <1>1 DEF StrandInv, TempInv

(* A request outside the uploads, or before it has opened its chunk.       *)
LEMMA OutsideStrand ==
    ASSUME Typed, StrandInv, NEW w \in Workers, NEW from, NEW to, Moves(w, from, to),
           from \notin RoleSteps, to \cap (RoleSteps \cup {"cache"}) = {}, UNCHANGED temp,
           DOMAIN items' \subseteq DOMAIN items, Known("task") \subseteq Known("task")'
    PROVE  StrandInv'
<1>1. Others(w) /\ req[w].pc \notin RoleSteps /\ req'[w].pc \notin RoleSteps \cup {"cache"}
      BY DEF Moves, At
<1>2. KeepsRole(w)
      BY <1>1, RoleAt, NoRole
<1>3. \A t \in DOMAIN items' : GoesOn(t)'
      BY <1>1, <1>2, SameFull, KeepsGoing DEF StrandInv
<1> QED BY <1>1, <1>3, StrandStep DEF At

LEMMA UploadStrand ==
    ASSUME Typed, StrandInv, NEW w \in Workers,
           Precheck(w) \/ FindCandidate(w) \/ InstantLink(w) \/ InstantDeduct(w)
           \/ InstantRollback(w) \/ UploadChunk(w) \/ UploadChunkLate(w) \/
           EvictPrecheck(w)
    PROVE  StrandInv'
<1>1. CASE Precheck(w)
      <2>1. UNCHANGED temp /\ Known("task")' = Known("task")
            BY <1>1 DEF Precheck, Known, stored
      <2>2. DOMAIN items' \subseteq DOMAIN items
            BY <1>1 DEF Precheck, cache
      <2> QED BY <1>1, <2>1, <2>2, PrecheckMoves, OutsideStrand DEF RoleSteps
<1>2. CASE FindCandidate(w)
      <2>1. UNCHANGED temp /\ Known("task")' = Known("task")
            BY <1>2 DEF FindCandidate, Known, stored
      <2>2. DOMAIN items' \subseteq DOMAIN items
            BY <1>2 DEF FindCandidate, cache
      <2> QED BY <1>2, <2>1, <2>2, FindCandidateMoves, OutsideStrand DEF RoleSteps
<1>3. CASE InstantLink(w)
      <2>1. UNCHANGED temp /\ Known("task")' = Known("task")
            BY <1>3, DrawOther DEF InstantLink, Known
      <2>2. DOMAIN items' \subseteq DOMAIN items
            BY <1>3 DEF InstantLink, cache
      <2> QED BY <1>3, <2>1, <2>2, InstantLinkMoves, OutsideStrand DEF RoleSteps
<1>4. CASE InstantDeduct(w)
      <2>1. UNCHANGED temp /\ Known("task")' = Known("task")
            BY <1>4 DEF InstantDeduct, Known, stored
      <2>2. DOMAIN items' \subseteq DOMAIN items
            BY <1>4 DEF InstantDeduct, cache
      <2> QED BY <1>4, <2>1, <2>2, InstantDeductMoves, OutsideStrand DEF RoleSteps
<1>5. CASE InstantRollback(w)
      <2>1. UNCHANGED temp /\ Known("task")' = Known("task")
            BY <1>5 DEF InstantRollback, Known, stored
      <2>2. DOMAIN items' \subseteq DOMAIN items
            BY <1>5 DEF InstantRollback, cache
      <2> QED BY <1>5, <2>1, <2>2, InstantRollbackMoves, OutsideStrand DEF RoleSteps
<1>6. CASE UploadChunk(w)
      <2>1. UNCHANGED temp /\ Known("task")' = Known("task")
            BY <1>6 DEF UploadChunk, Known, stored
      <2>2. DOMAIN items' \subseteq DOMAIN items
            BY <1>6 DEF UploadChunk, cache
      <2> QED BY <1>6, <2>1, <2>2, UploadChunkMoves, OutsideStrand DEF RoleSteps
<1>7. CASE UploadChunkLate(w)
      <2>1. UNCHANGED temp /\ Known("task")' = Known("task")
            BY <1>7 DEF UploadChunkLate, Known, stored
      <2>2. DOMAIN items' \subseteq DOMAIN items
            BY <1>7 DEF UploadChunkLate, cache
      <2> QED BY <1>7, <2>1, <2>2, UploadChunkLateMoves, OutsideStrand DEF RoleSteps
<1>8. CASE EvictPrecheck(w)
      <2>1. UNCHANGED temp /\ Known("task")' = Known("task")
            BY <1>8 DEF EvictPrecheck, Known, stored
      <2>2. DOMAIN items' \subseteq DOMAIN items
            BY <1>8 DEF EvictPrecheck, CacheDelete, Drop
      <2> QED BY <1>8, <2>1, <2>2, EvictPrecheckMoves, OutsideStrand DEF RoleSteps
<1> QED BY <1>1, <1>2, <1>3, <1>4, <1>5, <1>6, <1>7, <1>8

LEMMA ManageStrand ==
    ASSUME Typed, StrandInv, NEW w \in Workers,
           RenewUploadTask(w) \/ RenewWriteTask(w) \/ DeleteUploadTask(w) \/
           DropTask(w) \/ MakeDir(w) \/ InsertDir(w) \/ DeleteDir(w) \/
           DropDir(w)
    PROVE  StrandInv'
<1>1. CASE RenewUploadTask(w)
      <2>1. UNCHANGED temp /\ Known("task")' = Known("task")
            BY <1>1 DEF RenewUploadTask, Known, stored
      <2>2. DOMAIN items' \subseteq DOMAIN items
            BY <1>1 DEF RenewUploadTask, cache
      <2> QED BY <1>1, <2>1, <2>2, RenewUploadTaskMoves, OutsideStrand DEF RoleSteps
<1>2. CASE RenewWriteTask(w)
      <2>1. UNCHANGED temp /\ Known("task")' = Known("task")
            BY <1>2 DEF RenewWriteTask, Known, stored
      <2>2. DOMAIN items' \subseteq DOMAIN items
            BY <1>2 DEF RenewWriteTask, cache
      <2> QED BY <1>2, <2>1, <2>2, RenewWriteTaskMoves, OutsideStrand DEF RoleSteps
<1>3. CASE DeleteUploadTask(w)
      <2>1. UNCHANGED temp /\ Known("task")' = Known("task")
            BY <1>3 DEF DeleteUploadTask, Known, stored
      <2>2. DOMAIN items' \subseteq DOMAIN items
            BY <1>3 DEF DeleteUploadTask, cache
      <2> QED BY <1>3, <2>1, <2>2, DeleteUploadTaskMoves, OutsideStrand DEF RoleSteps
<1>4. CASE DropTask(w)
      <2>1. UNCHANGED temp /\ Known("task")' = Known("task")
            BY <1>4 DEF DropTask, Known, stored
      <2>2. DOMAIN items' \subseteq DOMAIN items
            BY <1>4 DEF DropTask, cache
      <2> QED BY <1>4, <2>1, <2>2, DropTaskMoves, OutsideStrand DEF RoleSteps
<1>5. CASE MakeDir(w)
      <2>1. UNCHANGED temp /\ Known("task")' = Known("task")
            BY <1>5 DEF MakeDir, Known, stored
      <2>2. DOMAIN items' \subseteq DOMAIN items
            BY <1>5 DEF MakeDir, cache
      <2> QED BY <1>5, <2>1, <2>2, MakeDirMoves, OutsideStrand DEF RoleSteps
<1>6. CASE InsertDir(w)
      <2>1. UNCHANGED temp /\ Known("task")' = Known("task")
            BY <1>6, DrawOther DEF InsertDir, Known
      <2>2. DOMAIN items' \subseteq DOMAIN items
            BY <1>6 DEF InsertDir, cache
      <2> QED BY <1>6, <2>1, <2>2, InsertDirMoves, OutsideStrand DEF RoleSteps
<1>7. CASE DeleteDir(w)
      <2>1. UNCHANGED temp /\ Known("task")' = Known("task")
            BY <1>7 DEF DeleteDir, Known, stored
      <2>2. DOMAIN items' \subseteq DOMAIN items
            BY <1>7 DEF DeleteDir, cache
      <2> QED BY <1>7, <2>1, <2>2, DeleteDirMoves, OutsideStrand DEF RoleSteps
<1>8. CASE DropDir(w)
      <2>1. UNCHANGED temp /\ Known("task")' = Known("task")
            BY <1>8 DEF DropDir, Known, stored
      <2>2. DOMAIN items' \subseteq DOMAIN items
            BY <1>8 DEF DropDir, cache
      <2> QED BY <1>8, <2>1, <2>2, DropDirMoves, OutsideStrand DEF RoleSteps
<1> QED BY <1>1, <1>2, <1>3, <1>4, <1>5, <1>6, <1>7, <1>8

LEMMA RecycleStrand ==
    ASSUME Typed, StrandInv, NEW w \in Workers,
           MoveToRecycled(w) \/ InsertRecycled(w) \/ Restore(w) \/
           RestoreReadFile(w) \/ RestoreReadDir(w) \/ RestoreApply(w) \/
           PurgeReadFile(w) \/ PurgeCountRefs(w) \/ PurgeReadInfo(w) \/
           PurgeUnlink(w) \/ PurgeReadQuota(w) \/ PurgeWriteQuota(w) \/
           PurgeDropInfo(w) \/ PurgeHardDelete(w) \/ DropRecord(w)
    PROVE  StrandInv'
<1>1. CASE MoveToRecycled(w)
      <2>1. UNCHANGED temp /\ Known("task")' = Known("task")
            BY <1>1 DEF MoveToRecycled, Known, stored
      <2>2. DOMAIN items' \subseteq DOMAIN items
            BY <1>1 DEF MoveToRecycled, cache
      <2> QED BY <1>1, <2>1, <2>2, MoveToRecycledMoves, OutsideStrand DEF RoleSteps
<1>2. CASE InsertRecycled(w)
      <2>1. UNCHANGED temp /\ Known("task")' = Known("task")
            BY <1>2, DrawOther DEF InsertRecycled, Known
      <2>2. DOMAIN items' \subseteq DOMAIN items
            BY <1>2 DEF InsertRecycled, cache
      <2> QED BY <1>2, <2>1, <2>2, InsertRecycledMoves, OutsideStrand DEF RoleSteps
<1>3. CASE Restore(w)
      <2>1. UNCHANGED temp /\ Known("task")' = Known("task")
            BY <1>3 DEF Restore, Known, stored
      <2>2. DOMAIN items' \subseteq DOMAIN items
            BY <1>3 DEF Restore, cache
      <2> QED BY <1>3, <2>1, <2>2, RestoreMoves, OutsideStrand DEF RoleSteps
<1>4. CASE RestoreReadFile(w)
      <2>1. UNCHANGED temp /\ Known("task")' = Known("task")
            BY <1>4 DEF RestoreReadFile, Known, stored
      <2>2. DOMAIN items' \subseteq DOMAIN items
            BY <1>4 DEF RestoreReadFile, cache
      <2> QED BY <1>4, <2>1, <2>2, RestoreReadFileMoves, OutsideStrand DEF RoleSteps
<1>5. CASE RestoreReadDir(w)
      <2>1. UNCHANGED temp /\ Known("task")' = Known("task")
            BY <1>5 DEF RestoreReadDir, Known, stored
      <2>2. DOMAIN items' \subseteq DOMAIN items
            BY <1>5 DEF RestoreReadDir, cache
      <2> QED BY <1>5, <2>1, <2>2, RestoreReadDirMoves, OutsideStrand DEF RoleSteps
<1>6. CASE RestoreApply(w)
      <2>1. UNCHANGED temp /\ Known("task")' = Known("task")
            BY <1>6 DEF RestoreApply, Known, stored
      <2>2. DOMAIN items' \subseteq DOMAIN items
            BY <1>6 DEF RestoreApply, cache
      <2> QED BY <1>6, <2>1, <2>2, RestoreApplyMoves, OutsideStrand DEF RoleSteps
<1>7. CASE PurgeReadFile(w)
      <2>1. UNCHANGED temp /\ Known("task")' = Known("task")
            BY <1>7 DEF PurgeReadFile, Known, stored
      <2>2. DOMAIN items' \subseteq DOMAIN items
            BY <1>7 DEF PurgeReadFile, cache
      <2> QED BY <1>7, <2>1, <2>2, PurgeReadFileMoves, OutsideStrand DEF RoleSteps
<1>8. CASE PurgeCountRefs(w)
      <2>1. UNCHANGED temp /\ Known("task")' = Known("task")
            BY <1>8 DEF PurgeCountRefs, Known, stored
      <2>2. DOMAIN items' \subseteq DOMAIN items
            BY <1>8 DEF PurgeCountRefs, cache
      <2> QED BY <1>8, <2>1, <2>2, PurgeCountRefsMoves, OutsideStrand DEF RoleSteps
<1>9. CASE PurgeReadInfo(w)
      <2>1. UNCHANGED temp /\ Known("task")' = Known("task")
            BY <1>9 DEF PurgeReadInfo, Known, stored
      <2>2. DOMAIN items' \subseteq DOMAIN items
            BY <1>9 DEF PurgeReadInfo, cache
      <2> QED BY <1>9, <2>1, <2>2, PurgeReadInfoMoves, OutsideStrand DEF RoleSteps
<1>10. CASE PurgeUnlink(w)
      <2>1. UNCHANGED temp /\ Known("task")' = Known("task")
            BY <1>10 DEF PurgeUnlink, Known, stored
      <2>2. DOMAIN items' \subseteq DOMAIN items
            BY <1>10 DEF PurgeUnlink, cache
      <2> QED BY <1>10, <2>1, <2>2, PurgeUnlinkMoves, OutsideStrand DEF RoleSteps
<1>11. CASE PurgeReadQuota(w)
      <2>1. UNCHANGED temp /\ Known("task")' = Known("task")
            BY <1>11 DEF PurgeReadQuota, Known, stored
      <2>2. DOMAIN items' \subseteq DOMAIN items
            BY <1>11 DEF PurgeReadQuota, cache
      <2> QED BY <1>11, <2>1, <2>2, PurgeReadQuotaMoves, OutsideStrand DEF RoleSteps
<1>12. CASE PurgeWriteQuota(w)
      <2>1. UNCHANGED temp /\ Known("task")' = Known("task")
            BY <1>12 DEF PurgeWriteQuota, Known, stored
      <2>2. DOMAIN items' \subseteq DOMAIN items
            BY <1>12 DEF PurgeWriteQuota, cache
      <2> QED BY <1>12, <2>1, <2>2, PurgeWriteQuotaMoves, OutsideStrand DEF RoleSteps
<1>13. CASE PurgeDropInfo(w)
      <2>1. UNCHANGED temp /\ Known("task")' = Known("task")
            BY <1>13 DEF PurgeDropInfo, Known, stored
      <2>2. DOMAIN items' \subseteq DOMAIN items
            BY <1>13 DEF PurgeDropInfo, cache
      <2> QED BY <1>13, <2>1, <2>2, PurgeDropInfoMoves, OutsideStrand DEF RoleSteps
<1>14. CASE PurgeHardDelete(w)
      <2>1. UNCHANGED temp /\ Known("task")' = Known("task")
            BY <1>14 DEF PurgeHardDelete, Known, stored
      <2>2. DOMAIN items' \subseteq DOMAIN items
            BY <1>14 DEF PurgeHardDelete, cache
      <2> QED BY <1>14, <2>1, <2>2, PurgeHardDeleteMoves, OutsideStrand DEF RoleSteps
<1>15. CASE DropRecord(w)
      <2>1. UNCHANGED temp /\ Known("task")' = Known("task")
            BY <1>15 DEF DropRecord, Known, stored
      <2>2. DOMAIN items' \subseteq DOMAIN items
            BY <1>15 DEF DropRecord, cache
      <2> QED BY <1>15, <2>1, <2>2, DropRecordMoves, OutsideStrand DEF RoleSteps
<1> QED BY <1>1, <1>2, <1>3, <1>4, <1>5, <1>6, <1>7, <1>8, <1>9, <1>10, <1>11,
           <1>12, <1>13, <1>14, <1>15

LEMMA PurgesStrand ==
    ASSUME Typed, StrandInv, NEW w \in Workers, NEW rows, Purges(w, rows), At(w, "idle")
    PROVE  StrandInv'
<1>1. UNCHANGED temp /\ Known("task")' = Known("task") /\ UNCHANGED items
      BY DEF Purges, stored, cache, Known
<1> QED BY <1>1, PurgesMoves, OutsideStrand DEF RoleSteps

-----------------------------------------------------------------------------
(***************************************************************************)
(* The task, its precheck entry and its folder.                            *)
(***************************************************************************)
LEMMA CreateTaskStrand ==
    ASSUME InvStrand, NEW w \in Workers, CreateTask(w)
    PROVE  StrandInv'
<1>1. Others(w) /\ req[w].pc = "task" /\ req'[w].pc = "cache"
      BY CreateTaskMoves DEF InvStrand, Moves, At
<1>2. KeepsRole(w)
      BY <1>1, RoleAt, NoRole DEF RoleSteps
<1>3. UNCHANGED <<temp, items>>
      BY DEF CreateTask, cache
<1>4. \A t \in DOMAIN items' : GoesOn(t)'
      BY <1>1, <1>2, <1>3, SameFull, KeepsGoing DEF InvStrand, StrandInv
<1>5. /\ Known("task") \subseteq Known("task")'
      /\ NextKey("task") \notin Known("task")
      BY LastTask DEF InvStrand, CreateTask, Draw, Known, NextKey
<1>6. req'[w].task = NextKey("task")
      <2>1. ASSUME NEW t, req' = [req EXCEPT ![w].pc = "cache", ![w].task = t]
            PROVE  req'[w].task = t
            BY <2>1, Fields DEF InvStrand
      <2> QED BY <2>1 DEF CreateTask
<1>7. ASSUME NEW v \in Workers
      PROVE  At(v, "cache")' => req'[v].task \notin DOMAIN temp'
      <2>1. CASE v = w
            BY <1>3, <1>5, <1>6, <2>1 DEF InvStrand, StrandInv, TempInv
      <2>2. CASE v # w
            BY <1>1, <1>3, <2>2, OtherRole DEF InvStrand, StrandInv, TempInv, At
      <2> QED BY <2>1, <2>2
<1> QED BY <1>3, <1>4, <1>5, <1>7 DEF InvStrand, StrandInv, TempInv

(* Nobody has touched the task, so nothing of it has arrived.              *)
LEMMA CachePrecheckStrand ==
    ASSUME InvStrand, NEW w \in Workers, CachePrecheck(w)
    PROVE  StrandInv'
<1> DEFINE t == req[w].task
<1>1. Others(w) /\ At(w, "cache") /\ req'[w].pc = "idle"
      BY CachePrecheckMoves DEF InvStrand, Moves
<1>2. KeepsRole(w)
      BY <1>1, RoleAt, NoRole DEF RoleSteps, At
<1>3. DOMAIN items' = DOMAIN items \cup {t} /\ UNCHANGED <<temp, used>>
      BY DEF CachePrecheck, CacheSet, Put, stored
<1>4. ASSUME NEW k \in DOMAIN items
      PROVE  GoesOn(k)'
      BY <1>1, <1>2, <1>3, SameFull, KeepsGoing DEF InvStrand, StrandInv
<1>5. PICK k : k = t
      OBVIOUS
<1>6. GoesOn(k)'
      <2>1. ~Full(k)
            <3>1. k \notin DOMAIN temp
                  BY <1>1, <1>5 DEF InvStrand, StrandInv, TempInv
            <3>2. 0 \in 0..Chunks - 1
                  BY FileStoreAssumption
            <3> QED BY <3>1, <3>2 DEF Full, Arrived, ChunksOf, HasPart
      <2>2. ASSUME NEW v \in Workers, req'[v].task = k
            PROVE  ~HasRole(v)'
            <3>1. CASE v = w
                  BY <1>1, <3>1, RoleAt DEF RoleSteps
            <3>2. CASE v # w
                  <4>1. req'[v] = req[v] /\ At(v, "delete task")
                        BY <1>1, <1>5, <2>2, <3>2 DEF Others, InvStrand, ExpiryInv, RequestInv,
                           NewTask
                  <4> QED BY <4>1, RoleAt DEF RoleSteps, At
            <3> QED BY <3>1, <3>2
      <2> QED BY <1>3, <2>1, <2>2, SameFull, SameIsFull DEF GoesOn, HasRole
<1>7. \A s \in DOMAIN items' : GoesOn(s)'
      BY <1>3, <1>4, <1>5, <1>6
<1> HIDE DEF t
<1> QED BY <1>1, <1>3, <1>7, StrandStep DEF InvStrand, At, Known

(* A new folder is empty, and not that of a task without precheck entry.   *)
LEMMA MakeTempDirStrand ==
    ASSUME InvStrand, NEW w \in Workers, MakeTempDir(w)
    PROVE  StrandInv'
<1>1. PICK t : t = req[w].task
      OBVIOUS
<1>2. Others(w) /\ req[w].pc = "mkdir" /\ req'[w].pc = "open"
      BY MakeTempDirMoves DEF InvStrand, Moves, At
<1>3. KeepsRole(w)
      BY <1>2, RoleAt, NoRole DEF RoleSteps
<1>4. temp' = IF t \in DOMAIN temp THEN temp ELSE Put(temp, t, Empty)
      BY <1>1 DEF MakeTempDir, MkdirTemp
<1>5. UNCHANGED <<items, used>>
      BY DEF MakeTempDir, cache
<1>6. ASSUME NEW k
      PROVE  SameArrived(k)
      <2>1. ASSUME NEW p
            PROVE  HasPart(k, p)' <=> HasPart(k, p)
            BY <1>4 DEF HasPart, Put, Empty
      <2> QED BY <2>1 DEF SameArrived, Arrived, ChunksOf
<1>7. \A k \in DOMAIN items' : GoesOn(k)'
      BY <1>2, <1>3, <1>5, <1>6, KeepsGoing DEF InvStrand, StrandInv
<1>8. t \in Known("task")
      BY <1>1, <1>2, RequestOf DEF InvStrand, Typed, Filled, ChunkSteps, ExpiryInv, Drawn
<1>9. DOMAIN temp' \subseteq DOMAIN temp \cup {t} /\ Known("task")' = Known("task")
      BY <1>4, <1>5 DEF Put, Known
<1>10. ASSUME NEW v \in Workers, At(v, "cache")'
       PROVE  req'[v].task \notin DOMAIN temp'
      <2>1. v # w /\ req'[v] = req[v] /\ At(v, "cache")
            BY <1>2, <1>10 DEF Others, At
      <2>2. req[v].task # t
            BY <1>1, <1>2, <2>1 DEF InvStrand, ExpiryInv, RequestInv, NewTask, At
      <2> QED BY <1>9, <2>1, <2>2 DEF InvStrand, StrandInv, TempInv
<1> QED BY <1>7, <1>8, <1>9, <1>10 DEF InvStrand, StrandInv, TempInv

-----------------------------------------------------------------------------
(***************************************************************************)
(* A chunk arrives.  Whoever opened one last sees all of them.             *)
(***************************************************************************)
LEMMA SaveOpenStrand ==
    ASSUME InvStrand, NEW w \in Workers, SaveOpen(w)
    PROVE  StrandInv'
<1>1. PICK t, p : t = req[w].task /\ p = req[w].part
      OBVIOUS
<1>2. Others(w) /\ req[w].pc = "open" /\ ~HasRole(w)
      BY SaveOpenMoves, RoleAt DEF InvStrand, Moves, At, RoleSteps
<1>3. UNCHANGED <<items, used>>
      BY DEF SaveOpen, cache
<1>4. CASE t \notin DOMAIN temp
      <2>1. UNCHANGED temp /\ Finish(w)
            BY <1>1, <1>4 DEF SaveOpen
      <2>2. Moves(w, "open", {"idle"})
            BY <1>2, <2>1, FinishMoves DEF InvStrand, Moves, At
      <2> QED BY <1>3, <2>1, <2>2, OutsideStrand DEF InvStrand, RoleSteps, Known
<1>5. CASE t \in DOMAIN temp
      <2>1. temp' = [temp EXCEPT ![t] = Put(@, p, w)] /\ Goto(w, "copy")
            BY <1>1, <1>5 DEF SaveOpen, OpenPart
      <2>2. req'[w].pc = "copy" /\ req'[w].task = t /\ req'[w].part = p
            BY <1>1, <2>1, GotoMoves DEF InvStrand
      <2>3. DOMAIN temp' = DOMAIN temp
            BY <2>1
      <2>4. ASSUME NEW k, NEW i
            PROVE  HasPart(k, i)' <=> HasPart(k, i) \/ (k = t /\ i = p)
            BY <1>5, <2>1 DEF HasPart, Put
      <2>5. ASSUME NEW k, k # t
            PROVE  SameArrived(k)
            BY <2>4, <2>5 DEF SameArrived, Arrived, ChunksOf
      <2>6. ASSUME NEW k \in DOMAIN items', k # t
            PROVE  GoesOn(k)'
            BY <1>1, <1>2, <1>3, <2>2, <2>5, <2>6, GoesOnElsewhere DEF InvStrand, StrandInv
      <2>7. ASSUME t \in DOMAIN items'
            PROVE  GoesOn(t)'
            <3>1. GoesOn(t)
                  BY <1>3, <2>7 DEF InvStrand, StrandInv
            <3>2. CASE p = Single
                  <4>1. SameArrived(t)
                        BY <2>4, <3>2, FileStoreAssumption DEF SameArrived, Arrived, ChunksOf
                  <4>2. ~HasRole(w)'
                        BY <2>2, <3>2 DEF HasRole, SawAll, Copied, Sends, Ended, At
                  <4> QED BY <1>2, <3>1, <4>1, <4>2, NoRole, KeepsGoing DEF InvStrand
            <3>3. CASE p # Single
                  <4>1. Sends(w)' /\ ~SawAll(w)' /\ ~Copied(w)' /\ ~Ended(w)'
                        BY <2>2, <3>3 DEF SawAll, Copied, Sends, Ended, At
                  <4>2. \A n \in 0..Chunks : Arrived(t, n) => Arrived(t, n)'
                        BY <2>4 DEF Arrived, ChunksOf
                  <4>3. ASSUME NEW v \in Workers, v # w
                        PROVE  /\ req'[v] = req[v]
                               /\ SawAll(v)' <=> SawAll(v)
                               /\ Copied(v)' <=> Copied(v)
                               /\ Ended(v)' <=> Ended(v)
                        BY <1>2, <4>3, OtherRole
                  <4>4. \A v \in Workers : req'[v].task = t => ~Ended(v)'
                        BY <3>1, <4>1, <4>3 DEF GoesOn
                  <4>5. ASSUME NEW v \in Workers, req'[v].task = t, SawAll(v)'
                        PROVE  \/ Arrived(t, req[v].total)'
                               \/ \E x \in Workers : req'[x].task = t /\ Copied(x)'
                        <5>1. v # w /\ req'[v] = req[v] /\ SawAll(v) /\ req[v].task = t
                              BY <4>1, <4>3, <4>5
                        <5>2. CASE Arrived(t, req[v].total)
                              BY <4>2, <5>1, <5>2, TotalField DEF InvStrand
                        <5>3. CASE \E x \in Workers : req[x].task = t /\ Copied(x)
                              BY <1>2, <4>3, <5>3 DEF HasRole
                        <5> QED BY <3>1, <5>1, <5>2, <5>3 DEF GoesOn
                  <4> QED BY <2>2, <4>1, <4>4, <4>5 DEF GoesOn
            <3> QED BY <3>2, <3>3
      <2>8. \A k \in DOMAIN items' : GoesOn(k)'
            BY <2>6, <2>7
      <2> QED BY <1>2, <1>3, <2>2, <2>3, <2>8, StrandStep DEF InvStrand, At, Known
<1> QED BY <1>4, <1>5

(* A request that keeps its part in the upload.                            *)
LEMMA InsideStrand ==
    ASSUME InvStrand, NEW w \in Workers, Others(w), KeepsRole(w), UNCHANGED items,
           \A t : SameArrived(t), DOMAIN temp' \subseteq DOMAIN temp,
           Known("task") \subseteq Known("task")', req'[w].pc # "cache"
    PROVE  StrandInv'
<1>1. \A t \in DOMAIN items' : GoesOn(t)'
      BY KeepsGoing DEF InvStrand, StrandInv
<1> QED BY <1>1, StrandStep DEF InvStrand, At

LEMMA SaveCopyStrand ==
    ASSUME InvStrand, NEW w \in Workers, SaveCopy(w)
    PROVE  StrandInv'
<1>1. PICK pc : pc = (IF req[w].part = Single THEN "rename" ELSE "count") /\ Goto(w, pc)
      BY DEF SaveCopy
<1>2. /\ Others(w) /\ req[w].pc = "copy" /\ req'[w].pc = pc
      /\ req'[w].task = req[w].task
      /\ req'[w].part = req[w].part
      BY <1>1, SaveCopyMoves, GotoMoves DEF InvStrand, Moves, At
<1>3. KeepsRole(w)
      BY <1>1, <1>2 DEF KeepsRole, HasRole, SawAll, Copied, Sends, Ended, At
<1>4. /\ DOMAIN temp' = DOMAIN temp
      /\ \A t \in DOMAIN temp : DOMAIN temp'[t] = DOMAIN temp[t]
      /\ UNCHANGED <<items, used>>
      BY DEF SaveCopy, EndWriting, cache
<1>5. \A t : SameArrived(t)
      BY <1>4 DEF SameArrived, Arrived, ChunksOf, HasPart
<1> QED BY <1>1, <1>2, <1>3, <1>4, <1>5, InsideStrand DEF Known

LEMMA CountedAll ==
    ASSUME NEW t, NEW n \in Nat
    PROVE  Cardinality(ChunksOf(t, n)) >= n <=> Arrived(t, n)
<1>1. IsFiniteSet(0..n - 1) /\ Cardinality(0..n - 1) = n
      BY FS_Interval
<1>2. ChunksOf(t, n) \in SUBSET (0..n - 1)
      BY DEF ChunksOf
<1>3. /\ IsFiniteSet(ChunksOf(t, n))
      /\ Cardinality(ChunksOf(t, n)) <= n
      /\ Cardinality(ChunksOf(t, n)) = n => Arrived(t, n)
      BY <1>1, <1>2, FS_Subset DEF Arrived
<1>4. Cardinality(ChunksOf(t, n)) \in Nat
      BY <1>3, FS_CardinalityType
<1>5. Arrived(t, n) => Cardinality(ChunksOf(t, n)) = n
      BY <1>1 DEF Arrived
<1> QED BY <1>3, <1>4, <1>5

(* Whoever sees all the chunks sees all of those it asks for.              *)
LEMMA FullHasAll ==
    ASSUME NEW t, Full(t), NEW n \in 0..Chunks
    PROVE  Arrived(t, n)
BY FileStoreAssumption DEF Full, Arrived, ChunksOf

LEMMA CountChunksStrand ==
    ASSUME InvStrand, NEW w \in Workers, CountChunks(w)
    PROVE  StrandInv'
<1>1. PICK t, n, k : t = req[w].task /\ n = req[w].total /\ k = Cardinality(ChunksOf(t, n))
      OBVIOUS
<1>2. Others(w) /\ req[w].pc = "count" /\ req'[w].pc = "progress" /\ req[w].part # Single
      BY CountChunksMoves, PartOf DEF InvStrand, Moves, At
<1>3. /\ req'[w].task = t
      /\ req'[w].part = req[w].part
      /\ req'[w].total = n
      /\ req'[w].status = "uploading"
      /\ req'[w].uploaded = k
      <2>1. req' = [req EXCEPT ![w].pc = "progress", ![w].status = "uploading", ![w].uploaded = k]
            BY <1>1 DEF CountChunks
      <2> QED BY <1>1, <2>1, Fields, TotalField DEF InvStrand
<1>4. UNCHANGED <<items, temp, used>>
      BY DEF CountChunks, stored, cache
<1>5. /\ SawAll(w)' <=> Arrived(t, n)
      /\ ~Copied(w)' /\ ~Sends(w)' /\ ~Ended(w)'
      <2>1. n \in 0..Chunks /\ n \in Nat
            BY <1>1, TotalField DEF InvStrand
      <2> QED BY <1>1, <1>2, <1>3, <2>1, CountedAll DEF SawAll, Copied, Sends, Ended, At
<1>6. ~SawAll(w) /\ ~Copied(w)
      BY <1>2 DEF SawAll, Copied
<1>7. ASSUME NEW s \in DOMAIN items', s # t
      PROVE  GoesOn(s)'
      BY <1>1, <1>2, <1>3, <1>4, <1>7, SameFull, GoesOnElsewhere DEF InvStrand, StrandInv
<1>8. ASSUME t \in DOMAIN items'
      PROVE  GoesOn(t)'
      <2>1. GoesOn(t) /\ SameArrived(t) /\ (Full(t)' <=> Full(t))
            BY <1>4, <1>8, SameFull, SameIsFull DEF InvStrand, StrandInv
      <2>2. ASSUME NEW v \in Workers, v # w
            PROVE  /\ req'[v] = req[v]
                   /\ SawAll(v)' <=> SawAll(v)
                   /\ Copied(v)' <=> Copied(v)
                   /\ Ended(v)' <=> Ended(v)
            BY <1>2, <2>2, OtherRole
      <2>3. \A v \in Workers : req'[v].task = t => ~Ended(v)'
            BY <1>5, <2>1, <2>2 DEF GoesOn
      <2>4. ASSUME NEW v \in Workers, req'[v].task = t, SawAll(v)'
            PROVE  \/ Arrived(t, req[v].total)'
                   \/ \E x \in Workers : req'[x].task = t /\ Copied(x)'
            <3>1. CASE v = w
                  BY <1>1, <1>3, <1>5, <2>1, <2>4, <3>1, TotalField DEF SameArrived, InvStrand
            <3>2. CASE v # w /\ Arrived(t, req[v].total)
                  BY <2>1, <2>2, <3>2, TotalField DEF SameArrived, InvStrand
            <3>3. CASE v # w /\ \E x \in Workers : req[x].task = t /\ Copied(x)
                  BY <1>6, <2>2, <3>3
            <3> QED BY <2>1, <2>2, <2>4, <3>1, <3>2, <3>3 DEF GoesOn
      <2>5. Full(t)' => SawAll(w)'
            BY <1>1, <1>5, <2>1, FullHasAll, TotalField DEF InvStrand
      <2> QED BY <1>3, <2>3, <2>4, <2>5 DEF GoesOn
<1>9. \A s \in DOMAIN items' : GoesOn(s)'
      BY <1>7, <1>8
<1> QED BY <1>2, <1>4, <1>9, StrandStep DEF InvStrand, At, Known

-----------------------------------------------------------------------------
(***************************************************************************)
(* The merge.                                                              *)
(***************************************************************************)
LEMMA GotoRole ==
    ASSUME InvStrand, NEW w \in Workers, NEW pc, Goto(w, pc)
    PROVE  /\ Others(w)
           /\ req'[w].pc = pc
           /\ req'[w].task = req[w].task
           /\ req'[w].part = req[w].part
           /\ req'[w].status = req[w].status
           /\ req'[w].uploaded = req[w].uploaded
           /\ req'[w].total = req[w].total
BY GotoMoves, Fields, TotalField DEF InvStrand, Goto

LEMMA FinishRole ==
    ASSUME InvStrand, NEW w \in Workers, Finish(w)
    PROVE  /\ Others(w)
           /\ req'[w].pc = "idle"
           /\ ~HasRole(w)'
<1>1. Others(w) /\ req'[w].pc = "idle"
      BY FinishMoves DEF InvStrand
<1> QED BY <1>1, RoleAt DEF RoleSteps

LEMMA AfterProgressStrand ==
    ASSUME InvStrand, NEW w \in Workers, req[w].pc \in {"progress", "write"},
           AfterProgress(w), UNCHANGED <<items, temp, used>>
    PROVE  StrandInv'
<1>1. req[w].part # Single
      BY PartOf DEF InvStrand
<1>2. Known("task")' = Known("task") /\ \A t : SameArrived(t)
      BY SameFull DEF Known
<1>3. ASSUME NEW pc \in {"clean", "unlock", "lock", "idle"}, Others(w), req'[w].pc = pc,
             KeepsRole(w)
      PROVE  StrandInv'
      BY <1>2, <1>3, InsideStrand
<1>4. ASSUME req[w].status = "completed", Goto(w, "clean")
      PROVE  StrandInv'
      <2>1. /\ Others(w) /\ req'[w].pc = "clean"
            /\ req'[w].task = req[w].task
            /\ req'[w].part = req[w].part
            BY <1>4, GotoRole
      <2>2. KeepsRole(w)
            BY <1>1, <1>4, <2>1 DEF KeepsRole, HasRole, SawAll, Copied, Sends, Ended, At
      <2> QED BY <1>3, <2>1, <2>2
<1>5. ASSUME req[w].status = "failed", Goto(w, "unlock")
      PROVE  StrandInv'
      <2>1. /\ Others(w) /\ req'[w].pc = "unlock"
            /\ req'[w].task = req[w].task
            /\ req'[w].part = req[w].part
            BY <1>5, GotoRole
      <2>2. KeepsRole(w)
            BY <1>1, <1>5, <2>1 DEF KeepsRole, HasRole, SawAll, Copied, Sends, Ended, At
      <2> QED BY <1>3, <2>1, <2>2
<1>6. ASSUME req[w].status = "uploading", req[w].uploaded < req[w].total, Finish(w)
      PROVE  StrandInv'
      <2>1. ~(req[w].uploaded >= req[w].total)
            BY <1>6, TotalField DEF InvStrand
      <2>2. ~HasRole(w)
            BY <1>1, <1>6, <2>1 DEF HasRole, SawAll, Copied, Sends, Ended, At
      <2> QED BY <1>3, <1>6, <2>2, FinishRole, NoRole
<1>7. ASSUME req[w].status = "uploading", ~(req[w].uploaded < req[w].total), Goto(w, "lock")
      PROVE  StrandInv'
      <2>1. req[w].uploaded >= req[w].total
            BY <1>7, TotalField DEF InvStrand
      <2>2. /\ Others(w) /\ req'[w].pc = "lock"
            /\ req'[w].task = req[w].task
            /\ req'[w].part = req[w].part
            /\ req'[w].total = req[w].total
            BY <1>7, GotoRole
      <2>3. SawAll(w) /\ SawAll(w)'
            BY <1>1, <1>7, <2>1, <2>2 DEF SawAll
      <2>4. KeepsRole(w)
            BY <1>1, <1>7, <2>2, <2>3 DEF KeepsRole, HasRole, Copied, Sends, Ended, At
      <2> QED BY <1>3, <2>2, <2>4
<1> QED BY <1>1, <1>4, <1>5, <1>6, <1>7 DEF AfterProgress

LEMMA ProgressStrand ==
    ASSUME InvStrand, NEW w \in Workers, ReadTask(w) \/ WriteTask(w)
    PROVE  StrandInv'
<1>1. CASE ReadTask(w) /\ HasTask(req[w].task)
      <2>1. Others(w) /\ req[w].pc = "progress"
            BY <1>1, ReadTaskMoves DEF InvStrand, Moves, At
      <2>2. ASSUME NEW e, req' = [req EXCEPT ![w].pc = "write", ![w].expires = e]
            PROVE  /\ req'[w].pc = "write"
                   /\ req'[w].task = req[w].task
                   /\ req'[w].part = req[w].part
                   /\ req'[w].status = req[w].status
                   /\ req'[w].uploaded = req[w].uploaded
                   /\ req'[w].total = req[w].total
            BY <2>2, Fields, TotalField DEF InvStrand
      <2>3. req' = [req EXCEPT ![w].pc = "write",
                               ![w].expires = db.uploadTasks[req[w].task].expiresAt]
            BY <1>1 DEF ReadTask
      <2>4. /\ req'[w].pc = "write"
            /\ req'[w].task = req[w].task
            /\ req'[w].part = req[w].part
            /\ req'[w].status = req[w].status
            /\ req'[w].uploaded = req[w].uploaded
            /\ req'[w].total = req[w].total
            BY ONLY <2>2, <2>3
      <2>5. KeepsRole(w)
            BY <2>1, <2>4 DEF KeepsRole, HasRole, SawAll, Copied, Sends, Ended, At
      <2>6. UNCHANGED <<items, temp, used>>
            BY <1>1 DEF ReadTask, stored, cache
      <2> QED BY <2>1, <2>4, <2>5, <2>6, SameFull, InsideStrand DEF Known
<1>2. CASE ReadTask(w) /\ ~HasTask(req[w].task)
      BY <1>2, AfterProgressStrand DEF ReadTask, At, stored, cache
<1>3. CASE WriteTask(w)
      BY <1>3, AfterProgressStrand DEF WriteTask, At, cache
<1> QED BY <1>1, <1>2, <1>3

(* Whoever holds the lock merges the task, and ends the upload.            *)
LEMMA LockMergeStrand ==
    ASSUME InvStrand, NEW w \in Workers, LockMerge(w)
    PROVE  StrandInv'
<1>1. PICK t : t = req[w].task
      OBVIOUS
<1>2. Others(w) /\ req[w].pc = "lock" /\ req[w].part # Single
      BY LockMergeMoves, PartOf DEF InvStrand, Moves, At
<1>3. UNCHANGED <<items, temp>>
      BY DEF LockMerge, cache
<1>4. CASE t \notin mergeLocks
      <2>1. /\ req'[w].pc \in {"merge", "remove temp"}
            /\ req'[w].task = t
            /\ req'[w].part = req[w].part
            /\ req'[w].total = req[w].total
            BY <1>1, <1>4, StartMergeMoves DEF InvStrand, LockMerge
      <2>2. KeepsRole(w)
            BY <1>1, <1>2, <2>1 DEF KeepsRole, HasRole, SawAll, Copied, Sends, Ended, At
      <2>3. Known("task")' = Known("task")
            BY <1>1, <1>4, DrawOther DEF InvStrand, LockMerge, Known
      <2> QED BY <1>2, <1>3, <2>1, <2>2, <2>3, SameFull, InsideStrand
<1>5. CASE t \in mergeLocks
      <2>1. Finish(w) /\ UNCHANGED used
            BY <1>1, <1>5 DEF LockMerge
      <2>2. /\ ~HasRole(w)' /\ req'[w].pc = "idle"
            /\ req'[w].task # t
            BY <1>1, <1>2, <2>1, FinishRole, FinishKeeps, RequestOf
               DEF InvStrand, Typed, Filled, ChunkSteps
      <2>3. ~Copied(w) /\ ~Merging(w)
            BY <1>2 DEF Copied, Merging
      <2>4. ASSUME NEW k \in DOMAIN items', k # t
            PROVE  GoesOn(k)'
            <3>1. req'[w].task = NULL
                  BY <2>1, FinishKeeps DEF InvStrand
            <3>2. k # NULL
                  BY <1>3, <2>4, KeyIsNotNull DEF InvStrand, Typed, TypeOK, CacheOK, IsTable, Kinds
            <3> QED BY <1>1, <1>2, <1>3, <2>4, <3>1, <3>2, SameFull, GoesOnElsewhere
                    DEF InvStrand, StrandInv
      <2>5. ASSUME t \in DOMAIN items'
            PROVE  GoesOn(t)'
            <3>1. GoesOn(t) /\ SameArrived(t)
                  BY <1>3, <2>5, SameFull DEF InvStrand, StrandInv
            <3>2. PICK v \in Workers : Merging(v) /\ req[v].task = t
                  BY <1>5 DEF InvStrand, MergeLock
            <3>3. ~Ended(v) /\ v # w
                  BY <2>3, <3>1, <3>2 DEF GoesOn
            <3>4. SawAll(v) \/ Copied(v)
                  BY <3>2, <3>3 DEF Merging, Ended, SawAll, Copied, At
            <3>5. ASSUME NEW x \in Workers, x # w
                  PROVE  /\ req'[x] = req[x]
                         /\ SawAll(x)' <=> SawAll(x)
                         /\ Copied(x)' <=> Copied(x)
                         /\ Ended(x)' <=> Ended(x)
                  BY <1>2, <3>5, OtherRole
            <3>6. ~SawAll(w)' /\ ~Ended(w)'
                  BY <2>2 DEF HasRole
            <3>7. ASSUME NEW x \in Workers, req'[x].task = t, SawAll(x)'
                  PROVE  \/ Arrived(t, req[x].total)'
                         \/ \E y \in Workers : req'[y].task = t /\ Copied(y)'
                  <4>1. x # w /\ req'[x] = req[x] /\ SawAll(x) /\ req[x].task = t
                        BY <3>5, <3>6, <3>7
                  <4>2. CASE Arrived(t, req[x].total)
                        BY <3>1, <4>1, <4>2, TotalField DEF SameArrived, InvStrand
                  <4>3. CASE \E y \in Workers : req[y].task = t /\ Copied(y)
                        BY <2>3, <3>5, <4>3
                  <4> QED BY <3>1, <4>1, <4>2, <4>3 DEF GoesOn
            <3>8. \A x \in Workers : req'[x].task = t => ~Ended(x)'
                  BY <3>1, <3>5, <3>6 DEF GoesOn
            <3> QED BY <3>2, <3>3, <3>4, <3>5, <3>7, <3>8 DEF GoesOn
      <2>6. \A k \in DOMAIN items' : GoesOn(k)'
            BY <2>4, <2>5
      <2> QED BY <1>2, <1>3, <2>1, <2>2, <2>6, StrandStep DEF InvStrand, At, Known
<1> QED BY <1>4, <1>5

(* As long as the precheck entry is there, so is the chunk.                *)
LEMMA ChunkThere ==
    ASSUME InvStrand, NEW w \in Workers, req[w].pc = "merge", req[w].task \in DOMAIN items
    PROVE  HasPart(req[w].task, req[w].merged)
<1>1. req[w].part # Single
      BY PartOf DEF InvStrand
<1>2. req[w].merged \in 0..req[w].total - 1
      <2>1. req[w].merged < req[w].total
            BY RequestOf DEF InvStrand, Typed, Filled
      <2>2. req[w].merged \in Nat /\ req[w].total \in Nat
            BY RequestsType, FileStoreAssumption DEF InvStrand, Request
      <2> QED BY <2>1, <2>2
<1>3. SawAll(w) /\ Merging(w) /\ ~Copied(w)
      BY <1>1 DEF SawAll, Merging, Copied
<1>4. ASSUME NEW v \in Workers, req[v].task = req[w].task, Copied(v)
      PROVE  FALSE
      <2>1. Merging(v)
            BY <1>4 DEF Copied, Merging
      <2> QED BY <1>3, <1>4, <2>1 DEF InvStrand, MergeLock
<1>5. Arrived(req[w].task, req[w].total)
      BY <1>3, <1>4 DEF InvStrand, StrandInv, GoesOn
<1> QED BY <1>2, <1>5 DEF Arrived, ChunksOf

LEMMA MergeChunkStrand ==
    ASSUME InvStrand, NEW w \in Workers, MergeChunk(w)
    PROVE  StrandInv'
<1>1. PICK t, i : t = req[w].task /\ i = req[w].merged
      OBVIOUS
<1>2. Others(w) /\ req[w].pc = "merge" /\ req[w].part # Single
      BY MergeChunkMoves, PartOf DEF InvStrand, Moves, At
<1>3. UNCHANGED <<items, temp, used>>
      BY DEF MergeChunk, cache
<1>4. CASE HasPart(t, i)
      <2>1. PICK pc, f :
              /\ pc = IF i + 1 = req[w].total THEN "remove temp" ELSE "merge"
              /\ req' = [req EXCEPT ![w].pc = pc, ![w].merged = i + 1]
            BY <1>1, <1>4 DEF MergeChunk
      <2>2. /\ req'[w].pc = pc
            /\ req'[w].task = req[w].task
            /\ req'[w].part = req[w].part
            /\ req'[w].total = req[w].total
            BY <2>1, Fields, TotalField DEF InvStrand
      <2>3. pc \in {"remove temp", "merge"}
            BY <2>1
      <2>4. KeepsRole(w)
            BY <1>2, <2>2, <2>3 DEF KeepsRole, HasRole, SawAll, Copied, Sends, Ended, At
      <2>5. req'[w].pc # "cache"
            BY <2>2, <2>3
      <2> QED BY <1>2, <1>3, <2>4, <2>5, SameFull, InsideStrand DEF Known
<1>5. CASE ~HasPart(t, i)
      <2>1. MergeFailed(w)
            BY <1>1, <1>5 DEF MergeChunk
      <2>2. /\ req'[w].pc = "progress" /\ req'[w].status = "failed"
            /\ req'[w].task = t
            /\ req'[w].part = req[w].part
            BY <1>1, <2>1, Fields DEF InvStrand, MergeFailed
      <2>3. t \notin DOMAIN items
            BY <1>1, <1>2, <1>5, ChunkThere
      <2>4. ASSUME NEW k \in DOMAIN items'
            PROVE  GoesOn(k)'
            BY <1>1, <1>2, <1>3, <2>2, <2>3, SameFull, GoesOnElsewhere DEF InvStrand, StrandInv
      <2> QED BY <1>2, <1>3, <2>2, <2>4, StrandStep DEF InvStrand, At, Known
<1> QED BY <1>4, <1>5

LEMMA RemoveTempDirStrand ==
    ASSUME InvStrand, NEW w \in Workers, RemoveTempDir(w)
    PROVE  StrandInv'
<1>1. PICK t : t = req[w].task
      OBVIOUS
<1>2. Others(w) /\ req[w].pc = "remove temp"
      BY RemoveTempDirMoves DEF InvStrand, Moves, At
<1>3. UNCHANGED <<items, used>>
      BY DEF RemoveTempDir, cache
<1>4. temp' = Drop(temp, {t})
      BY <1>1 DEF RemoveTempDir, RemoveTemp
<1>5. DOMAIN temp' \subseteq DOMAIN temp /\ t \notin DOMAIN temp'
      BY <1>4 DEF Drop
<1>6. ASSUME NEW k, k # t
      PROVE  SameArrived(k)
      <2>1. ASSUME NEW p
            PROVE  HasPart(k, p)' <=> HasPart(k, p)
            BY <1>4, <1>6 DEF HasPart, Drop
      <2> QED BY <2>1 DEF SameArrived, Arrived, ChunksOf
<1>7. CASE req[w].part = Single
      <2>1. Finish(w) /\ Ended(w)
            BY <1>2, <1>7 DEF RemoveTempDir, Ended, At
      <2>2. t \notin DOMAIN items
            BY <1>1, <2>1 DEF InvStrand, StrandInv, GoesOn
      <2>3. req'[w].task = NULL
            BY <2>1, FinishKeeps DEF InvStrand
      <2>4. ASSUME NEW k \in DOMAIN items'
            PROVE  GoesOn(k)'
            <3>1. k # NULL /\ k # t
                  BY <1>3, <2>2, <2>4, KeyIsNotNull
                     DEF InvStrand, Typed, TypeOK, CacheOK, IsTable, Kinds
            <3> QED BY <1>1, <1>2, <1>3, <1>6, <2>3, <2>4, <3>1, GoesOnElsewhere
                    DEF InvStrand, StrandInv
      <2> QED BY <1>2, <1>3, <1>5, <2>1, <2>4, FinishRole, StrandStep DEF InvStrand, At, Known
<1>8. CASE req[w].part # Single
      <2>1. Goto(w, "info")
            BY <1>8 DEF RemoveTempDir
      <2>2. req'[w].pc = "info" /\ req'[w].task = t /\ req'[w].part = req[w].part
            BY <1>1, <2>1, GotoRole
      <2>3. ASSUME NEW k \in DOMAIN items', k # t
            PROVE  GoesOn(k)'
            BY <1>1, <1>2, <1>3, <1>6, <2>2, <2>3, GoesOnElsewhere DEF InvStrand, StrandInv
      <2>4. ASSUME t \in DOMAIN items'
            PROVE  GoesOn(t)'
            <3>1. GoesOn(t)
                  BY <1>3, <2>4 DEF InvStrand, StrandInv
            <3>2. Copied(w)' /\ ~Ended(w)'
                  BY <1>8, <2>2 DEF Copied, Ended, At
            <3>3. ASSUME NEW v \in Workers, req'[v].task = t
                  PROVE  ~Ended(v)'
                  <4>1. CASE v = w
                        BY <3>2, <4>1
                  <4>2. CASE v # w
                        BY <1>2, <3>1, <3>3, <4>2, OtherRole DEF GoesOn
                  <4> QED BY <4>1, <4>2
            <3> QED BY <2>2, <3>2, <3>3 DEF GoesOn
      <2>5. \A k \in DOMAIN items' : GoesOn(k)'
            BY <2>3, <2>4
      <2> QED BY <1>2, <1>3, <1>5, <2>2, <2>5, StrandStep DEF InvStrand, At, Known
<1> QED BY <1>7, <1>8

LEMMA InsertFileInfoStrand ==
    ASSUME InvStrand, NEW w \in Workers, InsertFileInfo(w)
    PROVE  StrandInv'
<1>1. req[w].pc = "info" /\ Goto(w, "link") /\ UNCHANGED <<items, temp, used>>
      BY DEF InsertFileInfo, At, cache
<1>2. /\ Others(w) /\ req'[w].pc = "link"
      /\ req'[w].task = req[w].task
      /\ req'[w].part = req[w].part
      BY <1>1, GotoRole
<1>3. KeepsRole(w)
      BY <1>1, <1>2 DEF KeepsRole, HasRole, SawAll, Copied, Sends, Ended, At
<1> QED BY <1>1, <1>2, <1>3, SameFull, InsideStrand DEF Known

LEMMA InsertUserFileStrand ==
    ASSUME InvStrand, NEW w \in Workers, InsertUserFile(w)
    PROVE  StrandInv'
<1>1. Others(w) /\ req[w].pc = "link" /\ UNCHANGED <<items, temp>>
      BY InsertUserFileMoves DEF InvStrand, Moves, At, InsertUserFile, cache
<1>2. Known("task")' = Known("task")
      BY DrawOther DEF InvStrand, InsertUserFile, Known
<1>3. PICK l : l = NextKey("userFile")
      OBVIOUS
<1>4. CASE req[w].part = Single
      <2>1. req' = [req EXCEPT ![w].pc = "clean", ![w].userFile = l]
            BY <1>3, <1>4 DEF InsertUserFile
      <2>2. req'[w].pc = "clean" /\ req'[w].part = req[w].part
            BY <2>1, Fields DEF InvStrand
      <2>3. KeepsRole(w)
            BY <1>1, <1>4, <2>2 DEF KeepsRole, HasRole, SawAll, Copied, Sends, Ended, At
      <2> QED BY <1>1, <1>2, <2>2, <2>3, SameFull, InsideStrand
<1>5. CASE req[w].part # Single
      <2>1. req' = [req EXCEPT ![w].pc = "progress", ![w].userFile = l,
                               ![w].status = "completed", ![w].uploaded = req[w].total]
            BY <1>3, <1>5 DEF InsertUserFile
      <2>2. /\ req'[w].pc = "progress" /\ req'[w].status = "completed"
            /\ req'[w].task = req[w].task
            /\ req'[w].part = req[w].part
            BY <2>1, Fields DEF InvStrand
      <2>3. KeepsRole(w)
            BY <1>1, <1>5, <2>2 DEF KeepsRole, HasRole, SawAll, Copied, Sends, Ended, At
      <2> QED BY <1>1, <1>2, <2>2, <2>3, SameFull, InsideStrand
<1> QED BY <1>4, <1>5

(* The entry goes, and with it what there was to say of the upload.        *)
LEMMA CleanPrecheckCacheStrand ==
    ASSUME InvStrand, NEW w \in Workers, CleanPrecheckCache(w)
    PROVE  StrandInv'
<1>1. PICK t, pc :
        /\ t = req[w].task
        /\ pc = (IF req[w].part = Single THEN "remove temp" ELSE "unlock")
        /\ Goto(w, pc)
      BY DEF CleanPrecheckCache
<1>2. Others(w) /\ req'[w].pc = pc /\ req'[w].task = t
      BY <1>1, GotoRole
<1>3. DOMAIN items' = DOMAIN items \ {t} /\ UNCHANGED <<temp, used>>
      BY <1>1 DEF CleanPrecheckCache, CacheDelete, Drop, stored
<1>4. ASSUME NEW k \in DOMAIN items'
      PROVE  GoesOn(k)'
      BY <1>1, <1>2, <1>3, <1>4, SameFull, GoesOnElsewhere DEF InvStrand, StrandInv
<1> QED BY <1>1, <1>2, <1>3, <1>4, StrandStep DEF InvStrand, At, Known

LEMMA UnlockMergeStrand ==
    ASSUME InvStrand, NEW w \in Workers, UnlockMerge(w)
    PROVE  StrandInv'
<1>1. Finish(w) /\ req[w].pc = "unlock" /\ UNCHANGED <<items, temp, used>>
      BY DEF UnlockMerge, At, stored, cache
<1>2. /\ Others(w) /\ req'[w].pc = "idle"
      /\ ~HasRole(w)'
      BY <1>1, FinishRole
<1>3. KeepsRole(w)
      BY <1>1, <1>2 DEF KeepsRole, HasRole, SawAll, Copied, Sends
<1> QED BY <1>1, <1>2, <1>3, SameFull, InsideStrand DEF Known

LEMMA RenameUploadStrand ==
    ASSUME InvStrand, NEW w \in Workers, RenameUpload(w)
    PROVE  StrandInv'
<1>1. PICK t, f : t = req[w].task /\ f = NextKey("file")
      OBVIOUS
<1>2. Others(w) /\ req[w].pc = "rename" /\ req[w].part = Single
      BY RenameUploadMoves, PartOf DEF InvStrand, Moves, At
<1>3. ~HasRole(w) /\ UNCHANGED items
      BY <1>2, RoleAt DEF RoleSteps, RenameUpload, cache
<1>4. CASE ~HasPart(t, Single)
      <2>1. Finish(w) /\ UNCHANGED <<temp, used>>
            BY <1>1, <1>4 DEF RenameUpload
      <2>2. /\ Others(w) /\ req'[w].pc = "idle"
            /\ ~HasRole(w)'
            BY <2>1, FinishRole
      <2> QED BY <1>3, <2>1, <2>2, NoRole, SameFull, InsideStrand DEF Known
<1>5. CASE HasPart(t, Single)
      <2>1. /\ temp' = [temp EXCEPT ![t] = Drop(@, {Single})]
            /\ req' = [req EXCEPT ![w].pc = "info", ![w].file = f]
            /\ Draw("file")
            BY <1>1, <1>5 DEF RenameUpload
      <2>2. req'[w].pc = "info" /\ req'[w].part = Single
            BY <1>2, <2>1, Fields DEF InvStrand
      <2>3. ~HasRole(w)'
            BY <2>2 DEF HasRole, SawAll, Copied, Sends, Ended, At
      <2>4. DOMAIN temp' = DOMAIN temp /\ Known("task")' = Known("task")
            BY <2>1, DrawOther DEF InvStrand, Known
      <2>5. ASSUME NEW k, NEW i \in 0..Chunks - 1
            PROVE  HasPart(k, i)' <=> HasPart(k, i)
            BY <2>1, FileStoreAssumption DEF HasPart, Drop
      <2>6. \A k : SameArrived(k)
            BY <2>5, FileStoreAssumption DEF SameArrived, Arrived, ChunksOf
      <2> QED BY <1>2, <1>3, <2>2, <2>3, <2>4, <2>6, NoRole, InsideStrand
<1> QED BY <1>4, <1>5

-----------------------------------------------------------------------------
LEMMA QuietStrand ==
    ASSUME InvStrand, UNCHANGED <<req, temp, used>>, DOMAIN items' \subseteq DOMAIN items
    PROVE  StrandInv'
<1>1. \A t : SameArrived(t) /\ (Full(t)' <=> Full(t))
      BY SameFull, SameIsFull
<1>2. ASSUME NEW w \in Workers
      PROVE  /\ SawAll(w)' <=> SawAll(w)
             /\ Copied(w)' <=> Copied(w)
             /\ Sends(w)' <=> Sends(w)
             /\ Ended(w)' <=> Ended(w)
             /\ Arrived(req[w].task, req[w].total) => Arrived(req[w].task, req[w].total)'
      <2>1. SameArrived(req[w].task)
            BY <1>1
      <2>2. Arrived(req[w].task, req[w].total) => Arrived(req[w].task, req[w].total)'
            BY <2>1, TotalField DEF SameArrived, InvStrand
      <2> QED BY <2>2 DEF SawAll, Copied, Sends, Ended, At
<1>3. \A t \in DOMAIN items' : GoesOn(t)'
      BY <1>1, <1>2 DEF InvStrand, StrandInv, GoesOn
<1> QED BY <1>2, <1>3 DEF InvStrand, StrandInv, TempInv, At, Known

LEMMA NextStrand ==
    ASSUME NothingFails, InvStrand, [Next]_vars
    PROVE  StrandInv'
<1>0. Typed /\ StrandInv
      BY DEF InvStrand
<1>1. ASSUME NEW w \in Workers, Uploading(w)
      PROVE  StrandInv'
      BY <1>0, <1>1, UploadStrand, CreateTaskStrand, CachePrecheckStrand, MakeTempDirStrand,
         SaveOpenStrand, SaveCopyStrand, CountChunksStrand, ProgressStrand, LockMergeStrand,
         MergeChunkStrand, RemoveTempDirStrand, InsertFileInfoStrand, InsertUserFileStrand,
         CleanPrecheckCacheStrand, UnlockMergeStrand, RenameUploadStrand DEF Uploading
<1>2. ASSUME NEW w \in Workers, Managing(w)
      PROVE  StrandInv'
      <2>1. CASE MoveFile(w)
            BY <2>1, QuietStrand DEF MoveFile, cache
      <2> QED BY <1>0, <1>2, <2>1, ManageStrand DEF Managing
<1>3. ASSUME NEW w \in Workers, Recycling(w)
      PROVE  StrandInv'
      <2>1. ASSUME DeletePermanently(w) \/ EmptyBin(w) \/ CleanExpired(w)
            PROVE  StrandInv'
            <3>1. PICK rows : Purges(w, rows) /\ At(w, "idle")
                  BY <2>1 DEF DeletePermanently, EmptyBin, CleanExpired, Starts
            <3> QED BY <1>0, <3>1, PurgesStrand
      <2> QED BY <1>0, <1>3, <2>1, RecycleStrand DEF Recycling
<1>4. ASSUME Ticking
      PROVE  StrandInv'
      <2>1. UNCHANGED <<req, temp, used>>
            BY <1>4 DEF Ticking, DeleteExpiredTasks, stored
      <2>2. DOMAIN items' \subseteq DOMAIN items
            BY <1>4 DEF Ticking, TimePasses, DeleteExpired, DeleteExpiredTasks, Drop, cache
      <2> QED BY <2>1, <2>2, QuietStrand
<1>5. CASE UNCHANGED vars
      BY <1>5, QuietStrand DEF vars, stored, cache
<1>6. ~Failure
      BY <1>0 DEF NothingFails, Failure, Typed, TypeOK
<1>7. ~Crash /\ \A w \in Workers : ~CallFails(w)
      BY <1>6 DEF Crash, CallFails
<1> QED BY <1>1, <1>2, <1>3, <1>4, <1>5, <1>7 DEF Next

(* However many chunks arrive at the same time, in whatever order, and     *)
(* whatever is uploaded again or in one piece meanwhile: an upload whose   *)
(* chunks are all there is never left to nobody while its precheck entry   *)
(* lives, as long as no call fails and whatever totals, of those chunks or *)
(* fewer, the requests state.                                              *)
THEOREM NoStrandedUploadHolds ==
    ASSUME NothingFails
    PROVE  Spec => []NoStrandedUpload
<1>1. ASSUME Init
      PROVE  StrandInv
      <2>1. /\ DOMAIN items = {} /\ DOMAIN temp = {}
            /\ \A w \in Workers : req[w].merged = 0 /\ req[w].pc = "idle"
            BY <1>1 DEF Init, CacheInit, StoreInit, RequestsInit, Idle, Empty
      <2> QED BY <2>1, FileStoreAssumption DEF StrandInv, TempInv, At
<1>2. StrandInv => NoStrandedUpload
      BY DEF StrandInv, GoesOn, Full, Arrived, NoStrandedUpload
<1>3. Typed /\ ExpiryInv /\ MergeLock /\ StrandInv /\ [Next]_vars => StrandInv'
      BY NextStrand DEF InvStrand
<1> QED BY <1>1, <1>2, <1>3, ExpiryIsInvariant, MergeLockHolds, PTL DEF Spec
=============================================================================
