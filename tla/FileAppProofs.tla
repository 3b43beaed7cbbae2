---------------------------- MODULE FileAppProofs ----------------------------
(***************************************************************************)
(* Invariants of the file application, for all users, contents and         *)
(* workers, every number of chunks, every quota and every bound.           *)
(***************************************************************************)
EXTENDS FileAppTypes

-----------------------------------------------------------------------------
(***************************************************************************)
(* Control: from which step to which a request goes.                       *)
(***************************************************************************)
Others(w) == \A v \in Workers \ {w} : req'[v] = req[v]

Moves(w, from, to) == Others(w) /\ At(w, from) /\ req'[w].pc \in to

(* Some theorems are about a process whose calls all succeed and that does *)
(* not end; they say so.                                                   *)
NothingFails == MaxFailures = 0

LEMMA RequestsType == Typed => req \in [Workers -> Request]
BY DEF Typed, TypeOK

LEMMA Fields ==
    ASSUME Typed, NEW w \in Workers
    PROVE  /\ w \in DOMAIN req
           /\ {"pc", "user", "content", "task", "part", "file", "userFile", "status", "free",
               "record", "todo", "doomed"} \subseteq DOMAIN req[w]
BY RequestsType DEF Request

LEMMA GotoMoves ==
    ASSUME Typed, NEW w \in Workers, NEW pc, Goto(w, pc)
    PROVE  /\ Others(w)
           /\ req'[w].pc = pc
           /\ req'[w].task = req[w].task
           /\ req'[w].part = req[w].part
           /\ req'[w].status = req[w].status
           /\ req'[w].file = req[w].file
           /\ req'[w].userFile = req[w].userFile
           /\ req'[w].free = req[w].free
           /\ req'[w].record = req[w].record
           /\ req'[w].todo = req[w].todo
<1>1. Others(w)
      BY DEF Goto, Others
<1> QED BY <1>1, Fields DEF Goto

LEMMA FinishMoves ==
    ASSUME Typed, NEW w \in Workers, Finish(w)
    PROVE  Others(w) /\ req'[w] = Idle /\ req'[w].pc = "idle"
BY Fields DEF Finish, Idle, Others

LEMMA NextRecordMoves ==
    ASSUME Typed, NEW w \in Workers, NextRecord(w)
    PROVE  Others(w) /\ req'[w].pc \in {"idle", "purge"}
BY Fields, FinishMoves DEF NextRecord, Idle, Others

LEMMA NextDirMoves ==
    ASSUME Typed, NEW w \in Workers, NEW d, NextDir(w, d)
    PROVE  Others(w) /\ req'[w].pc \in {"idle", req[w].pc}
BY Fields, FinishMoves DEF NextDir, Others

LEMMA RestoreToRootMoves ==
    ASSUME Typed, NEW w \in Workers, RestoreToRoot(w)
    PROVE  Others(w) /\ req'[w].pc \in {"idle", "restore"}
BY Fields, FinishMoves DEF RestoreToRoot, Others

LEMMA TakeMoves ==
    ASSUME Typed, NEW w \in Workers, NEW row, NEW pc, NEW f, Take(w, row, pc, f)
    PROVE  Others(w) /\ req'[w].pc = pc
BY Fields DEF Take, Others

LEMMA MergeFailedMoves ==
    ASSUME Typed, NEW w \in Workers, MergeFailed(w)
    PROVE  /\ Others(w)
           /\ req'[w].pc = "progress"
           /\ req'[w].status = "failed"
           /\ req'[w].task = req[w].task
           /\ req'[w].part = req[w].part
BY Fields DEF MergeFailed, Others

LEMMA AfterProgressMoves ==
    ASSUME Typed, NEW w \in Workers, AfterProgress(w)
    PROVE  Others(w) /\ req'[w].pc \in {"clean", "unlock", "lock", "idle"}
BY GotoMoves, FinishMoves DEF AfterProgress

LEMMA PurgesMoves ==
    ASSUME Typed, NEW w \in Workers, NEW rows, Purges(w, rows), At(w, "idle")
    PROVE  Moves(w, "idle", {"purge"})
<1>1. Others(w)
      BY RequestsType DEF Purges, Others
<1> QED BY <1>1, Fields DEF Purges, Moves

LEMMA PrecheckMoves ==
    ASSUME Typed, NEW w \in Workers, Precheck(w)
    PROVE  Moves(w, "idle", {"candidate"})
<1>1. Others(w)
      BY RequestsType DEF Precheck, Others
<1>2. req'[w].pc \in {"candidate"}
      BY Fields DEF Precheck
<1> QED BY <1>1, <1>2 DEF Moves, Precheck, Starts, At

LEMMA FindCandidateMoves ==
    ASSUME Typed, NEW w \in Workers, FindCandidate(w)
    PROVE  Moves(w, "candidate", {"instant", "task"})
<1>1. Others(w)
      BY RequestsType, GotoMoves DEF FindCandidate, Others
<1>2. req'[w].pc \in {"instant", "task"}
      BY Fields, GotoMoves DEF FindCandidate
<1> QED BY <1>1, <1>2 DEF Moves, FindCandidate, At

LEMMA InstantLinkMoves ==
    ASSUME Typed, NEW w \in Workers, InstantLink(w)
    PROVE  Moves(w, "instant", {"deduct", "idle"})
<1>1. Others(w)
      BY RequestsType, FinishMoves DEF InstantLink, Others
<1>2. req'[w].pc \in {"deduct", "idle"}
      BY Fields, FinishMoves DEF InstantLink
<1> QED BY <1>1, <1>2 DEF Moves, InstantLink, At

LEMMA InstantDeductMoves ==
    ASSUME Typed, NEW w \in Workers, InstantDeduct(w)
    PROVE  Moves(w, "deduct", {"idle"})
BY FinishMoves DEF Moves, InstantDeduct, At

LEMMA InstantRollbackMoves ==
    ASSUME Typed, NEW w \in Workers, InstantRollback(w)
    PROVE  Moves(w, "rollback", {"task"})
BY GotoMoves DEF Moves, InstantRollback, At

LEMMA CreateTaskMoves ==
    ASSUME Typed, NEW w \in Workers, CreateTask(w)
    PROVE  Moves(w, "task", {"cache"})
<1>1. Others(w)
      BY RequestsType DEF CreateTask, Others
<1>2. req'[w].pc \in {"cache"}
      BY Fields DEF CreateTask
<1> QED BY <1>1, <1>2 DEF Moves, CreateTask, At

LEMMA CachePrecheckMoves ==
    ASSUME Typed, NEW w \in Workers, CachePrecheck(w)
    PROVE  Moves(w, "cache", {"idle"})
BY FinishMoves DEF Moves, CachePrecheck, At

LEMMA UploadChunkMoves ==
    ASSUME Typed, NEW w \in Workers, UploadChunk(w)
    PROVE  Moves(w, "idle", {"mkdir"})
<1>1. Others(w)
      BY RequestsType DEF UploadChunk, Others
<1>2. req'[w].pc \in {"mkdir"}
      BY Fields DEF UploadChunk
<1> QED BY <1>1, <1>2 DEF Moves, UploadChunk, At

LEMMA UploadChunkLateMoves ==
    ASSUME Typed, NEW w \in Workers, UploadChunkLate(w)
    PROVE  Moves(w, "idle", {"evict"})
<1>1. Others(w)
      BY RequestsType DEF UploadChunkLate, Others
<1>2. req'[w].pc \in {"evict"}
      BY Fields DEF UploadChunkLate
<1> QED BY <1>1, <1>2 DEF Moves, UploadChunkLate, At

LEMMA EvictPrecheckMoves ==
    ASSUME Typed, NEW w \in Workers, EvictPrecheck(w)
    PROVE  Moves(w, "evict", {"idle"})
BY FinishMoves DEF Moves, EvictPrecheck, At

LEMMA MakeTempDirMoves ==
    ASSUME Typed, NEW w \in Workers, MakeTempDir(w)
    PROVE  Moves(w, "mkdir", {"open"})
BY GotoMoves DEF Moves, MakeTempDir, At

LEMMA SaveOpenMoves ==
    ASSUME Typed, NEW w \in Workers, SaveOpen(w)
    PROVE  Moves(w, "open", {"copy", "idle"})
BY GotoMoves, FinishMoves DEF Moves, SaveOpen, At

LEMMA SaveCopyMoves ==
    ASSUME Typed, NEW w \in Workers, SaveCopy(w)
    PROVE  Moves(w, "copy", {"rename", "count"})
BY GotoMoves DEF Moves, SaveCopy, At

LEMMA CountChunksMoves ==
    ASSUME Typed, NEW w \in Workers, CountChunks(w)
    PROVE  Moves(w, "count", {"progress"})
<1>1. Others(w)
      BY RequestsType DEF CountChunks, Others
<1>2. req'[w].pc \in {"progress"}
      BY Fields DEF CountChunks
<1> QED BY <1>1, <1>2 DEF Moves, CountChunks, At

LEMMA ReadTaskMoves ==
    ASSUME Typed, NEW w \in Workers, ReadTask(w)
    PROVE  Moves(w, "progress", {"write", "clean", "unlock", "lock", "idle"})
<1>1. Others(w)
      BY RequestsType, AfterProgressMoves DEF ReadTask, Others
<1>2. req'[w].pc \in {"write", "clean", "unlock", "lock", "idle"}
      BY Fields, AfterProgressMoves DEF ReadTask
<1> QED BY <1>1, <1>2 DEF Moves, ReadTask, At

LEMMA WriteTaskMoves ==
    ASSUME Typed, NEW w \in Workers, WriteTask(w)
    PROVE  Moves(w, "write", {"clean", "unlock", "lock", "idle"})
BY AfterProgressMoves DEF Moves, WriteTask, At

(* The merge begins, or is over at once when there is no chunk to copy.    *)
LEMMA StartMergeMoves ==
    ASSUME Typed, NEW w \in Workers, NEW f, StartMerge(w, f)
    PROVE  /\ Others(w)
           /\ req'[w].pc \in {"merge", "remove temp"}
           /\ req'[w].pc = IF req[w].total = 0 THEN "remove temp" ELSE "merge"
           /\ req'[w].file = f
           /\ req'[w].merged = 0
           /\ req'[w].task = req[w].task
           /\ req'[w].part = req[w].part
           /\ req'[w].total = req[w].total
           /\ req'[w].expires = req[w].expires
           /\ req'[w].status = req[w].status
           /\ req'[w].userFile = req[w].userFile
           /\ req'[w].record = req[w].record
           /\ req'[w].todo = req[w].todo
<1>1. Others(w)
      BY RequestsType DEF StartMerge, Others
<1>2. /\ w \in DOMAIN req
      /\ {"pc", "task", "part", "total", "merged", "file", "userFile", "status", "expires",
          "record", "todo"} \subseteq DOMAIN req[w]
      BY RequestsType DEF Request
<1> DEFINE next == IF req[w].total = 0 THEN "remove temp" ELSE "merge"
<1>3. req' = [req EXCEPT ![w].pc = next, ![w].file = f, ![w].merged = 0]
      BY DEF StartMerge
<1>4. next \in {"merge", "remove temp"}
      OBVIOUS
<1> HIDE DEF next
<1>5. /\ req'[w].pc = next
      /\ req'[w].file = f
      /\ req'[w].merged = 0
      /\ req'[w].task = req[w].task
      /\ req'[w].part = req[w].part
      /\ req'[w].total = req[w].total
      /\ req'[w].expires = req[w].expires
      /\ req'[w].status = req[w].status
      /\ req'[w].userFile = req[w].userFile
      /\ req'[w].record = req[w].record
      /\ req'[w].todo = req[w].todo
      BY <1>2, <1>3
<1> QED BY <1>1, <1>4, <1>5 DEF next

LEMMA LockMergeMoves ==
    ASSUME Typed, NEW w \in Workers, LockMerge(w)
    PROVE  Moves(w, "lock", {"merge", "remove temp", "idle"})
<1>1. Others(w)
      BY StartMergeMoves, FinishMoves DEF LockMerge
<1>2. req'[w].pc \in {"merge", "remove temp", "idle"}
      BY StartMergeMoves, FinishMoves DEF LockMerge
<1> QED BY <1>1, <1>2 DEF Moves, LockMerge, At

LEMMA MergeChunkMoves ==
    ASSUME Typed, NEW w \in Workers, MergeChunk(w)
    PROVE  Moves(w, "merge", {"merge", "remove temp", "progress"})
<1>1. Others(w)
      BY RequestsType, MergeFailedMoves DEF MergeChunk, Others
<1>2. req'[w].pc \in {"merge", "remove temp", "progress"}
      BY Fields, MergeFailedMoves DEF MergeChunk
<1> QED BY <1>1, <1>2 DEF Moves, MergeChunk, At

LEMMA RemoveTempDirMoves ==
    ASSUME Typed, NEW w \in Workers, RemoveTempDir(w)
    PROVE  Moves(w, "remove temp", {"info", "idle"})
BY GotoMoves, FinishMoves DEF Moves, RemoveTempDir, At

LEMMA InsertFileInfoMoves ==
    ASSUME Typed, NEW w \in Workers, InsertFileInfo(w)
    PROVE  Moves(w, "info", {"link"})
BY GotoMoves DEF Moves, InsertFileInfo, At

LEMMA InsertUserFileMoves ==
    ASSUME Typed, NEW w \in Workers, InsertUserFile(w)
    PROVE  Moves(w, "link", {"clean", "progress"})
<1>1. Others(w)
      BY RequestsType DEF InsertUserFile, Others
<1>2. req'[w].pc \in {"clean", "progress"}
      BY Fields DEF InsertUserFile
<1> QED BY <1>1, <1>2 DEF Moves, InsertUserFile, At

LEMMA CleanPrecheckCacheMoves ==
    ASSUME Typed, NEW w \in Workers, CleanPrecheckCache(w)
    PROVE  Moves(w, "clean", {"remove temp", "unlock"})
BY GotoMoves DEF Moves, CleanPrecheckCache, At

LEMMA UnlockMergeMoves ==
    ASSUME Typed, NEW w \in Workers, UnlockMerge(w)
    PROVE  Moves(w, "unlock", {"idle"})
BY FinishMoves DEF Moves, UnlockMerge, At

LEMMA RenameUploadMoves ==
    ASSUME Typed, NEW w \in Workers, RenameUpload(w)
    PROVE  Moves(w, "rename", {"info", "idle"})
<1>1. Others(w)
      BY RequestsType, FinishMoves DEF RenameUpload, Others
<1>2. req'[w].pc \in {"info", "idle"}
      BY Fields, FinishMoves DEF RenameUpload
<1> QED BY <1>1, <1>2 DEF Moves, RenameUpload, At

LEMMA RenewUploadTaskMoves ==
    ASSUME Typed, NEW w \in Workers, RenewUploadTask(w)
    PROVE  Moves(w, "idle", {"renew"})
<1>1. Others(w)
      BY RequestsType DEF RenewUploadTask, Others
<1>2. req'[w].pc \in {"renew"}
      BY Fields DEF RenewUploadTask
<1> QED BY <1>1, <1>2 DEF Moves, RenewUploadTask, Starts, At

LEMMA RenewWriteTaskMoves ==
    ASSUME Typed, NEW w \in Workers, RenewWriteTask(w)
    PROVE  Moves(w, "renew", {"idle"})
BY FinishMoves DEF Moves, RenewWriteTask, At

LEMMA DeleteUploadTaskMoves ==
    ASSUME Typed, NEW w \in Workers, DeleteUploadTask(w)
    PROVE  Moves(w, "idle", {"delete task"})
<1>1. Others(w)
      BY RequestsType DEF DeleteUploadTask, Others
<1>2. req'[w].pc \in {"delete task"}
      BY Fields DEF DeleteUploadTask
<1> QED BY <1>1, <1>2 DEF Moves, DeleteUploadTask, Starts, At

LEMMA DropTaskMoves ==
    ASSUME Typed, NEW w \in Workers, DropTask(w)
    PROVE  Moves(w, "delete task", {"idle"})
BY FinishMoves DEF Moves, DropTask, At

LEMMA MakeDirMoves ==
    ASSUME Typed, NEW w \in Workers, MakeDir(w)
    PROVE  Moves(w, "idle", {"make dir"})
<1>1. Others(w)
      BY RequestsType DEF MakeDir, Others
<1>2. req'[w].pc \in {"make dir"}
      BY Fields DEF MakeDir
<1> QED BY <1>1, <1>2 DEF Moves, MakeDir, Starts, At

LEMMA InsertDirMoves ==
    ASSUME Typed, NEW w \in Workers, InsertDir(w)
    PROVE  Moves(w, "make dir", {"idle"})
BY FinishMoves DEF Moves, InsertDir, At

LEMMA DeleteDirMoves ==
    ASSUME Typed, NEW w \in Workers, DeleteDir(w)
    PROVE  Moves(w, "idle", {"delete dirs"})
<1>1. Others(w)
      BY RequestsType DEF DeleteDir, Others
<1>2. req'[w].pc \in {"delete dirs"}
      BY Fields DEF DeleteDir
<1> QED BY <1>1, <1>2 DEF Moves, DeleteDir, Starts, At

LEMMA DropDirMoves ==
    ASSUME Typed, NEW w \in Workers, DropDir(w)
    PROVE  Moves(w, "delete dirs", {"delete dirs", "idle"})
BY NextDirMoves DEF Moves, DropDir, At

LEMMA MoveToRecycledMoves ==
    ASSUME Typed, NEW w \in Workers, MoveToRecycled(w)
    PROVE  Moves(w, "idle", {"record"})
<1>1. Others(w)
      BY RequestsType DEF MoveToRecycled, Others
<1>2. req'[w].pc \in {"record"}
      BY Fields DEF MoveToRecycled
<1> QED BY <1>1, <1>2 DEF Moves, MoveToRecycled, Starts, At

LEMMA InsertRecycledMoves ==
    ASSUME Typed, NEW w \in Workers, InsertRecycled(w)
    PROVE  Moves(w, "record", {"idle"})
BY FinishMoves DEF Moves, InsertRecycled, At

LEMMA RestoreMoves ==
    ASSUME Typed, NEW w \in Workers, Restore(w)
    PROVE  Moves(w, "idle", {"restore file"})
<1>1. Others(w)
      BY RequestsType DEF Restore, Others
<1>2. ASSUME NEW r, NEW u, NEW f,
             req' = [req EXCEPT ![w].pc = "restore file", ![w].record = r, ![w].user = u,
                                ![w].userFile = f]
      PROVE  req'[w].pc \in {"restore file"}
      BY <1>2, Fields
<1>3. PICK row \in db.recycled :
        req' = [req EXCEPT ![w].pc = "restore file", ![w].record = row, ![w].user = row.user,
                           ![w].userFile = row.userFile]
      BY DEF Restore
<1> DEFINE u == row.user
           f == row.userFile
<1>4. req' = [req EXCEPT ![w].pc = "restore file", ![w].record = row, ![w].user = u,
                         ![w].userFile = f]
      BY <1>3
<1>5. req'[w].pc \in {"restore file"}
      <2> HIDE DEF u, f
      <2> QED BY <1>2, <1>4
<1> QED BY <1>1, <1>5 DEF Moves, Restore, Starts, At

LEMMA RestoreReadFileMoves ==
    ASSUME Typed, NEW w \in Workers, RestoreReadFile(w)
    PROVE  Moves(w, "restore file", {"restore", "restore dir", "idle"})
<1>1. At(w, "restore file")
      BY Zenon DEF RestoreReadFile
<1>2. CASE Finish(w)
      BY <1>1, <1>2, FinishMoves DEF Moves
<1>3. ASSUME NEW d, NEW pc \in {"restore", "restore dir"},
             req' = [req EXCEPT ![w].pc = pc, ![w].dir = d]
      PROVE  Moves(w, "restore file", {"restore", "restore dir", "idle"})
      <2>1. Others(w)
            BY <1>3, RequestsType DEF Others
      <2>2. req'[w].pc = pc
            BY <1>3, Fields
      <2> QED BY <1>1, <2>1, <2>2 DEF Moves
<1> QED BY <1>2, <1>3 DEF RestoreReadFile

LEMMA RestoreReadDirMoves ==
    ASSUME Typed, NEW w \in Workers, RestoreReadDir(w)
    PROVE  Moves(w, "restore dir", {"restore", "idle"})
BY GotoMoves, RestoreToRootMoves DEF Moves, RestoreReadDir, At

LEMMA RestoreApplyMoves ==
    ASSUME Typed, NEW w \in Workers, RestoreApply(w)
    PROVE  Moves(w, "restore", {"drop record", "idle"})
BY GotoMoves, FinishMoves DEF Moves, RestoreApply, At

LEMMA PurgeReadFileMoves ==
    ASSUME Typed, NEW w \in Workers, PurgeReadFile(w)
    PROVE  Moves(w, "purge", {"refs", "drop record"})
BY TakeMoves DEF Moves, PurgeReadFile, At

LEMMA PurgeCountRefsMoves ==
    ASSUME Typed, NEW w \in Workers, PurgeCountRefs(w)
    PROVE  Moves(w, "refs", {"purge info", "hard delete"})
BY GotoMoves DEF Moves, PurgeCountRefs, At

LEMMA PurgeReadInfoMoves ==
    ASSUME Typed, NEW w \in Workers, PurgeReadInfo(w)
    PROVE  Moves(w, "purge info", {"unlink", "hard delete"})
BY GotoMoves DEF Moves, PurgeReadInfo, At

LEMMA PurgeUnlinkMoves ==
    ASSUME Typed, NEW w \in Workers, PurgeUnlink(w)
    PROVE  Moves(w, "unlink", {"quota"})
BY GotoMoves DEF Moves, PurgeUnlink, At

LEMMA PurgeReadQuotaMoves ==
    ASSUME Typed, NEW w \in Workers, PurgeReadQuota(w)
    PROVE  Moves(w, "quota", {"return", "drop info"})
<1>1. Others(w)
      BY RequestsType, GotoMoves DEF PurgeReadQuota, Others
<1>2. req'[w].pc \in {"return", "drop info"}
      BY Fields, GotoMoves DEF PurgeReadQuota
<1> QED BY <1>1, <1>2 DEF Moves, PurgeReadQuota, At

LEMMA PurgeWriteQuotaMoves ==
    ASSUME Typed, NEW w \in Workers, PurgeWriteQuota(w)
    PROVE  Moves(w, "return", {"drop info"})
BY GotoMoves DEF Moves, PurgeWriteQuota, At

LEMMA PurgeDropInfoMoves ==
    ASSUME Typed, NEW w \in Workers, PurgeDropInfo(w)
    PROVE  Moves(w, "drop info", {"hard delete", "purge", "idle"})
BY GotoMoves, NextRecordMoves DEF Moves, PurgeDropInfo, At

LEMMA PurgeHardDeleteMoves ==
    ASSUME Typed, NEW w \in Workers, PurgeHardDelete(w)
    PROVE  Moves(w, "hard delete", {"drop record", "purge", "idle"})
BY GotoMoves, NextRecordMoves DEF Moves, PurgeHardDelete, At

LEMMA DropRecordMoves ==
    ASSUME Typed, NEW w \in Workers, DropRecord(w)
    PROVE  Moves(w, "drop record", {"purge", "idle"})
BY NextRecordMoves DEF Moves, DropRecord, At

-----------------------------------------------------------------------------
(***************************************************************************)
(* MergeLock.  A step outside the merges, and one that stays inside one,   *)
(* keep it; what is left are the steps into a merge and out of one.        *)
(***************************************************************************)
MergeSteps ==
    {"merge", "remove temp", "info", "link", "clean", "unlock", "progress", "write"}

LEMMA NotMerging ==
    ASSUME NEW w \in Workers
    PROVE  /\ req[w].pc \notin MergeSteps => ~Merging(w)
           /\ req'[w].pc \notin MergeSteps => ~Merging(w)'
BY DEF Merging, MergeSteps

LEMMA OtherMerges ==
    ASSUME NEW w \in Workers, Others(w), NEW v \in Workers, v # w
    PROVE  (Merging(v)' <=> Merging(v)) /\ req'[v].task = req[v].task
BY DEF Others, Merging

LEMMA SameMerges ==
    ASSUME MergeLock, NEW w \in Workers, Others(w), UNCHANGED mergeLocks,
           Merging(w)' <=> Merging(w), Merging(w) => req'[w].task = req[w].task
    PROVE  MergeLock'
<1>1. ASSUME NEW v \in Workers
      PROVE  (Merging(v)' <=> Merging(v)) /\ (Merging(v) => req'[v].task = req[v].task)
      BY OtherMerges
<1>2. ASSUME NEW v \in Workers, NEW x \in Workers, Merging(v)', Merging(x)',
             req'[v].task = req'[x].task
      PROVE  v = x
      BY <1>1, <1>2 DEF MergeLock
<1>3. mergeLocks' = {req'[v].task : v \in {x \in Workers : Merging(x)'}}
      BY <1>1 DEF MergeLock
<1> QED BY <1>2, <1>3 DEF MergeLock

LEMMA OutsideStep ==
    ASSUME MergeLock, NEW w \in Workers, Others(w), UNCHANGED mergeLocks,
           ~Merging(w), ~Merging(w)'
    PROVE  MergeLock'
BY SameMerges

LEMMA MovesOutside ==
    ASSUME MergeLock, NEW w \in Workers, NEW from, NEW to, Moves(w, from, to),
           from \notin MergeSteps, to \cap MergeSteps = {}, UNCHANGED mergeLocks
    PROVE  MergeLock'
BY NotMerging, OutsideStep DEF Moves, At

LEMMA InsideStep ==
    ASSUME MergeLock, NEW w \in Workers, Others(w), UNCHANGED mergeLocks,
           Merging(w), Merging(w)', req'[w].task = req[w].task
    PROVE  MergeLock'
BY SameMerges

LEMMA UploadOutside ==
    ASSUME Typed, MergeLock, NEW w \in Workers,
           Precheck(w) \/ FindCandidate(w) \/ InstantLink(w) \/ InstantDeduct(w) \/
           InstantRollback(w) \/ CreateTask(w) \/ CachePrecheck(w) \/
           UploadChunk(w) \/ UploadChunkLate(w) \/ EvictPrecheck(w) \/
           MakeTempDir(w) \/ SaveOpen(w) \/ SaveCopy(w)
    PROVE  MergeLock'
<1>1. CASE Precheck(w)
      BY <1>1, PrecheckMoves, MovesOutside DEF Precheck, MergeSteps, shared
<1>2. CASE FindCandidate(w)
      BY <1>2, FindCandidateMoves, MovesOutside DEF FindCandidate, MergeSteps, shared
<1>3. CASE InstantLink(w)
      BY <1>3, InstantLinkMoves, MovesOutside DEF InstantLink, MergeSteps, shared
<1>4. CASE InstantDeduct(w)
      BY <1>4, InstantDeductMoves, MovesOutside DEF InstantDeduct, MergeSteps, shared
<1>5. CASE InstantRollback(w)
      BY <1>5, InstantRollbackMoves, MovesOutside DEF InstantRollback, MergeSteps, shared
<1>6. CASE CreateTask(w)
      BY <1>6, CreateTaskMoves, MovesOutside DEF CreateTask, MergeSteps, shared
<1>7. CASE CachePrecheck(w)
      BY <1>7, CachePrecheckMoves, MovesOutside DEF CachePrecheck, MergeSteps, shared
<1>8. CASE UploadChunk(w)
      BY <1>8, UploadChunkMoves, MovesOutside DEF UploadChunk, MergeSteps, shared
<1>9. CASE UploadChunkLate(w)
      BY <1>9, UploadChunkLateMoves, MovesOutside DEF UploadChunkLate, MergeSteps, shared
<1>10. CASE EvictPrecheck(w)
      BY <1>10, EvictPrecheckMoves, MovesOutside DEF EvictPrecheck, MergeSteps, shared
<1>11. CASE MakeTempDir(w)
      BY <1>11, MakeTempDirMoves, MovesOutside DEF MakeTempDir, MergeSteps, shared
<1>12. CASE SaveOpen(w)
      BY <1>12, SaveOpenMoves, MovesOutside DEF SaveOpen, MergeSteps, shared
<1>13. CASE SaveCopy(w)
      BY <1>13, SaveCopyMoves, MovesOutside DEF SaveCopy, MergeSteps, shared
<1> QED BY <1>1, <1>2, <1>3, <1>4, <1>5, <1>6, <1>7, <1>8, <1>9, <1>10, <1>11, <1>12,
           <1>13

LEMMA ManageOutside ==
    ASSUME Typed, MergeLock, NEW w \in Workers,
           RenewUploadTask(w) \/ RenewWriteTask(w) \/ DeleteUploadTask(w) \/
           DropTask(w) \/ MakeDir(w) \/ InsertDir(w) \/ DeleteDir(w) \/
           DropDir(w)
    PROVE  MergeLock'
<1>1. CASE RenewUploadTask(w)
      BY <1>1, RenewUploadTaskMoves, MovesOutside DEF RenewUploadTask, MergeSteps, shared
<1>2. CASE RenewWriteTask(w)
      BY <1>2, RenewWriteTaskMoves, MovesOutside DEF RenewWriteTask, MergeSteps, shared
<1>3. CASE DeleteUploadTask(w)
      BY <1>3, DeleteUploadTaskMoves, MovesOutside DEF DeleteUploadTask, MergeSteps, shared
<1>4. CASE DropTask(w)
      BY <1>4, DropTaskMoves, MovesOutside DEF DropTask, MergeSteps, shared
<1>5. CASE MakeDir(w)
      BY <1>5, MakeDirMoves, MovesOutside DEF MakeDir, MergeSteps, shared
<1>6. CASE InsertDir(w)
      BY <1>6, InsertDirMoves, MovesOutside DEF InsertDir, MergeSteps, shared
<1>7. CASE DeleteDir(w)
      BY <1>7, DeleteDirMoves, MovesOutside DEF DeleteDir, MergeSteps, shared
<1>8. CASE DropDir(w)
      BY <1>8, DropDirMoves, MovesOutside DEF DropDir, MergeSteps, shared
<1> QED BY <1>1, <1>2, <1>3, <1>4, <1>5, <1>6, <1>7, <1>8

LEMMA RecycleOutside ==
    ASSUME Typed, MergeLock, NEW w \in Workers,
           MoveToRecycled(w) \/ InsertRecycled(w) \/ Restore(w) \/
           RestoreReadFile(w) \/ RestoreReadDir(w) \/ RestoreApply(w) \/
           PurgeReadFile(w) \/ PurgeCountRefs(w) \/ PurgeReadInfo(w) \/
           PurgeUnlink(w) \/ PurgeReadQuota(w) \/ PurgeWriteQuota(w) \/
           PurgeDropInfo(w) \/ PurgeHardDelete(w) \/ DropRecord(w)
    PROVE  MergeLock'
<1>1. CASE MoveToRecycled(w)
      BY <1>1, MoveToRecycledMoves, MovesOutside DEF MoveToRecycled, MergeSteps, shared
<1>2. CASE InsertRecycled(w)
      BY <1>2, InsertRecycledMoves, MovesOutside DEF InsertRecycled, MergeSteps, shared
<1>3. CASE Restore(w)
      BY <1>3, RestoreMoves, MovesOutside DEF Restore, MergeSteps, shared
<1>4. CASE RestoreReadFile(w)
      BY <1>4, RestoreReadFileMoves, MovesOutside DEF RestoreReadFile, MergeSteps, shared
<1>5. CASE RestoreReadDir(w)
      BY <1>5, RestoreReadDirMoves, MovesOutside DEF RestoreReadDir, MergeSteps, shared
<1>6. CASE RestoreApply(w)
      BY <1>6, RestoreApplyMoves, MovesOutside DEF RestoreApply, MergeSteps, shared
<1>7. CASE PurgeReadFile(w)
      BY <1>7, PurgeReadFileMoves, MovesOutside DEF PurgeReadFile, MergeSteps, shared
<1>8. CASE PurgeCountRefs(w)
      BY <1>8, PurgeCountRefsMoves, MovesOutside DEF PurgeCountRefs, MergeSteps, shared
<1>9. CASE PurgeReadInfo(w)
      BY <1>9, PurgeReadInfoMoves, MovesOutside DEF PurgeReadInfo, MergeSteps, shared
<1>10. CASE PurgeUnlink(w)
      BY <1>10, PurgeUnlinkMoves, MovesOutside DEF PurgeUnlink, MergeSteps, shared
<1>11. CASE PurgeReadQuota(w)
      BY <1>11, PurgeReadQuotaMoves, MovesOutside DEF PurgeReadQuota, MergeSteps, shared
<1>12. CASE PurgeWriteQuota(w)
      BY <1>12, PurgeWriteQuotaMoves, MovesOutside DEF PurgeWriteQuota, MergeSteps, shared
<1>13. CASE PurgeDropInfo(w)
      BY <1>13, PurgeDropInfoMoves, MovesOutside DEF PurgeDropInfo, MergeSteps, shared
<1>14. CASE PurgeHardDelete(w)
      BY <1>14, PurgeHardDeleteMoves, MovesOutside DEF PurgeHardDelete, MergeSteps, shared
<1>15. CASE DropRecord(w)
      BY <1>15, DropRecordMoves, MovesOutside DEF DropRecord, MergeSteps, shared
<1> QED BY <1>1, <1>2, <1>3, <1>4, <1>5, <1>6, <1>7, <1>8, <1>9, <1>10, <1>11, <1>12,
           <1>13, <1>14, <1>15

LEMMA UnchangedMerges ==
    ASSUME MergeLock, UNCHANGED <<req, mergeLocks>>
    PROVE  MergeLock'
BY DEF MergeLock, Merging

LEMMA PartOf ==
    ASSUME Typed, NEW w \in Workers
    PROVE  /\ req[w].pc \in {"count", "progress", "write", "lock", "merge", "unlock"} =>
                req[w].part # Single
           /\ req[w].pc = "rename" => req[w].part = Single
           /\ req[w].pc \in {"progress", "write"} =>
                req[w].status \in {"uploading", "completed", "failed"}
BY RequestOf DEF Typed, Filled

LEMMA CountChunksLock ==
    ASSUME Typed, MergeLock, NEW w \in Workers, CountChunks(w)
    PROVE  MergeLock'
<1>1. Others(w) /\ ~Merging(w)
      BY CountChunksMoves, NotMerging DEF Moves, At, MergeSteps
<1>2. req'[w].pc = "progress" /\ req'[w].status = "uploading"
      BY Fields DEF CountChunks
<1>3. ~Merging(w)'
      BY <1>2 DEF Merging
<1> QED BY <1>1, <1>3, OutsideStep DEF CountChunks, shared

LEMMA AfterProgressLock ==
    ASSUME Typed, MergeLock, NEW w \in Workers, req[w].pc \in {"progress", "write"},
           AfterProgress(w), UNCHANGED mergeLocks
    PROVE  MergeLock'
<1>0. req[w].part # Single
      BY PartOf
<1>1. ASSUME req[w].status = "completed", Goto(w, "clean")
      PROVE  MergeLock'
      <2>1. Merging(w) /\ Merging(w)' /\ Others(w) /\ req'[w].task = req[w].task
            BY <1>0, <1>1, GotoMoves DEF Merging
      <2> QED BY <2>1, InsideStep
<1>2. ASSUME req[w].status = "failed", Goto(w, "unlock")
      PROVE  MergeLock'
      <2>1. Merging(w) /\ Merging(w)' /\ Others(w) /\ req'[w].task = req[w].task
            BY <1>0, <1>2, GotoMoves DEF Merging
      <2> QED BY <2>1, InsideStep
<1>3. ASSUME req[w].status = "uploading", Finish(w) \/ Goto(w, "lock")
      PROVE  MergeLock'
      <2>1. ~Merging(w)
            BY <1>3 DEF Merging
      <2>2. Others(w) /\ req'[w].pc \in {"idle", "lock"}
            BY <1>3, FinishMoves, GotoMoves
      <2>3. ~Merging(w)'
            BY <2>2, NotMerging DEF MergeSteps
      <2> QED BY <2>1, <2>2, <2>3, OutsideStep
<1> QED BY <1>1, <1>2, <1>3 DEF AfterProgress

LEMMA ProgressLock ==
    ASSUME Typed, MergeLock, NEW w \in Workers, ReadTask(w) \/ WriteTask(w)
    PROVE  MergeLock'
<1>1. CASE ReadTask(w) /\ HasTask(req[w].task)
      <2> DEFINE e == db.uploadTasks[req[w].task].expiresAt
      <2>1. req' = [req EXCEPT ![w].pc = "write", ![w].expires = e]
            BY <1>1 DEF ReadTask
      <2> HIDE DEF e
      <2>2. /\ req'[w].pc = "write"
            /\ req'[w].task = req[w].task
            /\ req'[w].part = req[w].part
            /\ req'[w].status = req[w].status
            BY <2>1, Fields
      <2>3. Others(w) /\ req[w].pc = "progress"
            BY <1>1, ReadTaskMoves DEF Moves, At
      <2>4. Merging(w)' <=> Merging(w)
            BY <2>2, <2>3 DEF Merging
      <2> QED BY <1>1, <2>2, <2>3, <2>4, SameMerges DEF ReadTask, shared
<1>2. CASE ReadTask(w) /\ ~HasTask(req[w].task)
      BY <1>2, AfterProgressLock DEF ReadTask, At, shared
<1>3. CASE WriteTask(w)
      BY <1>3, AfterProgressLock DEF WriteTask, At, shared
<1> QED BY <1>1, <1>2, <1>3

(* The lock of the task was free: nobody was merging it.                   *)
LEMMA LockMergeLock ==
    ASSUME Typed, MergeLock, NEW w \in Workers, LockMerge(w)
    PROVE  MergeLock'
<1>0. Others(w) /\ req[w].pc = "lock" /\ req[w].part # Single /\ ~Merging(w)
      BY LockMergeMoves, PartOf, NotMerging DEF Moves, At, MergeSteps
<1>1. CASE req[w].task \in mergeLocks
      <2>1. ~Merging(w)'
            BY <1>1, FinishMoves, NotMerging DEF LockMerge, MergeSteps
      <2> QED BY <1>0, <1>1, <2>1, OutsideStep DEF LockMerge
<1>2. CASE req[w].task \notin mergeLocks
      <2> DEFINE t == req[w].task
      <2>1. req'[w].task = t
            BY <1>2, StartMergeMoves DEF LockMerge
      <2>2. Merging(w)'
            BY <1>0, <1>2, StartMergeMoves DEF LockMerge, Merging
      <2>3. mergeLocks' = mergeLocks \cup {t}
            BY <1>2 DEF LockMerge
      <2>4. ASSUME NEW v \in Workers, Merging(v)
            PROVE  v # w /\ Merging(v)' /\ req'[v].task = req[v].task /\ req[v].task # t
            BY <1>0, <1>2, <2>4, OtherMerges DEF MergeLock
      <2>5. ASSUME NEW v \in Workers, Merging(v)', v # w
            PROVE  Merging(v)
            BY <1>0, <2>5, OtherMerges
      <2>6. ASSUME NEW v \in Workers, NEW x \in Workers, Merging(v)', Merging(x)',
                   req'[v].task = req'[x].task
            PROVE  v = x
            BY <2>1, <2>4, <2>5, <2>6 DEF MergeLock
      <2> HIDE DEF t
      <2>7. mergeLocks' = {req'[v].task : v \in {x \in Workers : Merging(x)'}}
            BY <2>1, <2>2, <2>3, <2>4, <2>5 DEF MergeLock
      <2> QED BY <2>6, <2>7 DEF MergeLock
<1> QED BY <1>1, <1>2

LEMMA MergeFailedLock ==
    ASSUME Typed, MergeLock, NEW w \in Workers, Merging(w), MergeFailed(w),
           UNCHANGED mergeLocks
    PROVE  MergeLock'
<1>1. Others(w) /\ req'[w].task = req[w].task
      BY MergeFailedMoves
<1>2. Merging(w)'
      BY MergeFailedMoves DEF Merging
<1> QED BY <1>1, <1>2, InsideStep

LEMMA MergeChunkLock ==
    ASSUME Typed, MergeLock, NEW w \in Workers, MergeChunk(w)
    PROVE  MergeLock'
<1>0. Others(w) /\ Merging(w) /\ UNCHANGED mergeLocks
      BY MergeChunkMoves, PartOf DEF Moves, At, Merging, MergeChunk, shared
<1>1. CASE MergeFailed(w)
      BY <1>0, <1>1, MergeFailedLock
<1>2. ASSUME NEW pc \in {"merge", "remove temp"}, NEW n,
             req' = [req EXCEPT ![w].pc = pc, ![w].merged = n]
      PROVE  MergeLock'
      <2>1. /\ req'[w].pc = pc
            /\ req'[w].task = req[w].task
            /\ req'[w].part = req[w].part
            BY <1>2, Fields
      <2>2. Merging(w)'
            BY <1>0, <2>1 DEF Merging
      <2> QED BY <1>0, <2>1, <2>2, InsideStep
<1> QED BY <1>1, <1>2 DEF MergeChunk

(* A step of a merge that goes on, or of an upload that came in one piece. *)
LEMMA GotoLock ==
    ASSUME Typed, MergeLock, NEW w \in Workers,
           req[w].pc \in {"remove temp", "info", "link", "clean"},
           NEW pc \in {"remove temp", "info", "link", "clean"}, Goto(w, pc),
           UNCHANGED mergeLocks
    PROVE  MergeLock'
<1>1. Others(w) /\ req'[w].task = req[w].task
      BY GotoMoves
<1>2. Merging(w)' <=> Merging(w)
      BY GotoMoves DEF Merging
<1> QED BY <1>1, <1>2, SameMerges

LEMMA RemoveTempDirLock ==
    ASSUME Typed, MergeLock, NEW w \in Workers, RemoveTempDir(w)
    PROVE  MergeLock'
<1>1. CASE req[w].part = Single
      <2>1. Others(w) /\ ~Merging(w) /\ ~Merging(w)'
            BY <1>1, FinishMoves, NotMerging DEF RemoveTempDir, Merging, MergeSteps
      <2> QED BY <2>1, OutsideStep DEF RemoveTempDir, shared
<1>2. CASE req[w].part # Single
      BY <1>2, GotoLock DEF RemoveTempDir, At, shared
<1> QED BY <1>1, <1>2

LEMMA InsertUserFileLock ==
    ASSUME Typed, MergeLock, NEW w \in Workers, InsertUserFile(w)
    PROVE  MergeLock'
<1> DEFINE l == NextKey("userFile")
<1>0. Others(w) /\ At(w, "link")
      BY InsertUserFileMoves DEF Moves
<1>1. CASE req[w].part = Single
      <2>1. req' = [req EXCEPT ![w].pc = "clean", ![w].userFile = l]
            BY <1>1 DEF InsertUserFile
      <2> HIDE DEF l
      <2>2. req'[w].part = req[w].part /\ req'[w].pc = "clean"
            BY <2>1, Fields
      <2>3. ~Merging(w) /\ ~Merging(w)'
            BY <1>1, <2>2 DEF Merging
      <2> QED BY <1>0, <2>3, OutsideStep DEF InsertUserFile, shared
<1>2. CASE req[w].part # Single
      <2>1. req' = [req EXCEPT ![w].pc = "progress", ![w].userFile = l,
                               ![w].status = "completed", ![w].uploaded = req[w].total]
            BY <1>2 DEF InsertUserFile
      <2> HIDE DEF l
      <2>2. /\ req'[w].part = req[w].part
            /\ req'[w].task = req[w].task
            /\ req'[w].pc = "progress"
            /\ req'[w].status = "completed"
            BY <2>1, Fields
      <2>3. Merging(w) /\ Merging(w)'
            BY <1>0, <1>2, <2>2 DEF Merging, At
      <2> QED BY <1>0, <2>2, <2>3, InsideStep DEF InsertUserFile, shared
<1> QED BY <1>1, <1>2

LEMMA CleanPrecheckCacheLock ==
    ASSUME Typed, MergeLock, NEW w \in Workers, CleanPrecheckCache(w)
    PROVE  MergeLock'
<1>1. CASE req[w].part = Single
      BY <1>1, GotoLock DEF CleanPrecheckCache, At, shared
<1>2. CASE req[w].part # Single
      <2>1. Others(w) /\ req'[w].task = req[w].task
            BY <1>2, GotoMoves DEF CleanPrecheckCache
      <2>2. Merging(w) /\ Merging(w)'
            BY <1>2, GotoMoves DEF CleanPrecheckCache, Merging, At
      <2> QED BY <2>1, <2>2, InsideStep DEF CleanPrecheckCache, shared
<1> QED BY <1>1, <1>2

(* Only the merge that ends held the lock.                                 *)
LEMMA UnlockMergeLock ==
    ASSUME Typed, MergeLock, NEW w \in Workers, UnlockMerge(w)
    PROVE  MergeLock'
<1> DEFINE t == req[w].task
<1>0. Others(w) /\ Merging(w) /\ mergeLocks' = mergeLocks \ {t}
      BY UnlockMergeMoves, PartOf DEF Moves, At, Merging, UnlockMerge
<1>1. ~Merging(w)'
      BY FinishMoves, NotMerging DEF UnlockMerge, MergeSteps
<1>2. ASSUME NEW v \in Workers, Merging(v), v # w
      PROVE  Merging(v)' /\ req'[v].task = req[v].task /\ req[v].task # t
      BY <1>0, <1>2, OtherMerges DEF MergeLock
<1>3. ASSUME NEW v \in Workers, Merging(v)'
      PROVE  v # w /\ Merging(v)
      BY <1>0, <1>1, <1>3, OtherMerges
<1>4. ASSUME NEW v \in Workers, NEW x \in Workers, Merging(v)', Merging(x)',
             req'[v].task = req'[x].task
      PROVE  v = x
      BY <1>2, <1>3, <1>4 DEF MergeLock
<1> HIDE DEF t
<1>5. mergeLocks' = {req'[v].task : v \in {x \in Workers : Merging(x)'}}
      <2>1. mergeLocks = {req[v].task : v \in {x \in Workers : Merging(x)}}
            BY DEF MergeLock
      <2>2. ASSUME NEW s
            PROVE  s \in mergeLocks' <=> \E v \in Workers : Merging(v)' /\ s = req'[v].task
            BY <1>0, <1>2, <1>3, <2>1 DEF t
      <2> QED BY <2>2
<1> QED BY <1>4, <1>5 DEF MergeLock

LEMMA RenameUploadLock ==
    ASSUME Typed, MergeLock, NEW w \in Workers, RenameUpload(w)
    PROVE  MergeLock'
<1>0. Others(w) /\ ~Merging(w) /\ req[w].part = Single
      BY RenameUploadMoves, PartOf, NotMerging DEF Moves, At, MergeSteps
<1>1. ~Merging(w)'
      <2>1. CASE HasPart(req[w].task, Single)
            <3>1. req'[w].part = req[w].part
                  BY <2>1, Fields DEF RenameUpload
            <3> QED BY <1>0, <3>1 DEF Merging
      <2>2. CASE ~HasPart(req[w].task, Single)
            BY <2>2, FinishMoves, NotMerging DEF RenameUpload, MergeSteps
      <2> QED BY <2>1, <2>2
<1> QED BY <1>0, <1>1, OutsideStep DEF RenameUpload, shared

LEMMA CallFailsLock ==
    ASSUME Typed, MergeLock, NEW w \in Workers, CallFails(w)
    PROVE  MergeLock'
<1>0. UNCHANGED mergeLocks
      BY DEF CallFails, SaveFails
<1>1. ASSUME req[w].pc \notin MergeSteps, Others(w), req'[w].pc \notin MergeSteps
      PROVE  MergeLock'
      BY <1>0, <1>1, NotMerging, OutsideStep
<1>2. CASE SaveFails(w)
      BY <1>1, <1>2, FinishMoves DEF SaveFails, At, MergeSteps
<1>3. CASE RecycledFails(w)
      <2>1. req[w].pc \notin MergeSteps
            BY <1>3 DEF RecycledFails, At, MergeSteps
      <2>2. CASE Finish(w) \/ RestoreToRoot(w) \/ NextRecord(w)
            BY <1>1, <2>1, <2>2, FinishMoves, RestoreToRootMoves, NextRecordMoves DEF MergeSteps
      <2>3. ASSUME NEW pc \in {"hard delete", "quota", "drop info"}, Goto(w, pc)
            PROVE  MergeLock'
            BY <1>1, <2>1, <2>3, GotoMoves DEF MergeSteps
      <2>4. ASSUME NEW row, Take(w, row, "drop record", NULL)
            PROVE  MergeLock'
            <3>1. Others(w) /\ req'[w].pc = "drop record"
                  BY <2>4, TakeMoves
            <3>2. req'[w].pc \notin MergeSteps
                  BY <3>1 DEF MergeSteps
            <3> QED BY <1>1, <2>1, <3>1, <3>2
      <2> QED BY <1>3, <2>2, <2>3, <2>4 DEF RecycledFails
<1>4. CASE UploadFails(w)
      <2>1. CASE req[w].pc \in {"progress", "write"} /\ AfterProgress(w)
            BY <1>0, <2>1, AfterProgressLock
      <2>2. CASE /\ req[w].pc \in {"merge", "info", "link"}
                 /\ IF req[w].part = Single THEN Goto(w, "remove temp") ELSE MergeFailed(w)
            <3>1. CASE req[w].part = Single
                  <4>1. Others(w) /\ ~Merging(w) /\ ~Merging(w)'
                        BY <2>2, <3>1, GotoMoves DEF Merging
                  <4> QED BY <1>0, <4>1, OutsideStep
            <3>2. CASE req[w].part # Single
                  <4>1. Merging(w)
                        BY <2>2, <3>2 DEF Merging
                  <4> QED BY <1>0, <2>2, <3>2, <4>1, MergeFailedLock
            <3> QED BY <3>1, <3>2
      <2>3. CASE At(w, "remove temp") /\ req[w].part = Single /\ Finish(w)
            <3>1. Others(w) /\ ~Merging(w) /\ ~Merging(w)'
                  BY <2>3, FinishMoves, NotMerging DEF Merging, MergeSteps
            <3> QED BY <1>0, <3>1, OutsideStep
      <2>4. CASE At(w, "remove temp") /\ Goto(w, "info")
            BY <1>0, <2>4, GotoLock DEF At
      <2>5. CASE At(w, "delete dirs") /\ \E d \in req[w].doomed : NextDir(w, d)
            BY <1>1, <2>5, NextDirMoves DEF At, MergeSteps
      <2>6. CASE req[w].pc \in {"task", "mkdir", "open", "rename", "renew", "delete task",
                                "make dir"} /\ Finish(w)
            BY <1>1, <2>6, FinishMoves DEF MergeSteps
      <2>7. CASE req[w].pc \in {"candidate", "instant", "rollback"} /\ Goto(w, "task")
            <3>1. Others(w) /\ req'[w].pc = "task"
                  BY <2>7, GotoMoves
            <3>2. req[w].pc \notin MergeSteps /\ req'[w].pc \notin MergeSteps
                  BY <2>7, <3>1 DEF MergeSteps
            <3> QED BY <1>1, <3>1, <3>2
      <2>8. CASE At(w, "deduct") /\ Goto(w, "rollback")
            <3>1. Others(w) /\ req'[w].pc = "rollback"
                  BY <2>8, GotoMoves
            <3>2. req[w].pc \notin MergeSteps /\ req'[w].pc \notin MergeSteps
                  BY <2>8, <3>1 DEF At, MergeSteps
            <3> QED BY <1>1, <3>1, <3>2
      <2> QED BY <1>4, <2>1, <2>2, <2>3, <2>4, <2>5, <2>6, <2>7, <2>8 DEF UploadFails
<1> QED BY <1>2, <1>3, <1>4 DEF CallFails

LEMMA CrashLock ==
    ASSUME Crash
    PROVE  MergeLock'
<1>1. ASSUME NEW v \in Workers
      PROVE  ~Merging(v)'
      BY DEF Crash, Merging, Idle
<1> QED BY <1>1 DEF Crash, MergeLock

LEMMA NextMergeLock == Typed /\ MergeLock /\ [Next]_vars => MergeLock'
<1> SUFFICES ASSUME Typed, MergeLock, [Next]_vars
             PROVE  MergeLock'
    OBVIOUS
<1>1. ASSUME NEW w \in Workers, Uploading(w)
      PROVE  MergeLock'
      <2>1. CASE InsertFileInfo(w)
            BY <2>1, GotoLock DEF InsertFileInfo, At, shared
      <2> QED BY <1>1, <2>1, UploadOutside, CountChunksLock, ProgressLock, LockMergeLock,
                 MergeChunkLock, RemoveTempDirLock, InsertUserFileLock,
                 CleanPrecheckCacheLock, UnlockMergeLock, RenameUploadLock DEF Uploading
<1>2. ASSUME NEW w \in Workers, Managing(w)
      PROVE  MergeLock'
      BY <1>2, ManageOutside, UnchangedMerges DEF Managing, MoveFile, shared
<1>3. ASSUME NEW w \in Workers, Recycling(w)
      PROVE  MergeLock'
      <2>1. ASSUME DeletePermanently(w) \/ EmptyBin(w) \/ CleanExpired(w)
            PROVE  MergeLock'
            <3>1. PICK rows : Purges(w, rows) /\ At(w, "idle")
                  BY <2>1 DEF DeletePermanently, EmptyBin, CleanExpired, Starts
            <3> QED BY <3>1, PurgesMoves, MovesOutside DEF Purges, MergeSteps, shared
      <2> QED BY <1>3, <2>1, RecycleOutside DEF Recycling
<1>4. ASSUME Ticking
      PROVE  MergeLock'
      BY <1>4, UnchangedMerges DEF Ticking, DeleteExpiredTasks, shared
<1>5. CASE UNCHANGED vars
      BY <1>5, UnchangedMerges DEF vars, shared
<1> QED BY <1>1, <1>2, <1>3, <1>4, <1>5, CallFailsLock, CrashLock DEF Next

(* The merge of a task belongs to one request, and the set of locks is the *)
(* set of tasks being merged, however many requests upload chunks,         *)
(* whatever fails and whenever the process ends.                           *)
THEOREM MergeLockHolds == Spec => []MergeLock
<1>1. ASSUME Init
      PROVE  MergeLock
      <2>1. ASSUME NEW v \in Workers
            PROVE  ~Merging(v)
            BY <1>1 DEF Init, RequestsInit, Merging, Idle
      <2> QED BY <1>1, <2>1 DEF Init, RequestsInit, MergeLock
<1> QED BY <1>1, NextMergeLock, TypedIsInvariant, PTL DEF Spec
=============================================================================
