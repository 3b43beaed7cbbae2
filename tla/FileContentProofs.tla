------------------------- MODULE FileContentProofs -------------------------
(***************************************************************************)
(* What users find: permanentlyDelete takes no file from the disk that     *)
(* anybody sees, a file in the recycle bin has its record, a restored file *)
(* its folder, and a completed upload its content; and the file            *)
(* application implements Shelf.                                           *)
(***************************************************************************)
EXTENDS FileAppProofs

OneWorker == \A v, w \in Workers : v = w

-----------------------------------------------------------------------------
(***************************************************************************)
(* permanentlyDelete counts the references, reads the row of file_info and *)
(* only then removes the file, without a transaction: right as long as     *)
(* nothing runs beside it.                                                 *)
(***************************************************************************)
(* The count is still right when the file is removed.                      *)
UnlinkSteps == {"purge info", "unlink"}

Unreferenced(w) == req[w].pc \in UnlinkSteps => ActiveUserFiles(req[w].file) = {}

CountIsRight == \A w \in Workers : Unreferenced(w)

DiskGrows == DOMAIN disk \subseteq DOMAIN disk'

ContentStays == \A f \in DOMAIN disk : f \notin DOMAIN disk' => ActiveUserFiles(f) = {}

-----------------------------------------------------------------------------
(***************************************************************************)
(* Steps away from the removal.                                            *)
(***************************************************************************)
LEMMA OnlyStep ==
    ASSUME OneWorker, NEW w \in Workers, Unreferenced(w)'
    PROVE  CountIsRight'
BY DEF OneWorker, CountIsRight

LEMMA NotUnlinking ==
    ASSUME OneWorker, NEW w \in Workers, req'[w].pc \notin UnlinkSteps
    PROVE  CountIsRight'
BY OnlyStep DEF Unreferenced

LEMMA MovesElsewhere ==
    ASSUME OneWorker, NEW w \in Workers, NEW from, NEW to, Moves(w, from, to),
           to \cap UnlinkSteps = {}, DiskGrows
    PROVE  CountIsRight' /\ DiskGrows
BY NotUnlinking DEF Moves

LEMMA UploadKeepsContent ==
    ASSUME Typed, OneWorker, NEW w \in Workers,
           Precheck(w) \/ FindCandidate(w) \/ InstantLink(w) \/
           InstantDeduct(w) \/ InstantRollback(w) \/ CreateTask(w) \/
           CachePrecheck(w) \/ UploadChunk(w) \/ UploadChunkLate(w) \/
           EvictPrecheck(w) \/ MakeTempDir(w) \/ SaveOpen(w) \/ SaveCopy(w) \/
           CountChunks(w) \/ ReadTask(w) \/ WriteTask(w) \/ LockMerge(w) \/
           MergeChunk(w) \/ RemoveTempDir(w) \/ InsertFileInfo(w) \/
           InsertUserFile(w) \/ CleanPrecheckCache(w) \/ UnlockMerge(w) \/
           RenameUpload(w)
    PROVE  CountIsRight' /\ DiskGrows
<1>1. CASE Precheck(w)
      <2>1. DiskGrows
            BY <1>1 DEF Precheck, stored, DiskGrows
      <2> QED BY <1>1, <2>1, PrecheckMoves, MovesElsewhere DEF UnlinkSteps
<1>2. CASE FindCandidate(w)
      <2>1. DiskGrows
            BY <1>2 DEF FindCandidate, stored, DiskGrows
      <2> QED BY <1>2, <2>1, FindCandidateMoves, MovesElsewhere DEF UnlinkSteps
<1>3. CASE InstantLink(w)
      <2>1. DiskGrows
            BY <1>3 DEF InstantLink, stored, DiskGrows
      <2> QED BY <1>3, <2>1, InstantLinkMoves, MovesElsewhere DEF UnlinkSteps
<1>4. CASE InstantDeduct(w)
      <2>1. DiskGrows
            BY <1>4 DEF InstantDeduct, stored, DiskGrows
      <2> QED BY <1>4, <2>1, InstantDeductMoves, MovesElsewhere DEF UnlinkSteps
<1>5. CASE InstantRollback(w)
      <2>1. DiskGrows
            BY <1>5 DEF InstantRollback, stored, DiskGrows
      <2> QED BY <1>5, <2>1, InstantRollbackMoves, MovesElsewhere DEF UnlinkSteps
<1>6. CASE CreateTask(w)
      <2>1. DiskGrows
            BY <1>6 DEF CreateTask, stored, DiskGrows
      <2> QED BY <1>6, <2>1, CreateTaskMoves, MovesElsewhere DEF UnlinkSteps
<1>7. CASE CachePrecheck(w)
      <2>1. DiskGrows
            BY <1>7 DEF CachePrecheck, stored, DiskGrows
      <2> QED BY <1>7, <2>1, CachePrecheckMoves, MovesElsewhere DEF UnlinkSteps
<1>8. CASE UploadChunk(w)
      <2>1. DiskGrows
            BY <1>8 DEF UploadChunk, stored, DiskGrows
      <2> QED BY <1>8, <2>1, UploadChunkMoves, MovesElsewhere DEF UnlinkSteps
<1>9. CASE UploadChunkLate(w)
      <2>1. DiskGrows
            BY <1>9 DEF UploadChunkLate, stored, DiskGrows
      <2> QED BY <1>9, <2>1, UploadChunkLateMoves, MovesElsewhere DEF UnlinkSteps
<1>10. CASE EvictPrecheck(w)
      <2>1. DiskGrows
            BY <1>10 DEF EvictPrecheck, stored, DiskGrows
      <2> QED BY <1>10, <2>1, EvictPrecheckMoves, MovesElsewhere DEF UnlinkSteps
<1>11. CASE MakeTempDir(w)
      <2>1. DiskGrows
            BY <1>11 DEF MakeTempDir, stored, DiskGrows
      <2> QED BY <1>11, <2>1, MakeTempDirMoves, MovesElsewhere DEF UnlinkSteps
<1>12. CASE SaveOpen(w)
      <2>1. DiskGrows
            BY <1>12 DEF SaveOpen, stored, DiskGrows
      <2> QED BY <1>12, <2>1, SaveOpenMoves, MovesElsewhere DEF UnlinkSteps
<1>13. CASE SaveCopy(w)
      <2>1. DiskGrows
            BY <1>13 DEF SaveCopy, EndWriting, DiskGrows
      <2> QED BY <1>13, <2>1, SaveCopyMoves, MovesElsewhere DEF UnlinkSteps
<1>14. CASE CountChunks(w)
      <2>1. DiskGrows
            BY <1>14 DEF CountChunks, stored, DiskGrows
      <2> QED BY <1>14, <2>1, CountChunksMoves, MovesElsewhere DEF UnlinkSteps
<1>15. CASE ReadTask(w)
      <2>1. DiskGrows
            BY <1>15 DEF ReadTask, stored, DiskGrows
      <2> QED BY <1>15, <2>1, ReadTaskMoves, MovesElsewhere DEF UnlinkSteps
<1>16. CASE WriteTask(w)
      <2>1. DiskGrows
            BY <1>16 DEF WriteTask, stored, DiskGrows
      <2> QED BY <1>16, <2>1, WriteTaskMoves, MovesElsewhere DEF UnlinkSteps
<1>17. CASE LockMerge(w)
      <2>1. DiskGrows
            BY <1>17 DEF LockMerge, Put, stored, DiskGrows
      <2> QED BY <1>17, <2>1, LockMergeMoves, MovesElsewhere DEF UnlinkSteps
<1>18. CASE MergeChunk(w)
      <2>1. DiskGrows
            BY <1>18 DEF MergeChunk, Put, DiskGrows
      <2> QED BY <1>18, <2>1, MergeChunkMoves, MovesElsewhere DEF UnlinkSteps
<1>19. CASE RemoveTempDir(w)
      <2>1. DiskGrows
            BY <1>19 DEF RemoveTempDir, stored, DiskGrows
      <2> QED BY <1>19, <2>1, RemoveTempDirMoves, MovesElsewhere DEF UnlinkSteps
<1>20. CASE InsertFileInfo(w)
      <2>1. DiskGrows
            BY <1>20 DEF InsertFileInfo, stored, DiskGrows
      <2> QED BY <1>20, <2>1, InsertFileInfoMoves, MovesElsewhere DEF UnlinkSteps
<1>21. CASE InsertUserFile(w)
      <2>1. DiskGrows
            BY <1>21 DEF InsertUserFile, stored, DiskGrows
      <2> QED BY <1>21, <2>1, InsertUserFileMoves, MovesElsewhere DEF UnlinkSteps
<1>22. CASE CleanPrecheckCache(w)
      <2>1. DiskGrows
            BY <1>22 DEF CleanPrecheckCache, stored, DiskGrows
      <2> QED BY <1>22, <2>1, CleanPrecheckCacheMoves, MovesElsewhere DEF UnlinkSteps
<1>23. CASE UnlockMerge(w)
      <2>1. DiskGrows
            BY <1>23 DEF UnlockMerge, stored, DiskGrows
      <2> QED BY <1>23, <2>1, UnlockMergeMoves, MovesElsewhere DEF UnlinkSteps
<1>24. CASE RenameUpload(w)
      <2>1. DiskGrows
            BY <1>24 DEF RenameUpload, Put, DiskGrows
      <2> QED BY <1>24, <2>1, RenameUploadMoves, MovesElsewhere DEF UnlinkSteps
<1> QED BY <1>1, <1>2, <1>3, <1>4, <1>5, <1>6, <1>7, <1>8, <1>9, <1>10, <1>11, <1>12,
           <1>13, <1>14, <1>15, <1>16, <1>17, <1>18, <1>19, <1>20, <1>21, <1>22,
           <1>23, <1>24

LEMMA ManageKeepsContent ==
    ASSUME Typed, OneWorker, NEW w \in Workers,
           RenewUploadTask(w) \/ RenewWriteTask(w) \/ DeleteUploadTask(w) \/
           DropTask(w) \/ MakeDir(w) \/ InsertDir(w) \/ DeleteDir(w) \/
           DropDir(w)
    PROVE  CountIsRight' /\ DiskGrows
<1>1. CASE RenewUploadTask(w)
      <2>1. DiskGrows
            BY <1>1 DEF RenewUploadTask, stored, DiskGrows
      <2> QED BY <1>1, <2>1, RenewUploadTaskMoves, MovesElsewhere DEF UnlinkSteps
<1>2. CASE RenewWriteTask(w)
      <2>1. DiskGrows
            BY <1>2 DEF RenewWriteTask, stored, DiskGrows
      <2> QED BY <1>2, <2>1, RenewWriteTaskMoves, MovesElsewhere DEF UnlinkSteps
<1>3. CASE DeleteUploadTask(w)
      <2>1. DiskGrows
            BY <1>3 DEF DeleteUploadTask, stored, DiskGrows
      <2> QED BY <1>3, <2>1, DeleteUploadTaskMoves, MovesElsewhere DEF UnlinkSteps
<1>4. CASE DropTask(w)
      <2>1. DiskGrows
            BY <1>4 DEF DropTask, stored, DiskGrows
      <2> QED BY <1>4, <2>1, DropTaskMoves, MovesElsewhere DEF UnlinkSteps
<1>5. CASE MakeDir(w)
      <2>1. DiskGrows
            BY <1>5 DEF MakeDir, stored, DiskGrows
      <2> QED BY <1>5, <2>1, MakeDirMoves, MovesElsewhere DEF UnlinkSteps
<1>6. CASE InsertDir(w)
      <2>1. DiskGrows
            BY <1>6 DEF InsertDir, stored, DiskGrows
      <2> QED BY <1>6, <2>1, InsertDirMoves, MovesElsewhere DEF UnlinkSteps
<1>7. CASE DeleteDir(w)
      <2>1. DiskGrows
            BY <1>7 DEF DeleteDir, stored, DiskGrows
      <2> QED BY <1>7, <2>1, DeleteDirMoves, MovesElsewhere DEF UnlinkSteps
<1>8. CASE DropDir(w)
      <2>1. DiskGrows
            BY <1>8 DEF DropDir, stored, DiskGrows
      <2> QED BY <1>8, <2>1, DropDirMoves, MovesElsewhere DEF UnlinkSteps
<1> QED BY <1>1, <1>2, <1>3, <1>4, <1>5, <1>6, <1>7, <1>8

LEMMA RecycleKeepsContent ==
    ASSUME Typed, OneWorker, NEW w \in Workers,
           MoveToRecycled(w) \/ InsertRecycled(w) \/ Restore(w) \/
           RestoreReadFile(w) \/ RestoreReadDir(w) \/ RestoreApply(w) \/
           PurgeReadFile(w) \/ PurgeReadQuota(w) \/ PurgeWriteQuota(w) \/
           PurgeDropInfo(w) \/ PurgeHardDelete(w) \/ DropRecord(w)
    PROVE  CountIsRight' /\ DiskGrows
<1>1. CASE MoveToRecycled(w)
      <2>1. DiskGrows
            BY <1>1 DEF MoveToRecycled, stored, DiskGrows
      <2> QED BY <1>1, <2>1, MoveToRecycledMoves, MovesElsewhere DEF UnlinkSteps
<1>2. CASE InsertRecycled(w)
      <2>1. DiskGrows
            BY <1>2 DEF InsertRecycled, stored, DiskGrows
      <2> QED BY <1>2, <2>1, InsertRecycledMoves, MovesElsewhere DEF UnlinkSteps
<1>3. CASE Restore(w)
      <2>1. DiskGrows
            BY <1>3 DEF Restore, stored, DiskGrows
      <2> QED BY <1>3, <2>1, RestoreMoves, MovesElsewhere DEF UnlinkSteps
<1>4. CASE RestoreReadFile(w)
      <2>1. DiskGrows
            BY <1>4 DEF RestoreReadFile, stored, DiskGrows
      <2> QED BY <1>4, <2>1, RestoreReadFileMoves, MovesElsewhere DEF UnlinkSteps
<1>5. CASE RestoreReadDir(w)
      <2>1. DiskGrows
            BY <1>5 DEF RestoreReadDir, stored, DiskGrows
      <2> QED BY <1>5, <2>1, RestoreReadDirMoves, MovesElsewhere DEF UnlinkSteps
<1>6. CASE RestoreApply(w)
      <2>1. DiskGrows
            BY <1>6 DEF RestoreApply, stored, DiskGrows
      <2> QED BY <1>6, <2>1, RestoreApplyMoves, MovesElsewhere DEF UnlinkSteps
<1>7. CASE PurgeReadFile(w)
      <2>1. DiskGrows
            BY <1>7 DEF PurgeReadFile, stored, DiskGrows
      <2> QED BY <1>7, <2>1, PurgeReadFileMoves, MovesElsewhere DEF UnlinkSteps
<1>8. CASE PurgeReadQuota(w)
      <2>1. DiskGrows
            BY <1>8 DEF PurgeReadQuota, stored, DiskGrows
      <2> QED BY <1>8, <2>1, PurgeReadQuotaMoves, MovesElsewhere DEF UnlinkSteps
<1>9. CASE PurgeWriteQuota(w)
      <2>1. DiskGrows
            BY <1>9 DEF PurgeWriteQuota, stored, DiskGrows
      <2> QED BY <1>9, <2>1, PurgeWriteQuotaMoves, MovesElsewhere DEF UnlinkSteps
<1>10. CASE PurgeDropInfo(w)
      <2>1. DiskGrows
            BY <1>10 DEF PurgeDropInfo, stored, DiskGrows
      <2> QED BY <1>10, <2>1, PurgeDropInfoMoves, MovesElsewhere DEF UnlinkSteps
<1>11. CASE PurgeHardDelete(w)
      <2>1. DiskGrows
            BY <1>11 DEF PurgeHardDelete, stored, DiskGrows
      <2> QED BY <1>11, <2>1, PurgeHardDeleteMoves, MovesElsewhere DEF UnlinkSteps
<1>12. CASE DropRecord(w)
      <2>1. DiskGrows
            BY <1>12 DEF DropRecord, stored, DiskGrows
      <2> QED BY <1>12, <2>1, DropRecordMoves, MovesElsewhere DEF UnlinkSteps
<1> QED BY <1>1, <1>2, <1>3, <1>4, <1>5, <1>6, <1>7, <1>8, <1>9, <1>10, <1>11, <1>12

-----------------------------------------------------------------------------
(***************************************************************************)
(* The removal, failures, and the rest.                                    *)
(***************************************************************************)
LEMMA UserFilesThere == Typed => "userFiles" \in DOMAIN db
BY DEF Typed, TypeOK, TablesOK

LEMMA SameReferences ==
    ASSUME db'.userFiles = db.userFiles, NEW f
    PROVE  ActiveUserFiles(f)' = ActiveUserFiles(f)
BY DEF ActiveUserFiles, Active, HasUserFile

LEMMA CountRefs ==
    ASSUME Typed, OneWorker, NEW w \in Workers, PurgeCountRefs(w)
    PROVE  CountIsRight' /\ DiskGrows
<1>1. UNCHANGED <<db, disk>>
      BY DEF PurgeCountRefs, stored
<1>2. CASE ActiveUserFiles(req[w].file) = {}
      <2>1. req'[w].file = req[w].file
            BY GotoMoves DEF PurgeCountRefs
      <2>2. ActiveUserFiles(req[w].file)' = ActiveUserFiles(req[w].file)
            BY <1>1, <2>1 DEF ActiveUserFiles, Active, HasUserFile
      <2> QED BY <1>1, <1>2, <2>2, OnlyStep DEF Unreferenced, DiskGrows
<1>3. CASE ActiveUserFiles(req[w].file) # {}
      <2>1. req'[w].pc = "hard delete"
            BY <1>3, GotoMoves DEF PurgeCountRefs
      <2>2. req'[w].pc \notin UnlinkSteps
            BY <2>1 DEF UnlinkSteps
      <2> QED BY <1>1, <2>2, NotUnlinking DEF DiskGrows
<1> QED BY <1>2, <1>3

LEMMA ReadInfo ==
    ASSUME Typed, OneWorker, CountIsRight, NEW w \in Workers, PurgeReadInfo(w)
    PROVE  CountIsRight' /\ DiskGrows
<1>1. UNCHANGED <<db, disk>>
      BY DEF PurgeReadInfo, stored
<1>2. req'[w].file = req[w].file
      BY GotoMoves DEF PurgeReadInfo
<1>3. ActiveUserFiles(req[w].file) = {}
      BY DEF PurgeReadInfo, At, CountIsRight, Unreferenced, UnlinkSteps
<1>4. ActiveUserFiles(req[w].file)' = ActiveUserFiles(req[w].file)
      BY <1>1, <1>2 DEF ActiveUserFiles, Active, HasUserFile
<1> QED BY <1>1, <1>3, <1>4, OnlyStep DEF Unreferenced, DiskGrows

LEMMA Unlink ==
    ASSUME Typed, OneWorker, CountIsRight, NEW w \in Workers, PurgeUnlink(w)
    PROVE  CountIsRight' /\ ContentStays
<1>1. req'[w].pc = "quota"
      BY GotoMoves DEF PurgeUnlink
<1>2. req'[w].pc \notin UnlinkSteps
      BY <1>1 DEF UnlinkSteps
<1>3. ActiveUserFiles(req[w].file) = {}
      BY DEF PurgeUnlink, At, CountIsRight, Unreferenced, UnlinkSteps
<1>4. \A f \in DOMAIN disk : f \notin DOMAIN disk' => f = req[w].file
      BY DEF PurgeUnlink, Drop
<1> QED BY <1>2, <1>3, <1>4, NotUnlinking DEF ContentStays

LEMMA CallFailsKeepsContent ==
    ASSUME Typed, OneWorker, NEW w \in Workers, CallFails(w)
    PROVE  CountIsRight' /\ DiskGrows
<1>0. DiskGrows
      BY DEF CallFails, SaveFails, EndWriting, DiskGrows, stored
<1>1. ASSUME req'[w].pc \notin UnlinkSteps
      PROVE  CountIsRight'
      BY <1>1, NotUnlinking
<1>2. CASE SaveFails(w)
      BY <1>0, <1>1, <1>2, FinishMoves DEF SaveFails, UnlinkSteps
<1>3. ASSUME NEW pc, Goto(w, pc), pc \notin UnlinkSteps
      PROVE  CountIsRight'
      BY <1>1, <1>3, GotoMoves
<1>4. CASE Finish(w)
      <2>1. req'[w].pc = "idle"
            BY <1>4, FinishMoves
      <2>2. req'[w].pc \notin UnlinkSteps
            BY <2>1 DEF UnlinkSteps
      <2> QED BY <1>0, <1>1, <2>2
<1>5. CASE RecycledFails(w)
      <2>1. CASE RestoreToRoot(w)
            <3>1. req'[w].pc \in {"idle", "restore"}
                  BY <2>1, RestoreToRootMoves
            <3>2. req'[w].pc \notin UnlinkSteps
                  BY <3>1 DEF UnlinkSteps
            <3> QED BY <1>0, <1>1, <3>2
      <2>2. CASE NextRecord(w)
            <3>1. req'[w].pc \in {"idle", "purge"}
                  BY <2>2, NextRecordMoves
            <3>2. req'[w].pc \notin UnlinkSteps
                  BY <3>1 DEF UnlinkSteps
            <3> QED BY <1>0, <1>1, <3>2
      <2>3. ASSUME NEW pc \in {"hard delete", "quota", "drop info"}, Goto(w, pc)
            PROVE  CountIsRight'
            <3>1. pc \notin UnlinkSteps
                  BY DEF UnlinkSteps
            <3> QED BY <1>3, <2>3, <3>1
      <2>4. ASSUME NEW row, Take(w, row, "drop record", NULL)
            PROVE  CountIsRight'
            <3>1. req'[w].pc = "drop record"
                  BY <2>4, TakeMoves
            <3>2. req'[w].pc \notin UnlinkSteps
                  BY <3>1 DEF UnlinkSteps
            <3> QED BY <1>0, <1>1, <3>2
      <2> QED BY <1>0, <1>4, <1>5, <2>1, <2>2, <2>3, <2>4 DEF RecycledFails
<1>6. CASE UploadFails(w)
      <2>1. CASE AfterProgress(w)
            <3>1. req'[w].pc \in {"clean", "unlock", "lock", "idle"}
                  BY <2>1, AfterProgressMoves
            <3>2. req'[w].pc \notin UnlinkSteps
                  BY <3>1 DEF UnlinkSteps
            <3> QED BY <1>0, <1>1, <3>2
      <2>2. CASE MergeFailed(w)
            <3>1. req'[w].pc = "progress"
                  BY <2>2, MergeFailedMoves
            <3>2. req'[w].pc \notin UnlinkSteps
                  BY <3>1 DEF UnlinkSteps
            <3> QED BY <1>0, <1>1, <3>2
      <2>3. ASSUME NEW pc \in {"task", "rollback", "remove temp", "info"}, Goto(w, pc)
            PROVE  CountIsRight'
            BY <1>3, <2>3 DEF UnlinkSteps
      <2>4. ASSUME NEW d, At(w, "delete dirs"), NextDir(w, d)
            PROVE  CountIsRight'
            BY <1>1, <2>4, NextDirMoves DEF At, UnlinkSteps
      <2> QED BY <1>0, <1>4, <1>6, <2>1, <2>2, <2>3, <2>4 DEF UploadFails
<1> QED BY <1>2, <1>5, <1>6 DEF CallFails

LEMMA CrashKeepsContent ==
    ASSUME Crash
    PROVE  CountIsRight' /\ DiskGrows
<1>1. CountIsRight'
      BY DEF Crash, CountIsRight, Unreferenced, Idle, UnlinkSteps
<1>2. DOMAIN disk' = DOMAIN disk
      BY DEF Crash
<1> QED BY <1>1, <1>2 DEF DiskGrows

LEMMA QuietKeepsContent ==
    ASSUME CountIsRight, UNCHANGED <<req, disk>>, db'.userFiles = db.userFiles
    PROVE  CountIsRight' /\ DiskGrows
<1>1. ASSUME NEW w \in Workers
      PROVE  Unreferenced(w)'
      BY <1>1, SameReferences DEF CountIsRight, Unreferenced
<1> QED BY <1>1 DEF CountIsRight, DiskGrows

LEMMA NextKeepsContent ==
    ASSUME Typed, OneWorker, CountIsRight, [Next]_vars
    PROVE  CountIsRight' /\ ContentStays
<1>0. DiskGrows => ContentStays
      BY DEF DiskGrows, ContentStays
<1>1. ASSUME NEW w \in Workers, Uploading(w)
      PROVE  CountIsRight' /\ ContentStays
      BY <1>0, <1>1, UploadKeepsContent DEF Uploading
<1>2. ASSUME NEW w \in Workers, Managing(w)
      PROVE  CountIsRight' /\ ContentStays
      <2>1. CASE MoveFile(w)
            <3>1. UNCHANGED <<req, disk>> /\ req[w].pc = "idle"
                  BY <2>1 DEF MoveFile, Starts, At
            <3>2. req'[w].pc \notin UnlinkSteps
                  BY <3>1 DEF UnlinkSteps
            <3> QED BY <1>0, <3>1, <3>2, NotUnlinking DEF DiskGrows
      <2> QED BY <1>0, <1>2, <2>1, ManageKeepsContent DEF Managing
<1>3. ASSUME NEW w \in Workers, Recycling(w)
      PROVE  CountIsRight' /\ ContentStays
      <2>1. ASSUME DeletePermanently(w) \/ EmptyBin(w) \/ CleanExpired(w)
            PROVE  CountIsRight' /\ ContentStays
            <3>1. PICK rows : Purges(w, rows) /\ At(w, "idle")
                  BY <2>1 DEF DeletePermanently, EmptyBin, CleanExpired, Starts
            <3>2. DiskGrows
                  BY <3>1 DEF Purges, DiskGrows, stored
            <3> QED BY <1>0, <3>1, <3>2, PurgesMoves, MovesElsewhere DEF UnlinkSteps
      <2> QED BY <1>0, <1>3, <2>1, RecycleKeepsContent, CountRefs, ReadInfo, Unlink
              DEF Recycling
<1>4. ASSUME Ticking
      PROVE  CountIsRight' /\ ContentStays
      <2>1. UNCHANGED <<req, disk>> /\ db'.userFiles = db.userFiles
            BY <1>4, UserFilesThere DEF Ticking, DeleteExpiredTasks, DeleteTasks, stored
      <2> QED BY <1>0, <2>1, QuietKeepsContent
<1>5. CASE UNCHANGED vars
      BY <1>0, <1>5, QuietKeepsContent DEF vars, stored
<1> QED BY <1>0, <1>1, <1>2, <1>3, <1>4, <1>5, CallFailsKeepsContent, CrashKeepsContent
        DEF Next

(* What leaves the disk is what nobody sees, for every list of records,    *)
(* every failure and every end of the process, as long as no two requests  *)
(* or jobs run at the same time.                                           *)
THEOREM ReferencedContentStaysHolds ==
    ASSUME OneWorker
    PROVE  Spec => ReferencedContentStays
<1>1. ASSUME Init
      PROVE  CountIsRight
      BY <1>1 DEF Init, RequestsInit, CountIsRight, Unreferenced, Idle, UnlinkSteps
<1>2. Typed /\ CountIsRight /\ [Next]_vars => CountIsRight'
      BY NextKeepsContent
<1>3. Typed /\ CountIsRight /\ [Next]_vars => [ContentStays]_vars
      BY NextKeepsContent
<1>4. Spec => [][ContentStays]_vars
      BY <1>1, <1>2, <1>3, TypedIsInvariant, PTL DEF Spec
<1> QED BY <1>4 DEF ReferencedContentStays, ContentStays

-----------------------------------------------------------------------------
(***************************************************************************)
(* The recycle bin, for any number of requests at the same time, as long   *)
(* as no call fails: a soft-deleted file has a record that nobody is about *)
(* to remove, or a request that is about to write one.                     *)
(***************************************************************************)
(* Steps of Restore and of permanentlyDelete with a record in hand.        *)
OwnSteps ==
    {"restore file", "restore dir", "restore", "refs", "purge info", "unlink", "quota",
     "return", "drop info", "hard delete", "drop record"}

KnownRow(row) == row.id \in Known("recycled")

(* A request works on records that were written, and on the file its       *)
(* record names; without a failure no instant upload is undone.            *)
Handles(w) ==
    /\ ~At(w, "rollback")
    /\ \A row \in req[w].todo : KnownRow(row)
    /\ req[w].pc \in OwnSteps =>
            KnownRow(req[w].record) /\ req[w].record.userFile = req[w].userFile

Stays(row) == \A w \in Workers : At(w, "drop record") => req[w].record # row

Found(l) ==
    \/ \E w \in Workers : At(w, "record") /\ req[w].userFile = l
    \/ \E row \in db.recycled : row.userFile = l /\ Stays(row)

BinInv ==
    /\ \A l \in DOMAIN db.userFiles : Deleted(l) => Found(l)
    /\ \A row \in db.recycled : KnownRow(row)
    /\ \A w \in Workers : Handles(w)

(* No record comes or goes, and no file is soft-deleted.                   *)
NoneTrashed ==
    /\ db'.recycled = db.recycled
    /\ \A l \in DOMAIN db'.userFiles : Deleted(l)' => Deleted(l)

KeepsTodo(w) == req'[w].todo \in {{}, req[w].todo}

SameBin == NoneTrashed /\ used'["recycled"] = used["recycled"]

LEMMA BinTables == Typed => {"recycled", "userFiles"} \subseteq DOMAIN db
BY DEF Typed, TypeOK, TablesOK

LEMMA StatementsTrashNone ==
    ASSUME Typed
    PROVE  /\ UNCHANGED db => NoneTrashed
           /\ \A f, c : CreateFileInfo(f, c) => NoneTrashed
           /\ \A f : DeleteFileInfo(f) => NoneTrashed
           /\ \A l, u, f, d : CreateUserFile(l, u, f, d) => NoneTrashed
           /\ \A l, d : MoveUserFile(l, d) => NoneTrashed
           /\ \A l, d : HasUserFile(l) /\ RestoreUserFile(l, d) =>
                            NoneTrashed /\ ~Deleted(l)'
           /\ \A l : HardDelete(l) => NoneTrashed /\ ~Deleted(l)'
           /\ \A t, row : PutTask(t, row) => NoneTrashed
           /\ \A ts : DeleteTasks(ts) => NoneTrashed
           /\ \A d, u, p : CreateDir(d, u, p) => NoneTrashed
           /\ \A d : DeleteDirRow(d) => NoneTrashed
           /\ \A u, n : UpdateUser(u, n) => NoneTrashed
<1>0. ASSUME db'.recycled = db.recycled, db'.userFiles = db.userFiles
      PROVE  NoneTrashed
      BY <1>0 DEF NoneTrashed, Deleted, HasUserFile
<1>1. UNCHANGED db => NoneTrashed
      BY <1>0
<1>2. \A f, c : CreateFileInfo(f, c) => NoneTrashed
      BY <1>0, BinTables DEF CreateFileInfo
<1>3. \A f : DeleteFileInfo(f) => NoneTrashed
      BY <1>0, BinTables DEF DeleteFileInfo
<1>4. ASSUME NEW l, NEW u, NEW f, NEW d, CreateUserFile(l, u, f, d)
      PROVE  NoneTrashed
      <2> DEFINE row == [user |-> u, file |-> f, dir |-> d, deleted |-> FALSE]
      <2>1. db'.recycled = db.recycled /\ db'.userFiles = Put(db.userFiles, l, row)
            BY <1>4, BinTables DEF CreateUserFile
      <2>2. ~row.deleted
            OBVIOUS
      <2> HIDE DEF row
      <2> QED BY <2>1, <2>2 DEF NoneTrashed, Deleted, HasUserFile, Put
<1>5. ASSUME NEW l, NEW d, MoveUserFile(l, d)
      PROVE  NoneTrashed
      <2>1. db'.recycled = db.recycled /\ db'.userFiles = [db.userFiles EXCEPT ![l].dir = d]
            BY <1>5, BinTables DEF MoveUserFile
      <2>2. \A k \in DOMAIN db.userFiles : db'.userFiles[k].deleted = db.userFiles[k].deleted
            BY <2>1
      <2> QED BY <2>1, <2>2 DEF NoneTrashed, Deleted, HasUserFile
<1>6. ASSUME NEW l, NEW d, HasUserFile(l), RestoreUserFile(l, d)
      PROVE  NoneTrashed /\ ~Deleted(l)'
      <2>1. /\ db'.recycled = db.recycled
            /\ db'.userFiles = [db.userFiles EXCEPT ![l].deleted = FALSE, ![l].dir = d]
            BY <1>6, BinTables DEF RestoreUserFile
      <2>2. "deleted" \in DOMAIN db.userFiles[l]
            BY <1>6 DEF HasUserFile, Typed, TypeOK, TablesOK, IsTable, UserFile
      <2>3. /\ DOMAIN db'.userFiles = DOMAIN db.userFiles
            /\ ~db'.userFiles[l].deleted
            /\ \A k \in DOMAIN db.userFiles \ {l} : db'.userFiles[k] = db.userFiles[k]
            BY <1>6, <2>1, <2>2 DEF HasUserFile
      <2> QED BY <2>1, <2>3 DEF NoneTrashed, Deleted, HasUserFile
<1>7. ASSUME NEW l, HardDelete(l)
      PROVE  NoneTrashed /\ ~Deleted(l)'
      <2>1. db'.recycled = db.recycled /\ db'.userFiles = Drop(db.userFiles, {l})
            BY <1>7, BinTables DEF HardDelete
      <2> QED BY <2>1 DEF NoneTrashed, Deleted, HasUserFile, Drop
<1>8. \A t, row : PutTask(t, row) => NoneTrashed
      BY <1>0, BinTables DEF PutTask
<1>9. \A ts : DeleteTasks(ts) => NoneTrashed
      BY <1>0, BinTables DEF DeleteTasks
<1>10. \A d, u, p : CreateDir(d, u, p) => NoneTrashed
      BY <1>0, BinTables DEF CreateDir
<1>11. \A d : DeleteDirRow(d) => NoneTrashed
      BY <1>0, BinTables DEF DeleteDirRow
<1>12. \A u, n : UpdateUser(u, n) => NoneTrashed
      BY <1>0, BinTables DEF UpdateUser
<1> QED BY <1>1, <1>2, <1>3, <1>4, <1>5, <1>6, <1>7, <1>8, <1>9, <1>10, <1>11, <1>12

LEMMA DrawOther ==
    ASSUME Typed, NEW kind, kind # "recycled", Draw(kind)
    PROVE  used'["recycled"] = used["recycled"]
BY DEF Typed, TypeOK, KeysOK, Kinds, Draw

(* A request that may take up a record, but not the last one of a file.    *)
LEMMA SameBinInv ==
    ASSUME BinInv, NEW w \in Workers, Others(w), SameBin, ~At(w, "record"), Handles(w)',
           At(w, "drop record")' => \A l : Deleted(l)' => req'[w].userFile # l
    PROVE  BinInv'
<1>1. ASSUME NEW row
      PROVE  KnownRow(row)' <=> KnownRow(row)
      BY DEF SameBin, KnownRow, Known
<1>2. ASSUME NEW v \in Workers
      PROVE  Handles(v)'
      <2>1. CASE v # w
            BY <1>1, <2>1 DEF Others, BinInv, Handles, At
      <2> QED BY <2>1
<1>3. \A row \in db'.recycled : KnownRow(row)'
      BY <1>1 DEF BinInv, SameBin, NoneTrashed
<1>4. ASSUME NEW l \in DOMAIN db'.userFiles, Deleted(l)'
      PROVE  Found(l)'
      <2>1. Found(l)
            BY <1>4 DEF SameBin, NoneTrashed, BinInv, Deleted, HasUserFile
      <2>2. CASE \E v \in Workers : At(v, "record") /\ req[v].userFile = l
            BY <2>2 DEF Others, Found, At
      <2>3. ASSUME NEW row \in db.recycled, row.userFile = l, Stays(row)
            PROVE  Found(l)'
            <3>1. At(w, "drop record")' => req'[w].record # row
                  BY <1>4, <2>3 DEF Handles, At, OwnSteps
            <3>2. Stays(row)'
                  BY <2>3, <3>1 DEF Stays, Others, At
            <3> QED BY <2>3, <3>2 DEF Found, SameBin, NoneTrashed
      <2> QED BY <2>1, <2>2, <2>3 DEF Found
<1> QED BY <1>2, <1>3, <1>4 DEF BinInv

LEMMA OutsideBin ==
    ASSUME BinInv, NEW w \in Workers, NEW from, NEW to, Moves(w, from, to),
           from # "record", to \cap (OwnSteps \cup {"rollback"}) = {},
           KeepsTodo(w), SameBin
    PROVE  BinInv'
<1>1. Others(w) /\ ~At(w, "record") /\ req'[w].pc \notin OwnSteps \cup {"rollback"}
      BY DEF Moves, At
<1>2. \A row \in req'[w].todo : KnownRow(row)'
      BY DEF KeepsTodo, SameBin, KnownRow, Known, BinInv, Handles
<1>3. Handles(w)' /\ ~At(w, "drop record")'
      BY <1>1, <1>2 DEF Handles, At, OwnSteps
<1> QED BY <1>1, <1>3, SameBinInv

LEMMA TodoKept ==
    ASSUME Typed, NEW w \in Workers
    PROVE  /\ \A pc : Goto(w, pc) => KeepsTodo(w)
           /\ Finish(w) => KeepsTodo(w)
           /\ AfterProgress(w) => KeepsTodo(w)
           /\ MergeFailed(w) => KeepsTodo(w)
           /\ \A d : NextDir(w, d) => KeepsTodo(w)
<1>1. \A pc : Goto(w, pc) => KeepsTodo(w)
      BY GotoMoves DEF KeepsTodo
<1>2. Finish(w) => KeepsTodo(w)
      BY FinishMoves DEF KeepsTodo, Idle
<1>3. AfterProgress(w) => KeepsTodo(w)
      BY <1>1, <1>2 DEF AfterProgress
<1>4. MergeFailed(w) => KeepsTodo(w)
      BY Fields DEF MergeFailed, KeepsTodo
<1>5. ASSUME NEW d, NextDir(w, d)
      PROVE  KeepsTodo(w)
      <2>1. CASE req[w].doomed = {d}
            BY <1>2, <1>5, <2>1 DEF NextDir
      <2>2. CASE req[w].doomed # {d}
            BY <1>5, <2>2, Fields DEF NextDir, KeepsTodo
      <2> QED BY <2>1, <2>2
<1> QED BY <1>1, <1>2, <1>3, <1>4, <1>5

LEMMA UploadBin ==
    ASSUME Typed, BinInv, NEW w \in Workers,
           Precheck(w) \/ FindCandidate(w) \/ InstantLink(w) \/ InstantDeduct(w)
           \/ CreateTask(w) \/ CachePrecheck(w) \/ UploadChunk(w) \/
           UploadChunkLate(w) \/ EvictPrecheck(w) \/ MakeTempDir(w) \/
           SaveOpen(w) \/ SaveCopy(w) \/ CountChunks(w) \/ ReadTask(w) \/
           WriteTask(w) \/ LockMerge(w) \/ MergeChunk(w) \/ RemoveTempDir(w) \/
           InsertFileInfo(w) \/ InsertUserFile(w) \/ CleanPrecheckCache(w) \/
           UnlockMerge(w) \/ RenameUpload(w)
    PROVE  BinInv'
<1>1. CASE Precheck(w)
      <2>1. NoneTrashed
            BY <1>1, StatementsTrashNone DEF Precheck, stored
      <2>2. used'["recycled"] = used["recycled"]
            BY <1>1 DEF Precheck, stored
      <2>3. KeepsTodo(w)
            <3>1. ASSUME NEW u, NEW c, NEW d, NEW n,
                         req' = [req EXCEPT ![w].pc = "candidate", ![w].user = u,
                                            ![w].content = c, ![w].dir = d, ![w].free = n]
                  PROVE  KeepsTodo(w)
                  BY <3>1, Fields DEF KeepsTodo
            <3>2. PICK u, c, d :
                    req' = [req EXCEPT ![w].pc = "candidate", ![w].user = u, ![w].content = c,
                                       ![w].dir = d, ![w].free = db.freeSpace[u]]
                  BY <1>1 DEF Precheck
            <3> QED BY ONLY <3>1, <3>2
      <2> QED BY <1>1, <2>1, <2>2, <2>3, PrecheckMoves, OutsideBin DEF SameBin, OwnSteps
<1>2. CASE FindCandidate(w)
      <2>1. NoneTrashed
            BY <1>2, StatementsTrashNone DEF FindCandidate, stored
      <2>2. used'["recycled"] = used["recycled"]
            BY <1>2 DEF FindCandidate, stored
      <2>3. KeepsTodo(w)
            BY <1>2, Fields, TodoKept DEF FindCandidate, KeepsTodo
      <2> QED BY <1>2, <2>1, <2>2, <2>3, FindCandidateMoves, OutsideBin DEF SameBin, OwnSteps
<1>3. CASE InstantLink(w)
      <2>1. NoneTrashed
            BY <1>3, StatementsTrashNone DEF InstantLink, stored
      <2>2. used'["recycled"] = used["recycled"]
            BY <1>3, DrawOther DEF InstantLink
      <2>3. KeepsTodo(w)
            BY <1>3, Fields, TodoKept DEF InstantLink, KeepsTodo
      <2> QED BY <1>3, <2>1, <2>2, <2>3, InstantLinkMoves, OutsideBin DEF SameBin, OwnSteps
<1>4. CASE InstantDeduct(w)
      <2>1. NoneTrashed
            BY <1>4, StatementsTrashNone DEF InstantDeduct, stored
      <2>2. used'["recycled"] = used["recycled"]
            BY <1>4 DEF InstantDeduct, stored
      <2>3. KeepsTodo(w)
            BY <1>4, TodoKept DEF InstantDeduct
      <2> QED BY <1>4, <2>1, <2>2, <2>3, InstantDeductMoves, OutsideBin DEF SameBin, OwnSteps
<1>5. CASE CreateTask(w)
      <2>1. NoneTrashed
            BY <1>5, StatementsTrashNone DEF CreateTask, stored
      <2>2. used'["recycled"] = used["recycled"]
            BY <1>5, DrawOther DEF CreateTask
      <2>3. KeepsTodo(w)
            BY <1>5, Fields DEF CreateTask, KeepsTodo
      <2> QED BY <1>5, <2>1, <2>2, <2>3, CreateTaskMoves, OutsideBin DEF SameBin, OwnSteps
<1>6. CASE CachePrecheck(w)
      <2>1. NoneTrashed
            BY <1>6, StatementsTrashNone DEF CachePrecheck, stored
      <2>2. used'["recycled"] = used["recycled"]
            BY <1>6 DEF CachePrecheck, stored
      <2>3. KeepsTodo(w)
            BY <1>6, TodoKept DEF CachePrecheck
      <2> QED BY <1>6, <2>1, <2>2, <2>3, CachePrecheckMoves, OutsideBin DEF SameBin, OwnSteps
<1>7. CASE UploadChunk(w)
      <2>1. NoneTrashed
            BY <1>7, StatementsTrashNone DEF UploadChunk, stored
      <2>2. used'["recycled"] = used["recycled"]
            BY <1>7 DEF UploadChunk, stored
      <2>3. KeepsTodo(w)
            <3>1. ASSUME NEW t, NEW p, NEW u, NEW n, NEW c, NEW d,
                         req' = [req EXCEPT ![w].pc = "mkdir", ![w].task = t, ![w].part = p,
                                            ![w].user = u, ![w].total = n, ![w].content = c,
                                            ![w].dir = d]
                  PROVE  KeepsTodo(w)
                  BY <3>1, Fields DEF KeepsTodo
            <3>2. PICK t \in DOMAIN items, p \in UploadParts, u \in Users, n \in {0} \cup Totals :
                    /\ p # Single => n \in Totals
                    /\ req' = [req EXCEPT ![w].pc = "mkdir", ![w].task = t, ![w].part = p,
                                          ![w].user = u, ![w].total = n,
                                          ![w].content = items[t].value.content,
                                          ![w].dir = items[t].value.dir]
                  BY <1>7, ChunkRequest, Zenon
            <3> QED BY ONLY <3>1, <3>2
      <2> QED BY <1>7, <2>1, <2>2, <2>3, UploadChunkMoves, OutsideBin DEF SameBin, OwnSteps
<1>8. CASE UploadChunkLate(w)
      <2>1. NoneTrashed
            BY <1>8, StatementsTrashNone DEF UploadChunkLate, stored
      <2>2. used'["recycled"] = used["recycled"]
            BY <1>8 DEF UploadChunkLate, stored
      <2>3. KeepsTodo(w)
            BY <1>8, Fields DEF UploadChunkLate, KeepsTodo
      <2> QED BY <1>8, <2>1, <2>2, <2>3, UploadChunkLateMoves, OutsideBin DEF SameBin, OwnSteps
<1>9. CASE EvictPrecheck(w)
      <2>1. NoneTrashed
            BY <1>9, StatementsTrashNone DEF EvictPrecheck, stored
      <2>2. used'["recycled"] = used["recycled"]
            BY <1>9 DEF EvictPrecheck, stored
      <2>3. KeepsTodo(w)
            BY <1>9, TodoKept DEF EvictPrecheck
      <2> QED BY <1>9, <2>1, <2>2, <2>3, EvictPrecheckMoves, OutsideBin DEF SameBin, OwnSteps
<1>10. CASE MakeTempDir(w)
      <2>1. NoneTrashed
            BY <1>10, StatementsTrashNone DEF MakeTempDir, stored
      <2>2. used'["recycled"] = used["recycled"]
            BY <1>10 DEF MakeTempDir, stored
      <2>3. KeepsTodo(w)
            BY <1>10, TodoKept DEF MakeTempDir
      <2> QED BY <1>10, <2>1, <2>2, <2>3, MakeTempDirMoves, OutsideBin DEF SameBin, OwnSteps
<1>11. CASE SaveOpen(w)
      <2>1. NoneTrashed
            BY <1>11, StatementsTrashNone DEF SaveOpen, stored
      <2>2. used'["recycled"] = used["recycled"]
            BY <1>11 DEF SaveOpen, stored
      <2>3. KeepsTodo(w)
            BY <1>11, TodoKept DEF SaveOpen
      <2> QED BY <1>11, <2>1, <2>2, <2>3, SaveOpenMoves, OutsideBin DEF SameBin, OwnSteps
<1>12. CASE SaveCopy(w)
      <2>1. NoneTrashed
            BY <1>12, StatementsTrashNone DEF SaveCopy, stored
      <2>2. used'["recycled"] = used["recycled"]
            BY <1>12 DEF SaveCopy, stored
      <2>3. KeepsTodo(w)
            BY <1>12, TodoKept DEF SaveCopy
      <2> QED BY <1>12, <2>1, <2>2, <2>3, SaveCopyMoves, OutsideBin DEF SameBin, OwnSteps
<1>13. CASE CountChunks(w)
      <2>1. NoneTrashed
            BY <1>13, StatementsTrashNone DEF CountChunks, stored
      <2>2. used'["recycled"] = used["recycled"]
            BY <1>13 DEF CountChunks, stored
      <2>3. KeepsTodo(w)
            BY <1>13, Fields DEF CountChunks, KeepsTodo
      <2> QED BY <1>13, <2>1, <2>2, <2>3, CountChunksMoves, OutsideBin DEF SameBin, OwnSteps
<1>14. CASE ReadTask(w)
      <2>1. NoneTrashed
            BY <1>14, StatementsTrashNone DEF ReadTask, stored
      <2>2. used'["recycled"] = used["recycled"]
            BY <1>14 DEF ReadTask, stored
      <2>3. KeepsTodo(w)
            BY <1>14, Fields, TodoKept DEF ReadTask, KeepsTodo
      <2> QED BY <1>14, <2>1, <2>2, <2>3, ReadTaskMoves, OutsideBin DEF SameBin, OwnSteps
<1>15. CASE WriteTask(w)
      <2>1. NoneTrashed
            BY <1>15, StatementsTrashNone DEF WriteTask, stored
      <2>2. used'["recycled"] = used["recycled"]
            BY <1>15 DEF WriteTask, stored
      <2>3. KeepsTodo(w)
            BY <1>15, TodoKept DEF WriteTask
      <2> QED BY <1>15, <2>1, <2>2, <2>3, WriteTaskMoves, OutsideBin DEF SameBin, OwnSteps
<1>16. CASE LockMerge(w)
      <2>1. NoneTrashed
            BY <1>16, StatementsTrashNone DEF LockMerge, stored
      <2>2. used'["recycled"] = used["recycled"]
            BY <1>16, DrawOther DEF LockMerge
      <2>3. KeepsTodo(w)
            BY <1>16, StartMergeMoves, TodoKept DEF LockMerge, KeepsTodo
      <2> QED BY <1>16, <2>1, <2>2, <2>3, LockMergeMoves, OutsideBin DEF SameBin, OwnSteps
<1>17. CASE MergeChunk(w)
      <2>1. NoneTrashed
            BY <1>17, StatementsTrashNone DEF MergeChunk, stored
      <2>2. used'["recycled"] = used["recycled"]
            BY <1>17 DEF MergeChunk, stored
      <2>3. KeepsTodo(w)
            BY <1>17, Fields, TodoKept DEF MergeChunk, KeepsTodo
      <2> QED BY <1>17, <2>1, <2>2, <2>3, MergeChunkMoves, OutsideBin DEF SameBin, OwnSteps
<1>18. CASE RemoveTempDir(w)
      <2>1. NoneTrashed
            BY <1>18, StatementsTrashNone DEF RemoveTempDir, stored
      <2>2. used'["recycled"] = used["recycled"]
            BY <1>18 DEF RemoveTempDir, stored
      <2>3. KeepsTodo(w)
            BY <1>18, TodoKept DEF RemoveTempDir
      <2> QED BY <1>18, <2>1, <2>2, <2>3, RemoveTempDirMoves, OutsideBin DEF SameBin, OwnSteps
<1>19. CASE InsertFileInfo(w)
      <2>1. NoneTrashed
            BY <1>19, StatementsTrashNone DEF InsertFileInfo, stored
      <2>2. used'["recycled"] = used["recycled"]
            BY <1>19 DEF InsertFileInfo, stored
      <2>3. KeepsTodo(w)
            BY <1>19, TodoKept DEF InsertFileInfo
      <2> QED BY <1>19, <2>1, <2>2, <2>3, InsertFileInfoMoves, OutsideBin DEF SameBin, OwnSteps
<1>20. CASE InsertUserFile(w)
      <2>1. NoneTrashed
            BY <1>20, StatementsTrashNone DEF InsertUserFile, stored
      <2>2. used'["recycled"] = used["recycled"]
            BY <1>20, DrawOther DEF InsertUserFile
      <2>3. KeepsTodo(w)
            BY <1>20, Fields DEF InsertUserFile, KeepsTodo
      <2> QED BY <1>20, <2>1, <2>2, <2>3, InsertUserFileMoves, OutsideBin DEF SameBin, OwnSteps
<1>21. CASE CleanPrecheckCache(w)
      <2>1. NoneTrashed
            BY <1>21, StatementsTrashNone DEF CleanPrecheckCache, stored
      <2>2. used'["recycled"] = used["recycled"]
            BY <1>21 DEF CleanPrecheckCache, stored
      <2>3. KeepsTodo(w)
            BY <1>21, TodoKept DEF CleanPrecheckCache
      <2> QED BY <1>21, <2>1, <2>2, <2>3, CleanPrecheckCacheMoves, OutsideBin DEF SameBin, OwnSteps
<1>22. CASE UnlockMerge(w)
      <2>1. NoneTrashed
            BY <1>22, StatementsTrashNone DEF UnlockMerge, stored
      <2>2. used'["recycled"] = used["recycled"]
            BY <1>22 DEF UnlockMerge, stored
      <2>3. KeepsTodo(w)
            BY <1>22, TodoKept DEF UnlockMerge
      <2> QED BY <1>22, <2>1, <2>2, <2>3, UnlockMergeMoves, OutsideBin DEF SameBin, OwnSteps
<1>23. CASE RenameUpload(w)
      <2>1. NoneTrashed
            BY <1>23, StatementsTrashNone DEF RenameUpload, stored
      <2>2. used'["recycled"] = used["recycled"]
            BY <1>23, DrawOther DEF RenameUpload
      <2>3. KeepsTodo(w)
            BY <1>23, Fields, TodoKept DEF RenameUpload, KeepsTodo
      <2> QED BY <1>23, <2>1, <2>2, <2>3, RenameUploadMoves, OutsideBin DEF SameBin, OwnSteps
<1> QED BY <1>1, <1>2, <1>3, <1>4, <1>5, <1>6, <1>7, <1>8, <1>9, <1>10, <1>11,
           <1>12, <1>13, <1>14, <1>15, <1>16, <1>17, <1>18, <1>19, <1>20, <1>21,
           <1>22, <1>23

LEMMA ManageBin ==
    ASSUME Typed, BinInv, NEW w \in Workers,
           RenewUploadTask(w) \/ RenewWriteTask(w) \/ DeleteUploadTask(w) \/
           DropTask(w) \/ MakeDir(w) \/ InsertDir(w) \/ DeleteDir(w) \/
           DropDir(w)
    PROVE  BinInv'
<1>1. CASE RenewUploadTask(w)
      <2>1. NoneTrashed
            BY <1>1, StatementsTrashNone DEF RenewUploadTask, stored
      <2>2. used'["recycled"] = used["recycled"]
            BY <1>1 DEF RenewUploadTask, stored
      <2>3. KeepsTodo(w)
            <3>1. ASSUME NEW t, NEW s, NEW n, NEW e,
                         req' = [req EXCEPT ![w].pc = "renew", ![w].task = t, ![w].status = s,
                                            ![w].uploaded = n, ![w].expires = e]
                  PROVE  KeepsTodo(w)
                  BY <3>1, Fields DEF KeepsTodo
            <3>2. PICK t : req' = [req EXCEPT ![w].pc = "renew", ![w].task = t,
                                              ![w].status = db.uploadTasks[t].status,
                                              ![w].uploaded = db.uploadTasks[t].uploaded,
                                              ![w].expires = clock + TaskTTL]
                  BY <1>1 DEF RenewUploadTask
            <3> QED BY ONLY <3>1, <3>2
      <2> QED BY <1>1, <2>1, <2>2, <2>3, RenewUploadTaskMoves, OutsideBin DEF SameBin, OwnSteps
<1>2. CASE RenewWriteTask(w)
      <2>1. NoneTrashed
            BY <1>2, StatementsTrashNone DEF RenewWriteTask, stored
      <2>2. used'["recycled"] = used["recycled"]
            BY <1>2 DEF RenewWriteTask, stored
      <2>3. KeepsTodo(w)
            BY <1>2, TodoKept DEF RenewWriteTask
      <2> QED BY <1>2, <2>1, <2>2, <2>3, RenewWriteTaskMoves, OutsideBin DEF SameBin, OwnSteps
<1>3. CASE DeleteUploadTask(w)
      <2>1. NoneTrashed
            BY <1>3, StatementsTrashNone DEF DeleteUploadTask, stored
      <2>2. used'["recycled"] = used["recycled"]
            BY <1>3 DEF DeleteUploadTask, stored
      <2>3. KeepsTodo(w)
            BY <1>3, Fields DEF DeleteUploadTask, KeepsTodo
      <2> QED BY <1>3, <2>1, <2>2, <2>3, DeleteUploadTaskMoves, OutsideBin DEF SameBin, OwnSteps
<1>4. CASE DropTask(w)
      <2>1. NoneTrashed
            BY <1>4, StatementsTrashNone DEF DropTask, stored
      <2>2. used'["recycled"] = used["recycled"]
            BY <1>4 DEF DropTask, stored
      <2>3. KeepsTodo(w)
            BY <1>4, TodoKept DEF DropTask
      <2> QED BY <1>4, <2>1, <2>2, <2>3, DropTaskMoves, OutsideBin DEF SameBin, OwnSteps
<1>5. CASE MakeDir(w)
      <2>1. NoneTrashed
            BY <1>5, StatementsTrashNone DEF MakeDir, stored
      <2>2. used'["recycled"] = used["recycled"]
            BY <1>5 DEF MakeDir, stored
      <2>3. KeepsTodo(w)
            BY <1>5, Fields DEF MakeDir, KeepsTodo
      <2> QED BY <1>5, <2>1, <2>2, <2>3, MakeDirMoves, OutsideBin DEF SameBin, OwnSteps
<1>6. CASE InsertDir(w)
      <2>1. NoneTrashed
            BY <1>6, StatementsTrashNone DEF InsertDir, stored
      <2>2. used'["recycled"] = used["recycled"]
            BY <1>6, DrawOther DEF InsertDir
      <2>3. KeepsTodo(w)
            BY <1>6, TodoKept DEF InsertDir
      <2> QED BY <1>6, <2>1, <2>2, <2>3, InsertDirMoves, OutsideBin DEF SameBin, OwnSteps
<1>7. CASE DeleteDir(w)
      <2>1. NoneTrashed
            BY <1>7, StatementsTrashNone DEF DeleteDir, stored
      <2>2. used'["recycled"] = used["recycled"]
            BY <1>7 DEF DeleteDir, stored
      <2>3. KeepsTodo(w)
            BY <1>7, Fields DEF DeleteDir, KeepsTodo
      <2> QED BY <1>7, <2>1, <2>2, <2>3, DeleteDirMoves, OutsideBin DEF SameBin, OwnSteps
<1>8. CASE DropDir(w)
      <2>1. NoneTrashed
            BY <1>8, StatementsTrashNone DEF DropDir, stored
      <2>2. used'["recycled"] = used["recycled"]
            BY <1>8 DEF DropDir, stored
      <2>3. KeepsTodo(w)
            BY <1>8, TodoKept DEF DropDir
      <2> QED BY <1>8, <2>1, <2>2, <2>3, DropDirMoves, OutsideBin DEF SameBin, OwnSteps
<1> QED BY <1>1, <1>2, <1>3, <1>4, <1>5, <1>6, <1>7, <1>8

-----------------------------------------------------------------------------
(***************************************************************************)
(* Steps of the recycle bin.  A step that keeps its record keeps what is   *)
(* known of it.                                                            *)
(***************************************************************************)
LEMMA KeepsRecord ==
    ASSUME BinInv, NEW w \in Workers, req[w].pc \in OwnSteps, req'[w].pc \in OwnSteps,
           req'[w].record = req[w].record, req'[w].userFile = req[w].userFile,
           KeepsTodo(w), SameBin
    PROVE  Handles(w)'
BY DEF BinInv, Handles, KeepsTodo, SameBin, KnownRow, Known, At, OwnSteps

(* On to a step before the last, with the record in hand.                  *)
LEMMA OnwardBin ==
    ASSUME Typed, BinInv, NEW w \in Workers, req[w].pc \in OwnSteps,
           NEW pc \in OwnSteps \ {"drop record"}, Goto(w, pc), SameBin
    PROVE  BinInv'
<1>1. Others(w) /\ ~At(w, "record") /\ KeepsTodo(w)
      BY GotoMoves, TodoKept DEF At, OwnSteps
<1>2. Handles(w)'
      BY <1>1, GotoMoves, KeepsRecord
<1> QED BY <1>1, <1>2, GotoMoves, SameBinInv DEF At

LEMMA FinishBin ==
    ASSUME Typed, BinInv, NEW w \in Workers, ~At(w, "record"), Finish(w), SameBin
    PROVE  BinInv'
<1>1. Moves(w, req[w].pc, {"idle"}) /\ KeepsTodo(w)
      BY FinishMoves, TodoKept DEF Moves, At
<1> QED BY <1>1, OutsideBin DEF OwnSteps, At

(* The file has no row that is soft-deleted, so its record may go.         *)
LEMMA LastBin ==
    ASSUME Typed, BinInv, NEW w \in Workers, req[w].pc \in OwnSteps, Goto(w, "drop record"),
           ~Deleted(req[w].userFile)', SameBin
    PROVE  BinInv'
<1>1. Others(w) /\ ~At(w, "record") /\ KeepsTodo(w)
      BY GotoMoves, TodoKept DEF At, OwnSteps
<1>2. Handles(w)'
      BY <1>1, GotoMoves, KeepsRecord DEF OwnSteps
<1>3. ASSUME NEW l, Deleted(l)'
      PROVE  req'[w].userFile # l
      BY <1>3, GotoMoves
<1> QED BY <1>1, <1>2, <1>3, SameBinInv

LEMMA NextRecordBin ==
    ASSUME Typed, BinInv, NEW w \in Workers, ~At(w, "record"), NextRecord(w), SameBin
    PROVE  BinInv'
<1>1. CASE req[w].todo = {}
      BY <1>1, FinishBin DEF NextRecord
<1>2. CASE req[w].todo # {}
      <2>1. KeepsTodo(w)
            BY <1>2, Fields DEF NextRecord, KeepsTodo, Idle
      <2>2. Moves(w, req[w].pc, {"idle", "purge"})
            BY NextRecordMoves DEF Moves, At
      <2> QED BY <2>1, <2>2, OutsideBin DEF OwnSteps, At
<1> QED BY <1>1, <1>2

LEMMA MoveToRecycledBin ==
    ASSUME Typed, BinInv, NEW w \in Workers, MoveToRecycled(w)
    PROVE  BinInv'
<1>1. PICK l \in DOMAIN db.userFiles :
        /\ SoftDelete(l)
        /\ req' = [req EXCEPT ![w].pc = "record", ![w].userFile = l,
                              ![w].user = db.userFiles[l].user]
      BY DEF MoveToRecycled
<1>2. Others(w) /\ At(w, "idle") /\ req'[w].pc = "record"
      BY MoveToRecycledMoves DEF Moves
<1>3. req'[w].userFile = l /\ KeepsTodo(w)
      <2>1. ASSUME NEW u, req' = [req EXCEPT ![w].pc = "record", ![w].userFile = l, ![w].user = u]
            PROVE  req'[w].userFile = l /\ KeepsTodo(w)
            BY <2>1, Fields DEF KeepsTodo
      <2> QED BY <1>1, <2>1
<1>4. /\ db'.recycled = db.recycled
      /\ db'.userFiles = [db.userFiles EXCEPT ![l].deleted = TRUE]
      /\ UNCHANGED used
      BY <1>1, BinTables DEF SoftDelete, MoveToRecycled
<1>5. /\ DOMAIN db'.userFiles = DOMAIN db.userFiles
      /\ \A k \in DOMAIN db.userFiles \ {l} : db'.userFiles[k] = db.userFiles[k]
      BY <1>4
<1>6. ASSUME NEW row
      PROVE  /\ KnownRow(row)' <=> KnownRow(row)
             /\ Stays(row) => Stays(row)'
      BY <1>2, <1>4 DEF KnownRow, Known, Stays, Others, At
<1>7. ASSUME NEW k \in DOMAIN db'.userFiles, Deleted(k)'
      PROVE  Found(k)'
      <2>1. CASE k = l
            BY <1>2, <1>3, <2>1 DEF Found, At
      <2>2. CASE k # l
            <3>1. Found(k)
                  BY <1>5, <1>7, <2>2 DEF Deleted, HasUserFile, BinInv
            <3>2. CASE \E v \in Workers : At(v, "record") /\ req[v].userFile = k
                  BY <1>2, <3>2 DEF Others, Found, At
            <3>3. CASE \E row \in db.recycled : row.userFile = k /\ Stays(row)
                  BY <1>4, <1>6, <3>3 DEF Found
            <3> QED BY <3>1, <3>2, <3>3 DEF Found
      <2> QED BY <2>1, <2>2
<1>8. ASSUME NEW v \in Workers
      PROVE  Handles(v)'
      <2>1. CASE v # w
            BY <1>2, <1>6, <2>1 DEF Others, BinInv, Handles, At
      <2>2. CASE v = w
            BY <1>2, <1>3, <1>6, <2>2 DEF BinInv, Handles, KeepsTodo, At, OwnSteps
      <2> QED BY <2>1, <2>2
<1> QED BY <1>4, <1>6, <1>7, <1>8 DEF BinInv

(* The identifier of the new record is one nobody has.                     *)
LEMMA InsertRecycledBin ==
    ASSUME Typed, BinInv, NEW w \in Workers, InsertRecycled(w)
    PROVE  BinInv'
<1>0. PICK id, new :
        /\ id = NextKey("recycled")
        /\ new = [id |-> id, user |-> req[w].user, userFile |-> req[w].userFile]
      OBVIOUS
<1>1. Others(w) /\ req'[w].pc = "idle" /\ req'[w].todo = {}
      BY FinishMoves DEF InsertRecycled, Idle
<1>2. db'.recycled = db.recycled \cup {new} /\ db'.userFiles = db.userFiles
      BY <1>0, BinTables DEF InsertRecycled, CreateRecycled
<1>3. Known("recycled") \subseteq Known("recycled")' /\ id \in Known("recycled")' /\
      id \notin Known("recycled")
      BY <1>0 DEF InsertRecycled, Draw, Known, NextKey, Typed, TypeOK, KeysOK, Kinds
<1>4. new.id = id /\ new.userFile = req[w].userFile
      BY <1>0
<1>5. ASSUME NEW row, KnownRow(row)
      PROVE  KnownRow(row)' /\ row # new
      BY <1>3, <1>4, <1>5 DEF KnownRow
<1>6. KnownRow(new)'
      BY <1>3, <1>4 DEF KnownRow
<1>7. ASSUME NEW row, Stays(row)
      PROVE  Stays(row)'
      BY <1>1, <1>7 DEF Stays, Others, At
<1>8. Stays(new)'
      BY <1>1, <1>5 DEF Stays, Others, At, BinInv, Handles, OwnSteps
<1>9. ASSUME NEW l \in DOMAIN db'.userFiles, Deleted(l)'
      PROVE  Found(l)'
      <2>1. Found(l)
            BY <1>2, <1>9 DEF Deleted, HasUserFile, BinInv
      <2>2. CASE \E row \in db.recycled : row.userFile = l /\ Stays(row)
            BY <1>2, <1>7, <2>2 DEF Found
      <2>3. ASSUME NEW v \in Workers, At(v, "record"), req[v].userFile = l
            PROVE  Found(l)'
            <3>1. CASE v = w
                  BY <1>2, <1>4, <1>8, <2>3, <3>1 DEF Found
            <3>2. CASE v # w
                  BY <1>1, <2>3, <3>2 DEF Others, Found, At
            <3> QED BY <3>1, <3>2
      <2> QED BY <2>1, <2>2, <2>3 DEF Found
<1>10. ASSUME NEW v \in Workers
       PROVE  Handles(v)'
      <2>1. CASE v # w
            BY <1>1, <1>5, <2>1 DEF Others, BinInv, Handles, At
      <2>2. CASE v = w
            BY <1>1, <2>2 DEF Handles, At, OwnSteps
      <2> QED BY <2>1, <2>2
<1> QED BY <1>2, <1>5, <1>6, <1>9, <1>10 DEF BinInv

LEMMA RestoreBin ==
    ASSUME Typed, BinInv, NEW w \in Workers, Restore(w)
    PROVE  BinInv'
<1>1. PICK row \in db.recycled :
        req' = [req EXCEPT ![w].pc = "restore file", ![w].record = row, ![w].user = row.user,
                           ![w].userFile = row.userFile]
      BY DEF Restore
<1>2. Others(w) /\ At(w, "idle") /\ req'[w].pc = "restore file"
      BY RestoreMoves DEF Moves
<1>3. req'[w].record = row /\ req'[w].userFile = row.userFile /\ KeepsTodo(w)
      <2>1. ASSUME NEW r, NEW u, NEW l,
                   req' = [req EXCEPT ![w].pc = "restore file", ![w].record = r,
                                      ![w].user = u, ![w].userFile = l]
            PROVE  req'[w].record = r /\ req'[w].userFile = l /\ KeepsTodo(w)
            BY <2>1, Fields DEF KeepsTodo
      <2> DEFINE u == row.user
                 l == row.userFile
      <2>2. req' = [req EXCEPT ![w].pc = "restore file", ![w].record = row,
                               ![w].user = u, ![w].userFile = l]
            BY <1>1
      <2> HIDE DEF u, l
      <2>3. req'[w].record = row /\ req'[w].userFile = l /\ KeepsTodo(w)
            BY <2>1, <2>2
      <2> QED BY <2>3 DEF l
<1>4. SameBin
      BY StatementsTrashNone DEF Restore, stored, SameBin
<1>5. Handles(w)'
      BY <1>2, <1>3, <1>4 DEF Handles, BinInv, KeepsTodo, SameBin, KnownRow, Known, At
<1> QED BY <1>2, <1>4, <1>5, SameBinInv DEF At

LEMMA RestoreReadFileBin ==
    ASSUME Typed, BinInv, NEW w \in Workers, RestoreReadFile(w)
    PROVE  BinInv'
<1>1. SameBin
      BY StatementsTrashNone DEF RestoreReadFile, stored, SameBin
<1>2. At(w, "restore file")
      BY Zenon DEF RestoreReadFile
<1>3. CASE Finish(w)
      BY <1>1, <1>2, <1>3, FinishBin DEF At
<1>4. ASSUME NEW d, NEW pc \in {"restore", "restore dir"},
             req' = [req EXCEPT ![w].pc = pc, ![w].dir = d]
      PROVE  BinInv'
      <2>1. /\ req'[w].pc = pc
            /\ req'[w].record = req[w].record
            /\ req'[w].userFile = req[w].userFile
            /\ KeepsTodo(w)
            BY <1>4, Fields DEF KeepsTodo
      <2>2. Others(w)
            BY <1>4, RequestsType DEF Others
      <2>3. Handles(w)'
            BY <1>1, <1>2, <2>1, KeepsRecord DEF At, OwnSteps
      <2> QED BY <1>1, <1>2, <2>1, <2>2, <2>3, SameBinInv DEF At
<1> QED BY <1>3, <1>4 DEF RestoreReadFile

LEMMA RestoreToRootBin ==
    ASSUME Typed, BinInv, NEW w \in Workers, At(w, "restore dir"), RestoreToRoot(w), SameBin
    PROVE  BinInv'
<1>1. CASE Finish(w)
      BY <1>1, FinishBin DEF At
<1>2. ASSUME NEW d, req' = [req EXCEPT ![w].pc = "restore", ![w].dir = d]
      PROVE  BinInv'
      <2>1. /\ req'[w].pc = "restore"
            /\ req'[w].record = req[w].record
            /\ req'[w].userFile = req[w].userFile
            /\ KeepsTodo(w)
            BY <1>2, Fields DEF KeepsTodo
      <2>2. Others(w)
            BY <1>2, RequestsType DEF Others
      <2>3. Handles(w)'
            BY <2>1, KeepsRecord DEF At, OwnSteps
      <2> QED BY <2>1, <2>2, <2>3, SameBinInv DEF At
<1> QED BY <1>1, <1>2 DEF RestoreToRoot

LEMMA RestoreReadDirBin ==
    ASSUME Typed, BinInv, NEW w \in Workers, RestoreReadDir(w)
    PROVE  BinInv'
<1>1. SameBin /\ At(w, "restore dir")
      BY StatementsTrashNone DEF RestoreReadDir, stored, SameBin
<1>2. CASE Goto(w, "restore")
      BY <1>1, <1>2, OnwardBin DEF At, OwnSteps
<1> QED BY <1>1, <1>2, RestoreToRootBin DEF RestoreReadDir

LEMMA RestoreApplyBin ==
    ASSUME Typed, BinInv, NEW w \in Workers, RestoreApply(w)
    PROVE  BinInv'
<1>1. At(w, "restore") /\ UNCHANGED used
      BY DEF RestoreApply
<1>2. CASE HasUserFile(req[w].userFile)
      <2>1. PICK l : l = req[w].userFile
            OBVIOUS
      <2>2. NoneTrashed /\ ~Deleted(l)' /\ Goto(w, "drop record")
            BY <1>2, <2>1, StatementsTrashNone DEF RestoreApply
      <2>3. req'[w].userFile = l
            BY <2>1, <2>2, GotoMoves
      <2> QED BY <1>1, <2>2, <2>3, LastBin DEF At, OwnSteps, SameBin
<1>3. CASE ~HasUserFile(req[w].userFile)
      <2>1. NoneTrashed /\ Finish(w)
            BY <1>3, StatementsTrashNone DEF RestoreApply
      <2> QED BY <1>1, <2>1, FinishBin DEF At, SameBin
<1> QED BY <1>2, <1>3

LEMMA PurgesBin ==
    ASSUME Typed, BinInv, NEW w \in Workers, At(w, "idle"),
           NEW rows \in SUBSET db.recycled, Purges(w, rows)
    PROVE  BinInv'
<1>1. SameBin
      BY StatementsTrashNone DEF Purges, stored, SameBin
<1>2. Others(w) /\ req'[w].pc = "purge"
      BY PurgesMoves DEF Moves
<1>3. req'[w].todo = rows
      BY Fields DEF Purges
<1>4. Handles(w)'
      BY <1>1, <1>2, <1>3 DEF Handles, At, OwnSteps, BinInv, SameBin, KnownRow, Known
<1> QED BY <1>1, <1>2, <1>4, SameBinInv DEF At

LEMMA StartPurgeBin ==
    ASSUME Typed, BinInv, NEW w \in Workers,
           DeletePermanently(w) \/ EmptyBin(w) \/ CleanExpired(w)
    PROVE  BinInv'
<1>1. PICK rows \in SUBSET db.recycled : Purges(w, rows) /\ At(w, "idle")
      BY DEF DeletePermanently, EmptyBin, CleanExpired, Starts
<1> QED BY <1>1, PurgesBin

(* The record of a file that has gone is dropped at once.                  *)
LEMMA PurgeReadFileBin ==
    ASSUME Typed, BinInv, NEW w \in Workers, PurgeReadFile(w)
    PROVE  BinInv'
<1>1. SameBin /\ At(w, "purge")
      BY StatementsTrashNone DEF PurgeReadFile, stored, SameBin
<1>2. ASSUME NEW row \in req[w].todo, NEW pc \in {"refs", "drop record"}, NEW f,
             Take(w, row, pc, f), pc = "drop record" => ~HasUserFile(row.userFile)
      PROVE  BinInv'
      <2>1. PICK u, l, rest :
              /\ l = row.userFile
              /\ rest = req[w].todo \ {row}
              /\ u = row.user
            OBVIOUS
      <2>2. req' = [req EXCEPT ![w].pc = pc, ![w].record = row, ![w].user = u,
                               ![w].userFile = l, ![w].file = f, ![w].todo = rest]
            BY <1>2, <2>1, Fields DEF Take
      <2>3. /\ req'[w].pc = pc
            /\ req'[w].record = row
            /\ req'[w].userFile = l
            /\ req'[w].todo = rest
            BY <2>2, Fields
      <2>4. Others(w)
            BY <2>2, RequestsType DEF Others
      <2>5. KnownRow(row)' /\ \A r \in rest : KnownRow(r)'
            BY <1>1, <2>1 DEF BinInv, Handles, SameBin, KnownRow, Known
      <2>6. Handles(w)'
            BY <1>2, <2>1, <2>3, <2>5 DEF Handles, At
      <2>7. ASSUME NEW k, Deleted(k)', pc = "drop record"
            PROVE  l # k
            <3>1. HasUserFile(k)
                  BY <2>7 DEF PurgeReadFile, stored, Deleted, HasUserFile
            <3> QED BY <1>2, <2>1, <2>7, <3>1
      <2> QED BY <1>1, <2>3, <2>4, <2>6, <2>7, SameBinInv DEF At
<1> QED BY <1>2 DEF PurgeReadFile

LEMMA PurgeReadQuotaBin ==
    ASSUME Typed, BinInv, NEW w \in Workers, PurgeReadQuota(w)
    PROVE  BinInv'
<1>1. SameBin /\ At(w, "quota")
      BY StatementsTrashNone DEF PurgeReadQuota, stored, SameBin
<1>2. CASE Goto(w, "drop info")
      BY <1>1, <1>2, OnwardBin DEF At, OwnSteps
<1>3. ASSUME NEW n, req' = [req EXCEPT ![w].pc = "return", ![w].free = n]
      PROVE  BinInv'
      <2>1. /\ req'[w].pc = "return"
            /\ req'[w].record = req[w].record
            /\ req'[w].userFile = req[w].userFile
            /\ KeepsTodo(w)
            BY <1>3, Fields DEF KeepsTodo
      <2>2. Others(w)
            BY <1>3, RequestsType DEF Others
      <2>3. Handles(w)'
            BY <1>1, <2>1, KeepsRecord DEF At, OwnSteps
      <2> QED BY <1>1, <2>1, <2>2, <2>3, SameBinInv DEF At
<1> QED BY <1>2, <1>3 DEF PurgeReadQuota

LEMMA PurgeBin ==
    ASSUME Typed, BinInv, NEW w \in Workers,
           PurgeCountRefs(w) \/ PurgeReadInfo(w) \/ PurgeUnlink(w) \/ PurgeWriteQuota(w) \/
           PurgeDropInfo(w)
    PROVE  BinInv'
<1>1. ~At(w, "record") /\ req[w].pc \in OwnSteps
      BY DEF PurgeCountRefs, PurgeReadInfo, PurgeUnlink, PurgeWriteQuota, PurgeDropInfo, At,
             OwnSteps
<1>2. SameBin
      BY StatementsTrashNone DEF PurgeCountRefs, PurgeReadInfo, PurgeUnlink, PurgeWriteQuota,
             PurgeDropInfo, stored, SameBin
<1>3. \/ \E pc \in {"purge info", "hard delete", "unlink", "quota", "drop info"} : Goto(w, pc)
      \/ NextRecord(w)
      BY DEF PurgeCountRefs, PurgeReadInfo, PurgeUnlink, PurgeWriteQuota, PurgeDropInfo
<1> QED BY <1>1, <1>2, <1>3, OnwardBin, NextRecordBin DEF OwnSteps

LEMMA PurgeHardDeleteBin ==
    ASSUME Typed, BinInv, NEW w \in Workers, PurgeHardDelete(w)
    PROVE  BinInv'
<1>1. At(w, "hard delete") /\ UNCHANGED used
      BY DEF PurgeHardDelete
<1>2. CASE HasUserFile(req[w].userFile)
      <2>1. PICK l : l = req[w].userFile
            OBVIOUS
      <2>2. NoneTrashed /\ ~Deleted(l)' /\ Goto(w, "drop record")
            BY <1>2, <2>1, StatementsTrashNone DEF PurgeHardDelete
      <2>3. req'[w].userFile = l
            BY <2>1, <2>2, GotoMoves
      <2> QED BY <1>1, <2>2, <2>3, LastBin DEF At, OwnSteps, SameBin
<1>3. CASE ~HasUserFile(req[w].userFile)
      <2>1. NoneTrashed /\ NextRecord(w)
            BY <1>3, StatementsTrashNone DEF PurgeHardDelete
      <2> QED BY <1>1, <2>1, NextRecordBin DEF At, SameBin
<1> QED BY <1>2, <1>3

(* The record that goes is nobody's witness: its request stood before its  *)
(* removal.                                                                *)
LEMMA DropRecordBin ==
    ASSUME Typed, BinInv, NEW w \in Workers, DropRecord(w)
    PROVE  BinInv'
<1>1. Others(w) /\ At(w, "drop record") /\ req'[w].pc \in {"purge", "idle"}
      BY DropRecordMoves DEF Moves
<1>2. /\ db'.recycled = db.recycled \ {req[w].record}
      /\ db'.userFiles = db.userFiles
      /\ UNCHANGED used
      BY BinTables DEF DropRecord, DeleteRecycled
<1>3. KeepsTodo(w)
      <2>1. CASE req[w].todo = {}
            BY <2>1, TodoKept DEF DropRecord, NextRecord
      <2>2. CASE req[w].todo # {}
            BY <2>2, Fields DEF DropRecord, NextRecord, KeepsTodo, Idle
      <2> QED BY <2>1, <2>2
<1>4. ASSUME NEW row
      PROVE  /\ KnownRow(row)' <=> KnownRow(row)
             /\ Stays(row) => Stays(row)' /\ row # req[w].record
      BY <1>1, <1>2 DEF KnownRow, Known, Stays, Others, At
<1>5. ASSUME NEW l \in DOMAIN db'.userFiles, Deleted(l)'
      PROVE  Found(l)'
      <2>1. Found(l)
            BY <1>2, <1>5 DEF Deleted, HasUserFile, BinInv
      <2>2. CASE \E v \in Workers : At(v, "record") /\ req[v].userFile = l
            BY <1>1, <2>2 DEF Others, Found, At
      <2>3. CASE \E row \in db.recycled : row.userFile = l /\ Stays(row)
            BY <1>2, <1>4, <2>3 DEF Found
      <2> QED BY <2>1, <2>2, <2>3 DEF Found
<1>6. ASSUME NEW v \in Workers
      PROVE  Handles(v)'
      <2>1. CASE v # w
            BY <1>1, <1>4, <2>1 DEF Others, BinInv, Handles, At
      <2>2. CASE v = w
            BY <1>1, <1>3, <1>4, <2>2 DEF BinInv, Handles, KeepsTodo, At, OwnSteps
      <2> QED BY <2>1, <2>2
<1> QED BY <1>2, <1>4, <1>5, <1>6 DEF BinInv

-----------------------------------------------------------------------------
LEMMA QuietBin ==
    ASSUME Typed, BinInv, UNCHANGED <<req, used>>, NoneTrashed
    PROVE  BinInv'
<1>1. ASSUME NEW row
      PROVE  /\ KnownRow(row)' <=> KnownRow(row)
             /\ Stays(row)' <=> Stays(row)
      BY DEF KnownRow, Known, Stays, At
<1>2. \A w \in Workers : Handles(w)'
      BY <1>1 DEF Handles, BinInv, At
<1>3. \A row \in db'.recycled : KnownRow(row)'
      BY <1>1 DEF BinInv, NoneTrashed
<1>4. ASSUME NEW l \in DOMAIN db'.userFiles, Deleted(l)'
      PROVE  Found(l)'
      <2>1. Found(l)
            BY <1>4 DEF NoneTrashed, BinInv, Deleted, HasUserFile
      <2> QED BY <1>1, <2>1 DEF Found, NoneTrashed, At
<1> QED BY <1>2, <1>3, <1>4 DEF BinInv

LEMMA NextBin ==
    ASSUME NothingFails, Typed, BinInv, [Next]_vars
    PROVE  BinInv'
<1>1. ASSUME NEW w \in Workers, Uploading(w)
      PROVE  BinInv'
      <2>1. ~InstantRollback(w)
            BY DEF InstantRollback, BinInv, Handles
      <2> QED BY <1>1, <2>1, UploadBin DEF Uploading
<1>2. ASSUME NEW w \in Workers, Managing(w)
      PROVE  BinInv'
      <2>1. CASE MoveFile(w)
            <3>1. NoneTrashed /\ UNCHANGED <<req, used>>
                  BY <2>1, StatementsTrashNone DEF MoveFile
            <3> QED BY <3>1, QuietBin
      <2> QED BY <1>2, <2>1, ManageBin DEF Managing
<1>3. ASSUME NEW w \in Workers, Recycling(w)
      PROVE  BinInv'
      BY <1>3, MoveToRecycledBin, InsertRecycledBin, RestoreBin, RestoreReadFileBin,
         RestoreReadDirBin, RestoreApplyBin, StartPurgeBin, PurgeReadFileBin, PurgeBin,
         PurgeReadQuotaBin, PurgeHardDeleteBin, DropRecordBin DEF Recycling
<1>4. ~Failure
      BY DEF NothingFails, Failure, Typed, TypeOK
<1>5. ASSUME Ticking
      PROVE  BinInv'
      <2>1. NoneTrashed /\ UNCHANGED <<req, used>>
            BY <1>5, StatementsTrashNone DEF Ticking, DeleteExpiredTasks, stored
      <2> QED BY <2>1, QuietBin
<1>6. CASE UNCHANGED vars
      BY <1>6, StatementsTrashNone, QuietBin DEF vars, stored
<1>7. \A w \in Workers : ~CallFails(w)
      BY <1>4 DEF CallFails
<1>8. ~Crash
      BY <1>4 DEF Crash
<1> QED BY <1>1, <1>2, <1>3, <1>5, <1>6, <1>7, <1>8 DEF Next

(* Whatever requests and jobs run at the same time - files moved to the    *)
(* bin, restored, deleted for good and moved there again - no file is      *)
(* soft-deleted without a record, as long as no call fails and the process *)
(* does not end between the two statements of MoveToRecycled.              *)
THEOREM TrashedHasRecordHolds ==
    ASSUME NothingFails
    PROVE  Spec => []TrashedHasRecord
<1>1. ASSUME Init
      PROVE  BinInv
      BY <1>1 DEF Init, StoreInit, RequestsInit, BinInv, Handles, Idle, At, OwnSteps, Empty
<1>2. BinInv => TrashedHasRecord
      BY DEF BinInv, Found, TrashedHasRecord
<1> QED BY <1>1, <1>2, NextBin, TypedIsInvariant, PTL DEF Spec

-----------------------------------------------------------------------------
(***************************************************************************)
(* What one request at a time leaves behind, also when its calls fail: a   *)
(* file that is restored is put into a folder that exists, and a task that *)
(* turns completed has left a file with content.                           *)
(***************************************************************************)
(* What a request has seen or made is still so when it goes on.            *)
HoldsOn(w) ==
    /\ At(w, "restore") => req[w].dir = NULL \/ HasDir(req[w].dir)
    /\ \/ req[w].pc \in {"merge", "info", "link"}
       \/ At(w, "remove temp") /\ req[w].part # Single
       => req[w].file \in DOMAIN disk
    /\ At(w, "link") => req[w].file \in DOMAIN db.fileInfos
    /\ req[w].pc \in {"progress", "write"} /\ req[w].status = "completed" =>
            /\ Active(req[w].userFile)
            /\ db.userFiles[req[w].userFile].file \in DOMAIN db.fileInfos \cap DOMAIN disk
    /\ At(w, "renew") /\ HasTask(req[w].task) =>
            req[w].status = db.uploadTasks[req[w].task].status

HoldSteps ==
    {"restore", "merge", "remove temp", "info", "link", "progress", "write", "renew"}

FilesKnown == DOMAIN db.userFiles \subseteq Known("userFile")

OutcomeInv == FilesKnown /\ \A w \in Workers : HoldsOn(w)

(* The steps of RestoredIntoDir and CompletedHasFile.                      *)
RestoredStep ==
    \A l \in DOMAIN db.userFiles :
        Deleted(l) /\ Active(l)' =>
            db'.userFiles[l].dir = NULL \/ HasDir(db'.userFiles[l].dir)

CompletedStep ==
    \A t \in DOMAIN db.uploadTasks \cap DOMAIN db'.uploadTasks :
        db.uploadTasks[t].status # "completed" /\ db'.uploadTasks[t].status = "completed" =>
            \E w \in Workers, l \in DOMAIN db.userFiles :
                /\ req[w].task = t /\ req[w].userFile = l
                /\ Active(l)
                /\ db.userFiles[l].file \in DOMAIN db.fileInfos \cap DOMAIN disk

Outcome == OutcomeInv' /\ RestoredStep /\ CompletedStep

NoneRestored == \A l \in DOMAIN db.userFiles : Deleted(l) => ~Active(l)'

NoneCompleted ==
    \A t \in DOMAIN db.uploadTasks \cap DOMAIN db'.uploadTasks :
        db'.uploadTasks[t].status = "completed" => db.uploadTasks[t].status = "completed"

NoOutcome == NoneRestored /\ NoneCompleted /\ FilesKnown'

LEMMA OutcomeTables ==
    Typed => DOMAIN db = {"fileInfos", "userFiles", "recycled", "uploadTasks", "virtualPaths",
                          "freeSpace"}
BY DEF Typed, TypeOK, TablesOK

LEMMA SameRowsNoOutcome ==
    ASSUME FilesKnown, Known("userFile") \subseteq Known("userFile")',
           db'.userFiles = db.userFiles, NoneCompleted
    PROVE  NoOutcome
BY DEF NoOutcome, NoneRestored, FilesKnown, Deleted, Active, HasUserFile

LEMMA SameTasks ==
    ASSUME db'.uploadTasks = db.uploadTasks
    PROVE  NoneCompleted
BY DEF NoneCompleted

LEMMA QuietOutcome ==
    ASSUME FilesKnown, Known("userFile") \subseteq Known("userFile")',
           db'.userFiles = db.userFiles, db'.uploadTasks = db.uploadTasks
    PROVE  NoOutcome
BY SameRowsNoOutcome, SameTasks

LEMMA DrawUserFile ==
    ASSUME Typed, FilesKnown, Draw("userFile"), NEW u, NEW f, NEW d, NEW l,
           l = NextKey("userFile"), CreateUserFile(l, u, f, d)
    PROVE  /\ NoOutcome
           /\ Active(l)'
           /\ db'.userFiles[l].file = f
           /\ db'.fileInfos = db.fileInfos
<1> DEFINE row == [user |-> u, file |-> f, dir |-> d, deleted |-> FALSE]
<1>1. /\ db'.userFiles = Put(db.userFiles, l, row)
      /\ db'.uploadTasks = db.uploadTasks
      /\ db'.fileInfos = db.fileInfos
      BY OutcomeTables DEF CreateUserFile
<1>2. row.file = f /\ row.deleted = FALSE
      OBVIOUS
<1> HIDE DEF row
<1>3. /\ l \notin Known("userFile") /\ l \in Known("userFile")'
      /\ Known("userFile") \subseteq Known("userFile")'
      BY DEF Draw, Known, NextKey, Typed, TypeOK, KeysOK, Kinds
<1>4. /\ l \notin DOMAIN db.userFiles
      /\ DOMAIN db'.userFiles = DOMAIN db.userFiles \cup {l}
      /\ db'.userFiles[l] = row
      /\ \A k \in DOMAIN db.userFiles : db'.userFiles[k] = db.userFiles[k]
      BY <1>1, <1>3 DEF FilesKnown, Put
<1>5. NoneRestored /\ FilesKnown'
      BY <1>3, <1>4 DEF NoneRestored, FilesKnown, Deleted, Active, HasUserFile
<1>6. Active(l)' /\ db'.userFiles[l].file = f
      BY <1>2, <1>4 DEF Active, HasUserFile
<1> QED BY <1>1, <1>5, <1>6, SameTasks DEF NoOutcome

LEMMA OnlyOutcome ==
    ASSUME OneWorker, NEW w \in Workers, HoldsOn(w)', NoOutcome
    PROVE  Outcome
BY DEF OneWorker, Outcome, OutcomeInv, NoOutcome, NoneRestored, NoneCompleted, RestoredStep,
       CompletedStep

LEMMA NotHolding ==
    ASSUME NEW w \in Workers, req'[w].pc \notin HoldSteps
    PROVE  HoldsOn(w)'
BY DEF HoldsOn, HoldSteps, At

LEMMA OutsideOutcome ==
    ASSUME OneWorker, NEW w \in Workers, NEW from, NEW to, Moves(w, from, to),
           to \cap HoldSteps = {}, NoOutcome
    PROVE  Outcome
BY NotHolding, OnlyOutcome DEF Moves

LEMMA StatementsNoOutcome ==
    ASSUME Typed, FilesKnown, Known("userFile") \subseteq Known("userFile")'
    PROVE  /\ UNCHANGED db => NoOutcome
           /\ \A f, c : CreateFileInfo(f, c) => NoOutcome
           /\ \A f : DeleteFileInfo(f) => NoOutcome
           /\ \A l : HasUserFile(l) /\ SoftDelete(l) => NoOutcome
           /\ \A l, d : HasUserFile(l) /\ MoveUserFile(l, d) => NoOutcome
           /\ \A l : HardDelete(l) => NoOutcome
           /\ \A r, u, l : CreateRecycled(r, u, l) => NoOutcome
           /\ \A row : DeleteRecycled(row) => NoOutcome
           /\ \A t, row : PutTask(t, row) /\ (row.status = "completed" =>
                    HasTask(t) /\ db.uploadTasks[t].status = "completed") => NoOutcome
           /\ \A ts : DeleteTasks(ts) => NoOutcome
           /\ \A d, u, p : CreateDir(d, u, p) => NoOutcome
           /\ \A d : DeleteDirRow(d) => NoOutcome
           /\ \A u, n : UpdateUser(u, n) => NoOutcome
<1>1. UNCHANGED db => NoOutcome
      BY QuietOutcome
<1>2. \A f, c : CreateFileInfo(f, c) => NoOutcome
      BY QuietOutcome, OutcomeTables DEF CreateFileInfo
<1>3. \A f : DeleteFileInfo(f) => NoOutcome
      BY QuietOutcome, OutcomeTables DEF DeleteFileInfo
<1>4. ASSUME NEW l, HasUserFile(l), SoftDelete(l)
      PROVE  NoOutcome
      <2>1. /\ db'.userFiles = [db.userFiles EXCEPT ![l].deleted = TRUE]
            /\ db'.uploadTasks = db.uploadTasks
            BY <1>4, OutcomeTables DEF SoftDelete
      <2>2. "deleted" \in DOMAIN db.userFiles[l]
            BY <1>4 DEF HasUserFile, Typed, TypeOK, TablesOK, IsTable, UserFile
      <2>3. /\ DOMAIN db'.userFiles = DOMAIN db.userFiles
            /\ db'.userFiles[l].deleted = TRUE
            /\ \A k \in DOMAIN db.userFiles \ {l} : db'.userFiles[k] = db.userFiles[k]
            BY <1>4, <2>1, <2>2 DEF HasUserFile
      <2> QED BY <2>1, <2>3, SameTasks
              DEF NoOutcome, NoneRestored, FilesKnown, Deleted, Active, HasUserFile
<1>5. ASSUME NEW l, NEW d, HasUserFile(l), MoveUserFile(l, d)
      PROVE  NoOutcome
      <2>1. /\ db'.userFiles = [db.userFiles EXCEPT ![l].dir = d]
            /\ db'.uploadTasks = db.uploadTasks
            BY <1>5, OutcomeTables DEF MoveUserFile
      <2>2. /\ DOMAIN db'.userFiles = DOMAIN db.userFiles
            /\ \A k \in DOMAIN db.userFiles : db'.userFiles[k].deleted = db.userFiles[k].deleted
            BY <2>1
      <2> QED BY <2>1, <2>2, SameTasks
              DEF NoOutcome, NoneRestored, FilesKnown, Deleted, Active, HasUserFile
<1>6. ASSUME NEW l, HardDelete(l)
      PROVE  NoOutcome
      <2>1. db'.userFiles = Drop(db.userFiles, {l}) /\ db'.uploadTasks = db.uploadTasks
            BY <1>6, OutcomeTables DEF HardDelete
      <2> QED BY <2>1, SameTasks
              DEF NoOutcome, NoneRestored, FilesKnown, Deleted, Active, HasUserFile, Drop
<1>7. \A r, u, l : CreateRecycled(r, u, l) => NoOutcome
      BY QuietOutcome, OutcomeTables DEF CreateRecycled
<1>8. \A row : DeleteRecycled(row) => NoOutcome
      BY QuietOutcome, OutcomeTables DEF DeleteRecycled
<1>9. ASSUME NEW t, NEW row, PutTask(t, row),
             row.status = "completed" => HasTask(t) /\ db.uploadTasks[t].status = "completed"
      PROVE  NoOutcome
      <2>1. db'.uploadTasks = Put(db.uploadTasks, t, row) /\ db'.userFiles = db.userFiles
            BY <1>9, OutcomeTables DEF PutTask
      <2>2. NoneCompleted
            BY <1>9, <2>1 DEF NoneCompleted, HasTask, Put
      <2> QED BY <2>1, <2>2, SameRowsNoOutcome
<1>10. ASSUME NEW ts, DeleteTasks(ts)
       PROVE  NoOutcome
      <2>1. db'.uploadTasks = Drop(db.uploadTasks, ts) /\ db'.userFiles = db.userFiles
            BY <1>10, OutcomeTables DEF DeleteTasks
      <2>2. NoneCompleted
            BY <2>1 DEF NoneCompleted, Drop
      <2> QED BY <2>1, <2>2, SameRowsNoOutcome
<1>11. \A d, u, p : CreateDir(d, u, p) => NoOutcome
      BY QuietOutcome, OutcomeTables DEF CreateDir
<1>12. \A d : DeleteDirRow(d) => NoOutcome
      BY QuietOutcome, OutcomeTables DEF DeleteDirRow
<1>13. \A u, n : UpdateUser(u, n) => NoOutcome
      BY QuietOutcome, OutcomeTables DEF UpdateUser
<1> QED BY <1>1, <1>2, <1>3, <1>4, <1>5, <1>6, <1>7, <1>8, <1>9, <1>10, <1>11, <1>12, <1>13

LEMMA OtherKeys ==
    ASSUME Typed, NEW kind \in Kinds, kind # "userFile", Draw(kind)
    PROVE  Known("userFile")' = Known("userFile")
BY DEF Typed, TypeOK, KeysOK, Kinds, Draw, Known

LEMMA UploadOutcome ==
    ASSUME Typed, OneWorker, FilesKnown, NEW w \in Workers,
           Precheck(w) \/ FindCandidate(w) \/ InstantDeduct(w) \/
           InstantRollback(w) \/ CreateTask(w) \/ CachePrecheck(w) \/
           UploadChunk(w) \/ UploadChunkLate(w) \/ EvictPrecheck(w) \/
           MakeTempDir(w) \/ SaveOpen(w) \/ SaveCopy(w) \/ UnlockMerge(w)
    PROVE  Outcome
<1>1. CASE Precheck(w)
      <2>1. Known("userFile")' = Known("userFile")
            BY <1>1 DEF Precheck, Known, stored
      <2>2. NoOutcome
            BY <1>1, <2>1, StatementsNoOutcome DEF Precheck, stored
      <2> QED BY <1>1, <2>2, PrecheckMoves, OutsideOutcome DEF HoldSteps
<1>2. CASE FindCandidate(w)
      <2>1. Known("userFile")' = Known("userFile")
            BY <1>2 DEF FindCandidate, Known, stored
      <2>2. NoOutcome
            BY <1>2, <2>1, StatementsNoOutcome DEF FindCandidate, stored
      <2> QED BY <1>2, <2>2, FindCandidateMoves, OutsideOutcome DEF HoldSteps
<1>3. CASE InstantDeduct(w)
      <2>1. Known("userFile")' = Known("userFile")
            BY <1>3 DEF InstantDeduct, Known, stored
      <2>2. NoOutcome
            BY <1>3, <2>1, StatementsNoOutcome DEF InstantDeduct, stored
      <2> QED BY <1>3, <2>2, InstantDeductMoves, OutsideOutcome DEF HoldSteps
<1>4. CASE InstantRollback(w)
      <2>1. Known("userFile")' = Known("userFile")
            BY <1>4 DEF InstantRollback, Known, stored
      <2>2. NoOutcome
            BY <1>4, <2>1, StatementsNoOutcome DEF InstantRollback, stored
      <2> QED BY <1>4, <2>2, InstantRollbackMoves, OutsideOutcome DEF HoldSteps
<1>5. CASE CreateTask(w)
      <2>1. Known("userFile")' = Known("userFile")
            BY <1>5, OtherKeys DEF CreateTask, Kinds
      <2>2. NoOutcome
            BY <1>5, <2>1, StatementsNoOutcome DEF CreateTask, stored
      <2> QED BY <1>5, <2>2, CreateTaskMoves, OutsideOutcome DEF HoldSteps
<1>6. CASE CachePrecheck(w)
      <2>1. Known("userFile")' = Known("userFile")
            BY <1>6 DEF CachePrecheck, Known, stored
      <2>2. NoOutcome
            BY <1>6, <2>1, StatementsNoOutcome DEF CachePrecheck, stored
      <2> QED BY <1>6, <2>2, CachePrecheckMoves, OutsideOutcome DEF HoldSteps
<1>7. CASE UploadChunk(w)
      <2>1. Known("userFile")' = Known("userFile")
            BY <1>7 DEF UploadChunk, Known, stored
      <2>2. NoOutcome
            BY <1>7, <2>1, StatementsNoOutcome DEF UploadChunk, stored
      <2> QED BY <1>7, <2>2, UploadChunkMoves, OutsideOutcome DEF HoldSteps
<1>8. CASE UploadChunkLate(w)
      <2>1. Known("userFile")' = Known("userFile")
            BY <1>8 DEF UploadChunkLate, Known, stored
      <2>2. NoOutcome
            BY <1>8, <2>1, StatementsNoOutcome DEF UploadChunkLate, stored
      <2> QED BY <1>8, <2>2, UploadChunkLateMoves, OutsideOutcome DEF HoldSteps
<1>9. CASE EvictPrecheck(w)
      <2>1. Known("userFile")' = Known("userFile")
            BY <1>9 DEF EvictPrecheck, Known, stored
      <2>2. NoOutcome
            BY <1>9, <2>1, StatementsNoOutcome DEF EvictPrecheck, stored
      <2> QED BY <1>9, <2>2, EvictPrecheckMoves, OutsideOutcome DEF HoldSteps
<1>10. CASE MakeTempDir(w)
      <2>1. Known("userFile")' = Known("userFile")
            BY <1>10 DEF MakeTempDir, Known, stored
      <2>2. NoOutcome
            BY <1>10, <2>1, StatementsNoOutcome DEF MakeTempDir, stored
      <2> QED BY <1>10, <2>2, MakeTempDirMoves, OutsideOutcome DEF HoldSteps
<1>11. CASE SaveOpen(w)
      <2>1. Known("userFile")' = Known("userFile")
            BY <1>11 DEF SaveOpen, Known, stored
      <2>2. NoOutcome
            BY <1>11, <2>1, StatementsNoOutcome DEF SaveOpen, stored
      <2> QED BY <1>11, <2>2, SaveOpenMoves, OutsideOutcome DEF HoldSteps
<1>12. CASE SaveCopy(w)
      <2>1. Known("userFile")' = Known("userFile")
            BY <1>12 DEF SaveCopy, Known, stored
      <2>2. NoOutcome
            BY <1>12, <2>1, StatementsNoOutcome DEF SaveCopy, stored
      <2> QED BY <1>12, <2>2, SaveCopyMoves, OutsideOutcome DEF HoldSteps
<1>13. CASE UnlockMerge(w)
      <2>1. Known("userFile")' = Known("userFile")
            BY <1>13 DEF UnlockMerge, Known, stored
      <2>2. NoOutcome
            BY <1>13, <2>1, StatementsNoOutcome DEF UnlockMerge, stored
      <2> QED BY <1>13, <2>2, UnlockMergeMoves, OutsideOutcome DEF HoldSteps
<1> QED BY <1>1, <1>2, <1>3, <1>4, <1>5, <1>6, <1>7, <1>8, <1>9, <1>10, <1>11,
           <1>12, <1>13

LEMMA ManageOutcome ==
    ASSUME Typed, OneWorker, FilesKnown, NEW w \in Workers,
           DeleteUploadTask(w) \/ DropTask(w) \/ MakeDir(w) \/ InsertDir(w) \/
           DeleteDir(w) \/ DropDir(w)
    PROVE  Outcome
<1>1. CASE DeleteUploadTask(w)
      <2>1. Known("userFile")' = Known("userFile")
            BY <1>1 DEF DeleteUploadTask, Known, stored
      <2>2. NoOutcome
            BY <1>1, <2>1, StatementsNoOutcome DEF DeleteUploadTask, stored
      <2> QED BY <1>1, <2>2, DeleteUploadTaskMoves, OutsideOutcome DEF HoldSteps
<1>2. CASE DropTask(w)
      <2>1. Known("userFile")' = Known("userFile")
            BY <1>2 DEF DropTask, Known, stored
      <2>2. NoOutcome
            BY <1>2, <2>1, StatementsNoOutcome DEF DropTask, stored
      <2> QED BY <1>2, <2>2, DropTaskMoves, OutsideOutcome DEF HoldSteps
<1>3. CASE MakeDir(w)
      <2>1. Known("userFile")' = Known("userFile")
            BY <1>3 DEF MakeDir, Known, stored
      <2>2. NoOutcome
            BY <1>3, <2>1, StatementsNoOutcome DEF MakeDir, stored
      <2> QED BY <1>3, <2>2, MakeDirMoves, OutsideOutcome DEF HoldSteps
<1>4. CASE InsertDir(w)
      <2>1. Known("userFile")' = Known("userFile")
            BY <1>4, OtherKeys DEF InsertDir, Kinds
      <2>2. NoOutcome
            BY <1>4, <2>1, StatementsNoOutcome DEF InsertDir, stored
      <2> QED BY <1>4, <2>2, InsertDirMoves, OutsideOutcome DEF HoldSteps
<1>5. CASE DeleteDir(w)
      <2>1. Known("userFile")' = Known("userFile")
            BY <1>5 DEF DeleteDir, Known, stored
      <2>2. NoOutcome
            BY <1>5, <2>1, StatementsNoOutcome DEF DeleteDir, stored
      <2> QED BY <1>5, <2>2, DeleteDirMoves, OutsideOutcome DEF HoldSteps
<1>6. CASE DropDir(w)
      <2>1. Known("userFile")' = Known("userFile")
            BY <1>6 DEF DropDir, Known, stored
      <2>2. NoOutcome
            BY <1>6, <2>1, StatementsNoOutcome DEF DropDir, stored
      <2> QED BY <1>6, <2>2, DropDirMoves, OutsideOutcome DEF HoldSteps
<1> QED BY <1>1, <1>2, <1>3, <1>4, <1>5, <1>6

LEMMA RecycleOutcome ==
    ASSUME Typed, OneWorker, FilesKnown, NEW w \in Workers,
           InsertRecycled(w) \/ Restore(w) \/ PurgeReadFile(w) \/
           PurgeCountRefs(w) \/ PurgeReadInfo(w) \/ PurgeUnlink(w) \/
           PurgeReadQuota(w) \/ PurgeWriteQuota(w) \/ PurgeDropInfo(w) \/
           PurgeHardDelete(w) \/ DropRecord(w)
    PROVE  Outcome
<1>1. CASE InsertRecycled(w)
      <2>1. Known("userFile")' = Known("userFile")
            BY <1>1, OtherKeys DEF InsertRecycled, Kinds
      <2>2. NoOutcome
            BY <1>1, <2>1, StatementsNoOutcome DEF InsertRecycled, stored
      <2> QED BY <1>1, <2>2, InsertRecycledMoves, OutsideOutcome DEF HoldSteps
<1>2. CASE Restore(w)
      <2>1. Known("userFile")' = Known("userFile")
            BY <1>2 DEF Restore, Known, stored
      <2>2. NoOutcome
            BY <1>2, <2>1, StatementsNoOutcome DEF Restore, stored
      <2> QED BY <1>2, <2>2, RestoreMoves, OutsideOutcome DEF HoldSteps
<1>3. CASE PurgeReadFile(w)
      <2>1. Known("userFile")' = Known("userFile")
            BY <1>3 DEF PurgeReadFile, Known, stored
      <2>2. NoOutcome
            BY <1>3, <2>1, StatementsNoOutcome DEF PurgeReadFile, stored
      <2> QED BY <1>3, <2>2, PurgeReadFileMoves, OutsideOutcome DEF HoldSteps
<1>4. CASE PurgeCountRefs(w)
      <2>1. Known("userFile")' = Known("userFile")
            BY <1>4 DEF PurgeCountRefs, Known, stored
      <2>2. NoOutcome
            BY <1>4, <2>1, StatementsNoOutcome DEF PurgeCountRefs, stored
      <2> QED BY <1>4, <2>2, PurgeCountRefsMoves, OutsideOutcome DEF HoldSteps
<1>5. CASE PurgeReadInfo(w)
      <2>1. Known("userFile")' = Known("userFile")
            BY <1>5 DEF PurgeReadInfo, Known, stored
      <2>2. NoOutcome
            BY <1>5, <2>1, StatementsNoOutcome DEF PurgeReadInfo, stored
      <2> QED BY <1>5, <2>2, PurgeReadInfoMoves, OutsideOutcome DEF HoldSteps
<1>6. CASE PurgeUnlink(w)
      <2>1. Known("userFile")' = Known("userFile")
            BY <1>6 DEF PurgeUnlink, Known, stored
      <2>2. NoOutcome
            BY <1>6, <2>1, StatementsNoOutcome DEF PurgeUnlink, stored
      <2> QED BY <1>6, <2>2, PurgeUnlinkMoves, OutsideOutcome DEF HoldSteps
<1>7. CASE PurgeReadQuota(w)
      <2>1. Known("userFile")' = Known("userFile")
            BY <1>7 DEF PurgeReadQuota, Known, stored
      <2>2. NoOutcome
            BY <1>7, <2>1, StatementsNoOutcome DEF PurgeReadQuota, stored
      <2> QED BY <1>7, <2>2, PurgeReadQuotaMoves, OutsideOutcome DEF HoldSteps
<1>8. CASE PurgeWriteQuota(w)
      <2>1. Known("userFile")' = Known("userFile")
            BY <1>8 DEF PurgeWriteQuota, Known, stored
      <2>2. NoOutcome
            BY <1>8, <2>1, StatementsNoOutcome DEF PurgeWriteQuota, stored
      <2> QED BY <1>8, <2>2, PurgeWriteQuotaMoves, OutsideOutcome DEF HoldSteps
<1>9. CASE PurgeDropInfo(w)
      <2>1. Known("userFile")' = Known("userFile")
            BY <1>9 DEF PurgeDropInfo, Known, stored
      <2>2. NoOutcome
            BY <1>9, <2>1, StatementsNoOutcome DEF PurgeDropInfo, stored
      <2> QED BY <1>9, <2>2, PurgeDropInfoMoves, OutsideOutcome DEF HoldSteps
<1>10. CASE PurgeHardDelete(w)
      <2>1. Known("userFile")' = Known("userFile")
            BY <1>10 DEF PurgeHardDelete, Known, stored
      <2>2. NoOutcome
            BY <1>10, <2>1, StatementsNoOutcome DEF PurgeHardDelete, stored
      <2> QED BY <1>10, <2>2, PurgeHardDeleteMoves, OutsideOutcome DEF HoldSteps
<1>11. CASE DropRecord(w)
      <2>1. Known("userFile")' = Known("userFile")
            BY <1>11 DEF DropRecord, Known, stored
      <2>2. NoOutcome
            BY <1>11, <2>1, StatementsNoOutcome DEF DropRecord, stored
      <2> QED BY <1>11, <2>2, DropRecordMoves, OutsideOutcome DEF HoldSteps
<1> QED BY <1>1, <1>2, <1>3, <1>4, <1>5, <1>6, <1>7, <1>8, <1>9, <1>10, <1>11

-----------------------------------------------------------------------------
(***************************************************************************)
(* The steps of an upload between its merge and its completion.            *)
(***************************************************************************)
LEMMA SameKeys ==
    ASSUME UNCHANGED used
    PROVE  Known("userFile") \subseteq Known("userFile")'
BY DEF Known

LEMMA SameTables ==
    ASSUME Typed, FilesKnown, UNCHANGED <<db, used>>
    PROVE  NoOutcome
BY SameKeys, StatementsNoOutcome

LEMMA IdleHolds ==
    ASSUME Typed, OneWorker, NEW w \in Workers, Finish(w), NoOutcome
    PROVE  Outcome
<1>1. req'[w].pc = "idle"
      BY FinishMoves
<1> QED BY <1>1, NotHolding, OnlyOutcome DEF HoldSteps

LEMMA InstantLinkOutcome ==
    ASSUME Typed, OneWorker, FilesKnown, NEW w \in Workers, InstantLink(w)
    PROVE  Outcome
<1>1. PICK l, u, f, d :
        /\ l = NextKey("userFile")
        /\ u = req[w].user /\ f = req[w].file /\ d = req[w].dir
      OBVIOUS
<1>2. Draw("userFile") /\ CreateUserFile(l, u, f, d)
      BY <1>1 DEF InstantLink
<1>3. NoOutcome
      BY ONLY <1>1, <1>2, DrawUserFile, Typed, FilesKnown
<1> QED BY <1>3, InstantLinkMoves, OutsideOutcome DEF HoldSteps

LEMMA CountChunksOutcome ==
    ASSUME Typed, OneWorker, FilesKnown, NEW w \in Workers, CountChunks(w)
    PROVE  Outcome
<1>1. NoOutcome
      BY SameTables DEF CountChunks, stored
<1>2. ASSUME NEW n, req' = [req EXCEPT ![w].pc = "progress", ![w].status = "uploading",
                                       ![w].uploaded = n]
      PROVE  req'[w].pc = "progress" /\ req'[w].status = "uploading"
      BY <1>2, Fields
<1>3. req'[w].pc = "progress" /\ req'[w].status = "uploading"
      BY <1>2 DEF CountChunks
<1>4. HoldsOn(w)'
      BY <1>3 DEF HoldsOn, At
<1> QED BY <1>1, <1>4, OnlyOutcome

LEMMA AfterProgressOutcome ==
    ASSUME Typed, OneWorker, NEW w \in Workers, AfterProgress(w), NoOutcome
    PROVE  Outcome
<1>1. req'[w].pc \in {"clean", "unlock", "lock", "idle"}
      BY AfterProgressMoves
<1>2. HoldsOn(w)'
      BY <1>1, NotHolding DEF HoldSteps
<1> QED BY <1>2, OnlyOutcome

LEMMA ReadTaskOutcome ==
    ASSUME Typed, OneWorker, OutcomeInv, NEW w \in Workers, ReadTask(w)
    PROVE  Outcome
<1>1. NoOutcome /\ UNCHANGED <<db, disk>>
      BY SameTables DEF ReadTask, stored, OutcomeInv
<1>2. CASE AfterProgress(w)
      BY <1>1, <1>2, AfterProgressOutcome
<1>3. ASSUME NEW e, req' = [req EXCEPT ![w].pc = "write", ![w].expires = e]
      PROVE  Outcome
      <2>1. /\ req'[w].pc = "write"
            /\ req'[w].status = req[w].status
            /\ req'[w].userFile = req[w].userFile
            BY <1>3, Fields
      <2>2. HoldsOn(w) /\ req[w].pc = "progress"
            BY DEF OutcomeInv, ReadTask, At
      <2>3. HoldsOn(w)'
            BY <1>1, <2>1, <2>2 DEF HoldsOn, At, Active, HasUserFile
      <2> QED BY <1>1, <2>3, OnlyOutcome
<1> QED BY <1>2, <1>3 DEF ReadTask

(* The one step that completes a task.                                     *)
LEMMA WriteTaskOutcome ==
    ASSUME Typed, OneWorker, OutcomeInv, NEW w \in Workers, WriteTask(w)
    PROVE  Outcome
<1>1. UNCHANGED <<disk, used>> /\ AfterProgress(w) /\ req[w].pc = "write"
      BY DEF WriteTask, At
<1>2. Known("userFile") \subseteq Known("userFile")'
      BY <1>1, SameKeys
<1>3. CASE UNCHANGED db
      <2>1. NoOutcome
            BY <1>1, <1>3, SameTables DEF OutcomeInv
      <2> QED BY <1>1, <2>1, AfterProgressOutcome
<1>4. CASE ~UNCHANGED db
      <2>1. PICK t, row : /\ t = req[w].task
                          /\ row = [status    |-> req[w].status,
                                    uploaded  |-> req[w].uploaded,
                                    expiresAt |-> req[w].expires]
            OBVIOUS
      <2>2. HasTask(t) /\ PutTask(t, row)
            BY <1>4, <2>1 DEF WriteTask
      <2>3. row.status = req[w].status
            BY <2>1
      <2>4. CASE req[w].status # "completed"
            <3>1. NoOutcome
                  BY <1>2, <2>2, <2>3, <2>4, StatementsNoOutcome DEF OutcomeInv
            <3> QED BY <1>1, <3>1, AfterProgressOutcome
      <2>5. CASE req[w].status = "completed"
            <3>1. /\ db'.userFiles = db.userFiles
                  /\ db'.uploadTasks = Put(db.uploadTasks, t, row)
                  BY <2>2, OutcomeTables DEF PutTask
            <3>2. NoneRestored /\ FilesKnown'
                  BY <1>2, <3>1
                  DEF OutcomeInv, FilesKnown, NoneRestored, Deleted, Active, HasUserFile
            <3>3. RestoredStep
                  BY <3>2 DEF NoneRestored, RestoredStep
            <3>4. PICK l : l = req[w].userFile
                  OBVIOUS
            <3>5. /\ Active(l)
                  /\ db.userFiles[l].file \in DOMAIN db.fileInfos \cap DOMAIN disk
                  BY <1>1, <2>5, <3>4 DEF OutcomeInv, HoldsOn
            <3>6. ASSUME NEW k \in DOMAIN db.uploadTasks \cap DOMAIN db'.uploadTasks,
                         db.uploadTasks[k].status # "completed",
                         db'.uploadTasks[k].status = "completed"
                  PROVE  k = t
                  BY <2>2, <3>1, <3>6 DEF Put, HasTask
            <3>7. CompletedStep
                  BY <2>1, <3>4, <3>5, <3>6 DEF CompletedStep, Active, HasUserFile
            <3>8. req'[w].pc \in {"clean", "unlock", "lock", "idle"}
                  BY <1>1, AfterProgressMoves
            <3>9. HoldsOn(w)'
                  BY <3>8, NotHolding DEF HoldSteps
            <3> QED BY <3>2, <3>3, <3>7, <3>9 DEF OneWorker, Outcome, OutcomeInv
      <2> QED BY <2>4, <2>5
<1> QED BY <1>3, <1>4

LEMMA LockMergeOutcome ==
    ASSUME Typed, OneWorker, FilesKnown, NEW w \in Workers, LockMerge(w)
    PROVE  Outcome
<1>1. Known("userFile") \subseteq Known("userFile")'
      BY OtherKeys DEF LockMerge, Kinds, Known
<1>2. NoOutcome
      BY <1>1, StatementsNoOutcome DEF LockMerge
<1>3. CASE Finish(w)
      BY <1>2, <1>3, IdleHolds
<1>4. ASSUME NEW f, disk' = Put(disk, f, "Whole"), StartMerge(w, f)
      PROVE  Outcome
      <2>1. req'[w].pc \in {"merge", "remove temp"} /\ req'[w].file = f
            BY <1>4, StartMergeMoves
      <2>2. f \in DOMAIN disk'
            BY <1>4 DEF Put
      <2>3. HoldsOn(w)'
            BY <2>1, <2>2 DEF HoldsOn, At
      <2> QED BY <1>2, <2>3, OnlyOutcome
<1> QED BY <1>3, <1>4 DEF LockMerge

LEMMA MergeFailedOutcome ==
    ASSUME Typed, OneWorker, NEW w \in Workers, MergeFailed(w), NoOutcome
    PROVE  Outcome
<1>1. req'[w].pc = "progress" /\ req'[w].status = "failed"
      BY MergeFailedMoves
<1>2. HoldsOn(w)'
      BY <1>1 DEF HoldsOn, At
<1> QED BY <1>2, OnlyOutcome

LEMMA MergeChunkOutcome ==
    ASSUME Typed, OneWorker, OutcomeInv, NEW w \in Workers, MergeChunk(w)
    PROVE  Outcome
<1>1. NoOutcome
      BY SameTables DEF MergeChunk, OutcomeInv
<1>2. CASE MergeFailed(w)
      BY <1>1, <1>2, MergeFailedOutcome
<1>3. ASSUME NEW pc \in {"remove temp", "merge"}, NEW n,
             req' = [req EXCEPT ![w].pc = pc, ![w].merged = n]
      PROVE  Outcome
      <2>1. req'[w].pc = pc /\ req'[w].file = req[w].file
            BY <1>3, Fields
      <2>2. req[w].file \in DOMAIN disk
            BY DEF MergeChunk, At, OutcomeInv, HoldsOn
      <2>3. DOMAIN disk \subseteq DOMAIN disk'
            BY DEF MergeChunk, Put
      <2>4. HoldsOn(w)'
            BY <2>1, <2>2, <2>3 DEF HoldsOn, At
      <2> QED BY <1>1, <2>4, OnlyOutcome
<1> QED BY <1>2, <1>3 DEF MergeChunk

(* A step along the upload, with its file.                                 *)
LEMMA OnwardOutcome ==
    ASSUME Typed, OneWorker, NEW w \in Workers, NEW pc \in {"info", "link"},
           Goto(w, pc), NoOutcome, req[w].file \in DOMAIN disk',
           pc = "link" => req[w].file \in DOMAIN db'.fileInfos
    PROVE  Outcome
<1>1. req'[w].pc = pc /\ req'[w].file = req[w].file
      BY GotoMoves
<1>2. HoldsOn(w)'
      BY <1>1 DEF HoldsOn, At
<1> QED BY <1>2, OnlyOutcome

LEMMA SingleOutcome ==
    ASSUME Typed, OneWorker, NEW w \in Workers, req[w].part = Single,
           Goto(w, "remove temp"), NoOutcome
    PROVE  Outcome
<1>1. req'[w].pc = "remove temp" /\ req'[w].part = Single
      BY GotoMoves
<1>2. HoldsOn(w)'
      BY <1>1 DEF HoldsOn, At
<1> QED BY <1>2, OnlyOutcome

LEMMA RemoveTempDirOutcome ==
    ASSUME Typed, OneWorker, OutcomeInv, NEW w \in Workers, RemoveTempDir(w)
    PROVE  Outcome
<1>1. NoOutcome
      BY SameTables DEF RemoveTempDir, OutcomeInv
<1>2. CASE req[w].part = Single
      BY <1>1, <1>2, IdleHolds DEF RemoveTempDir
<1>3. CASE req[w].part # Single
      <2>1. Goto(w, "info") /\ UNCHANGED disk /\ At(w, "remove temp")
            BY <1>3 DEF RemoveTempDir
      <2>2. req[w].file \in DOMAIN disk
            BY <1>3, <2>1 DEF OutcomeInv, HoldsOn
      <2> QED BY <1>1, <2>1, <2>2, OnwardOutcome
<1> QED BY <1>2, <1>3

LEMMA InsertFileInfoOutcome ==
    ASSUME Typed, OneWorker, OutcomeInv, NEW w \in Workers, InsertFileInfo(w)
    PROVE  Outcome
<1>1. Goto(w, "link") /\ UNCHANGED <<disk, used>> /\ At(w, "info")
      BY DEF InsertFileInfo
<1>2. NoOutcome
      BY <1>1, SameKeys, StatementsNoOutcome DEF InsertFileInfo, OutcomeInv
<1>3. req[w].file \in DOMAIN disk
      BY <1>1 DEF OutcomeInv, HoldsOn, At
<1>4. req[w].file \in DOMAIN db'.fileInfos
      BY OutcomeTables DEF InsertFileInfo, CreateFileInfo, Put
<1> QED BY <1>1, <1>2, <1>3, <1>4, OnwardOutcome

LEMMA InsertUserFileOutcome ==
    ASSUME Typed, OneWorker, OutcomeInv, NEW w \in Workers, InsertUserFile(w)
    PROVE  Outcome
<1>1. PICK l, u, f, d :
        /\ l = NextKey("userFile")
        /\ u = req[w].user /\ f = req[w].file /\ d = req[w].dir
      OBVIOUS
<1>2. Draw("userFile") /\ CreateUserFile(l, u, f, d) /\ At(w, "link") /\ UNCHANGED disk
      BY <1>1 DEF InsertUserFile
<1>3. /\ NoOutcome
      /\ Active(l)'
      /\ db'.userFiles[l].file = f
      /\ db'.fileInfos = db.fileInfos
      BY ONLY <1>1, <1>2, DrawUserFile, Typed, OutcomeInv DEF OutcomeInv
<1>4. f \in DOMAIN db.fileInfos /\ f \in DOMAIN disk
      BY <1>1, <1>2 DEF OutcomeInv, HoldsOn, At
<1>5. CASE req' = [req EXCEPT ![w].pc = "clean", ![w].userFile = l]
      <2>1. req'[w].pc = "clean"
            BY <1>5, Fields
      <2> QED BY <1>3, <2>1, NotHolding, OnlyOutcome DEF HoldSteps
<1>6. CASE req' = [req EXCEPT ![w].pc = "progress", ![w].userFile = l,
                              ![w].status = "completed", ![w].uploaded = req[w].total]
      <2>1. req'[w].pc = "progress" /\ req'[w].userFile = l
            BY <1>6, Fields
      <2>2. HoldsOn(w)'
            BY <1>2, <1>3, <1>4, <2>1 DEF HoldsOn, At
      <2> QED BY <1>3, <2>2, OnlyOutcome
<1> QED BY <1>1, <1>5, <1>6 DEF InsertUserFile

LEMMA CleanPrecheckCacheOutcome ==
    ASSUME Typed, OneWorker, OutcomeInv, NEW w \in Workers, CleanPrecheckCache(w)
    PROVE  Outcome
<1>1. NoOutcome
      BY SameTables DEF CleanPrecheckCache, stored, OutcomeInv
<1>2. CASE req[w].part = Single
      BY <1>1, <1>2, SingleOutcome DEF CleanPrecheckCache
<1>3. CASE req[w].part # Single
      <2>1. req'[w].pc = "unlock"
            BY <1>3, GotoMoves DEF CleanPrecheckCache
      <2> QED BY <1>1, <2>1, NotHolding, OnlyOutcome DEF HoldSteps
<1> QED BY <1>2, <1>3

LEMMA RenameUploadOutcome ==
    ASSUME Typed, OneWorker, FilesKnown, NEW w \in Workers, RenameUpload(w)
    PROVE  Outcome
<1>1. Known("userFile") \subseteq Known("userFile")'
      BY OtherKeys DEF RenameUpload, Kinds, Known
<1>2. NoOutcome
      BY <1>1, StatementsNoOutcome DEF RenameUpload
<1>3. CASE Finish(w)
      BY <1>2, <1>3, IdleHolds
<1>4. ASSUME NEW f, NEW x, disk' = Put(disk, f, x),
             req' = [req EXCEPT ![w].pc = "info", ![w].file = f]
      PROVE  Outcome
      <2>1. req'[w].pc = "info" /\ req'[w].file = f
            BY <1>4, Fields
      <2>2. f \in DOMAIN disk'
            BY <1>4 DEF Put
      <2>3. HoldsOn(w)'
            BY <2>1, <2>2 DEF HoldsOn, At
      <2> QED BY <1>2, <2>3, OnlyOutcome
<1> QED BY <1>3, <1>4 DEF RenameUpload

-----------------------------------------------------------------------------
(***************************************************************************)
(* Renewals, moves and the recycle bin.                                    *)
(***************************************************************************)
LEMMA RenewUploadTaskOutcome ==
    ASSUME Typed, OneWorker, FilesKnown, NEW w \in Workers, RenewUploadTask(w)
    PROVE  Outcome
<1>1. NoOutcome /\ UNCHANGED db
      BY SameTables DEF RenewUploadTask, stored
<1>2. ASSUME NEW t, NEW s, NEW n, NEW e, s = db.uploadTasks[t].status,
             req' = [req EXCEPT ![w].pc = "renew", ![w].task = t, ![w].status = s,
                                ![w].uploaded = n, ![w].expires = e]
      PROVE  Outcome
      <2>1. req'[w].pc = "renew" /\ req'[w].task = t /\ req'[w].status = s
            BY <1>2, Fields
      <2>2. HoldsOn(w)'
            BY <1>1, <1>2, <2>1 DEF HoldsOn, At
      <2> QED BY <1>1, <2>2, OnlyOutcome
<1>3. PICK t : req' = [req EXCEPT ![w].pc = "renew", ![w].task = t,
                                  ![w].status = db.uploadTasks[t].status,
                                  ![w].uploaded = db.uploadTasks[t].uploaded,
                                  ![w].expires = clock + TaskTTL]
      BY DEF RenewUploadTask
<1>4. PICK s, n, e :
        /\ s = db.uploadTasks[t].status
        /\ n = db.uploadTasks[t].uploaded
        /\ e = clock + TaskTTL
      OBVIOUS
<1>5. req' = [req EXCEPT ![w].pc = "renew", ![w].task = t, ![w].status = s,
                         ![w].uploaded = n, ![w].expires = e]
      BY ONLY <1>3, <1>4
<1> QED BY ONLY <1>2, <1>4, <1>5

LEMMA RenewWriteTaskOutcome ==
    ASSUME Typed, OneWorker, OutcomeInv, NEW w \in Workers, RenewWriteTask(w)
    PROVE  Outcome
<1>1. Finish(w) /\ UNCHANGED used /\ At(w, "renew")
      BY DEF RenewWriteTask
<1>2. CASE UNCHANGED db
      BY <1>1, <1>2, SameTables, IdleHolds DEF OutcomeInv
<1>3. CASE ~UNCHANGED db
      <2>1. PICK t, row : /\ t = req[w].task
                          /\ row = [status    |-> req[w].status,
                                    uploaded  |-> req[w].uploaded,
                                    expiresAt |-> req[w].expires]
            OBVIOUS
      <2>2. HasTask(t) /\ PutTask(t, row)
            BY <1>3, <2>1 DEF RenewWriteTask
      <2>3. row.status = db.uploadTasks[t].status
            BY <1>1, <2>1, <2>2 DEF OutcomeInv, HoldsOn
      <2>4. NoOutcome
            BY <1>1, <2>2, <2>3, SameKeys, StatementsNoOutcome DEF OutcomeInv
      <2> QED BY <1>1, <2>4, IdleHolds
<1> QED BY <1>2, <1>3

LEMMA MoveFileOutcome ==
    ASSUME Typed, OneWorker, FilesKnown, NEW w \in Workers, MoveFile(w)
    PROVE  Outcome
<1>1. UNCHANGED <<req, used>> /\ req[w].pc = "idle"
      BY DEF MoveFile, Starts, At
<1>2. NoOutcome
      BY <1>1, SameKeys, StatementsNoOutcome DEF MoveFile, HasUserFile
<1> QED BY <1>1, <1>2, NotHolding, OnlyOutcome DEF HoldSteps

LEMMA MoveToRecycledOutcome ==
    ASSUME Typed, OneWorker, FilesKnown, NEW w \in Workers, MoveToRecycled(w)
    PROVE  Outcome
<1>1. UNCHANGED used
      BY DEF MoveToRecycled
<1>2. NoOutcome
      BY <1>1, SameKeys, StatementsNoOutcome DEF MoveToRecycled, HasUserFile
<1> QED BY <1>2, MoveToRecycledMoves, OutsideOutcome DEF HoldSteps

LEMMA PurgesOutcome ==
    ASSUME Typed, OneWorker, FilesKnown, NEW w \in Workers,
           DeletePermanently(w) \/ EmptyBin(w) \/ CleanExpired(w)
    PROVE  Outcome
<1>1. PICK rows : Purges(w, rows) /\ At(w, "idle")
      BY DEF DeletePermanently, EmptyBin, CleanExpired, Starts
<1>2. NoOutcome
      BY <1>1, SameTables DEF Purges, stored
<1> QED BY <1>1, <1>2, PurgesMoves, OutsideOutcome DEF HoldSteps

(* What is about to be written back is a folder that is there, or none.    *)
LEMMA ToRestore ==
    ASSUME Typed, OneWorker, NEW w \in Workers, NEW d,
           req' = [req EXCEPT ![w].pc = "restore", ![w].dir = d],
           d = NULL \/ HasDir(d), NoOutcome, UNCHANGED db
    PROVE  Outcome
<1>1. req \in [Workers -> Request] /\ "dir" \in DOMAIN req[w]
      BY RequestsType DEF Request
<1>2. req'[w].pc = "restore" /\ req'[w].dir = d
      BY <1>1, Fields
<1>3. HoldsOn(w)'
      BY <1>2 DEF HoldsOn, At, HasDir
<1> QED BY <1>3, OnlyOutcome

LEMMA RestoreToRootOutcome ==
    ASSUME Typed, OneWorker, NEW w \in Workers, RestoreToRoot(w), NoOutcome, UNCHANGED db
    PROVE  Outcome
<1>1. CASE Finish(w)
      BY <1>1, IdleHolds
<1>2. ASSUME NEW u, NEW d \in Roots(u), req' = [req EXCEPT ![w].pc = "restore", ![w].dir = d]
      PROVE  Outcome
      BY <1>2, ToRestore DEF Roots, HasDir
<1> QED BY <1>1, <1>2 DEF RestoreToRoot

LEMMA RestoreReadFileOutcome ==
    ASSUME Typed, OneWorker, FilesKnown, NEW w \in Workers, RestoreReadFile(w)
    PROVE  Outcome
<1>1. NoOutcome /\ UNCHANGED db
      BY SameTables DEF RestoreReadFile, stored
<1>2. CASE Finish(w)
      BY <1>1, <1>2, IdleHolds
<1>3. ASSUME NEW d, d = NULL, req' = [req EXCEPT ![w].pc = "restore", ![w].dir = d]
      PROVE  Outcome
      BY <1>1, <1>3, ToRestore
<1>4. ASSUME NEW d, req' = [req EXCEPT ![w].pc = "restore dir", ![w].dir = d]
      PROVE  Outcome
      <2>1. req'[w].pc = "restore dir"
            BY <1>4, Fields
      <2> QED BY <1>1, <2>1, NotHolding, OnlyOutcome DEF HoldSteps
<1> QED BY <1>2, <1>3, <1>4 DEF RestoreReadFile

LEMMA RestoreReadDirOutcome ==
    ASSUME Typed, OneWorker, FilesKnown, NEW w \in Workers, RestoreReadDir(w)
    PROVE  Outcome
<1>1. NoOutcome /\ UNCHANGED db
      BY SameTables DEF RestoreReadDir, stored
<1>2. CASE RestoreToRoot(w)
      BY <1>1, <1>2, RestoreToRootOutcome
<1>3. CASE HasDir(req[w].dir) /\ Goto(w, "restore")
      <2>1. req' = [req EXCEPT ![w].pc = "restore"]
            BY <1>3 DEF Goto
      <2>2. req'[w].pc = "restore" /\ req'[w].dir = req[w].dir
            BY <2>1, Fields, RequestsType DEF Request
      <2>3. HoldsOn(w)'
            BY <1>1, <1>3, <2>2 DEF HoldsOn, At, HasDir
      <2> QED BY <1>1, <2>3, OnlyOutcome
<1> QED BY <1>2, <1>3 DEF RestoreReadDir

(* The one step that restores.                                             *)
LEMMA RestoreApplyOutcome ==
    ASSUME Typed, OneWorker, OutcomeInv, NEW w \in Workers, RestoreApply(w)
    PROVE  Outcome
<1>1. UNCHANGED <<disk, used>> /\ At(w, "restore")
      BY DEF RestoreApply
<1>2. CASE UNCHANGED db /\ Finish(w)
      BY <1>1, <1>2, SameTables, IdleHolds DEF OutcomeInv
<1>3. CASE HasUserFile(req[w].userFile)
      <2>1. PICK l, d : l = req[w].userFile /\ d = req[w].dir
            OBVIOUS
      <2>2. HasUserFile(l) /\ RestoreUserFile(l, d) /\ Goto(w, "drop record")
            BY <1>3, <2>1 DEF RestoreApply
      <2>3. d = NULL \/ HasDir(d)
            BY <1>1, <2>1 DEF OutcomeInv, HoldsOn
      <2>4. /\ db'.userFiles = [db.userFiles EXCEPT ![l].deleted = FALSE, ![l].dir = d]
            /\ db'.uploadTasks = db.uploadTasks
            /\ db'.virtualPaths = db.virtualPaths
            BY <2>2, OutcomeTables DEF RestoreUserFile
      <2>5. "dir" \in DOMAIN db.userFiles[l]
            BY <2>2 DEF HasUserFile, Typed, TypeOK, TablesOK, IsTable, UserFile
      <2>6. /\ DOMAIN db'.userFiles = DOMAIN db.userFiles
            /\ db'.userFiles[l].dir = d
            /\ \A k \in DOMAIN db.userFiles \ {l} : db'.userFiles[k] = db.userFiles[k]
            BY <2>2, <2>4, <2>5 DEF HasUserFile
      <2>7. RestoredStep
            BY <2>3, <2>4, <2>6 DEF RestoredStep, Deleted, Active, HasUserFile, HasDir
      <2>8. CompletedStep
            BY <2>4 DEF CompletedStep
      <2>9. FilesKnown'
            BY <1>1, <2>6, SameKeys DEF OutcomeInv, FilesKnown
      <2>10. req'[w].pc = "drop record"
            BY <2>2, GotoMoves
      <2>11. HoldsOn(w)'
            BY <2>10, NotHolding DEF HoldSteps
      <2> QED BY <2>7, <2>8, <2>9, <2>11 DEF OneWorker, Outcome, OutcomeInv
<1> QED BY <1>2, <1>3 DEF RestoreApply

-----------------------------------------------------------------------------
(***************************************************************************)
(* Failures, and the rest.                                                 *)
(***************************************************************************)
LEMMA FilesStay == ASSUME NEW w, EndWriting(w, "Half") PROVE DOMAIN disk' = DOMAIN disk
BY DEF EndWriting

LEMMA UploadFailsOutcome ==
    ASSUME Typed, OneWorker, OutcomeInv, NEW w \in Workers, UploadFails(w),
           UNCHANGED stored
    PROVE  Outcome
<1>0. NoOutcome /\ UNCHANGED <<db, disk>>
      BY SameTables DEF stored, OutcomeInv
<1>1. CASE Finish(w)
      BY <1>0, <1>1, IdleHolds
<1>2. CASE AfterProgress(w)
      BY <1>0, <1>2, AfterProgressOutcome
<1>3. CASE MergeFailed(w)
      BY <1>0, <1>3, MergeFailedOutcome
<1>4. ASSUME NEW pc \in {"task", "rollback"}, Goto(w, pc)
      PROVE  Outcome
      <2>1. req'[w].pc = pc
            BY <1>4, GotoMoves
      <2> QED BY <1>0, <2>1, NotHolding, OnlyOutcome DEF HoldSteps
<1>5. CASE req[w].part = Single /\ Goto(w, "remove temp")
      BY <1>0, <1>5, SingleOutcome
<1>6. CASE req[w].part # Single /\ At(w, "remove temp") /\ Goto(w, "info")
      <2>1. req[w].file \in DOMAIN disk
            BY <1>6 DEF OutcomeInv, HoldsOn
      <2> QED BY <1>0, <1>6, <2>1, OnwardOutcome
<1>7. ASSUME NEW d, NextDir(w, d), At(w, "delete dirs")
      PROVE  Outcome
      <2>1. req'[w].pc \in {"idle", "delete dirs"}
            BY <1>7, NextDirMoves DEF At
      <2>2. HoldsOn(w)'
            BY <2>1, NotHolding DEF HoldSteps
      <2> QED BY <1>0, <2>2, OnlyOutcome
<1> QED BY <1>1, <1>2, <1>3, <1>4, <1>5, <1>6, <1>7 DEF UploadFails

LEMMA RecycledFailsOutcome ==
    ASSUME Typed, OneWorker, FilesKnown, NEW w \in Workers, RecycledFails(w),
           UNCHANGED stored
    PROVE  Outcome
<1>0. NoOutcome /\ UNCHANGED db
      BY SameTables DEF stored
<1>1. CASE Finish(w)
      BY <1>0, <1>1, IdleHolds
<1>2. CASE RestoreToRoot(w)
      BY <1>0, <1>2, RestoreToRootOutcome
<1>3. ASSUME NEW row, Take(w, row, "drop record", NULL)
      PROVE  Outcome
      <2>1. req'[w].pc = "drop record"
            BY <1>3, TakeMoves
      <2> QED BY <1>0, <2>1, NotHolding, OnlyOutcome DEF HoldSteps
<1>4. CASE NextRecord(w)
      <2>1. req'[w].pc \in {"idle", "purge"}
            BY <1>4, NextRecordMoves
      <2>2. HoldsOn(w)'
            BY <2>1, NotHolding DEF HoldSteps
      <2> QED BY <1>0, <2>2, OnlyOutcome
<1>5. ASSUME NEW pc \in {"hard delete", "quota", "drop info"}, Goto(w, pc)
      PROVE  Outcome
      <2>1. req'[w].pc = pc
            BY <1>5, GotoMoves
      <2>2. HoldsOn(w)'
            BY <2>1, NotHolding DEF HoldSteps
      <2> QED BY <1>0, <2>2, OnlyOutcome
<1> QED BY <1>1, <1>2, <1>3, <1>4, <1>5 DEF RecycledFails

LEMMA CallFailsOutcome ==
    ASSUME Typed, OneWorker, OutcomeInv, NEW w \in Workers, CallFails(w)
    PROVE  Outcome
<1>1. CASE SaveFails(w)
      <2>1. UNCHANGED <<db, used>> /\ Finish(w)
            BY <1>1 DEF SaveFails
      <2> QED BY <2>1, SameTables, IdleHolds DEF OutcomeInv
<1> QED BY <1>1, UploadFailsOutcome, RecycledFailsOutcome DEF CallFails, OutcomeInv

LEMMA CrashOutcome ==
    ASSUME Typed, OutcomeInv, Crash
    PROVE  Outcome
<1>1. NoOutcome
      BY SameTables DEF Crash, OutcomeInv
<1>2. \A w \in Workers : req'[w].pc = "idle"
      BY DEF Crash, Idle
<1>3. \A w \in Workers : HoldsOn(w)'
      BY <1>2, NotHolding DEF HoldSteps
<1> QED BY <1>1, <1>3 DEF Outcome, OutcomeInv, NoOutcome, NoneRestored, NoneCompleted,
           RestoredStep, CompletedStep

(* UploadCleanup may take the task of the request at work, not its status. *)
LEMMA QuietStepOutcome ==
    ASSUME Typed, OutcomeInv, UNCHANGED <<req, disk, used>>,
           UNCHANGED db \/ \E ts : DeleteTasks(ts)
    PROVE  Outcome
<1>1. NoOutcome
      BY SameKeys, StatementsNoOutcome DEF OutcomeInv
<1>2. /\ db'.fileInfos = db.fileInfos /\ db'.userFiles = db.userFiles
      /\ db'.virtualPaths = db.virtualPaths
      BY OutcomeTables DEF DeleteTasks
<1>3. \A t \in DOMAIN db'.uploadTasks :
        HasTask(t) /\ db'.uploadTasks[t] = db.uploadTasks[t]
      BY OutcomeTables DEF DeleteTasks, Drop, HasTask
<1>4. ASSUME NEW w \in Workers
      PROVE  HoldsOn(w)'
      BY <1>2, <1>3 DEF OutcomeInv, HoldsOn, At, HasDir, HasTask, Active, HasUserFile
<1> QED BY <1>1, <1>4 DEF Outcome, OutcomeInv, NoOutcome, NoneRestored, NoneCompleted,
           RestoredStep, CompletedStep

LEMMA NextOutcome ==
    ASSUME Typed, OneWorker, OutcomeInv, [Next]_vars
    PROVE  Outcome
<1>0. FilesKnown
      BY DEF OutcomeInv
<1>1. ASSUME NEW w \in Workers, Uploading(w)
      PROVE  Outcome
      BY <1>0, <1>1, UploadOutcome, InstantLinkOutcome, CountChunksOutcome, ReadTaskOutcome,
         WriteTaskOutcome, LockMergeOutcome, MergeChunkOutcome, RemoveTempDirOutcome,
         InsertFileInfoOutcome, InsertUserFileOutcome, CleanPrecheckCacheOutcome,
         RenameUploadOutcome DEF Uploading
<1>2. ASSUME NEW w \in Workers, Managing(w)
      PROVE  Outcome
      BY <1>0, <1>2, ManageOutcome, RenewUploadTaskOutcome, RenewWriteTaskOutcome,
         MoveFileOutcome DEF Managing
<1>3. ASSUME NEW w \in Workers, Recycling(w)
      PROVE  Outcome
      BY <1>0, <1>3, RecycleOutcome, MoveToRecycledOutcome, PurgesOutcome,
         RestoreReadFileOutcome, RestoreReadDirOutcome, RestoreApplyOutcome DEF Recycling
<1>4. ASSUME Ticking
      PROVE  Outcome
      <2>1. /\ UNCHANGED <<req, disk, used>>
            /\ UNCHANGED db \/ \E ts : DeleteTasks(ts)
            BY <1>4 DEF Ticking, DeleteExpiredTasks, stored
      <2> QED BY <2>1, QuietStepOutcome
<1>5. CASE UNCHANGED vars
      BY <1>5, QuietStepOutcome DEF vars, stored
<1> QED BY <1>1, <1>2, <1>3, <1>4, <1>5, CallFailsOutcome, CrashOutcome DEF Next

LEMMA InitOutcome ==
    ASSUME Init
    PROVE  OutcomeInv
<1>1. \A w \in Workers : req[w].pc = "idle"
      BY DEF Init, RequestsInit, Idle
<1>2. \A w \in Workers : HoldsOn(w)
      BY <1>1 DEF HoldsOn, At
<1>3. FilesKnown
      BY DEF Init, StoreInit, FilesKnown, Empty
<1> QED BY <1>2, <1>3 DEF OutcomeInv

(* A file goes back into the folder it was in when that folder is there,   *)
(* and into a root when it is not, also when looking it up fails: as long  *)
(* as no folder is deleted between RestoreReadDir and the update.          *)
THEOREM RestoredIntoDirHolds ==
    ASSUME OneWorker
    PROVE  Spec => RestoredIntoDir
<1>1. Typed /\ OutcomeInv /\ [Next]_vars => OutcomeInv'
      BY NextOutcome DEF Outcome
<1>2. Typed /\ OutcomeInv /\ [Next]_vars => [RestoredStep]_vars
      BY NextOutcome DEF Outcome
<1>3. Spec => [][RestoredStep]_vars
      BY <1>1, <1>2, InitOutcome, TypedIsInvariant, PTL DEF Spec
<1> QED BY <1>3 DEF RestoredIntoDir, RestoredStep

(* A task turns completed only by the request that has put the file on the *)
(* disk, its file_info and its user file into the tables, and they are all *)
(* still there: no failure on the way is recorded as a success, and no     *)
(* renewal brings the status back.                                         *)
THEOREM CompletedHasFileHolds ==
    ASSUME OneWorker
    PROVE  Spec => CompletedHasFile
<1>1. Typed /\ OutcomeInv /\ [Next]_vars => OutcomeInv'
      BY NextOutcome DEF Outcome
<1>2. Typed /\ OutcomeInv /\ [Next]_vars => [CompletedStep]_vars
      BY NextOutcome DEF Outcome
<1>3. Spec => [][CompletedStep]_vars
      BY <1>1, <1>2, InitOutcome, TypedIsInvariant, PTL DEF Spec
<1> QED BY <1>3 DEF CompletedHasFile, CompletedStep

-----------------------------------------------------------------------------
(***************************************************************************)
(* Shelf.  A file that a request is making is on the disk, and nothing but *)
(* this request knows its key; every key there is a trace of was drawn.    *)
(***************************************************************************)
MakeSteps == {"merge", "remove temp", "info"}

Makes(w) == req[w].pc \in MakeSteps /\ (At(w, "remove temp") => req[w].part # Single)

Own(w) ==
    Makes(w) =>
        /\ req[w].file \in DOMAIN disk \ DOMAIN db.fileInfos
        /\ \A l \in DOMAIN db.userFiles : db.userFiles[l].file # req[w].file
        /\ \A v \in Workers \ {w} : req[v].file # req[w].file

KeysDrawn ==
    /\ DOMAIN disk \cup DOMAIN db.fileInfos \subseteq Known("file")
    /\ FilesKnown
    /\ \A l \in DOMAIN db.userFiles : db.userFiles[l].file \in Known("file")
    /\ \A w \in Workers : req[w].file \in Known("file") \cup {NULL}

ShelfInv == KeysDrawn /\ \A w \in Workers : Own(w)

(* What a step does to the shelf, and which request does it.               *)
ShelfEvent ==
    \/ UNCHANGED TheShelf!shelfVars
    \/ \E f \in Key("file") :
        \/ TheShelf!Keep(f) \/ TheShelf!Remove(f)
        \/ \E c \in Contents : TheShelf!Enter(f, c)
        \/ TheShelf!Strike(f) /\ \E w \in Workers : At(w, "drop info")
    \/ \E l \in Key("userFile") : TheShelf!Hide(l) \/ TheShelf!Show(l) \/ TheShelf!Erase(l)
    \/ \E l \in Key("userFile"), f \in Key("file") :
        /\ TheShelf!Link(l, f)
        /\ \E w \in Workers : req[w].pc \in {"instant", "link"} /\ f = req[w].file

(* A request takes up a candidate only while it is in file_info.           *)
Candidate ==
    \A w \in Workers :
        At(w, "instant")' => req'[w] = req[w] \/ req'[w].file \in DOMAIN db'.fileInfos

Shelving == ShelfInv' /\ ShelfEvent /\ Candidate

SameRows == db'.fileInfos = db.fileInfos /\ db'.userFiles = db.userFiles

SameDrawn == Known("file")' = Known("file") /\ Known("userFile")' = Known("userFile")

SameShelf == SameRows /\ SameDrawn /\ DOMAIN disk' = DOMAIN disk

KeepsFile(w) == req'[w].file \in {NULL, req[w].file}

LEMMA SameShelfEvent ==
    ASSUME SameShelf
    PROVE  ShelfEvent
<1>1. UNCHANGED TheShelf!shelfVars
      BY DEF SameShelf, SameRows, SameDrawn, TheShelf!shelfVars, Active, HasUserFile
<1> QED BY <1>1 DEF ShelfEvent

LEMMA ShelfTables ==
    Typed => DOMAIN db = {"fileInfos", "userFiles", "recycled", "uploadTasks", "virtualPaths",
                          "freeSpace"}
BY OutcomeTables

LEMMA DrawnKey ==
    ASSUME Typed, NEW kind \in Kinds, Draw(kind)
    PROVE  /\ NextKey(kind) \in Key(kind) \ Known(kind)
           /\ Known(kind)' = Known(kind) \cup {NextKey(kind)}
           /\ \A k \in Kinds : k # kind => Known(k)' = Known(k)
<1>1. NextKey(kind) \in Key(kind)
      BY DrawType DEF Typed, TypeOK
<1>2. used \in [Kinds -> Nat]
      BY DEF Typed, TypeOK, KeysOK
<1>3. \A k \in Kinds : used'[k] = IF k = kind THEN used[k] + 1 ELSE used[k]
      BY <1>2 DEF Draw
<1> QED BY <1>1, <1>2, <1>3 DEF Known, NextKey

LEMMA DrawElsewhere ==
    ASSUME Typed, NEW kind \in Kinds \ {"file", "userFile"}, Draw(kind)
    PROVE  SameDrawn
BY DrawnKey DEF SameDrawn, Kinds

LEMMA StatementsShelf ==
    ASSUME Typed
    PROVE  /\ UNCHANGED db => SameRows
           /\ \A t, row : PutTask(t, row) => SameRows
           /\ \A ts : DeleteTasks(ts) => SameRows
           /\ \A r, u, l : CreateRecycled(r, u, l) => SameRows
           /\ \A row : DeleteRecycled(row) => SameRows
           /\ \A d, u, p : CreateDir(d, u, p) => SameRows
           /\ \A d : DeleteDirRow(d) => SameRows
           /\ \A u, n : UpdateUser(u, n) => SameRows
BY ShelfTables DEF SameRows, PutTask, DeleteTasks, CreateRecycled, DeleteRecycled, CreateDir,
       DeleteDirRow, UpdateUser

(* Steps that neither make nor take up a file.                             *)
LEMMA SameShelfSteps ==
    ASSUME Typed
    PROVE  /\ SameRows /\ UNCHANGED <<disk, used>> => SameShelf
           /\ \A w, d : SameRows /\ EndWriting(w, d) /\ UNCHANGED used => SameShelf
           /\ \A k \in Kinds \ {"file", "userFile"} :
                SameRows /\ UNCHANGED disk /\ Draw(k) => SameShelf
           /\ UNCHANGED db => SameRows
           /\ \A t, row : PutTask(t, row) => SameRows
           /\ \A ts : DeleteTasks(ts) => SameRows
           /\ \A r, u, l : CreateRecycled(r, u, l) => SameRows
           /\ \A row : DeleteRecycled(row) => SameRows
           /\ \A d, u, p : CreateDir(d, u, p) => SameRows
           /\ \A d : DeleteDirRow(d) => SameRows
           /\ \A u, n : UpdateUser(u, n) => SameRows
<1>1. UNCHANGED used => SameDrawn
      BY DEF SameDrawn, Known
<1>2. \A w, d : EndWriting(w, d) => DOMAIN disk' = DOMAIN disk
      BY DEF EndWriting
<1> QED BY <1>1, <1>2, StatementsShelf, DrawElsewhere DEF SameShelf

LEMMA FileKept ==
    ASSUME Typed, NEW w \in Workers
    PROVE  /\ \A pc : Goto(w, pc) => KeepsFile(w)
           /\ Finish(w) => KeepsFile(w)
           /\ AfterProgress(w) => KeepsFile(w)
           /\ MergeFailed(w) => KeepsFile(w)
           /\ \A d : NextDir(w, d) => KeepsFile(w)
           /\ NextRecord(w) => KeepsFile(w)
<1>1. \A pc : Goto(w, pc) => KeepsFile(w)
      BY GotoMoves DEF KeepsFile
<1>2. Finish(w) => KeepsFile(w)
      BY FinishMoves DEF KeepsFile, Idle
<1>3. AfterProgress(w) => KeepsFile(w)
      BY <1>1, <1>2 DEF AfterProgress
<1>4. MergeFailed(w) => KeepsFile(w)
      BY Fields DEF MergeFailed, KeepsFile
<1>5. ASSUME NEW d, NextDir(w, d)
      PROVE  KeepsFile(w)
      <2>1. CASE req[w].doomed = {d}
            BY <1>2, <1>5, <2>1 DEF NextDir
      <2>2. CASE req[w].doomed # {d}
            BY <1>5, <2>2, Fields DEF NextDir, KeepsFile
      <2> QED BY <2>1, <2>2
<1>6. ASSUME NextRecord(w)
      PROVE  KeepsFile(w)
      <2>1. CASE req[w].todo = {}
            BY <1>2, <1>6, <2>1 DEF NextRecord
      <2>2. CASE req[w].todo # {}
            BY <1>6, <2>2, Fields DEF NextRecord, KeepsFile, Idle
      <2> QED BY <2>1, <2>2
<1> QED BY <1>1, <1>2, <1>3, <1>4, <1>5, <1>6

LEMMA MakerHasFile ==
    ASSUME Typed, NEW w \in Workers, Makes(w)
    PROVE  req[w].file # NULL
<1>1. Filled(req[w])
      BY DEF Typed, RequestsFilled, GoodRequest
<1> QED BY <1>1 DEF Filled, Makes, MakeSteps, At

(* What is left to show of a step that the requests in other files allow.  *)
LEMMA OthersOwn ==
    ASSUME ShelfInv, NEW w \in Workers, Others(w), KeysDrawn', Own(w)',
           \A v \in Workers \ {w} : Makes(v) =>
                /\ req[v].file \in DOMAIN disk' \ DOMAIN db'.fileInfos
                /\ \A l \in DOMAIN db'.userFiles : db'.userFiles[l].file # req[v].file
                /\ req'[w].file # req[v].file
    PROVE  ShelfInv'
<1>1. ASSUME NEW v \in Workers \ {w}
      PROVE  Own(v)'
      <2>1. req'[v] = req[v]
            BY DEF Others
      <2>2. \A u \in Workers \ {v} : u # w => req'[u] = req[u]
            BY DEF Others
      <2> QED BY <2>1, <2>2 DEF ShelfInv, Own, Makes, At
<1> QED BY <1>1 DEF ShelfInv

LEMMA OthersCandidate ==
    ASSUME NEW w \in Workers, Others(w),
           req'[w].pc = "instant" => req'[w].file \in DOMAIN db'.fileInfos
    PROVE  Candidate
BY DEF Others, Candidate, At

LEMMA QuietShelf ==
    ASSUME Typed, ShelfInv, NEW w \in Workers, Others(w), SameShelf, KeepsFile(w),
           Makes(w)' => Makes(w) /\ req'[w].file = req[w].file,
           req'[w].pc # "instant"
    PROVE  Shelving
<1>1. KeysDrawn'
      BY DEF ShelfInv, KeysDrawn, FilesKnown, SameShelf, SameRows, SameDrawn, KeepsFile, Others
<1>2. Own(w)'
      BY DEF ShelfInv, Own, SameShelf, SameRows, Others
<1>3. ASSUME NEW v \in Workers \ {w}, Makes(v)
      PROVE  req'[w].file # req[v].file
      BY <1>3, MakerHasFile DEF ShelfInv, Own, KeepsFile
<1>4. ShelfInv'
      BY <1>1, <1>2, <1>3, OthersOwn DEF ShelfInv, Own, SameShelf, SameRows
<1> QED BY <1>4, OthersCandidate, SameShelfEvent DEF Shelving

LEMMA OutsideShelf ==
    ASSUME Typed, ShelfInv, NEW w \in Workers, NEW from, NEW to, Moves(w, from, to),
           to \cap (MakeSteps \cup {"instant"}) = {}, KeepsFile(w), SameShelf
    PROVE  Shelving
<1>1. Others(w) /\ ~Makes(w)' /\ req'[w].pc # "instant"
      BY DEF Moves, Makes
<1> QED BY <1>1, QuietShelf

-----------------------------------------------------------------------------
(***************************************************************************)
(* Steps that leave the shelf alone.                                       *)
(***************************************************************************)
LEMMA UploadShelf ==
    ASSUME Typed, ShelfInv, NEW w \in Workers,
           Precheck(w) \/ InstantDeduct(w) \/ CreateTask(w) \/ CachePrecheck(w) \/
           UploadChunk(w) \/ UploadChunkLate(w) \/ EvictPrecheck(w) \/ MakeTempDir(w) \/
           SaveOpen(w) \/ SaveCopy(w) \/ CountChunks(w) \/ ReadTask(w) \/
           WriteTask(w) \/ UnlockMerge(w)
    PROVE  Shelving
<1>1. CASE Precheck(w)
      <2>1. SameShelf
            BY <1>1, SameShelfSteps DEF Precheck, stored
      <2>2. KeepsFile(w)
            <3>1. ASSUME NEW u, NEW c, NEW d, NEW n,
                         req' = [req EXCEPT ![w].pc = "candidate", ![w].user = u,
                                            ![w].content = c, ![w].dir = d, ![w].free = n]
                  PROVE  KeepsFile(w)
                  BY <3>1, Fields DEF KeepsFile
            <3>2. PICK u, c, d :
                    req' = [req EXCEPT ![w].pc = "candidate", ![w].user = u, ![w].content = c,
                                       ![w].dir = d, ![w].free = db.freeSpace[u]]
                  BY <1>1 DEF Precheck
            <3> QED BY ONLY <3>1, <3>2
      <2> QED BY <1>1, <2>1, <2>2, PrecheckMoves, OutsideShelf DEF MakeSteps
<1>2. CASE InstantDeduct(w)
      <2>1. SameShelf
            BY <1>2, SameShelfSteps DEF InstantDeduct, stored
      <2>2. KeepsFile(w)
            BY <1>2, FileKept DEF InstantDeduct
      <2> QED BY <1>2, <2>1, <2>2, InstantDeductMoves, OutsideShelf DEF MakeSteps
<1>3. CASE CreateTask(w)
      <2>1. SameShelf
            BY <1>3, SameShelfSteps DEF CreateTask, stored, Kinds
      <2>2. KeepsFile(w)
            BY <1>3, Fields DEF CreateTask, KeepsFile
      <2> QED BY <1>3, <2>1, <2>2, CreateTaskMoves, OutsideShelf DEF MakeSteps
<1>4. CASE CachePrecheck(w)
      <2>1. SameShelf
            BY <1>4, SameShelfSteps DEF CachePrecheck, stored
      <2>2. KeepsFile(w)
            BY <1>4, FileKept DEF CachePrecheck
      <2> QED BY <1>4, <2>1, <2>2, CachePrecheckMoves, OutsideShelf DEF MakeSteps
<1>5. CASE UploadChunk(w)
      <2>1. SameShelf
            BY <1>5, SameShelfSteps DEF UploadChunk, stored
      <2>2. KeepsFile(w)
            <3>1. ASSUME NEW t, NEW p, NEW u, NEW n, NEW c, NEW d,
                         req' = [req EXCEPT ![w].pc = "mkdir", ![w].task = t, ![w].part = p,
                                            ![w].user = u, ![w].total = n, ![w].content = c,
                                            ![w].dir = d]
                  PROVE  KeepsFile(w)
                  BY <3>1, Fields DEF KeepsFile
            <3>2. PICK t \in DOMAIN items, p \in UploadParts, u \in Users, n \in {0} \cup Totals :
                    /\ p # Single => n \in Totals
                    /\ req' = [req EXCEPT ![w].pc = "mkdir", ![w].task = t, ![w].part = p,
                                          ![w].user = u, ![w].total = n,
                                          ![w].content = items[t].value.content,
                                          ![w].dir = items[t].value.dir]
                  BY <1>5, ChunkRequest, Zenon
            <3> QED BY ONLY <3>1, <3>2
      <2> QED BY <1>5, <2>1, <2>2, UploadChunkMoves, OutsideShelf DEF MakeSteps
<1>6. CASE UploadChunkLate(w)
      <2>1. SameShelf
            BY <1>6, SameShelfSteps DEF UploadChunkLate, stored
      <2>2. KeepsFile(w)
            BY <1>6, Fields DEF UploadChunkLate, KeepsFile
      <2> QED BY <1>6, <2>1, <2>2, UploadChunkLateMoves, OutsideShelf DEF MakeSteps
<1>7. CASE EvictPrecheck(w)
      <2>1. SameShelf
            BY <1>7, SameShelfSteps DEF EvictPrecheck, stored
      <2>2. KeepsFile(w)
            BY <1>7, FileKept DEF EvictPrecheck
      <2> QED BY <1>7, <2>1, <2>2, EvictPrecheckMoves, OutsideShelf DEF MakeSteps
<1>8. CASE MakeTempDir(w)
      <2>1. SameShelf
            BY <1>8, SameShelfSteps DEF MakeTempDir, stored
      <2>2. KeepsFile(w)
            BY <1>8, FileKept DEF MakeTempDir
      <2> QED BY <1>8, <2>1, <2>2, MakeTempDirMoves, OutsideShelf DEF MakeSteps
<1>9. CASE SaveOpen(w)
      <2>1. SameShelf
            BY <1>9, SameShelfSteps DEF SaveOpen, stored
      <2>2. KeepsFile(w)
            BY <1>9, FileKept DEF SaveOpen
      <2> QED BY <1>9, <2>1, <2>2, SaveOpenMoves, OutsideShelf DEF MakeSteps
<1>10. CASE SaveCopy(w)
      <2>1. SameShelf
            BY <1>10, SameShelfSteps DEF SaveCopy, stored
      <2>2. KeepsFile(w)
            BY <1>10, FileKept DEF SaveCopy
      <2> QED BY <1>10, <2>1, <2>2, SaveCopyMoves, OutsideShelf DEF MakeSteps
<1>11. CASE CountChunks(w)
      <2>1. SameShelf
            BY <1>11, SameShelfSteps DEF CountChunks, stored
      <2>2. KeepsFile(w)
            BY <1>11, Fields DEF CountChunks, KeepsFile
      <2> QED BY <1>11, <2>1, <2>2, CountChunksMoves, OutsideShelf DEF MakeSteps
<1>12. CASE ReadTask(w)
      <2>1. SameShelf
            BY <1>12, SameShelfSteps DEF ReadTask, stored
      <2>2. KeepsFile(w)
            BY <1>12, Fields, FileKept DEF ReadTask, KeepsFile
      <2> QED BY <1>12, <2>1, <2>2, ReadTaskMoves, OutsideShelf DEF MakeSteps
<1>13. CASE WriteTask(w)
      <2>1. SameShelf
            BY <1>13, SameShelfSteps DEF WriteTask, stored
      <2>2. KeepsFile(w)
            BY <1>13, FileKept DEF WriteTask
      <2> QED BY <1>13, <2>1, <2>2, WriteTaskMoves, OutsideShelf DEF MakeSteps
<1>14. CASE UnlockMerge(w)
      <2>1. SameShelf
            BY <1>14, SameShelfSteps DEF UnlockMerge, stored
      <2>2. KeepsFile(w)
            BY <1>14, FileKept DEF UnlockMerge
      <2> QED BY <1>14, <2>1, <2>2, UnlockMergeMoves, OutsideShelf DEF MakeSteps
<1> QED BY <1>1, <1>2, <1>3, <1>4, <1>5, <1>6, <1>7, <1>8, <1>9, <1>10, <1>11, <1>12,
           <1>13, <1>14

LEMMA ManageShelf ==
    ASSUME Typed, ShelfInv, NEW w \in Workers,
           RenewUploadTask(w) \/ RenewWriteTask(w) \/ DeleteUploadTask(w) \/
           DropTask(w) \/ MakeDir(w) \/ InsertDir(w) \/ DeleteDir(w) \/ DropDir(w)
    PROVE  Shelving
<1>1. CASE RenewUploadTask(w)
      <2>1. SameShelf
            BY <1>1, SameShelfSteps DEF RenewUploadTask, stored
      <2>2. KeepsFile(w)
            <3>1. ASSUME NEW t, NEW s, NEW n, NEW e,
                         req' = [req EXCEPT ![w].pc = "renew", ![w].task = t, ![w].status = s,
                                            ![w].uploaded = n, ![w].expires = e]
                  PROVE  KeepsFile(w)
                  BY <3>1, Fields DEF KeepsFile
            <3>2. PICK t : req' = [req EXCEPT ![w].pc = "renew", ![w].task = t,
                                              ![w].status = db.uploadTasks[t].status,
                                              ![w].uploaded = db.uploadTasks[t].uploaded,
                                              ![w].expires = clock + TaskTTL]
                  BY <1>1 DEF RenewUploadTask
            <3> QED BY ONLY <3>1, <3>2
      <2> QED BY <1>1, <2>1, <2>2, RenewUploadTaskMoves, OutsideShelf DEF MakeSteps
<1>2. CASE RenewWriteTask(w)
      <2>1. SameShelf
            BY <1>2, SameShelfSteps DEF RenewWriteTask, stored
      <2>2. KeepsFile(w)
            BY <1>2, FileKept DEF RenewWriteTask
      <2> QED BY <1>2, <2>1, <2>2, RenewWriteTaskMoves, OutsideShelf DEF MakeSteps
<1>3. CASE DeleteUploadTask(w)
      <2>1. SameShelf
            BY <1>3, SameShelfSteps DEF DeleteUploadTask, stored
      <2>2. KeepsFile(w)
            BY <1>3, Fields DEF DeleteUploadTask, KeepsFile
      <2> QED BY <1>3, <2>1, <2>2, DeleteUploadTaskMoves, OutsideShelf DEF MakeSteps
<1>4. CASE DropTask(w)
      <2>1. SameShelf
            BY <1>4, SameShelfSteps DEF DropTask, stored
      <2>2. KeepsFile(w)
            BY <1>4, FileKept DEF DropTask
      <2> QED BY <1>4, <2>1, <2>2, DropTaskMoves, OutsideShelf DEF MakeSteps
<1>5. CASE MakeDir(w)
      <2>1. SameShelf
            BY <1>5, SameShelfSteps DEF MakeDir, stored
      <2>2. KeepsFile(w)
            BY <1>5, Fields DEF MakeDir, KeepsFile
      <2> QED BY <1>5, <2>1, <2>2, MakeDirMoves, OutsideShelf DEF MakeSteps
<1>6. CASE InsertDir(w)
      <2>1. SameShelf
            BY <1>6, SameShelfSteps DEF InsertDir, stored, Kinds
      <2>2. KeepsFile(w)
            BY <1>6, FileKept DEF InsertDir
      <2> QED BY <1>6, <2>1, <2>2, InsertDirMoves, OutsideShelf DEF MakeSteps
<1>7. CASE DeleteDir(w)
      <2>1. SameShelf
            BY <1>7, SameShelfSteps DEF DeleteDir, stored
      <2>2. KeepsFile(w)
            BY <1>7, Fields DEF DeleteDir, KeepsFile
      <2> QED BY <1>7, <2>1, <2>2, DeleteDirMoves, OutsideShelf DEF MakeSteps
<1>8. CASE DropDir(w)
      <2>1. SameShelf
            BY <1>8, SameShelfSteps DEF DropDir, stored
      <2>2. KeepsFile(w)
            BY <1>8, FileKept DEF DropDir
      <2> QED BY <1>8, <2>1, <2>2, DropDirMoves, OutsideShelf DEF MakeSteps
<1> QED BY <1>1, <1>2, <1>3, <1>4, <1>5, <1>6, <1>7, <1>8

LEMMA RecycleShelf ==
    ASSUME Typed, ShelfInv, NEW w \in Workers,
           InsertRecycled(w) \/ Restore(w) \/ RestoreReadFile(w) \/ RestoreReadDir(w) \/
           PurgeCountRefs(w) \/ PurgeReadInfo(w) \/ PurgeReadQuota(w) \/
           PurgeWriteQuota(w) \/ DropRecord(w)
    PROVE  Shelving
<1>1. CASE InsertRecycled(w)
      <2>1. SameShelf
            BY <1>1, SameShelfSteps DEF InsertRecycled, stored, Kinds
      <2>2. KeepsFile(w)
            BY <1>1, FileKept DEF InsertRecycled
      <2> QED BY <1>1, <2>1, <2>2, InsertRecycledMoves, OutsideShelf DEF MakeSteps
<1>2. CASE Restore(w)
      <2>1. SameShelf
            BY <1>2, SameShelfSteps DEF Restore, stored
      <2>2. KeepsFile(w)
            <3>1. ASSUME NEW r, NEW u, NEW f,
                         req' = [req EXCEPT ![w].pc = "restore file", ![w].record = r,
                                            ![w].user = u, ![w].userFile = f]
                  PROVE  KeepsFile(w)
                  BY <3>1, Fields DEF KeepsFile
            <3>2. PICK row :
                    req' = [req EXCEPT ![w].pc = "restore file", ![w].record = row,
                                       ![w].user = row.user, ![w].userFile = row.userFile]
                  BY <1>2 DEF Restore
            <3> QED BY ONLY <3>1, <3>2
      <2> QED BY <1>2, <2>1, <2>2, RestoreMoves, OutsideShelf DEF MakeSteps
<1>3. CASE RestoreReadFile(w)
      <2>1. SameShelf
            BY <1>3, SameShelfSteps DEF RestoreReadFile, stored
      <2>2. KeepsFile(w)
            <3>1. ASSUME NEW pc, NEW d,
                         req' = [req EXCEPT ![w].pc = pc, ![w].dir = d]
                  PROVE  KeepsFile(w)
                  BY <3>1, Fields DEF KeepsFile
            <3>2. CASE Finish(w)
                  BY <3>2, FileKept
            <3>3. CASE \E pc, d : req' = [req EXCEPT ![w].pc = pc, ![w].dir = d]
                  BY <3>1, <3>3
            <3>4. Finish(w) \/ \E pc, d : req' = [req EXCEPT ![w].pc = pc, ![w].dir = d]
                  BY ONLY <1>3 DEF RestoreReadFile
            <3> QED BY <3>2, <3>3, <3>4
      <2> QED BY <1>3, <2>1, <2>2, RestoreReadFileMoves, OutsideShelf DEF MakeSteps
<1>4. CASE RestoreReadDir(w)
      <2>1. SameShelf
            BY <1>4, SameShelfSteps DEF RestoreReadDir, stored
      <2>2. KeepsFile(w)
            BY <1>4, Fields, FileKept DEF RestoreReadDir, RestoreToRoot, KeepsFile
      <2> QED BY <1>4, <2>1, <2>2, RestoreReadDirMoves, OutsideShelf DEF MakeSteps
<1>5. CASE PurgeCountRefs(w)
      <2>1. SameShelf
            BY <1>5, SameShelfSteps DEF PurgeCountRefs, stored
      <2>2. KeepsFile(w)
            BY <1>5, FileKept DEF PurgeCountRefs
      <2> QED BY <1>5, <2>1, <2>2, PurgeCountRefsMoves, OutsideShelf DEF MakeSteps
<1>6. CASE PurgeReadInfo(w)
      <2>1. SameShelf
            BY <1>6, SameShelfSteps DEF PurgeReadInfo, stored
      <2>2. KeepsFile(w)
            BY <1>6, FileKept DEF PurgeReadInfo
      <2> QED BY <1>6, <2>1, <2>2, PurgeReadInfoMoves, OutsideShelf DEF MakeSteps
<1>7. CASE PurgeReadQuota(w)
      <2>1. SameShelf
            BY <1>7, SameShelfSteps DEF PurgeReadQuota, stored
      <2>2. KeepsFile(w)
            BY <1>7, Fields, FileKept DEF PurgeReadQuota, KeepsFile
      <2> QED BY <1>7, <2>1, <2>2, PurgeReadQuotaMoves, OutsideShelf DEF MakeSteps
<1>8. CASE PurgeWriteQuota(w)
      <2>1. SameShelf
            BY <1>8, SameShelfSteps DEF PurgeWriteQuota, stored
      <2>2. KeepsFile(w)
            BY <1>8, FileKept DEF PurgeWriteQuota
      <2> QED BY <1>8, <2>1, <2>2, PurgeWriteQuotaMoves, OutsideShelf DEF MakeSteps
<1>9. CASE DropRecord(w)
      <2>1. SameShelf
            BY <1>9, SameShelfSteps DEF DropRecord, stored
      <2>2. KeepsFile(w)
            BY <1>9, FileKept DEF DropRecord
      <2> QED BY <1>9, <2>1, <2>2, DropRecordMoves, OutsideShelf DEF MakeSteps
<1> QED BY <1>1, <1>2, <1>3, <1>4, <1>5, <1>6, <1>7, <1>8, <1>9

LEMMA PurgesShelf ==
    ASSUME Typed, ShelfInv, NEW w \in Workers,
           DeletePermanently(w) \/ EmptyBin(w) \/ CleanExpired(w)
    PROVE  Shelving
<1>1. PICK rows : Purges(w, rows) /\ At(w, "idle")
      BY DEF DeletePermanently, EmptyBin, CleanExpired, Starts
<1>2. SameShelf
      BY <1>1, SameShelfSteps DEF Purges, stored
<1>3. KeepsFile(w)
      BY <1>1, Fields DEF Purges, KeepsFile
<1> QED BY <1>1, <1>2, <1>3, PurgesMoves, OutsideShelf DEF MakeSteps

(* A step of a request that is making a file, to a later one.              *)
LEMMA OnwardShelf ==
    ASSUME Typed, ShelfInv, NEW w \in Workers, SameShelf, Makes(w),
           NEW pc, pc \in MakeSteps, Goto(w, pc)
    PROVE  Shelving
<1>1. /\ Others(w) /\ KeepsFile(w) /\ req'[w].file = req[w].file /\ req'[w].pc = pc
      BY GotoMoves DEF KeepsFile
<1> QED BY <1>1, QuietShelf DEF MakeSteps

LEMMA LeaveShelf ==
    ASSUME Typed, ShelfInv, NEW w \in Workers, SameShelf, KeepsFile(w), Others(w), ~Makes(w)',
           req'[w].pc # "instant"
    PROVE  Shelving
BY QuietShelf

LEMMA MergeFailedShelf ==
    ASSUME Typed, ShelfInv, NEW w \in Workers, SameShelf, MergeFailed(w)
    PROVE  Shelving
<1>1. Others(w) /\ req'[w].pc = "progress" /\ KeepsFile(w)
      BY MergeFailedMoves, FileKept
<1> QED BY <1>1, LeaveShelf DEF Makes, MakeSteps

LEMMA GotoShelf ==
    ASSUME Typed, ShelfInv, NEW w \in Workers, SameShelf, NEW pc, Goto(w, pc),
           pc \notin MakeSteps \cup {"instant"}
    PROVE  Shelving
<1>1. Others(w) /\ req'[w].pc = pc /\ KeepsFile(w)
      BY GotoMoves, FileKept
<1> QED BY <1>1, LeaveShelf DEF Makes

LEMMA FinishShelf ==
    ASSUME Typed, ShelfInv, NEW w \in Workers, SameShelf, Finish(w)
    PROVE  Shelving
<1>1. Others(w) /\ req'[w].pc = "idle" /\ KeepsFile(w)
      BY FinishMoves, FileKept
<1> QED BY <1>1, LeaveShelf DEF Makes, MakeSteps

(* The file that came in one piece is linked; the folder goes.             *)
LEMMA SingleShelf ==
    ASSUME Typed, ShelfInv, NEW w \in Workers, SameShelf, req[w].part = Single,
           Goto(w, "remove temp")
    PROVE  Shelving
<1>1. Others(w) /\ req'[w].pc = "remove temp" /\ req'[w].part = Single /\ KeepsFile(w)
      BY GotoMoves, FileKept
<1> QED BY <1>1, LeaveShelf DEF Makes, At

LEMMA FindCandidateShelf ==
    ASSUME Typed, ShelfInv, NEW w \in Workers, FindCandidate(w)
    PROVE  Shelving
<1>1. SameShelf
      BY SameShelfSteps DEF FindCandidate, stored
<1>2. CASE Goto(w, "task")
      BY <1>1, <1>2, GotoShelf DEF MakeSteps
<1>3. ASSUME NEW f \in DOMAIN db.fileInfos,
             req' = [req EXCEPT ![w].pc = "instant", ![w].file = f]
      PROVE  Shelving
      <2>1. /\ Others(w) /\ req'[w].pc = "instant" /\ req'[w].file = f
            BY <1>3, Fields, RequestsType DEF Others
      <2>2. KeysDrawn'
            BY <1>1, <2>1 DEF ShelfInv, KeysDrawn, FilesKnown, SameShelf, SameRows, SameDrawn,
                              Others
      <2>3. Own(w)'
            BY <2>1 DEF Own, Makes, MakeSteps
      <2>4. ShelfInv'
            BY <1>1, <2>1, <2>2, <2>3, OthersOwn DEF ShelfInv, Own, SameShelf, SameRows
      <2>5. f \in DOMAIN db'.fileInfos
            BY <1>1 DEF SameShelf, SameRows
      <2> QED BY <1>1, <2>1, <2>4, <2>5, OthersCandidate, SameShelfEvent DEF Shelving
<1> QED BY <1>2, <1>3 DEF FindCandidate, Candidates

(* CreateUserFile: the link to a file that was drawn.                      *)
LEMMA LinkShelf ==
    ASSUME Typed, ShelfInv, NEW w \in Workers, NEW l, NEW u, NEW d,
           req[w].pc \in {"instant", "link"}, l = NextKey("userFile"), Draw("userFile"),
           CreateUserFile(l, u, req[w].file, d), UNCHANGED disk,
           Others(w), KeepsFile(w), ~Makes(w)', req'[w].pc # "instant"
    PROVE  Shelving
<1>0. PICK f : f = req[w].file
      OBVIOUS
<1> DEFINE row == [user |-> u, file |-> f, dir |-> d, deleted |-> FALSE]
<1>1. db'.userFiles = Put(db.userFiles, l, row) /\ db'.fileInfos = db.fileInfos
      BY <1>0, ShelfTables DEF CreateUserFile
<1>2. row.file = f /\ row.deleted = FALSE
      OBVIOUS
<1>3. f \in Known("file") /\ f \in Key("file")
      <2>1. f # NULL
            BY <1>0 DEF Typed, RequestsFilled, GoodRequest, Filled
      <2>2. f \in Known("file")
            BY <1>0, <2>1 DEF ShelfInv, KeysDrawn
      <2> QED BY <2>2, KnownType DEF Typed, TypeOK, Kinds
<1> HIDE DEF row
<1>4. /\ l \in Key("userFile") \ Known("userFile")
      /\ Known("userFile")' = Known("userFile") \cup {l}
      /\ Known("file")' = Known("file")
      BY DrawnKey DEF Kinds
<1>5. /\ l \notin DOMAIN db.userFiles
      /\ DOMAIN db'.userFiles = DOMAIN db.userFiles \cup {l}
      /\ db'.userFiles[l] = row
      /\ \A k \in DOMAIN db.userFiles : db'.userFiles[k] = db.userFiles[k]
      BY <1>1, <1>4 DEF ShelfInv, KeysDrawn, FilesKnown, Put
<1>6. TheShelf!Link(l, f)
      <2>1. {k \in DOMAIN db.userFiles : Active(k)}'
              = {k \in DOMAIN db.userFiles : Active(k)} \cup {l}
            BY <1>2, <1>5 DEF Active, HasUserFile
      <2>2. [k \in DOMAIN db.userFiles |-> db.userFiles[k].file]'
              = [k \in DOMAIN db.userFiles \cup {l} |->
                    IF k = l THEN f ELSE db.userFiles[k].file]
            BY <1>2, <1>5
      <2> QED BY <1>1, <1>3, <1>4, <2>1, <2>2 DEF TheShelf!Link
<1>7. ShelfEvent
      BY <1>0, <1>3, <1>4, <1>6 DEF ShelfEvent
<1>8. KeysDrawn'
      BY <1>0, <1>1, <1>2, <1>3, <1>4, <1>5 DEF ShelfInv, KeysDrawn, FilesKnown, KeepsFile, Others
<1>9. Own(w)'
      BY DEF Own
<1>10. ASSUME NEW v \in Workers \ {w}, Makes(v)
       PROVE  /\ req[v].file \in DOMAIN disk' \ DOMAIN db'.fileInfos
              /\ \A k \in DOMAIN db'.userFiles : db'.userFiles[k].file # req[v].file
              /\ req'[w].file # req[v].file
       BY <1>0, <1>1, <1>2, <1>5, <1>10, MakerHasFile DEF ShelfInv, Own, KeepsFile
<1>11. ShelfInv'
       BY <1>8, <1>9, <1>10, OthersOwn
<1> QED BY <1>7, <1>11, OthersCandidate DEF Shelving

LEMMA InstantLinkShelf ==
    ASSUME Typed, ShelfInv, NEW w \in Workers, InstantLink(w)
    PROVE  Shelving
<1>1. PICK l, u, d : l = NextKey("userFile") /\ u = req[w].user /\ d = req[w].dir
      OBVIOUS
<1>2. /\ Draw("userFile") /\ CreateUserFile(l, u, req[w].file, d) /\ UNCHANGED disk
      /\ req[w].pc \in {"instant", "link"}
      BY <1>1 DEF InstantLink, At
<1>3. KeepsFile(w)
      BY Fields, FileKept DEF InstantLink, KeepsFile
<1>4. Others(w) /\ ~Makes(w)' /\ req'[w].pc # "instant"
      BY InstantLinkMoves DEF Moves, Makes, MakeSteps
<1> QED BY ONLY Typed, ShelfInv, <1>1, <1>2, <1>3, <1>4, LinkShelf

LEMMA InsertUserFileShelf ==
    ASSUME Typed, ShelfInv, NEW w \in Workers, InsertUserFile(w)
    PROVE  Shelving
<1>1. PICK l, u, d : l = NextKey("userFile") /\ u = req[w].user /\ d = req[w].dir
      OBVIOUS
<1>2. /\ Draw("userFile") /\ CreateUserFile(l, u, req[w].file, d) /\ UNCHANGED disk
      /\ req[w].pc \in {"instant", "link"}
      BY <1>1 DEF InsertUserFile, At
<1>3. KeepsFile(w)
      BY Fields DEF InsertUserFile, KeepsFile
<1>4. Others(w) /\ ~Makes(w)' /\ req'[w].pc # "instant"
      BY InsertUserFileMoves DEF Moves, Makes, MakeSteps
<1> QED BY ONLY Typed, ShelfInv, <1>1, <1>2, <1>3, <1>4, LinkShelf

(* A new file, made by this request.                                       *)
LEMMA KeepShelf ==
    ASSUME Typed, ShelfInv, NEW w \in Workers, NEW f, f = NextKey("file"), Draw("file"),
           NEW x, disk' = Put(disk, f, x), UNCHANGED db,
           Others(w), req'[w].file = f, req'[w].pc # "instant"
    PROVE  Shelving
<1>1. /\ f \in Key("file") \ Known("file")
      /\ Known("file")' = Known("file") \cup {f}
      /\ Known("userFile")' = Known("userFile")
      BY DrawnKey DEF Kinds
<1>2. DOMAIN disk' = DOMAIN disk \cup {f}
      BY DEF Put
<1>3. TheShelf!Keep(f)
      BY <1>1, <1>2 DEF TheShelf!Keep, Active, HasUserFile
<1>4. ShelfEvent
      BY <1>1, <1>3 DEF ShelfEvent
<1>5. KeysDrawn'
      BY <1>1, <1>2 DEF ShelfInv, KeysDrawn, FilesKnown, Others
<1>6. f # NULL
      BY <1>1, KeyIsNotNull DEF Kinds
<1>7. /\ f \notin DOMAIN db.fileInfos
      /\ \A l \in DOMAIN db.userFiles : db.userFiles[l].file # f
      /\ \A v \in Workers : req[v].file # f
      BY <1>1, <1>6 DEF ShelfInv, KeysDrawn
<1>8. Own(w)'
      BY <1>2, <1>7 DEF Own, Others
<1>9. ShelfInv'
      BY <1>2, <1>5, <1>7, <1>8, OthersOwn DEF ShelfInv, Own
<1> QED BY <1>4, <1>9, OthersCandidate DEF Shelving

LEMMA LockMergeShelf ==
    ASSUME Typed, ShelfInv, NEW w \in Workers, LockMerge(w)
    PROVE  Shelving
<1>1. CASE req[w].task \in mergeLocks
      <2>1. Finish(w) /\ SameShelf
            BY <1>1, SameShelfSteps DEF LockMerge
      <2> QED BY <2>1, FinishShelf
<1>2. CASE req[w].task \notin mergeLocks
      <2>1. PICK f : f = NextKey("file")
            OBVIOUS
      <2>2. /\ Draw("file") /\ disk' = Put(disk, f, "Whole") /\ UNCHANGED db
            /\ StartMerge(w, f)
            BY <1>2, <2>1 DEF LockMerge
      <2>3. Others(w) /\ req'[w].file = f /\ req'[w].pc # "instant"
            BY <2>2, StartMergeMoves
      <2> QED BY <2>1, <2>2, <2>3, KeepShelf
<1> QED BY <1>1, <1>2

LEMMA RenameUploadShelf ==
    ASSUME Typed, ShelfInv, NEW w \in Workers, RenameUpload(w)
    PROVE  Shelving
<1>1. CASE ~HasPart(req[w].task, Single)
      <2>1. Finish(w) /\ SameShelf
            BY <1>1, SameShelfSteps DEF RenameUpload
      <2> QED BY <2>1, FinishShelf
<1>2. CASE HasPart(req[w].task, Single)
      <2>1. PICK f, x : f = NextKey("file") /\ x = temp[req[w].task][Single]
            OBVIOUS
      <2>2. /\ Draw("file") /\ disk' = Put(disk, f, x) /\ UNCHANGED db
            /\ req' = [req EXCEPT ![w].pc = "info", ![w].file = f]
            BY <1>2, <2>1 DEF RenameUpload
      <2>3. Others(w) /\ req'[w].file = f /\ req'[w].pc = "info"
            BY <2>2, Fields, RequestsType DEF Others
      <2> QED BY <2>1, <2>2, <2>3, KeepShelf
<1> QED BY <1>1, <1>2

LEMMA MergeChunkShelf ==
    ASSUME Typed, ShelfInv, NEW w \in Workers, MergeChunk(w)
    PROVE  Shelving
<1>1. Makes(w)
      BY DEF MergeChunk, Makes, MakeSteps, At
<1>2. DOMAIN disk' = DOMAIN disk
      BY <1>1 DEF MergeChunk, Put, ShelfInv, Own
<1>3. SameShelf
      BY <1>2 DEF MergeChunk, SameShelf, SameRows, SameDrawn, Known
<1>4. CASE MergeFailed(w)
      BY <1>3, <1>4, MergeFailedShelf
<1>5. ASSUME NEW pc \in {"remove temp", "merge"}, NEW n,
             req' = [req EXCEPT ![w].pc = pc, ![w].merged = n]
      PROVE  Shelving
      <2>1. /\ Others(w) /\ req'[w].pc = pc /\ req'[w].file = req[w].file
            BY <1>5, Fields, RequestsType DEF Others
      <2> QED BY <1>1, <1>3, <2>1, QuietShelf DEF KeepsFile
<1> QED BY <1>4, <1>5 DEF MergeChunk

LEMMA RemoveTempDirShelf ==
    ASSUME Typed, ShelfInv, NEW w \in Workers, RemoveTempDir(w)
    PROVE  Shelving
<1>1. SameShelf
      BY SameShelfSteps DEF RemoveTempDir
<1>2. CASE req[w].part = Single
      BY <1>1, <1>2, FinishShelf DEF RemoveTempDir
<1>3. CASE req[w].part # Single
      <2>1. Makes(w) /\ Goto(w, "info")
            BY <1>3 DEF RemoveTempDir, Makes, MakeSteps, At
      <2> QED BY <1>1, <2>1, OnwardShelf DEF MakeSteps
<1> QED BY <1>2, <1>3

LEMMA InsertFileInfoShelf ==
    ASSUME Typed, ShelfInv, NEW w \in Workers, InsertFileInfo(w)
    PROVE  Shelving
<1>1. PICK f, c : f = req[w].file /\ c = req[w].content
      OBVIOUS
<1>2. /\ db'.fileInfos = Put(db.fileInfos, f, c)
      /\ db'.userFiles = db.userFiles
      /\ UNCHANGED <<disk, used>>
      BY <1>1, ShelfTables DEF InsertFileInfo, CreateFileInfo
<1>3. Makes(w)
      BY DEF InsertFileInfo, Makes, MakeSteps, At
<1>4. /\ f \in DOMAIN disk \ DOMAIN db.fileInfos
      /\ f \in Known("file")
      /\ \A v \in Workers \ {w} : req[v].file # f
      BY <1>1, <1>3 DEF ShelfInv, Own, KeysDrawn
<1>5. f \in Key("file") /\ c \in Contents
      <2>1. f \in Key("file")
            BY <1>4, KnownType DEF Typed, TypeOK, Kinds
      <2>2. c # NULL
            BY <1>1 DEF InsertFileInfo, At, Typed, RequestsFilled, GoodRequest, Filled, ChunkSteps
      <2>3. req[w].content \in Contents \cup {NULL}
            BY RequestsType DEF Request
      <2> QED BY <1>1, <2>1, <2>2, <2>3
<1>6. TheShelf!Enter(f, c)
      BY <1>2, <1>4 DEF TheShelf!Enter, Put, Active, HasUserFile, Known
<1>7. ShelfEvent
      BY <1>5, <1>6 DEF ShelfEvent
<1>8. Others(w) /\ req'[w].pc = "link" /\ KeepsFile(w)
      BY GotoMoves DEF InsertFileInfo, KeepsFile
<1>9. KeysDrawn'
      BY <1>2, <1>4, <1>8 DEF ShelfInv, KeysDrawn, FilesKnown, Known, Others, KeepsFile, Put
<1>10. Own(w)'
       BY <1>8 DEF Own, Makes, MakeSteps
<1>11. ASSUME NEW v \in Workers \ {w}, Makes(v)
       PROVE  /\ req[v].file \in DOMAIN disk' \ DOMAIN db'.fileInfos
              /\ \A k \in DOMAIN db'.userFiles : db'.userFiles[k].file # req[v].file
              /\ req'[w].file # req[v].file
       <2>1. req[v].file # f
             BY <1>4
       <2>2. req'[w].file # req[v].file
             BY <1>1, <1>8, <1>11, <2>1, MakerHasFile DEF KeepsFile
       <2> QED BY <1>2, <1>11, <2>1, <2>2 DEF ShelfInv, Own, Put
<1>12. ShelfInv'
       BY <1>8, <1>9, <1>10, <1>11, OthersOwn
<1> QED BY <1>7, <1>8, <1>12, OthersCandidate DEF Shelving

LEMMA CleanPrecheckCacheShelf ==
    ASSUME Typed, ShelfInv, NEW w \in Workers, CleanPrecheckCache(w)
    PROVE  Shelving
<1>1. SameShelf
      BY SameShelfSteps DEF CleanPrecheckCache, stored
<1> QED BY <1>1, SingleShelf, GotoShelf DEF CleanPrecheckCache, MakeSteps

-----------------------------------------------------------------------------
(***************************************************************************)
(* Links are hidden, shown, filed elsewhere and erased.                    *)
(***************************************************************************)
(* The link keeps its file, shown or not.                                  *)
LEMMA UpdateEvent ==
    ASSUME Typed, FilesKnown, NEW l, HasUserFile(l), NEW d, NEW b \in BOOLEAN,
           db'.fileInfos = db.fileInfos, UNCHANGED <<disk, used>>,
           db'.userFiles = [db.userFiles EXCEPT ![l].deleted = b, ![l].dir = d]
    PROVE  /\ DOMAIN db'.userFiles = DOMAIN db.userFiles
           /\ \A k \in DOMAIN db.userFiles : db'.userFiles[k].file = db.userFiles[k].file
           /\ ShelfEvent
<1>1. l \in DOMAIN db.userFiles
      BY DEF HasUserFile
<1>2. {"user", "file", "dir", "deleted"} \subseteq DOMAIN db.userFiles[l]
      BY <1>1, UserFileRow DEF Typed, TypeOK, UserFile
<1>3. /\ DOMAIN db'.userFiles = DOMAIN db.userFiles
      /\ \A k \in DOMAIN db.userFiles : k # l => db'.userFiles[k] = db.userFiles[k]
      /\ db'.userFiles[l].file = db.userFiles[l].file
      /\ db'.userFiles[l].deleted = b
      BY <1>1, <1>2
<1>4. /\ \A k \in DOMAIN db.userFiles : db'.userFiles[k].file = db.userFiles[k].file
      /\ \A k : k # l => Active(k)' = Active(k)
      /\ Active(l)' = ~b
      BY <1>1, <1>3 DEF Active, HasUserFile
<1>5. l \in Key("userFile")
      BY <1>1, KnownType DEF FilesKnown, Typed, TypeOK, Kinds
<1>6. [k \in DOMAIN db.userFiles |-> db.userFiles[k].file]'
        = [k \in DOMAIN db.userFiles |-> db.userFiles[k].file]
      BY <1>3, <1>4
<1>7. SameDrawn
      BY DEF SameDrawn, Known
<1>8. CASE b = Deleted(l)
      <2>1. {k \in DOMAIN db.userFiles : Active(k)}' = {k \in DOMAIN db.userFiles : Active(k)}
            BY <1>1, <1>3, <1>4, <1>8 DEF Active, Deleted, HasUserFile
      <2>2. UNCHANGED TheShelf!shelfVars
            BY <1>6, <1>7, <2>1 DEF TheShelf!shelfVars, SameDrawn
      <2> QED BY <1>3, <1>4, <2>2 DEF ShelfEvent
<1>9. CASE b /\ ~Deleted(l)
      <2>1. l \in {k \in DOMAIN db.userFiles : Active(k)}
            BY <1>1, <1>9 DEF Active, Deleted, HasUserFile
      <2>2. {k \in DOMAIN db.userFiles : Active(k)}'
              = {k \in DOMAIN db.userFiles : Active(k)} \ {l}
            BY <1>1, <1>3, <1>4, <1>9
      <2>3. TheShelf!Hide(l)
            BY <1>6, <1>7, <2>1, <2>2 DEF TheShelf!Hide, SameDrawn
      <2> QED BY <1>3, <1>4, <1>5, <2>3 DEF ShelfEvent
<1>10. CASE ~b /\ Deleted(l)
      <2>1. l \in DOMAIN db.userFiles \ {k \in DOMAIN db.userFiles : Active(k)}
            BY <1>1, <1>10 DEF Active, Deleted, HasUserFile
      <2>2. {k \in DOMAIN db.userFiles : Active(k)}'
              = {k \in DOMAIN db.userFiles : Active(k)} \cup {l}
            BY <1>1, <1>3, <1>4, <1>10
      <2>3. TheShelf!Show(l)
            BY <1>6, <1>7, <2>1, <2>2 DEF TheShelf!Show, SameDrawn
      <2> QED BY <1>3, <1>4, <1>5, <2>3 DEF ShelfEvent
<1>11. Deleted(l) \in BOOLEAN
       BY <1>1, UserFileRow DEF Typed, TypeOK, Deleted, HasUserFile, UserFile
<1> QED BY <1>3, <1>4, <1>8, <1>9, <1>10, <1>11

(* Such a statement, whatever the request does next outside an upload.     *)
LEMMA UpdateShelf ==
    ASSUME Typed, ShelfInv, NEW w \in Workers, NEW l, HasUserFile(l), NEW d, NEW b \in BOOLEAN,
           db'.fileInfos = db.fileInfos, UNCHANGED <<disk, used>>,
           db'.userFiles = [db.userFiles EXCEPT ![l].deleted = b, ![l].dir = d],
           Others(w), KeepsFile(w), ~Makes(w)', req'[w].pc # "instant"
    PROVE  Shelving
<1>1. /\ DOMAIN db'.userFiles = DOMAIN db.userFiles
      /\ \A k \in DOMAIN db.userFiles : db'.userFiles[k].file = db.userFiles[k].file
      /\ ShelfEvent
      BY UpdateEvent DEF ShelfInv, KeysDrawn
<1>2. KeysDrawn'
      BY <1>1 DEF ShelfInv, KeysDrawn, FilesKnown, Known, KeepsFile, Others
<1>3. ASSUME NEW v \in Workers \ {w}, Makes(v)
      PROVE  /\ req[v].file \in DOMAIN disk' \ DOMAIN db'.fileInfos
             /\ \A k \in DOMAIN db'.userFiles : db'.userFiles[k].file # req[v].file
             /\ req'[w].file # req[v].file
      BY <1>1, <1>3, MakerHasFile DEF ShelfInv, Own, KeepsFile
<1>4. Own(w)'
      BY DEF Own
<1>5. ShelfInv'
      BY <1>2, <1>3, <1>4, OthersOwn
<1> QED BY <1>1, <1>5, OthersCandidate DEF Shelving

(* The three updates of a row, in that form.                               *)
LEMMA RowUpdates ==
    ASSUME Typed, NEW l, HasUserFile(l)
    PROVE  /\ SoftDelete(l) => \E d : /\ db'.fileInfos = db.fileInfos
                                      /\ db'.userFiles = [db.userFiles EXCEPT
                                                ![l].deleted = TRUE, ![l].dir = d]
           /\ \A d : MoveUserFile(l, d) => \E b \in BOOLEAN :
                /\ db'.fileInfos = db.fileInfos
                /\ db'.userFiles = [db.userFiles EXCEPT ![l].deleted = b, ![l].dir = d]
           /\ \A d : RestoreUserFile(l, d) =>
                /\ db'.fileInfos = db.fileInfos
                /\ db'.userFiles = [db.userFiles EXCEPT ![l].deleted = FALSE, ![l].dir = d]
<1>1. l \in DOMAIN db.userFiles
      BY DEF HasUserFile
<1>2. db.userFiles[l] \in UserFile
      BY <1>1, UserFileRow DEF Typed, TypeOK
<1>3. PICK u, f, e, x :
        x \in BOOLEAN /\ db.userFiles[l] = [user |-> u, file |-> f, dir |-> e, deleted |-> x]
      BY <1>2 DEF UserFile
<1>4. /\ [db.userFiles[l] EXCEPT !.deleted = TRUE]
            = [db.userFiles[l] EXCEPT !.deleted = TRUE, !.dir = e]
      /\ \A d : [db.userFiles[l] EXCEPT !.dir = d]
            = [db.userFiles[l] EXCEPT !.deleted = x, !.dir = d]
      <2>1. ASSUME NEW r, r = [user |-> u, file |-> f, dir |-> e, deleted |-> x]
            PROVE  /\ [r EXCEPT !.deleted = TRUE] = [r EXCEPT !.deleted = TRUE, !.dir = e]
                   /\ \A d : [r EXCEPT !.dir = d] = [r EXCEPT !.deleted = x, !.dir = d]
            <3>1. /\ r.dir = e /\ r.deleted = x
                  /\ DOMAIN r = {"user", "file", "dir", "deleted"}
                  BY ONLY <2>1
            <3>2. ASSUME NEW c, NEW d
                  PROVE  [r EXCEPT !.deleted = c, !.dir = d]
                           = [k \in DOMAIN r |-> IF k = "dir" THEN d
                                                ELSE IF k = "deleted" THEN c ELSE r[k]]
                  BY ONLY <3>1
            <3>3. ASSUME NEW d
                  PROVE  [r EXCEPT !.dir = d]
                           = [k \in DOMAIN r |-> IF k = "dir" THEN d ELSE r[k]]
                  BY ONLY TRUE
            <3>4. [r EXCEPT !.deleted = TRUE]
                    = [k \in DOMAIN r |-> IF k = "deleted" THEN TRUE ELSE r[k]]
                  BY ONLY TRUE
            <3>5. ASSUME NEW d
                  PROVE  [r EXCEPT !.dir = d] = [r EXCEPT !.deleted = x, !.dir = d]
                  BY ONLY <3>1, <3>2, <3>3
            <3>6. [r EXCEPT !.deleted = TRUE] = [r EXCEPT !.deleted = TRUE, !.dir = e]
                  BY ONLY <3>1, <3>2, <3>4
            <3> QED BY ONLY <3>5, <3>6
      <2> QED BY <1>3, <2>1
<1>5. ASSUME SoftDelete(l)
      PROVE  /\ db'.fileInfos = db.fileInfos
             /\ db'.userFiles = [db.userFiles EXCEPT ![l].deleted = TRUE, ![l].dir = e]
      <2>1. /\ db'.fileInfos = db.fileInfos
            /\ db'.userFiles = [db.userFiles EXCEPT ![l].deleted = TRUE]
            BY <1>5, ShelfTables DEF SoftDelete
      <2> QED BY <1>4, <2>1
<1>6. ASSUME NEW d, MoveUserFile(l, d)
      PROVE  /\ db'.fileInfos = db.fileInfos
             /\ db'.userFiles = [db.userFiles EXCEPT ![l].deleted = x, ![l].dir = d]
      <2>1. /\ db'.fileInfos = db.fileInfos
            /\ db'.userFiles = [db.userFiles EXCEPT ![l].dir = d]
            BY <1>6, ShelfTables DEF MoveUserFile
      <2> QED BY <1>4, <2>1
<1>7. ASSUME NEW d, RestoreUserFile(l, d)
      PROVE  /\ db'.fileInfos = db.fileInfos
             /\ db'.userFiles = [db.userFiles EXCEPT ![l].deleted = FALSE, ![l].dir = d]
      BY <1>7, ShelfTables DEF RestoreUserFile
<1> QED BY <1>3, <1>5, <1>6, <1>7

LEMMA InstantRollbackShelf ==
    ASSUME Typed, ShelfInv, NEW w \in Workers, InstantRollback(w)
    PROVE  Shelving
<1>0. Others(w) /\ KeepsFile(w) /\ req'[w].pc = "task"
      BY GotoMoves, FileKept DEF InstantRollback
<1>1. Others(w) /\ KeepsFile(w) /\ ~Makes(w)' /\ req'[w].pc # "instant"
      BY <1>0 DEF Makes, MakeSteps
<1>2. CASE HasUserFile(req[w].userFile)
      <2>1. SoftDelete(req[w].userFile) /\ UNCHANGED <<disk, used>>
            BY <1>2 DEF InstantRollback
      <2> QED BY <1>1, <1>2, <2>1, RowUpdates, UpdateShelf
<1>3. CASE ~HasUserFile(req[w].userFile)
      <2>1. SameShelf
            BY <1>3, SameShelfSteps DEF InstantRollback
      <2> QED BY <1>1, <2>1, LeaveShelf
<1> QED BY <1>2, <1>3

LEMMA MoveToRecycledShelf ==
    ASSUME Typed, ShelfInv, NEW w \in Workers, MoveToRecycled(w)
    PROVE  Shelving
<1>1. PICK l, u :
        /\ l \in DOMAIN db.userFiles
        /\ SoftDelete(l)
        /\ req' = [req EXCEPT ![w].pc = "record", ![w].userFile = l, ![w].user = u]
      BY DEF MoveToRecycled
<1>2. Others(w) /\ KeepsFile(w) /\ req'[w].pc = "record"
      BY <1>1, Fields, RequestsType DEF Others, KeepsFile
<1>3. HasUserFile(l) /\ UNCHANGED <<disk, used>>
      BY <1>1 DEF HasUserFile, MoveToRecycled
<1> QED BY <1>1, <1>2, <1>3, RowUpdates, UpdateShelf DEF Makes, MakeSteps

LEMMA RestoreApplyShelf ==
    ASSUME Typed, ShelfInv, NEW w \in Workers, RestoreApply(w)
    PROVE  Shelving
<1>1. CASE HasUserFile(req[w].userFile)
      <2>1. /\ RestoreUserFile(req[w].userFile, req[w].dir) /\ UNCHANGED <<disk, used>>
            /\ Goto(w, "drop record")
            BY <1>1 DEF RestoreApply
      <2>2. Others(w) /\ KeepsFile(w) /\ req'[w].pc = "drop record"
            BY <2>1, GotoMoves, FileKept
      <2> QED BY <1>1, <2>1, <2>2, RowUpdates, UpdateShelf DEF Makes, MakeSteps
<1>2. CASE ~HasUserFile(req[w].userFile)
      <2>1. SameShelf /\ Finish(w)
            BY <1>2, SameShelfSteps DEF RestoreApply
      <2> QED BY <2>1, FinishShelf
<1> QED BY <1>1, <1>2

LEMMA MoveFileShelf ==
    ASSUME Typed, ShelfInv, NEW w \in Workers, MoveFile(w)
    PROVE  Shelving
<1>1. PICK l, d : HasUserFile(l) /\ MoveUserFile(l, d)
      BY DEF MoveFile, HasUserFile
<1>2. Others(w) /\ KeepsFile(w) /\ req'[w].pc = "idle" /\ UNCHANGED <<disk, used>>
      BY DEF MoveFile, Starts, At, Others, KeepsFile
<1>3. PICK b \in BOOLEAN :
        /\ db'.fileInfos = db.fileInfos
        /\ db'.userFiles = [db.userFiles EXCEPT ![l].deleted = b, ![l].dir = d]
      BY <1>1, RowUpdates
<1>4. ~Makes(w)' /\ req'[w].pc # "instant"
      BY <1>2 DEF Makes, MakeSteps
<1> QED BY <1>1, <1>2, <1>3, <1>4, UpdateShelf

LEMMA NextRecordShelf ==
    ASSUME Typed, ShelfInv, NEW w \in Workers, SameShelf, NextRecord(w)
    PROVE  Shelving
<1>1. Others(w) /\ KeepsFile(w) /\ req'[w].pc \in {"idle", "purge"}
      BY NextRecordMoves, FileKept
<1> QED BY <1>1, LeaveShelf DEF Makes, MakeSteps

(* A purge takes up a file that a link leads to, or none.                  *)
LEMMA TakeShelf ==
    ASSUME Typed, ShelfInv, NEW w \in Workers, SameShelf, NEW row,
           NEW pc \in {"refs", "drop record"}, NEW f, Take(w, row, pc, f),
           f = NULL \/ \E l \in DOMAIN db.userFiles : f = db.userFiles[l].file
    PROVE  Shelving
<1>1. PICK u, l, rest :
        /\ u = row.user /\ l = row.userFile /\ rest = req[w].todo \ {row}
      OBVIOUS
<1>2. req' = [req EXCEPT ![w].pc = pc, ![w].record = row, ![w].user = u,
                         ![w].userFile = l, ![w].file = f, ![w].todo = rest]
      BY <1>1, Fields DEF Take
<1>3. Others(w) /\ req'[w].pc = pc /\ req'[w].file = f
      BY <1>2, Fields, RequestsType DEF Others
<1>4. f \in Known("file") \cup {NULL}
      BY DEF ShelfInv, KeysDrawn
<1>5. KeysDrawn'
      BY <1>3, <1>4 DEF ShelfInv, KeysDrawn, FilesKnown, SameShelf, SameRows, SameDrawn, Others
<1>6. Own(w)'
      BY <1>3 DEF Own, Makes, MakeSteps
<1>7. ASSUME NEW v \in Workers \ {w}, Makes(v)
      PROVE  req[v].file # f
      BY <1>7, MakerHasFile DEF ShelfInv, Own
<1>8. ShelfInv'
      BY <1>3, <1>5, <1>6, <1>7, OthersOwn DEF ShelfInv, Own, SameShelf, SameRows
<1> QED BY <1>3, <1>8, OthersCandidate, SameShelfEvent DEF Shelving

LEMMA PurgeReadFileShelf ==
    ASSUME Typed, ShelfInv, NEW w \in Workers, PurgeReadFile(w)
    PROVE  Shelving
<1>1. SameShelf
      BY SameShelfSteps DEF PurgeReadFile, stored
<1>2. PICK row \in req[w].todo :
        \/ HasUserFile(row.userFile) /\ Take(w, row, "refs", db.userFiles[row.userFile].file)
        \/ Take(w, row, "drop record", NULL)
      BY DEF PurgeReadFile
<1> QED BY <1>1, <1>2, TakeShelf DEF HasUserFile

LEMMA PurgeUnlinkShelf ==
    ASSUME Typed, ShelfInv, NEW w \in Workers, PurgeUnlink(w)
    PROVE  Shelving
<1>1. PICK f : f = req[w].file
      OBVIOUS
<1>2. DOMAIN disk' = DOMAIN disk \ {f} /\ UNCHANGED <<db, used>>
      BY <1>1 DEF PurgeUnlink, Drop
<1>3. /\ Others(w) /\ KeepsFile(w) /\ req'[w].file = f /\ req'[w].pc = "quota"
      BY <1>1, GotoMoves DEF PurgeUnlink, KeepsFile
<1>4. CASE f \notin DOMAIN disk
      <2>1. SameShelf
            BY <1>2, <1>4 DEF SameShelf, SameRows, SameDrawn, Known
      <2> QED BY <1>3, <2>1, LeaveShelf DEF Makes, MakeSteps
<1>5. CASE f \in DOMAIN disk
      <2>1. f \in Key("file")
            BY <1>5, KnownType DEF ShelfInv, KeysDrawn, Typed, TypeOK, Kinds
      <2>2. TheShelf!Remove(f)
            BY <1>2, <1>5 DEF TheShelf!Remove, Active, HasUserFile, Known
      <2>3. ShelfEvent
            BY <2>1, <2>2 DEF ShelfEvent
      <2>4. KeysDrawn'
            BY <1>2, <1>3 DEF ShelfInv, KeysDrawn, FilesKnown, Known, Others, KeepsFile
      <2>5. Own(w)'
            BY <1>3 DEF Own, Makes, MakeSteps
      <2>6. ASSUME NEW v \in Workers \ {w}, Makes(v)
            PROVE  req[v].file # f
            BY <1>1, <2>6 DEF ShelfInv, Own
      <2>7. ShelfInv'
            BY <1>2, <1>3, <2>4, <2>5, <2>6, OthersOwn DEF ShelfInv, Own
      <2> QED BY <1>3, <2>3, <2>7, OthersCandidate DEF Shelving
<1> QED BY <1>4, <1>5

LEMMA PurgeDropInfoShelf ==
    ASSUME Typed, ShelfInv, NEW w \in Workers, PurgeDropInfo(w)
    PROVE  Shelving
<1>1. CASE req[w].file \notin DOMAIN db.fileInfos
      <2>1. SameShelf /\ NextRecord(w)
            BY <1>1, SameShelfSteps DEF PurgeDropInfo
      <2> QED BY <2>1, NextRecordShelf
<1>2. CASE req[w].file \in DOMAIN db.fileInfos
      <2>1. PICK f : f = req[w].file
            OBVIOUS
      <2>2. /\ db'.fileInfos = Drop(db.fileInfos, {f})
            /\ db'.userFiles = db.userFiles
            /\ UNCHANGED <<disk, used>>
            BY <1>2, <2>1, ShelfTables DEF PurgeDropInfo, DeleteFileInfo
      <2>3. Others(w) /\ KeepsFile(w) /\ req'[w].pc = "hard delete"
            BY <1>2, GotoMoves DEF PurgeDropInfo, KeepsFile
      <2>4. f \in Key("file")
            BY <1>2, <2>1, KnownType DEF ShelfInv, KeysDrawn, Typed, TypeOK, Kinds
      <2>5. TheShelf!Strike(f) /\ At(w, "drop info")
            BY <1>2, <2>1, <2>2 DEF TheShelf!Strike, Drop, Active, HasUserFile, Known,
                                    PurgeDropInfo
      <2>6. ShelfEvent
            BY <2>4, <2>5 DEF ShelfEvent
      <2>7. KeysDrawn'
            BY <2>2, <2>3 DEF ShelfInv, KeysDrawn, FilesKnown, Known, Others, KeepsFile, Drop
      <2>8. Own(w)'
            BY <2>3 DEF Own, Makes, MakeSteps
      <2>9. ASSUME NEW v \in Workers \ {w}, Makes(v)
            PROVE  /\ req[v].file \in DOMAIN disk' \ DOMAIN db'.fileInfos
                   /\ \A k \in DOMAIN db'.userFiles : db'.userFiles[k].file # req[v].file
                   /\ req'[w].file # req[v].file
            BY <2>2, <2>3, <2>9, MakerHasFile DEF ShelfInv, Own, KeepsFile, Drop
      <2>10. ShelfInv'
             BY <2>3, <2>7, <2>8, <2>9, OthersOwn
      <2> QED BY <2>3, <2>6, <2>10, OthersCandidate DEF Shelving
<1> QED BY <1>1, <1>2

LEMMA PurgeHardDeleteShelf ==
    ASSUME Typed, ShelfInv, NEW w \in Workers, PurgeHardDelete(w)
    PROVE  Shelving
<1>1. CASE ~HasUserFile(req[w].userFile)
      <2>1. SameShelf /\ NextRecord(w)
            BY <1>1, SameShelfSteps DEF PurgeHardDelete
      <2> QED BY <2>1, NextRecordShelf
<1>2. CASE HasUserFile(req[w].userFile)
      <2>1. PICK l : l = req[w].userFile
            OBVIOUS
      <2>2. /\ db'.userFiles = Drop(db.userFiles, {l})
            /\ db'.fileInfos = db.fileInfos
            /\ UNCHANGED <<disk, used>>
            BY <1>2, <2>1, ShelfTables DEF PurgeHardDelete, HardDelete
      <2>3. Others(w) /\ KeepsFile(w) /\ req'[w].pc = "drop record"
            BY <1>2, GotoMoves DEF PurgeHardDelete, KeepsFile
      <2>4. l \in Key("userFile") /\ l \in DOMAIN db.userFiles
            BY <1>2, <2>1, UserFileRow DEF Typed, TypeOK, HasUserFile
      <2>5. TheShelf!Erase(l)
            BY <2>2, <2>4 DEF TheShelf!Erase, Drop, Active, HasUserFile, Known
      <2>6. ShelfEvent
            BY <2>4, <2>5 DEF ShelfEvent
      <2>7. KeysDrawn'
            BY <2>2, <2>3 DEF ShelfInv, KeysDrawn, FilesKnown, Known, Others, KeepsFile, Drop
      <2>8. Own(w)'
            BY <2>3 DEF Own, Makes, MakeSteps
      <2>9. ASSUME NEW v \in Workers \ {w}, Makes(v)
            PROVE  /\ req[v].file \in DOMAIN disk' \ DOMAIN db'.fileInfos
                   /\ \A k \in DOMAIN db'.userFiles : db'.userFiles[k].file # req[v].file
                   /\ req'[w].file # req[v].file
            BY <2>2, <2>3, <2>9, MakerHasFile DEF ShelfInv, Own, KeepsFile, Drop
      <2>10. ShelfInv'
             BY <2>3, <2>7, <2>8, <2>9, OthersOwn
      <2> QED BY <2>3, <2>6, <2>10, OthersCandidate DEF Shelving
<1> QED BY <1>1, <1>2

-----------------------------------------------------------------------------
(***************************************************************************)
(* Calls that fail, the end of the process, and every other step.          *)
(***************************************************************************)
LEMMA UploadFailsShelf ==
    ASSUME Typed, ShelfInv, NEW w \in Workers, UploadFails(w), UNCHANGED stored
    PROVE  Shelving
<1>0. SameShelf
      BY SameShelfSteps DEF stored
<1>1. CASE Finish(w)
      BY <1>0, <1>1, FinishShelf
<1>2. CASE AfterProgress(w)
      <2>1. Others(w) /\ req'[w].pc \in {"clean", "unlock", "lock", "idle"} /\ KeepsFile(w)
            BY <1>2, AfterProgressMoves, FileKept
      <2> QED BY <1>0, <2>1, LeaveShelf DEF Makes, MakeSteps
<1>3. CASE MergeFailed(w)
      BY <1>0, <1>3, MergeFailedShelf
<1>4. ASSUME NEW pc \in {"task", "rollback"}, Goto(w, pc)
      PROVE  Shelving
      BY <1>0, <1>4, GotoShelf DEF MakeSteps
<1>5. CASE req[w].part = Single /\ Goto(w, "remove temp")
      BY <1>0, <1>5, SingleShelf
<1>6. CASE req[w].part # Single /\ At(w, "remove temp") /\ Goto(w, "info")
      <2>1. Makes(w)
            BY <1>6 DEF Makes, MakeSteps, At
      <2> QED BY <1>0, <1>6, <2>1, OnwardShelf DEF MakeSteps
<1>7. ASSUME NEW d, NextDir(w, d), At(w, "delete dirs")
      PROVE  Shelving
      <2>1. Others(w) /\ req'[w].pc \in {"idle", "delete dirs"} /\ KeepsFile(w)
            BY <1>7, NextDirMoves, FileKept DEF At
      <2> QED BY <1>0, <2>1, LeaveShelf DEF Makes, MakeSteps
<1> QED BY <1>1, <1>2, <1>3, <1>4, <1>5, <1>6, <1>7 DEF UploadFails

LEMMA RecycledFailsShelf ==
    ASSUME Typed, ShelfInv, NEW w \in Workers, RecycledFails(w), UNCHANGED stored
    PROVE  Shelving
<1>0. SameShelf
      BY SameShelfSteps DEF stored
<1>1. CASE Finish(w)
      BY <1>0, <1>1, FinishShelf
<1>2. CASE RestoreToRoot(w)
      <2>1. Others(w) /\ req'[w].pc \in {"idle", "restore"}
            BY <1>2, RestoreToRootMoves
      <2>2. KeepsFile(w)
            BY <1>2, Fields, FileKept DEF RestoreToRoot, KeepsFile
      <2> QED BY <1>0, <2>1, <2>2, LeaveShelf DEF Makes, MakeSteps
<1>3. ASSUME NEW row, Take(w, row, "drop record", NULL)
      PROVE  Shelving
      BY <1>0, <1>3, TakeShelf
<1>4. CASE NextRecord(w)
      BY <1>0, <1>4, NextRecordShelf
<1>5. ASSUME NEW pc \in {"hard delete", "quota", "drop info"}, Goto(w, pc)
      PROVE  Shelving
      BY <1>0, <1>5, GotoShelf DEF MakeSteps
<1> QED BY <1>1, <1>2, <1>3, <1>4, <1>5 DEF RecycledFails

LEMMA CallFailsShelf ==
    ASSUME Typed, ShelfInv, NEW w \in Workers, CallFails(w)
    PROVE  Shelving
<1>1. CASE SaveFails(w)
      <2>1. SameShelf /\ Finish(w)
            BY <1>1, SameShelfSteps DEF SaveFails
      <2> QED BY <2>1, FinishShelf
<1> QED BY <1>1, UploadFailsShelf, RecycledFailsShelf DEF CallFails

(* Files of requests that are gone stay on the disk, in no table.          *)
LEMMA CrashShelf ==
    ASSUME Typed, ShelfInv, Crash
    PROVE  Shelving
<1>1. SameShelf
      BY DEF Crash, SameShelf, SameRows, SameDrawn, Known
<1>2. \A w \in Workers : req'[w].pc = "idle" /\ req'[w].file = NULL
      BY DEF Crash, Idle
<1>3. \A w \in Workers : ~Makes(w)' /\ ~At(w, "instant")'
      BY <1>2 DEF Makes, MakeSteps, At
<1>4. ShelfInv'
      BY <1>1, <1>2, <1>3 DEF ShelfInv, KeysDrawn, FilesKnown, Own, SameShelf, SameRows,
                              SameDrawn
<1> QED BY <1>1, <1>3, <1>4, SameShelfEvent DEF Shelving, Candidate

LEMMA QuietStepShelf ==
    ASSUME Typed, ShelfInv, UNCHANGED <<req, disk, used>>,
           UNCHANGED db \/ \E ts : DeleteTasks(ts)
    PROVE  Shelving
<1>1. SameShelf
      BY SameShelfSteps
<1>2. ShelfInv'
      BY <1>1 DEF ShelfInv, KeysDrawn, FilesKnown, Own, Makes, At, SameShelf, SameRows, SameDrawn
<1> QED BY <1>1, <1>2, SameShelfEvent DEF Shelving, Candidate

LEMMA NextShelf ==
    ASSUME Typed, ShelfInv, [Next]_vars
    PROVE  Shelving
<1>1. ASSUME NEW w \in Workers, Uploading(w)
      PROVE  Shelving
      BY <1>1, UploadShelf, FindCandidateShelf, InstantLinkShelf, InstantRollbackShelf,
         LockMergeShelf, MergeChunkShelf, RemoveTempDirShelf, InsertFileInfoShelf,
         InsertUserFileShelf, CleanPrecheckCacheShelf, RenameUploadShelf DEF Uploading
<1>2. ASSUME NEW w \in Workers, Managing(w)
      PROVE  Shelving
      BY <1>2, ManageShelf, MoveFileShelf DEF Managing
<1>3. ASSUME NEW w \in Workers, Recycling(w)
      PROVE  Shelving
      BY <1>3, RecycleShelf, PurgesShelf, MoveToRecycledShelf, RestoreApplyShelf,
         PurgeReadFileShelf, PurgeUnlinkShelf, PurgeDropInfoShelf, PurgeHardDeleteShelf
         DEF Recycling
<1>4. ASSUME Ticking
      PROVE  Shelving
      <2>1. /\ UNCHANGED <<req, disk, used>>
            /\ UNCHANGED db \/ \E ts : DeleteTasks(ts)
            BY <1>4 DEF Ticking, DeleteExpiredTasks, stored
      <2> QED BY <2>1, QuietStepShelf
<1>5. CASE UNCHANGED vars
      BY <1>5, QuietStepShelf DEF vars, stored
<1> QED BY <1>1, <1>2, <1>3, <1>4, <1>5, CallFailsShelf, CrashShelf DEF Next

LEMMA InitShelf ==
    ASSUME Init
    PROVE  ShelfInv /\ TheShelf!Init
<1>1. \A w \in Workers : req[w].pc = "idle" /\ req[w].file = NULL
      BY DEF Init, RequestsInit, Idle
<1>2. \A w \in Workers : Own(w)
      BY <1>1 DEF Own, Makes, MakeSteps
<1>3. /\ DOMAIN disk = {} /\ DOMAIN db.fileInfos = {} /\ DOMAIN db.userFiles = {}
      /\ Known("file") = {} /\ Known("userFile") = {}
      BY DEF Init, StoreInit, Empty, Known, Kinds
<1>4. KeysDrawn
      BY <1>1, <1>3 DEF KeysDrawn, FilesKnown
<1>5. TheShelf!Init
      BY <1>3 DEF TheShelf!Init
<1> QED BY <1>2, <1>4, <1>5 DEF ShelfInv

LEMMA EventIsShelfStep ==
    ASSUME ShelfEvent
    PROVE  [TheShelf!Next]_(TheShelf!shelfVars)
<1>1. ASSUME NEW f \in Key("file"),
             TheShelf!Keep(f) \/ TheShelf!Strike(f) \/ TheShelf!Remove(f)
      PROVE  TheShelf!Next
      BY <1>1 DEF TheShelf!Next
<1>2. ASSUME NEW f \in Key("file"), NEW c \in Contents, TheShelf!Enter(f, c)
      PROVE  TheShelf!Next
      BY <1>2 DEF TheShelf!Next
<1>3. ASSUME NEW l \in Key("userFile"),
             TheShelf!Hide(l) \/ TheShelf!Show(l) \/ TheShelf!Erase(l)
      PROVE  TheShelf!Next
      BY <1>3 DEF TheShelf!Next
<1>4. ASSUME NEW l \in Key("userFile"), NEW f \in Key("file"), TheShelf!Link(l, f)
      PROVE  TheShelf!Next
      BY <1>4 DEF TheShelf!Next
<1> QED BY <1>1, <1>2, <1>3, <1>4 DEF ShelfEvent

(* However many requests upload, link, recycle, restore and purge files at *)
(* the same time, whatever fails and whenever the process ends: every step *)
(* keeps or removes one file, enters or strikes one row of file_info, or   *)
(* makes, hides, shows or erases one user file, as Shelf says, or leaves   *)
(* all of this alone.                                                      *)
THEOREM ShelfImplemented == Spec => ImplementsShelf
<1>1. Init => ShelfInv /\ TheShelf!Init
      BY InitShelf
<1>2. Typed /\ ShelfInv /\ [Next]_vars => ShelfInv'
      BY NextShelf DEF Shelving
<1>3. Typed /\ ShelfInv /\ [Next]_vars => [TheShelf!Next]_(TheShelf!shelfVars)
      BY NextShelf, EventIsShelfStep DEF Shelving
<1>4. Spec => TheShelf!Init /\ [][TheShelf!Next]_(TheShelf!shelfVars)
      BY <1>1, <1>2, <1>3, TypedIsInvariant, PTL DEF Spec
<1> QED BY <1>4 DEF ImplementsShelf, TheShelf!Spec

(* With one request at a time the candidate of tryInstantUpload stays.     *)
CandidatesStay == \A w \in Workers : At(w, "instant") => req[w].file \in DOMAIN db.fileInfos

LEMMA CandidateThere ==
    ASSUME OneWorker, CandidatesStay, ShelfEvent, Candidate
    PROVE  CandidatesStay'
<1>1. ASSUME NEW w \in Workers, At(w, "instant")', req'[w] = req[w]
      PROVE  req'[w].file \in DOMAIN db'.fileInfos
      <2>1. At(w, "instant") /\ req[w].file \in DOMAIN db.fileInfos
            BY <1>1 DEF At, CandidatesStay
      <2>2. ~\E v \in Workers : At(v, "drop info")
            BY <2>1 DEF OneWorker, At
      <2>3. DOMAIN db.fileInfos \subseteq DOMAIN db'.fileInfos
            BY <2>2 DEF ShelfEvent, TheShelf!shelfVars, TheShelf!Keep, TheShelf!Remove,
                        TheShelf!Enter, TheShelf!Hide, TheShelf!Show, TheShelf!Erase,
                        TheShelf!Link
      <2> QED BY <1>1, <2>1, <2>3
<1> QED BY <1>1 DEF CandidatesStay, Candidate

LEMMA EventIsCarefulStep ==
    ASSUME OutcomeInv, CandidatesStay, ContentStays, ShelfEvent
    PROVE  [TheShelf!Careful]_(TheShelf!shelfVars)
<1>1. ASSUME NEW f \in Key("file"), TheShelf!Keep(f) \/ TheShelf!Strike(f)
      PROVE  TheShelf!Careful
      BY <1>1 DEF TheShelf!Careful
<1>2. ASSUME NEW f \in Key("file"), TheShelf!Remove(f)
      PROVE  TheShelf!Careful
      <2>1. f \in DOMAIN disk /\ f \notin DOMAIN disk'
            BY <1>2 DEF TheShelf!Remove
      <2>2. ActiveUserFiles(f) = {}
            BY <2>1 DEF ContentStays
      <2>3. \A l \in {k \in DOMAIN db.userFiles : Active(k)} :
                [k \in DOMAIN db.userFiles |-> db.userFiles[k].file][l] # f
            BY <2>2 DEF ActiveUserFiles
      <2> QED BY <1>2, <2>3 DEF TheShelf!Careful
<1>3. ASSUME NEW f \in Key("file"), NEW c \in Contents, TheShelf!Enter(f, c)
      PROVE  TheShelf!Careful
      BY <1>3 DEF TheShelf!Careful
<1>4. ASSUME NEW l \in Key("userFile"),
             TheShelf!Hide(l) \/ TheShelf!Show(l) \/ TheShelf!Erase(l)
      PROVE  TheShelf!Careful
      BY <1>4 DEF TheShelf!Careful
<1>5. ASSUME NEW l \in Key("userFile"), NEW f, TheShelf!Link(l, f),
             \E w \in Workers : req[w].pc \in {"instant", "link"} /\ f = req[w].file
      PROVE  TheShelf!Careful
      <2>1. f \in DOMAIN db.fileInfos
            BY <1>5 DEF OutcomeInv, HoldsOn, CandidatesStay, At
      <2> QED BY <1>5, <2>1 DEF TheShelf!Careful
<1> QED BY <1>1, <1>2, <1>3, <1>4, <1>5 DEF ShelfEvent

(* With one request or job at a time, failures and crashes included, the   *)
(* shelf is a careful one: a user file is made only for a file that is in  *)
(* file_info, instantly or at the end of a merge, and what is unlinked is  *)
(* what no user sees.                                                      *)
THEOREM CarefulShelfImplemented ==
    ASSUME OneWorker
    PROVE  Spec => ImplementsCarefulShelf
<1> DEFINE Inv == OutcomeInv /\ CountIsRight /\ ShelfInv /\ CandidatesStay
<1>1. ASSUME Init
      PROVE  Inv /\ TheShelf!Init
      <2>1. CountIsRight /\ CandidatesStay
            BY <1>1 DEF Init, RequestsInit, CountIsRight, Unreferenced, Idle, UnlinkSteps,
                        CandidatesStay, At
      <2> QED BY <1>1, <2>1, InitShelf, InitOutcome
<1>2. ASSUME Typed, Inv, [Next]_vars
      PROVE  Inv' /\ [TheShelf!Careful]_(TheShelf!shelfVars)
      <2>1. OutcomeInv' /\ CountIsRight' /\ ContentStays /\ Shelving
            BY <1>2, NextOutcome, NextKeepsContent, NextShelf DEF Outcome
      <2>2. CandidatesStay'
            BY <1>2, <2>1, CandidateThere DEF Shelving
      <2> QED BY <1>2, <2>1, <2>2, EventIsCarefulStep DEF Shelving
<1> HIDE DEF Inv
<1>3. Spec => TheShelf!Init /\ [][TheShelf!Careful]_(TheShelf!shelfVars)
      BY <1>1, <1>2, TypedIsInvariant, PTL DEF Spec
<1> QED BY <1>3 DEF ImplementsCarefulShelf, TheShelf!CarefulSpec
=============================================================================
