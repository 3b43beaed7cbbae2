-------------------------- MODULE FileQuotaProofs --------------------------
(***************************************************************************)
(* The quota of the file application never goes below zero, for all users, *)
(* contents and workers, every quota and every bound.                      *)
(***************************************************************************)
EXTENDS FileAppProofs

(* What a request has read of free_space decides what it writes back: an   *)
(* instant upload, which deducts, has seen room for the file, and a return *)
(* has seen no debt.                                                       *)
ReadEnough(w) ==
    /\ Space > 0 /\ req[w].pc \in {"candidate", "instant"} => req[w].free >= 1
    /\ req[w].pc = "deduct" => req[w].free >= 1
    /\ req[w].pc = "return" => req[w].free >= 0

QuotaInv == FreeNeverNegative /\ \A w \in Workers : ReadEnough(w)

QuotaSteps == {"candidate", "instant", "deduct", "return"}

-----------------------------------------------------------------------------
(***************************************************************************)
(* Statements that leave free_space alone, and steps away from the quota.  *)
(***************************************************************************)
LEMMA HasSpace == Typed => "freeSpace" \in DOMAIN db /\ db.freeSpace \in [Users -> Int]
BY DEF Typed, TypeOK, TablesOK

SpaceKept == db'.freeSpace = db.freeSpace

LEMMA StatementsKeepSpace ==
    ASSUME Typed
    PROVE  /\ \A f, c : CreateFileInfo(f, c) => SpaceKept
           /\ \A f : DeleteFileInfo(f) => SpaceKept
           /\ \A l, u, f, d : CreateUserFile(l, u, f, d) => SpaceKept
           /\ \A l : SoftDelete(l) => SpaceKept
           /\ \A l, d : MoveUserFile(l, d) => SpaceKept
           /\ \A l, d : RestoreUserFile(l, d) => SpaceKept
           /\ \A l : HardDelete(l) => SpaceKept
           /\ \A r, u, l : CreateRecycled(r, u, l) => SpaceKept
           /\ \A row : DeleteRecycled(row) => SpaceKept
           /\ \A t, row : PutTask(t, row) => SpaceKept
           /\ \A ts : DeleteTasks(ts) => SpaceKept
           /\ \A d, u, p : CreateDir(d, u, p) => SpaceKept
           /\ \A d : DeleteDirRow(d) => SpaceKept
<1>1. \A f, c : CreateFileInfo(f, c) => SpaceKept
      BY HasSpace DEF CreateFileInfo, SpaceKept
<1>2. \A f : DeleteFileInfo(f) => SpaceKept
      BY HasSpace DEF DeleteFileInfo, SpaceKept
<1>3. \A l, u, f, d : CreateUserFile(l, u, f, d) => SpaceKept
      BY HasSpace DEF CreateUserFile, SpaceKept
<1>4. \A l : SoftDelete(l) => SpaceKept
      BY HasSpace DEF SoftDelete, SpaceKept
<1>5. \A l, d : MoveUserFile(l, d) => SpaceKept
      BY HasSpace DEF MoveUserFile, SpaceKept
<1>6. \A l, d : RestoreUserFile(l, d) => SpaceKept
      BY HasSpace DEF RestoreUserFile, SpaceKept
<1>7. \A l : HardDelete(l) => SpaceKept
      BY HasSpace DEF HardDelete, SpaceKept
<1>8. \A r, u, l : CreateRecycled(r, u, l) => SpaceKept
      BY HasSpace DEF CreateRecycled, SpaceKept
<1>9. \A row : DeleteRecycled(row) => SpaceKept
      BY HasSpace DEF DeleteRecycled, SpaceKept
<1>10. \A t, row : PutTask(t, row) => SpaceKept
      BY HasSpace DEF PutTask, SpaceKept
<1>11. \A ts : DeleteTasks(ts) => SpaceKept
      BY HasSpace DEF DeleteTasks, SpaceKept
<1>12. \A d, u, p : CreateDir(d, u, p) => SpaceKept
      BY HasSpace DEF CreateDir, SpaceKept
<1>13. \A d : DeleteDirRow(d) => SpaceKept
      BY HasSpace DEF DeleteDirRow, SpaceKept
<1> QED BY <1>1, <1>2, <1>3, <1>4, <1>5, <1>6, <1>7, <1>8, <1>9, <1>10, <1>11, <1>12,
           <1>13

LEMMA AwayFromQuota ==
    ASSUME QuotaInv, NEW w \in Workers, Others(w), SpaceKept, ReadEnough(w)'
    PROVE  QuotaInv'
<1>1. \A v \in Workers : ReadEnough(v)'
      BY DEF QuotaInv, ReadEnough, Others
<1> QED BY <1>1 DEF QuotaInv, FreeNeverNegative, SpaceKept

LEMMA NoQuotaStep ==
    ASSUME NEW w \in Workers, req'[w].pc \notin QuotaSteps
    PROVE  ReadEnough(w)'
BY DEF ReadEnough, QuotaSteps

LEMMA MovesAway ==
    ASSUME QuotaInv, NEW w \in Workers, NEW from, NEW to, Moves(w, from, to), SpaceKept,
           to \cap QuotaSteps = {}
    PROVE  QuotaInv'
BY NoQuotaStep, AwayFromQuota DEF Moves

LEMMA UploadQuota ==
    ASSUME Typed, QuotaInv, NEW w \in Workers,
           InstantRollback(w) \/ CreateTask(w) \/ CachePrecheck(w) \/
           UploadChunk(w) \/ UploadChunkLate(w) \/ EvictPrecheck(w) \/
           MakeTempDir(w) \/ SaveOpen(w) \/ SaveCopy(w) \/ CountChunks(w) \/
           ReadTask(w) \/ WriteTask(w) \/ LockMerge(w) \/ MergeChunk(w) \/
           RemoveTempDir(w) \/ InsertFileInfo(w) \/ InsertUserFile(w) \/
           CleanPrecheckCache(w) \/ UnlockMerge(w) \/ RenameUpload(w)
    PROVE  QuotaInv'
<1>1. CASE InstantRollback(w)
      <2>1. SpaceKept
            BY <1>1, StatementsKeepSpace DEF InstantRollback, SpaceKept
      <2> QED BY <1>1, <2>1, InstantRollbackMoves, MovesAway DEF QuotaSteps
<1>2. CASE CreateTask(w)
      <2>1. SpaceKept
            BY <1>2, StatementsKeepSpace DEF CreateTask, SpaceKept
      <2> QED BY <1>2, <2>1, CreateTaskMoves, MovesAway DEF QuotaSteps
<1>3. CASE CachePrecheck(w)
      <2>1. SpaceKept
            BY <1>3 DEF CachePrecheck, SpaceKept, stored
      <2> QED BY <1>3, <2>1, CachePrecheckMoves, MovesAway DEF QuotaSteps
<1>4. CASE UploadChunk(w)
      <2>1. SpaceKept
            BY <1>4 DEF UploadChunk, SpaceKept, stored
      <2> QED BY <1>4, <2>1, UploadChunkMoves, MovesAway DEF QuotaSteps
<1>5. CASE UploadChunkLate(w)
      <2>1. SpaceKept
            BY <1>5 DEF UploadChunkLate, SpaceKept, stored
      <2> QED BY <1>5, <2>1, UploadChunkLateMoves, MovesAway DEF QuotaSteps
<1>6. CASE EvictPrecheck(w)
      <2>1. SpaceKept
            BY <1>6 DEF EvictPrecheck, SpaceKept, stored
      <2> QED BY <1>6, <2>1, EvictPrecheckMoves, MovesAway DEF QuotaSteps
<1>7. CASE MakeTempDir(w)
      <2>1. SpaceKept
            BY <1>7 DEF MakeTempDir, SpaceKept, stored
      <2> QED BY <1>7, <2>1, MakeTempDirMoves, MovesAway DEF QuotaSteps
<1>8. CASE SaveOpen(w)
      <2>1. SpaceKept
            BY <1>8 DEF SaveOpen, SpaceKept, stored
      <2> QED BY <1>8, <2>1, SaveOpenMoves, MovesAway DEF QuotaSteps
<1>9. CASE SaveCopy(w)
      <2>1. SpaceKept
            BY <1>9 DEF SaveCopy, SpaceKept, stored
      <2> QED BY <1>9, <2>1, SaveCopyMoves, MovesAway DEF QuotaSteps
<1>10. CASE CountChunks(w)
      <2>1. SpaceKept
            BY <1>10 DEF CountChunks, SpaceKept, stored
      <2> QED BY <1>10, <2>1, CountChunksMoves, MovesAway DEF QuotaSteps
<1>11. CASE ReadTask(w)
      <2>1. SpaceKept
            BY <1>11 DEF ReadTask, SpaceKept, stored
      <2> QED BY <1>11, <2>1, ReadTaskMoves, MovesAway DEF QuotaSteps
<1>12. CASE WriteTask(w)
      <2>1. SpaceKept
            BY <1>12, StatementsKeepSpace DEF WriteTask, SpaceKept
      <2> QED BY <1>12, <2>1, WriteTaskMoves, MovesAway DEF QuotaSteps
<1>13. CASE LockMerge(w)
      <2>1. SpaceKept
            BY <1>13 DEF LockMerge, SpaceKept, stored
      <2> QED BY <1>13, <2>1, LockMergeMoves, MovesAway DEF QuotaSteps
<1>14. CASE MergeChunk(w)
      <2>1. SpaceKept
            BY <1>14 DEF MergeChunk, SpaceKept, stored
      <2> QED BY <1>14, <2>1, MergeChunkMoves, MovesAway DEF QuotaSteps
<1>15. CASE RemoveTempDir(w)
      <2>1. SpaceKept
            BY <1>15 DEF RemoveTempDir, SpaceKept, stored
      <2> QED BY <1>15, <2>1, RemoveTempDirMoves, MovesAway DEF QuotaSteps
<1>16. CASE InsertFileInfo(w)
      <2>1. SpaceKept
            BY <1>16, StatementsKeepSpace DEF InsertFileInfo, SpaceKept
      <2> QED BY <1>16, <2>1, InsertFileInfoMoves, MovesAway DEF QuotaSteps
<1>17. CASE InsertUserFile(w)
      <2>1. SpaceKept
            BY <1>17, StatementsKeepSpace DEF InsertUserFile, SpaceKept
      <2> QED BY <1>17, <2>1, InsertUserFileMoves, MovesAway DEF QuotaSteps
<1>18. CASE CleanPrecheckCache(w)
      <2>1. SpaceKept
            BY <1>18 DEF CleanPrecheckCache, SpaceKept, stored
      <2> QED BY <1>18, <2>1, CleanPrecheckCacheMoves, MovesAway DEF QuotaSteps
<1>19. CASE UnlockMerge(w)
      <2>1. SpaceKept
            BY <1>19 DEF UnlockMerge, SpaceKept, stored
      <2> QED BY <1>19, <2>1, UnlockMergeMoves, MovesAway DEF QuotaSteps
<1>20. CASE RenameUpload(w)
      <2>1. SpaceKept
            BY <1>20 DEF RenameUpload, SpaceKept, stored
      <2> QED BY <1>20, <2>1, RenameUploadMoves, MovesAway DEF QuotaSteps
<1> QED BY <1>1, <1>2, <1>3, <1>4, <1>5, <1>6, <1>7, <1>8, <1>9, <1>10, <1>11, <1>12,
           <1>13, <1>14, <1>15, <1>16, <1>17, <1>18, <1>19, <1>20

LEMMA ManageQuota ==
    ASSUME Typed, QuotaInv, NEW w \in Workers,
           RenewUploadTask(w) \/ RenewWriteTask(w) \/ DeleteUploadTask(w) \/
           DropTask(w) \/ MakeDir(w) \/ InsertDir(w) \/ DeleteDir(w) \/
           DropDir(w)
    PROVE  QuotaInv'
<1>1. CASE RenewUploadTask(w)
      <2>1. SpaceKept
            BY <1>1 DEF RenewUploadTask, SpaceKept, stored
      <2> QED BY <1>1, <2>1, RenewUploadTaskMoves, MovesAway DEF QuotaSteps
<1>2. CASE RenewWriteTask(w)
      <2>1. SpaceKept
            BY <1>2, StatementsKeepSpace DEF RenewWriteTask, SpaceKept
      <2> QED BY <1>2, <2>1, RenewWriteTaskMoves, MovesAway DEF QuotaSteps
<1>3. CASE DeleteUploadTask(w)
      <2>1. SpaceKept
            BY <1>3 DEF DeleteUploadTask, SpaceKept, stored
      <2> QED BY <1>3, <2>1, DeleteUploadTaskMoves, MovesAway DEF QuotaSteps
<1>4. CASE DropTask(w)
      <2>1. SpaceKept
            BY <1>4, StatementsKeepSpace DEF DropTask, SpaceKept
      <2> QED BY <1>4, <2>1, DropTaskMoves, MovesAway DEF QuotaSteps
<1>5. CASE MakeDir(w)
      <2>1. SpaceKept
            BY <1>5 DEF MakeDir, SpaceKept, stored
      <2> QED BY <1>5, <2>1, MakeDirMoves, MovesAway DEF QuotaSteps
<1>6. CASE InsertDir(w)
      <2>1. SpaceKept
            BY <1>6, StatementsKeepSpace DEF InsertDir, SpaceKept
      <2> QED BY <1>6, <2>1, InsertDirMoves, MovesAway DEF QuotaSteps
<1>7. CASE DeleteDir(w)
      <2>1. SpaceKept
            BY <1>7 DEF DeleteDir, SpaceKept, stored
      <2> QED BY <1>7, <2>1, DeleteDirMoves, MovesAway DEF QuotaSteps
<1>8. CASE DropDir(w)
      <2>1. SpaceKept
            BY <1>8, StatementsKeepSpace DEF DropDir, SpaceKept
      <2> QED BY <1>8, <2>1, DropDirMoves, MovesAway DEF QuotaSteps
<1> QED BY <1>1, <1>2, <1>3, <1>4, <1>5, <1>6, <1>7, <1>8

LEMMA RecycleQuota ==
    ASSUME Typed, QuotaInv, NEW w \in Workers,
           MoveToRecycled(w) \/ InsertRecycled(w) \/ Restore(w) \/
           RestoreReadFile(w) \/ RestoreReadDir(w) \/ RestoreApply(w) \/
           PurgeReadFile(w) \/ PurgeCountRefs(w) \/ PurgeReadInfo(w) \/
           PurgeUnlink(w) \/ PurgeDropInfo(w) \/ PurgeHardDelete(w) \/
           DropRecord(w)
    PROVE  QuotaInv'
<1>1. CASE MoveToRecycled(w)
      <2>1. SpaceKept
            BY <1>1, StatementsKeepSpace DEF MoveToRecycled, SpaceKept
      <2> QED BY <1>1, <2>1, MoveToRecycledMoves, MovesAway DEF QuotaSteps
<1>2. CASE InsertRecycled(w)
      <2>1. SpaceKept
            BY <1>2, StatementsKeepSpace DEF InsertRecycled, SpaceKept
      <2> QED BY <1>2, <2>1, InsertRecycledMoves, MovesAway DEF QuotaSteps
<1>3. CASE Restore(w)
      <2>1. SpaceKept
            BY <1>3 DEF Restore, SpaceKept, stored
      <2> QED BY <1>3, <2>1, RestoreMoves, MovesAway DEF QuotaSteps
<1>4. CASE RestoreReadFile(w)
      <2>1. SpaceKept
            BY <1>4 DEF RestoreReadFile, SpaceKept, stored
      <2> QED BY <1>4, <2>1, RestoreReadFileMoves, MovesAway DEF QuotaSteps
<1>5. CASE RestoreReadDir(w)
      <2>1. SpaceKept
            BY <1>5 DEF RestoreReadDir, SpaceKept, stored
      <2> QED BY <1>5, <2>1, RestoreReadDirMoves, MovesAway DEF QuotaSteps
<1>6. CASE RestoreApply(w)
      <2>1. SpaceKept
            BY <1>6, StatementsKeepSpace DEF RestoreApply, SpaceKept
      <2> QED BY <1>6, <2>1, RestoreApplyMoves, MovesAway DEF QuotaSteps
<1>7. CASE PurgeReadFile(w)
      <2>1. SpaceKept
            BY <1>7 DEF PurgeReadFile, SpaceKept, stored
      <2> QED BY <1>7, <2>1, PurgeReadFileMoves, MovesAway DEF QuotaSteps
<1>8. CASE PurgeCountRefs(w)
      <2>1. SpaceKept
            BY <1>8 DEF PurgeCountRefs, SpaceKept, stored
      <2> QED BY <1>8, <2>1, PurgeCountRefsMoves, MovesAway DEF QuotaSteps
<1>9. CASE PurgeReadInfo(w)
      <2>1. SpaceKept
            BY <1>9 DEF PurgeReadInfo, SpaceKept, stored
      <2> QED BY <1>9, <2>1, PurgeReadInfoMoves, MovesAway DEF QuotaSteps
<1>10. CASE PurgeUnlink(w)
      <2>1. SpaceKept
            BY <1>10 DEF PurgeUnlink, SpaceKept, stored
      <2> QED BY <1>10, <2>1, PurgeUnlinkMoves, MovesAway DEF QuotaSteps
<1>11. CASE PurgeDropInfo(w)
      <2>1. SpaceKept
            BY <1>11, StatementsKeepSpace DEF PurgeDropInfo, SpaceKept
      <2> QED BY <1>11, <2>1, PurgeDropInfoMoves, MovesAway DEF QuotaSteps
<1>12. CASE PurgeHardDelete(w)
      <2>1. SpaceKept
            BY <1>12, StatementsKeepSpace DEF PurgeHardDelete, SpaceKept
      <2> QED BY <1>12, <2>1, PurgeHardDeleteMoves, MovesAway DEF QuotaSteps
<1>13. CASE DropRecord(w)
      <2>1. SpaceKept
            BY <1>13, StatementsKeepSpace DEF DropRecord, SpaceKept
      <2> QED BY <1>13, <2>1, DropRecordMoves, MovesAway DEF QuotaSteps
<1> QED BY <1>1, <1>2, <1>3, <1>4, <1>5, <1>6, <1>7, <1>8, <1>9, <1>10, <1>11, <1>12,
           <1>13

-----------------------------------------------------------------------------
(***************************************************************************)
(* The steps of the quota.                                                 *)
(***************************************************************************)
LEMMA PrecheckQuota ==
    ASSUME Typed, QuotaInv, NEW w \in Workers, Precheck(w)
    PROVE  QuotaInv'
<1>1. SpaceKept /\ Others(w) /\ req'[w].pc = "candidate"
      BY PrecheckMoves DEF Precheck, SpaceKept, stored, Moves
<1>2. Space > 0 => req'[w].free >= 1
      BY Fields DEF Precheck
<1>3. ReadEnough(w)'
      BY <1>1, <1>2 DEF ReadEnough
<1> QED BY <1>1, <1>3, AwayFromQuota

LEMMA FindCandidateQuota ==
    ASSUME Typed, QuotaInv, NEW w \in Workers, FindCandidate(w)
    PROVE  QuotaInv'
<1>1. SpaceKept /\ Others(w) /\ req'[w].pc \in {"instant", "task"} /\ At(w, "candidate")
      BY FindCandidateMoves DEF FindCandidate, SpaceKept, stored, Moves
<1>2. req'[w].free = req[w].free
      BY Fields, GotoMoves DEF FindCandidate
<1>3. ReadEnough(w)'
      BY <1>1, <1>2 DEF ReadEnough, QuotaInv, At
<1> QED BY <1>1, <1>3, AwayFromQuota

LEMMA InstantLinkQuota ==
    ASSUME Typed, QuotaInv, NEW w \in Workers, InstantLink(w)
    PROVE  QuotaInv'
<1>1. SpaceKept
      BY StatementsKeepSpace DEF InstantLink
<1>2. Others(w) /\ req'[w].pc \in {"deduct", "idle"} /\ At(w, "instant")
      BY InstantLinkMoves DEF Moves
<1>3. req'[w].pc = "deduct" => Space > 0 /\ req'[w].free = req[w].free
      BY Fields, FinishMoves DEF InstantLink
<1>4. ReadEnough(w)'
      BY <1>2, <1>3 DEF ReadEnough, QuotaInv, At
<1> QED BY <1>1, <1>2, <1>4, AwayFromQuota

(* A row of the user that is written back with no debt in it.              *)
LEMMA UpdateUserQuota ==
    ASSUME Typed, QuotaInv, NEW w \in Workers, NEW u, NEW n \in Int, n >= 0,
           Others(w), req'[w].pc \notin QuotaSteps, UpdateUser(u, n)
    PROVE  QuotaInv'
<1>1. \A v \in Workers : ReadEnough(v)'
      BY NoQuotaStep DEF QuotaInv, ReadEnough, Others
<1>2. FreeNeverNegative'
      BY HasSpace DEF UpdateUser, QuotaInv, FreeNeverNegative
<1> QED BY <1>1, <1>2 DEF QuotaInv

LEMMA FreeIsInt ==
    ASSUME Typed, NEW w \in Workers
    PROVE  req[w].free \in Int
BY RequestsType DEF Request

LEMMA InstantDeductQuota ==
    ASSUME Typed, QuotaInv, NEW w \in Workers, InstantDeduct(w)
    PROVE  QuotaInv'
<1>1. Others(w) /\ req'[w].pc \notin QuotaSteps /\ At(w, "deduct")
      BY InstantDeductMoves DEF Moves, QuotaSteps
<1>2. req[w].free - 1 \in Int /\ req[w].free - 1 >= 0
      BY <1>1, FreeIsInt DEF QuotaInv, ReadEnough, At
<1>3. UpdateUser(req[w].user, req[w].free - 1)
      BY DEF InstantDeduct
<1> QED BY <1>1, <1>2, <1>3, UpdateUserQuota

LEMMA PurgeReadQuotaQuota ==
    ASSUME Typed, QuotaInv, NEW w \in Workers, PurgeReadQuota(w)
    PROVE  QuotaInv'
<1>1. SpaceKept
      BY DEF PurgeReadQuota, SpaceKept, stored
<1>2. Others(w) /\ req'[w].pc \in {"return", "drop info"} /\ At(w, "quota")
      BY PurgeReadQuotaMoves DEF Moves
<1>3. req[w].user \in Users
      <2>1. req[w] \in GoodRequest
            BY DEF Typed, RequestsFilled
      <2> QED BY <1>2, <2>1 DEF GoodRequest, Filled, Request, OwnerSteps, At
<1>4. req'[w].pc = "return" => req'[w].free = db.freeSpace[req[w].user]
      <2>1. CASE req' = [req EXCEPT ![w].pc = "return", ![w].free = db.freeSpace[req[w].user]]
            BY <2>1, Fields
      <2>2. CASE Goto(w, "drop info")
            <3>1. req'[w].pc = "drop info"
                  BY <2>2, GotoMoves
            <3> QED BY <3>1
      <2> QED BY <2>1, <2>2 DEF PurgeReadQuota
<1>5. ReadEnough(w)'
      BY <1>2, <1>3, <1>4 DEF ReadEnough, QuotaInv, FreeNeverNegative
<1> QED BY <1>1, <1>2, <1>5, AwayFromQuota

LEMMA PurgeWriteQuotaQuota ==
    ASSUME Typed, QuotaInv, NEW w \in Workers, PurgeWriteQuota(w)
    PROVE  QuotaInv'
<1>1. Others(w) /\ req'[w].pc \notin QuotaSteps /\ At(w, "return")
      BY PurgeWriteQuotaMoves DEF Moves, QuotaSteps
<1>2. req[w].free + 1 \in Int /\ req[w].free + 1 >= 0
      BY <1>1, FreeIsInt DEF QuotaInv, ReadEnough, At
<1>3. UpdateUser(req[w].user, req[w].free + 1)
      BY DEF PurgeWriteQuota
<1> QED BY <1>1, <1>2, <1>3, UpdateUserQuota

LEMMA CallFailsQuota ==
    ASSUME Typed, QuotaInv, NEW w \in Workers, CallFails(w)
    PROVE  QuotaInv'
<1>0. SpaceKept
      BY DEF CallFails, SaveFails, SpaceKept, stored
<1>1. ASSUME Others(w), req'[w].pc \notin QuotaSteps
      PROVE  QuotaInv'
      BY <1>0, <1>1, NoQuotaStep, AwayFromQuota
<1>2. CASE SaveFails(w)
      BY <1>1, <1>2, FinishMoves DEF SaveFails, QuotaSteps
<1>3. ASSUME NEW pc, Goto(w, pc), pc \notin QuotaSteps
      PROVE  QuotaInv'
      BY <1>1, <1>3, GotoMoves
<1>4. CASE Finish(w)
      BY <1>1, <1>4, FinishMoves DEF QuotaSteps
<1>5. CASE RecycledFails(w)
      <2>1. CASE RestoreToRoot(w)
            BY <1>1, <2>1, RestoreToRootMoves DEF QuotaSteps
      <2>2. CASE NextRecord(w)
            BY <1>1, <2>2, NextRecordMoves DEF QuotaSteps
      <2>3. ASSUME NEW pc \in {"hard delete", "quota", "drop info"}, Goto(w, pc)
            PROVE  QuotaInv'
            <3>1. pc \notin QuotaSteps
                  BY DEF QuotaSteps
            <3> QED BY <1>3, <2>3, <3>1
      <2>4. ASSUME NEW row, Take(w, row, "drop record", NULL)
            PROVE  QuotaInv'
            <3>1. Others(w) /\ req'[w].pc = "drop record"
                  BY <2>4, TakeMoves
            <3>2. req'[w].pc \notin QuotaSteps
                  BY <3>1 DEF QuotaSteps
            <3> QED BY <1>1, <3>1, <3>2
      <2> QED BY <1>4, <1>5, <2>1, <2>2, <2>3, <2>4 DEF RecycledFails
<1>6. CASE UploadFails(w)
      <2>1. CASE AfterProgress(w)
            BY <1>1, <2>1, AfterProgressMoves DEF QuotaSteps
      <2>2. CASE MergeFailed(w)
            BY <1>1, <2>2, MergeFailedMoves DEF QuotaSteps
      <2>3. ASSUME NEW pc \in {"task", "rollback", "remove temp", "info"}, Goto(w, pc)
            PROVE  QuotaInv'
            BY <1>3, <2>3 DEF QuotaSteps
      <2>4. ASSUME NEW d, At(w, "delete dirs"), NextDir(w, d)
            PROVE  QuotaInv'
            BY <1>1, <2>4, NextDirMoves DEF At, QuotaSteps
      <2> QED BY <1>4, <1>6, <2>1, <2>2, <2>3, <2>4 DEF UploadFails
<1> QED BY <1>2, <1>5, <1>6 DEF CallFails

LEMMA CrashQuota ==
    ASSUME QuotaInv, Crash
    PROVE  QuotaInv'
<1>1. \A v \in Workers : ReadEnough(v)'
      BY DEF Crash, ReadEnough, Idle
<1>2. FreeNeverNegative'
      BY DEF Crash, QuotaInv, FreeNeverNegative
<1> QED BY <1>1, <1>2 DEF QuotaInv

LEMMA QuietQuota ==
    ASSUME QuotaInv, UNCHANGED req, SpaceKept
    PROVE  QuotaInv'
BY DEF QuotaInv, ReadEnough, FreeNeverNegative, SpaceKept

LEMMA NextQuota == Typed /\ QuotaInv /\ [Next]_vars => QuotaInv'
<1> SUFFICES ASSUME Typed, QuotaInv, [Next]_vars
             PROVE  QuotaInv'
    OBVIOUS
<1>1. ASSUME NEW w \in Workers, Uploading(w)
      PROVE  QuotaInv'
      BY <1>1, UploadQuota, PrecheckQuota, FindCandidateQuota, InstantLinkQuota,
         InstantDeductQuota DEF Uploading
<1>2. ASSUME NEW w \in Workers, Managing(w)
      PROVE  QuotaInv'
      <2>1. CASE MoveFile(w)
            <3>1. SpaceKept /\ UNCHANGED req
                  BY <2>1, StatementsKeepSpace DEF MoveFile
            <3> QED BY <3>1, QuietQuota
      <2> QED BY <1>2, <2>1, ManageQuota DEF Managing
<1>3. ASSUME NEW w \in Workers, Recycling(w)
      PROVE  QuotaInv'
      <2>1. ASSUME DeletePermanently(w) \/ EmptyBin(w) \/ CleanExpired(w)
            PROVE  QuotaInv'
            <3>1. PICK rows : Purges(w, rows) /\ At(w, "idle")
                  BY <2>1 DEF DeletePermanently, EmptyBin, CleanExpired, Starts
            <3>2. SpaceKept
                  BY <3>1 DEF Purges, SpaceKept, stored
            <3> QED BY <3>1, <3>2, PurgesMoves, MovesAway DEF QuotaSteps
      <2> QED BY <1>3, <2>1, RecycleQuota, PurgeReadQuotaQuota, PurgeWriteQuotaQuota
              DEF Recycling
<1>4. ASSUME Ticking
      PROVE  QuotaInv'
      <2>1. SpaceKept /\ UNCHANGED req
            BY <1>4, StatementsKeepSpace DEF Ticking, DeleteExpiredTasks, SpaceKept, stored
      <2> QED BY <2>1, QuietQuota
<1>5. CASE UNCHANGED vars
      BY <1>5, QuietQuota DEF vars, stored, SpaceKept
<1> QED BY <1>1, <1>2, <1>3, <1>4, <1>5, CallFailsQuota, CrashQuota DEF Next

(* Nobody's free space drops below zero, although tryInstantUpload and     *)
(* returnSpace write back what they read and lose each other's updates,    *)
(* whatever fails and whenever the process ends.                           *)
THEOREM FreeNeverNegativeHolds == Spec => []FreeNeverNegative
<1>1. ASSUME Init
      PROVE  QuotaInv
      BY <1>1, FileStoreAssumption DEF Init, StoreInit, RequestsInit, QuotaInv, ReadEnough,
         FreeNeverNegative, Idle
<1>2. QuotaInv => FreeNeverNegative
      BY DEF QuotaInv
<1> QED BY <1>1, <1>2, NextQuota, TypedIsInvariant, PTL DEF Spec
=============================================================================
