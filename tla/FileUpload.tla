------------------------------ MODULE FileUpload ------------------------------
(***************************************************************************)
(* internal/application/file/usecase.go: Precheck and tryInstantUpload,    *)
(* UploadChunk, the upload tasks, the folders and MoveFile.                *)
(***************************************************************************)
EXTENDS FileRequests

(* The clock only tells what expires first: precheckCacheTTL is twelve     *)
(* hours, uploadTaskTTL and what a renewal adds are days.                  *)
CacheTTL == 1
TaskTTL  == 2

Dirs == {NULL} \cup Known("dir")

-----------------------------------------------------------------------------
(***************************************************************************)
(* Precheck.  A file that is there already is linked and paid for at once; *)
(* when it is not, or when linking it fails, a task is made.               *)
(***************************************************************************)
(* Mutant: the free space is not looked at.                                *)
PrecheckUnlimited(w) ==
    /\ Starts(w, "precheck")
    /\ \E u \in Users, c \in Contents, d \in Dirs :
        req' = [req EXCEPT ![w].pc = "candidate", ![w].user = u, ![w].content = c,
                           ![w].dir = d, ![w].free = db.freeSpace[u]]
    /\ UNCHANGED <<stored, cache, shared>>

Precheck(w) ==
    /\ Starts(w, "precheck")
    /\ \E u \in Users, c \in Contents, d \in Dirs :
        /\ Space > 0 => db.freeSpace[u] >= 1
        /\ req' = [req EXCEPT ![w].pc = "candidate", ![w].user = u, ![w].content = c,
                              ![w].dir = d, ![w].free = db.freeSpace[u]]
    /\ UNCHANGED <<stored, cache, shared>>

(* A client that sends fewer than three chunk hashes matches no candidate: *)
(* uploads leave file_hash empty.                                          *)
FindCandidate(w) ==
    /\ At(w, "candidate")
    /\ \/ \E f \in Candidates(req[w].content) :
            /\ Candidates(req[w].content) = {f}
            /\ req' = [req EXCEPT ![w].pc = "instant", ![w].file = f]
       \/ Goto(w, "task")
    /\ UNCHANGED <<stored, cache, shared>>

InstantLink(w) ==
    /\ At(w, "instant")
    /\ LET l == NextKey("userFile") IN
        /\ Draw("userFile")
        /\ CreateUserFile(l, req[w].user, req[w].file, req[w].dir)
        /\ IF Space > 0
           THEN req' = [req EXCEPT ![w].pc = "deduct", ![w].userFile = l]
           ELSE Finish(w)
    /\ UNCHANGED <<disk, temp, cache, shared>>

(* The row of the user goes back as Precheck read it, less the size.       *)
InstantDeduct(w) ==
    /\ At(w, "deduct")
    /\ UpdateUser(req[w].user, req[w].free - 1)
    /\ Finish(w)
    /\ UNCHANGED <<disk, temp, used, cache, shared>>

InstantRollback(w) ==
    /\ At(w, "rollback")
    /\ IF HasUserFile(req[w].userFile) THEN SoftDelete(req[w].userFile) ELSE UNCHANGED db
    /\ Goto(w, "task")
    /\ UNCHANGED <<disk, temp, used, cache, shared>>

CreateTask(w) ==
    /\ At(w, "task")
    /\ LET t == NextKey("task") IN
        /\ Draw("task")
        /\ PutTask(t, [status |-> "pending", uploaded |-> 0, expiresAt |-> clock + TaskTTL])
        /\ req' = [req EXCEPT ![w].pc = "cache", ![w].task = t]
    /\ UNCHANGED <<disk, temp, cache, shared>>

CachePrecheck(w) ==
    /\ At(w, "cache")
    /\ CacheSet(req[w].task, [content |-> req[w].content, dir |-> req[w].dir], CacheTTL)
    /\ Finish(w)
    /\ UNCHANGED <<stored, shared>>

-----------------------------------------------------------------------------
(***************************************************************************)
(* UploadChunk: a chunk, or the whole file in one piece.  A request brings *)
(* its chunk_index and total_chunks along; neither is compared with the    *)
(* other, with those of an earlier request or with the task, so an index   *)
(* may lie beyond the total and two requests may state different totals.   *)
(***************************************************************************)
UploadParts ==
    (IF "chunk" \in Ops THEN 0..Chunks - 1 ELSE {}) \cup (IF "single" \in Ops THEN {Single} ELSE {})

UploadChunk(w) ==
    /\ At(w, "idle")
    /\ \E t \in DOMAIN items, p \in UploadParts, u \in Users :
       \E total \in IF p = Single THEN {0} ELSE Totals :
        /\ Live(t)
        /\ req' = [req EXCEPT ![w].pc = "mkdir", ![w].task = t, ![w].part = p, ![w].user = u,
                              ![w].total = total,
                              ![w].content = items[t].value.content,
                              ![w].dir = items[t].value.dir]
    /\ UNCHANGED <<stored, cache, shared>>

(* The entry is past its time: the request is refused, Get removes it.     *)
UploadChunkLate(w) ==
    /\ At(w, "idle")
    /\ UploadParts # {}
    /\ \E t \in DOMAIN items :
        /\ ~Live(t)
        /\ req' = [req EXCEPT ![w].pc = "evict", ![w].task = t]
    /\ UNCHANGED <<stored, cache, shared>>

EvictPrecheck(w) ==
    /\ At(w, "evict")
    /\ CacheDelete(req[w].task)
    /\ Finish(w)
    /\ UNCHANGED <<stored, shared>>

MakeTempDir(w) ==
    /\ At(w, "mkdir")
    /\ MkdirTemp(req[w].task)
    /\ Goto(w, "open")
    /\ UNCHANGED <<db, disk, used, cache, shared>>

(* saveToFile, until the file is there; its folder may be gone again.      *)
SaveOpen(w) ==
    /\ At(w, "open")
    /\ IF req[w].task \in DOMAIN temp
       THEN OpenPart(req[w].task, req[w].part, w) /\ Goto(w, "copy")
       ELSE UNCHANGED temp /\ Finish(w)
    /\ UNCHANGED <<db, disk, used, cache, shared>>

SaveCopy(w) ==
    /\ At(w, "copy")
    /\ EndWriting(w, "Whole")
    /\ Goto(w, IF req[w].part = Single THEN "rename" ELSE "count")
    /\ UNCHANGED <<db, used, cache, shared>>

(* os.Stat tells a chunk that is being written from none, not from a whole *)
(* one.                                                                    *)
CountChunks(w) ==
    /\ At(w, "count")
    /\ req' = [req EXCEPT ![w].pc = "progress", ![w].status = "uploading",
                          ![w].uploaded = Cardinality(ChunksOf(req[w].task, req[w].total))]
    /\ UNCHANGED <<stored, cache, shared>>

-----------------------------------------------------------------------------
(***************************************************************************)
(* updateTaskProgress, and what handleChunk does after it.                 *)
(***************************************************************************)
(* Mutant: the last chunk does not start the merge.                        *)
AfterProgressOffByOne(w) ==
    \/ req[w].status = "completed" /\ Goto(w, "clean")
    \/ req[w].status = "failed" /\ Goto(w, "unlock")
    \/ /\ req[w].status = "uploading"
       /\ IF req[w].uploaded <= req[w].total THEN Finish(w) ELSE Goto(w, "lock")

(* Mutant: a failed merge keeps its lock.                                  *)
AfterProgressKeepLock(w) ==
    \/ req[w].status = "completed" /\ Goto(w, "clean")
    \/ req[w].status = "failed" /\ Finish(w)
    \/ /\ req[w].status = "uploading"
       /\ IF req[w].uploaded < req[w].total THEN Finish(w) ELSE Goto(w, "lock")

(* Mutant: a failed merge drops the precheck entry.                        *)
AfterProgressCleanAll(w) ==
    \/ req[w].status \in {"completed", "failed"} /\ Goto(w, "clean")
    \/ /\ req[w].status = "uploading"
       /\ IF req[w].uploaded < req[w].total THEN Finish(w) ELSE Goto(w, "lock")

AfterProgress(w) ==
    \/ req[w].status = "completed" /\ Goto(w, "clean")
    \/ req[w].status = "failed" /\ Goto(w, "unlock")
    \/ /\ req[w].status = "uploading"
       /\ IF req[w].uploaded < req[w].total THEN Finish(w) ELSE Goto(w, "lock")

ReadTask(w) ==
    /\ At(w, "progress")
    /\ IF HasTask(req[w].task)
       THEN req' = [req EXCEPT ![w].pc = "write",
                               ![w].expires = db.uploadTasks[req[w].task].expiresAt]
       ELSE AfterProgress(w)
    /\ UNCHANGED <<stored, cache, shared>>

(* The whole row, expires_at as it was read.                               *)
WriteTask(w) ==
    /\ At(w, "write")
    /\ IF HasTask(req[w].task)
       THEN PutTask(req[w].task, [status    |-> req[w].status,
                                  uploaded  |-> req[w].uploaded,
                                  expiresAt |-> req[w].expires])
       ELSE UNCHANGED db
    /\ AfterProgress(w)
    /\ UNCHANGED <<disk, temp, used, cache, shared>>

-----------------------------------------------------------------------------
(***************************************************************************)
(* mergeAndSave, under the merge lock of the task.                         *)
(***************************************************************************)
(* Mutant: a failed merge is recorded as a success.                        *)
MergeFailedQuietly(w) == req' = [req EXCEPT ![w].pc = "progress", ![w].status = "completed"]

MergeFailed(w) == req' = [req EXCEPT ![w].pc = "progress", ![w].status = "failed"]

(* The loop over the chunks begins; with no chunk to copy it is over.      *)
StartMerge(w, f) ==
    req' = [req EXCEPT ![w].pc = IF req[w].total = 0 THEN "remove temp" ELSE "merge",
                       ![w].file = f, ![w].merged = 0]

(* Mutant: the lock is taken although it is held.                          *)
LockMergeAlways(w) ==
    /\ At(w, "lock")
    /\ LET f == NextKey("file") IN
        /\ mergeLocks' = mergeLocks \cup {req[w].task}
        /\ Draw("file")
        /\ disk' = Put(disk, f, "Whole")
        /\ StartMerge(w, f)
    /\ UNCHANGED <<db, temp, cache, failures>>

(* Mutant: the destination is not created before the first copy.           *)
LockMergeNoFile(w) ==
    /\ At(w, "lock")
    /\ IF req[w].task \in mergeLocks
       THEN Finish(w) /\ UNCHANGED <<used, mergeLocks>>
       ELSE /\ mergeLocks' = mergeLocks \cup {req[w].task}
            /\ Draw("file")
            /\ StartMerge(w, NextKey("file"))
    /\ UNCHANGED <<db, disk, temp, cache, failures>>

(* LoadOrStore; the one who stored creates the destination, which is whole *)
(* as long as every chunk copied into it was, and empty when there is none.*)
LockMerge(w) ==
    /\ At(w, "lock")
    /\ IF req[w].task \in mergeLocks
       THEN Finish(w) /\ UNCHANGED <<disk, used, mergeLocks>>
       ELSE LET f == NextKey("file") IN
            /\ mergeLocks' = mergeLocks \cup {req[w].task}
            /\ Draw("file")
            /\ disk' = Put(disk, f, "Whole")
            /\ StartMerge(w, f)
    /\ UNCHANGED <<db, temp, cache, failures>>

(* Mutant: the loop runs one chunk too far.                                *)
MergeChunkTooFar(w) ==
    /\ At(w, "merge")
    /\ LET t == req[w].task  i == req[w].merged  f == req[w].file IN
       IF HasPart(t, i) \/ i = req[w].total
       THEN /\ disk' = IF HasPart(t, i) /\ temp[t][i] # "Whole" THEN Put(disk, f, "Half") ELSE disk
            /\ req' = [req EXCEPT ![w].pc = IF i + 1 > req[w].total THEN "remove temp" ELSE "merge",
                                  ![w].merged = i + 1]
       ELSE MergeFailed(w) /\ UNCHANGED disk
    /\ UNCHANGED <<db, temp, used, cache, shared>>

(* One round of the loop: what has been written of the chunk is copied.    *)
MergeChunk(w) ==
    /\ At(w, "merge")
    /\ LET t == req[w].task  i == req[w].merged  f == req[w].file IN
       IF HasPart(t, i)
       THEN /\ disk' = IF temp[t][i] = "Whole" THEN disk ELSE Put(disk, f, "Half")
            /\ req' = [req EXCEPT ![w].pc = IF i + 1 = req[w].total THEN "remove temp" ELSE "merge",
                                  ![w].merged = i + 1]
       ELSE MergeFailed(w) /\ UNCHANGED disk
    /\ UNCHANGED <<db, temp, used, cache, shared>>

(* Mutant: the file is linked before it is in the catalogue.               *)
RemoveTempDirLink(w) ==
    /\ At(w, "remove temp")
    /\ RemoveTemp(req[w].task)
    /\ IF req[w].part = Single THEN Finish(w) ELSE Goto(w, "link")
    /\ UNCHANGED <<db, disk, used, cache, shared>>

(* os.RemoveAll(tempDir): after the merge, or last of all, deferred, when  *)
(* the file came in one piece.                                             *)
RemoveTempDir(w) ==
    /\ At(w, "remove temp")
    /\ RemoveTemp(req[w].task)
    /\ IF req[w].part = Single THEN Finish(w) ELSE Goto(w, "info")
    /\ UNCHANGED <<db, disk, used, cache, shared>>

InsertFileInfo(w) ==
    /\ At(w, "info")
    /\ CreateFileInfo(req[w].file, req[w].content)
    /\ Goto(w, "link")
    /\ UNCHANGED <<disk, temp, used, cache, shared>>

InsertUserFile(w) ==
    /\ At(w, "link")
    /\ LET l == NextKey("userFile") IN
        /\ Draw("userFile")
        /\ CreateUserFile(l, req[w].user, req[w].file, req[w].dir)
        /\ req' = IF req[w].part = Single
                  THEN [req EXCEPT ![w].pc = "clean", ![w].userFile = l]
                  ELSE [req EXCEPT ![w].pc = "progress", ![w].userFile = l,
                                   ![w].status = "completed", ![w].uploaded = req[w].total]
    /\ UNCHANGED <<disk, temp, cache, shared>>

CleanPrecheckCache(w) ==
    /\ At(w, "clean")
    /\ CacheDelete(req[w].task)
    /\ Goto(w, IF req[w].part = Single THEN "remove temp" ELSE "unlock")
    /\ UNCHANGED <<stored, shared>>

UnlockMerge(w) ==
    /\ At(w, "unlock")
    /\ mergeLocks' = mergeLocks \ {req[w].task}
    /\ Finish(w)
    /\ UNCHANGED <<stored, cache, failures>>

(* handleSingleFile moves what is at upload.tmp, whoever is writing it.    *)
RenameUpload(w) ==
    /\ At(w, "rename")
    /\ LET t == req[w].task  f == NextKey("file") IN
       IF HasPart(t, Single)
       THEN /\ Draw("file")
            /\ disk' = Put(disk, f, temp[t][Single])
            /\ temp' = [temp EXCEPT ![t] = Drop(@, {Single})]
            /\ req' = [req EXCEPT ![w].pc = "info", ![w].file = f]
       ELSE Finish(w) /\ UNCHANGED <<disk, temp, used>>
    /\ UNCHANGED <<db, cache, shared>>

-----------------------------------------------------------------------------
(***************************************************************************)
(* Upload tasks: renewed and deleted by clients, and deleted by a round of *)
(* UploadCleanup once they have expired.                                   *)
(***************************************************************************)
RenewUploadTask(w) ==
    /\ Starts(w, "tasks")
    /\ \E t \in DOMAIN db.uploadTasks :
        /\ Expired(db.uploadTasks[t])
        /\ req' = [req EXCEPT ![w].pc = "renew", ![w].task = t,
                              ![w].status = db.uploadTasks[t].status,
                              ![w].uploaded = db.uploadTasks[t].uploaded,
                              ![w].expires = clock + TaskTTL]
    /\ UNCHANGED <<stored, cache, shared>>

RenewWriteTask(w) ==
    /\ At(w, "renew")
    /\ IF HasTask(req[w].task)
       THEN PutTask(req[w].task, [status    |-> req[w].status,
                                  uploaded  |-> req[w].uploaded,
                                  expiresAt |-> req[w].expires])
       ELSE UNCHANGED db
    /\ Finish(w)
    /\ UNCHANGED <<disk, temp, used, cache, shared>>

DeleteUploadTask(w) ==
    /\ Starts(w, "tasks")
    /\ \E t \in DOMAIN db.uploadTasks :
        req' = [req EXCEPT ![w].pc = "delete task", ![w].task = t]
    /\ UNCHANGED <<stored, cache, shared>>

DropTask(w) ==
    /\ At(w, "delete task")
    /\ DeleteTasks({req[w].task})
    /\ Finish(w)
    /\ UNCHANGED <<disk, temp, used, cache, shared>>

(* Mutant: the expiry is compared the wrong way round.                     *)
DeleteExpiredTasksEarly ==
    /\ \E t \in DOMAIN db.uploadTasks : TRUE
    /\ DeleteTasks({t \in DOMAIN db.uploadTasks :
                        /\ db.uploadTasks[t].status \in {"pending", "uploading"}
                        /\ ~Expired(db.uploadTasks[t])})
    /\ UNCHANGED <<disk, temp, used, cache, req, shared>>

(* DeleteExpired, one statement.                                           *)
DeleteExpiredTasks ==
    /\ \E t \in DOMAIN db.uploadTasks : TRUE
    /\ DeleteTasks({t \in DOMAIN db.uploadTasks :
                        /\ db.uploadTasks[t].status \in {"pending", "uploading"}
                        /\ Expired(db.uploadTasks[t])})
    /\ UNCHANGED <<disk, temp, used, cache, req, shared>>

-----------------------------------------------------------------------------
(***************************************************************************)
(* Folders and MoveFile.  Their names are left out: a name in use refuses  *)
(* the request.                                                            *)
(***************************************************************************)
MakeDir(w) ==
    /\ Starts(w, "dirs")
    /\ \E u \in Users, p \in {NULL} \cup DOMAIN db.virtualPaths :
        req' = [req EXCEPT ![w].pc = "make dir", ![w].user = u, ![w].dir = p]
    /\ UNCHANGED <<stored, cache, shared>>

InsertDir(w) ==
    /\ At(w, "make dir")
    /\ Draw("dir")
    /\ CreateDir(NextKey("dir"), req[w].user, req[w].dir)
    /\ Finish(w)
    /\ UNCHANGED <<disk, temp, cache, shared>>

(* The folder and all below it: the least set closed under ListSubFolders. *)
CollectDirs(u, d) ==
    {e \in DOMAIN db.virtualPaths :
        \A S \in SUBSET DOMAIN db.virtualPaths :
            d \in S /\ (\A p \in S : SubFolders(u, p) \subseteq S) => e \in S}

(* Refused is the folder GetRoot returns, which may be any one without a   *)
(* parent.                                                                 *)
DeleteDir(w) ==
    /\ Starts(w, "dirs")
    /\ \E d \in DOMAIN db.virtualPaths :
        LET u == db.virtualPaths[d].user IN
        /\ Roots(u) # {d}
        /\ req' = [req EXCEPT ![w].pc = "delete dirs", ![w].doomed = CollectDirs(u, d)]
    /\ UNCHANGED <<stored, cache, shared>>

NextDir(w, d) ==
    IF req[w].doomed = {d} THEN Finish(w) ELSE req' = [req EXCEPT ![w].doomed = @ \ {d}]

(* A folder goes before those in it.                                       *)
DropDir(w) ==
    /\ At(w, "delete dirs")
    /\ \E d \in req[w].doomed :
        /\ HasDir(d) => db.virtualPaths[d].parent \notin req[w].doomed
        /\ DeleteDirRow(d)
        /\ NextDir(w, d)
    /\ UNCHANGED <<disk, temp, used, cache, shared>>

(* The target is not looked at.  The row's own check on update is all that *)
(* its earlier read amounts to.                                            *)
MoveFile(w) ==
    /\ Starts(w, "move")
    /\ \E l \in DOMAIN db.userFiles, d \in Dirs : MoveUserFile(l, d)
    /\ UNCHANGED <<disk, temp, used, cache, req, shared>>

-----------------------------------------------------------------------------
(***************************************************************************)
(* A call that fails, or whose answer is lost before it did anything.      *)
(***************************************************************************)
UploadFails(w) ==
    \/ /\ req[w].pc \in {"candidate", "instant", "rollback"}
       /\ Goto(w, "task")
    \/ /\ At(w, "deduct")
       /\ Goto(w, "rollback")
    \/ /\ req[w].pc \in {"task", "mkdir", "open", "rename", "renew", "delete task", "make dir"}
       /\ Finish(w)
    \/ /\ req[w].pc \in {"progress", "write"}
       /\ AfterProgress(w)
    \/ /\ req[w].pc \in {"merge", "info", "link"}
       /\ IF req[w].part = Single THEN Goto(w, "remove temp") ELSE MergeFailed(w)
    \/ /\ At(w, "remove temp")
       /\ IF req[w].part = Single THEN Finish(w) ELSE Goto(w, "info")
    \/ /\ At(w, "delete dirs")
       /\ \E d \in req[w].doomed : NextDir(w, d)

(* The disk is full.                                                       *)
SaveFails(w) ==
    /\ At(w, "copy")
    /\ EndWriting(w, "Half")
    /\ Finish(w)
    /\ UNCHANGED <<db, used, cache, mergeLocks>>
=============================================================================
