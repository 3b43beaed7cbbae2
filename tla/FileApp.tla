------------------------------- MODULE FileApp -------------------------------
(***************************************************************************)
(* The file application: uploads, the recycle bin and the background jobs  *)
(* over the same tables, files and cache, and what must hold of them       *)
(* together.                                                               *)
(***************************************************************************)
EXTENDS FileUpload, RecycledFiles

Init == StoreInit /\ CacheInit /\ RequestsInit

Uploading(w) ==
    \/ Precheck(w) \/ FindCandidate(w) \/ InstantLink(w) \/ InstantDeduct(w)
    \/ InstantRollback(w) \/ CreateTask(w) \/ CachePrecheck(w)
    \/ UploadChunk(w) \/ UploadChunkLate(w) \/ EvictPrecheck(w)
    \/ MakeTempDir(w) \/ SaveOpen(w) \/ SaveCopy(w) \/ CountChunks(w)
    \/ ReadTask(w) \/ WriteTask(w)
    \/ LockMerge(w) \/ MergeChunk(w) \/ RemoveTempDir(w) \/ InsertFileInfo(w)
    \/ InsertUserFile(w) \/ CleanPrecheckCache(w) \/ UnlockMerge(w) \/ RenameUpload(w)

Managing(w) ==
    \/ RenewUploadTask(w) \/ RenewWriteTask(w) \/ DeleteUploadTask(w) \/ DropTask(w)
    \/ MakeDir(w) \/ InsertDir(w) \/ DeleteDir(w) \/ DropDir(w) \/ MoveFile(w)

Recycling(w) ==
    \/ MoveToRecycled(w) \/ InsertRecycled(w)
    \/ Restore(w) \/ RestoreReadFile(w) \/ RestoreReadDir(w) \/ RestoreApply(w)
    \/ DeletePermanently(w) \/ EmptyBin(w) \/ CleanExpired(w)
    \/ PurgeReadFile(w) \/ PurgeCountRefs(w) \/ PurgeReadInfo(w) \/ PurgeUnlink(w)
    \/ PurgeReadQuota(w) \/ PurgeWriteQuota(w) \/ PurgeDropInfo(w) \/ PurgeHardDelete(w)
    \/ DropRecord(w)

Failure == failures < MaxFailures /\ failures' = failures + 1

CallFails(w) ==
    \/ Failure /\ UploadFails(w) /\ UNCHANGED <<stored, cache, mergeLocks>>
    \/ Failure /\ RecycledFails(w) /\ UNCHANGED <<stored, cache, mergeLocks>>
    \/ Failure /\ SaveFails(w)

(* The process ends: requests, locks and the cache are gone, files that    *)
(* were being written stay as they are.                                    *)
Crash ==
    /\ Failure
    /\ items # Empty \/ \E w \in Workers : ~At(w, "idle")
    /\ LET Left(d) == IF d \in Workers THEN "Half" ELSE d IN
        /\ temp' = [t \in DOMAIN temp |-> [p \in DOMAIN temp[t] |-> Left(temp[t][p])]]
        /\ disk' = [f \in DOMAIN disk |-> Left(disk[f])]
    /\ items' = Empty
    /\ req' = [w \in Workers |-> Idle]
    /\ mergeLocks' = {}
    /\ UNCHANGED <<db, used, clock>>

(* Half a day passes, but not while a Precheck stands between its last two *)
(* statements.                                                             *)
Ticking ==
    \/ TimePasses /\ (\A w \in Workers : ~At(w, "cache")) /\ UNCHANGED <<stored, req, shared>>
    \/ DeleteExpired /\ UNCHANGED <<stored, req, shared>>
    \/ DeleteExpiredTasks

Next ==
    \/ \E w \in Workers : Uploading(w) \/ Managing(w) \/ Recycling(w) \/ CallFails(w)
    \/ Ticking
    \/ Crash

Spec == Init /\ [][Next]_vars

-----------------------------------------------------------------------------
(***************************************************************************)
(* Invariants.                                                             *)
(***************************************************************************)
PrecheckEntry ==
    [value : [content : Contents, dir : Key("dir") \cup {NULL}], expiresAt : Nat]

TablesOK ==
    /\ DOMAIN db = {"fileInfos", "userFiles", "recycled", "uploadTasks", "virtualPaths",
                   "freeSpace"}
    /\ IsTable(db.fileInfos, Key("file"), Contents)
    /\ IsTable(db.userFiles, Key("userFile"), UserFile)
    /\ IsTable(db.uploadTasks, Key("task"), UploadTask)
    /\ IsTable(db.virtualPaths, Key("dir"), VirtualPath)
    /\ db.recycled \subseteq Recycled
    /\ db.freeSpace \in [Users -> Int]

FilesOK ==
    /\ IsTable(disk, Key("file"), Data)
    /\ DOMAIN temp \subseteq Key("task")
    /\ \A t \in DOMAIN temp : IsTable(temp[t], Parts, Data)

CacheOK == IsTable(items, Key("task"), PrecheckEntry) /\ clock \in 0..MaxTime

KeysOK == used \in [Kinds -> Nat] /\ \A k \in Kinds : used[k] <= Limit[k]

(* Types: what a request has read and the keys it was given fit the tables *)
(* it writes them to, and a merge copies no more chunks than its request   *)
(* has stated, whatever the others state.                                  *)
TypeOK ==
    /\ TablesOK /\ FilesOK /\ CacheOK /\ KeysOK
    /\ mergeLocks \subseteq Key("task")
    /\ failures \in 0..MaxFailures
    /\ req \in [Workers -> Request]
    /\ \A w \in Workers : req[w].merged <= req[w].total

(* Worker w is between LoadOrStore and the deferred Delete of handleChunk. *)
Merging(w) ==
    /\ req[w].part # Single
    /\ \/ req[w].pc \in {"merge", "remove temp", "info", "link", "clean", "unlock"}
       \/ req[w].pc \in {"progress", "write"} /\ req[w].status \in {"completed", "failed"}

(* A task is merged by one request at a time, and its lock is held exactly *)
(* while one does: on every path out of the merge the lock goes, and never *)
(* that of another.                                                        *)
MergeLock ==
    /\ \A v, w \in Workers :
        Merging(v) /\ Merging(w) /\ req[v].task = req[w].task => v = w
    /\ mergeLocks = {req[w].task : w \in {v \in Workers : Merging(v)}}

(* When all chunks of an upload have arrived, and its precheck entry is    *)
(* still there, some request is at work on it.  With chunks arriving at    *)
(* the same time, one of them starts the merge, and the one refused the    *)
(* lock leaves the upload to a merge that ends it, even if that one asks   *)
(* for fewer chunks.  (Nobody states more chunks than there are.)          *)
NoStrandedUpload ==
    \A t \in DOMAIN items :
        ChunksOf(t, Chunks) = 0..Chunks - 1 => \E w \in Workers : req[w].task = t

(* A soft-deleted file can be found in the recycle bin: it has a record,   *)
(* or MoveToRecycled is about to write one.  A Restore that removes its    *)
(* record never hides a file that was deleted again meanwhile.             *)
TrashedHasRecord ==
    \A l \in DOMAIN db.userFiles :
        Deleted(l) =>
            \/ \E row \in db.recycled : row.userFile = l
            \/ \E w \in Workers : At(w, "record") /\ req[w].userFile = l

(* Free space never drops below zero, although tryInstantUpload and        *)
(* returnSpace write back what they read before.                           *)
FreeNeverNegative == \A u \in Users : db.freeSpace[u] >= 0

(* Every chunk of a merged file was whole when it was copied: "all chunks  *)
(* have arrived" before the merge starts.                                  *)
MergedIsWhole ==
    \A f \in DOMAIN db.fileInfos : f \in DOMAIN disk => disk[f] = "Whole"

(* A file a user sees has its file_info and its physical file.             *)
ActiveHasContent ==
    \A l \in DOMAIN db.userFiles :
        Active(l) =>
            db.userFiles[l].file \in DOMAIN db.fileInfos /\ db.userFiles[l].file \in DOMAIN disk

-----------------------------------------------------------------------------
(***************************************************************************)
(* Action properties.                                                      *)
(***************************************************************************)
(* A precheck entry goes before its time only because its upload is done   *)
(* or the process ends: neither the cleanup loop nor a reader that finds   *)
(* an entry expired takes a live one.                                      *)
LiveRequestKept ==
    [][\/ Crash
       \/ \A t \in DOMAIN items :
            Live(t) /\ t \notin DOMAIN items' =>
                \E w \in Workers :
                    At(w, "clean") /\ req[w].task = t /\ req[w].userFile # NULL]_vars

(* UploadCleanup never deletes the task of an upload that can still go on, *)
(* whatever expires_at a stale progress write has put back: only a client  *)
(* deletes such a task.                                                    *)
LiveTaskKept ==
    [][\A t \in DOMAIN db.uploadTasks :
        Live(t) /\ t \notin DOMAIN db'.uploadTasks =>
            \E w \in Workers : At(w, "delete task") /\ req[w].task = t]_vars

(* "If the physical file is referenced by other active user files, only    *)
(* the record is deleted": what leaves the disk is what nobody sees.       *)
ReferencedContentStays ==
    [][\A f \in DOMAIN disk : f \notin DOMAIN disk' => ActiveUserFiles(f) = {}]_vars

(* Restore puts a file into a folder that exists, a root if need be.       *)
RestoredIntoDir ==
    [][\A l \in DOMAIN db.userFiles :
        Deleted(l) /\ Active(l)' =>
            db'.userFiles[l].dir = NULL \/ HasDir(db'.userFiles[l].dir)]_vars

(* A task that turns completed has left its user a file with content.      *)
CompletedHasFile ==
    [][\A t \in DOMAIN db.uploadTasks \cap DOMAIN db'.uploadTasks :
        db.uploadTasks[t].status # "completed" /\ db'.uploadTasks[t].status = "completed" =>
            \E w \in Workers, l \in DOMAIN db.userFiles :
                /\ req[w].task = t /\ req[w].userFile = l
                /\ Active(l)
                /\ db.userFiles[l].file \in DOMAIN db.fileInfos \cap DOMAIN disk]_vars

(* A file a user sees is not destroyed: only what is in the recycle bin is *)
(* deleted for good.                                                       *)
ActiveIsKept == [][\A l \in DOMAIN db.userFiles : Active(l) => l \in DOMAIN db'.userFiles]_vars

-----------------------------------------------------------------------------
(***************************************************************************)
(* The file application implements Shelf.                                  *)
(***************************************************************************)
TheShelf == INSTANCE Shelf WITH
    Files     <- Key("file"),
    Links     <- Key("userFile"),
    Labels    <- Contents,
    files     <- Known("file"),
    kept      <- DOMAIN disk,
    catalogue <- db.fileInfos,
    links     <- Known("userFile"),
    target    <- [l \in DOMAIN db.userFiles |-> db.userFiles[l].file],
    shown     <- {l \in DOMAIN db.userFiles : Active(l)}

(* Whatever requests and jobs run at the same time, fail and crash: each   *)
(* step is a step of Shelf or none of its own.  No stale read brings back  *)
(* a row that was deleted or a file that was removed, or gives a user file *)
(* other content than it was made for.                                     *)
ImplementsShelf == TheShelf!Spec

(* The same for the careful one: what is linked is in file_info, and what  *)
(* is unlinked nobody sees.                                                *)
ImplementsCarefulShelf == TheShelf!CarefulSpec
=============================================================================
