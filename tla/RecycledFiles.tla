----------------------------- MODULE RecycledFiles -----------------------------
(***************************************************************************)
(* internal/application/recycled/usecase.go, with the DeleteFiles of the   *)
(* file use case that calls it and the RecycledCleanup of internal/task.   *)
(***************************************************************************)
EXTENDS FileRequests

-----------------------------------------------------------------------------
(***************************************************************************)
(* MoveToRecycled.  The reads before it find the row whether it is deleted *)
(* or not, so they amount to the row's being there.                        *)
(***************************************************************************)
MoveToRecycled(w) ==
    /\ Starts(w, "trash")
    /\ \E l \in DOMAIN db.userFiles :
        /\ SoftDelete(l)
        /\ req' = [req EXCEPT ![w].pc = "record", ![w].userFile = l,
                              ![w].user = db.userFiles[l].user]
    /\ UNCHANGED <<disk, temp, used, cache, shared>>

InsertRecycled(w) ==
    /\ At(w, "record")
    /\ Draw("recycled")
    /\ CreateRecycled(NextKey("recycled"), req[w].user, req[w].userFile)
    /\ Finish(w)
    /\ UNCHANGED <<disk, temp, cache, shared>>

-----------------------------------------------------------------------------
(***************************************************************************)
(* Restore.                                                                *)
(***************************************************************************)
Restore(w) ==
    /\ Starts(w, "restore")
    /\ \E row \in db.recycled :
        req' = [req EXCEPT ![w].pc = "restore file", ![w].record = row,
                           ![w].user = row.user, ![w].userFile = row.userFile]
    /\ UNCHANGED <<stored, cache, shared>>

RestoreReadFile(w) ==
    /\ At(w, "restore file")
    /\ IF HasUserFile(req[w].userFile)
       THEN LET d == db.userFiles[req[w].userFile].dir IN
            req' = [req EXCEPT ![w].pc = IF d = NULL THEN "restore" ELSE "restore dir",
                               ![w].dir = d]
       ELSE Finish(w)
    /\ UNCHANGED <<stored, cache, shared>>

(* A root in place of the folder that is missing.                          *)
RestoreToRoot(w) ==
    \/ \E d \in Roots(req[w].user) : req' = [req EXCEPT ![w].pc = "restore", ![w].dir = d]
    \/ Roots(req[w].user) = {} /\ Finish(w)

(* Mutant: a folder that is missing is kept.                               *)
RestoreReadDirKeep(w) ==
    /\ At(w, "restore dir")
    /\ Goto(w, "restore")
    /\ UNCHANGED <<stored, cache, shared>>

RestoreReadDir(w) ==
    /\ At(w, "restore dir")
    /\ IF HasDir(req[w].dir) THEN Goto(w, "restore") ELSE RestoreToRoot(w)
    /\ UNCHANGED <<stored, cache, shared>>

RestoreApply(w) ==
    /\ At(w, "restore")
    /\ IF HasUserFile(req[w].userFile)
       THEN RestoreUserFile(req[w].userFile, req[w].dir) /\ Goto(w, "drop record")
       ELSE UNCHANGED db /\ Finish(w)
    /\ UNCHANGED <<disk, temp, used, cache, shared>>

-----------------------------------------------------------------------------
(***************************************************************************)
(* permanentlyDelete, for one record or for a list that was read at the    *)
(* start.  An error ends the record it happened at, not the list.          *)
(***************************************************************************)
Purges(w, rows) ==
    /\ rows # {}
    /\ req' = [req EXCEPT ![w].pc = "purge", ![w].todo = rows]
    /\ UNCHANGED <<stored, cache, shared>>

DeletePermanently(w) == Starts(w, "purge") /\ \E row \in db.recycled : Purges(w, {row})

EmptyBin(w) ==
    /\ Starts(w, "empty")
    /\ \E u \in Users : Purges(w, {row \in db.recycled : row.user = u})

(* The records that are old enough: the first ones.                        *)
CleanExpired(w) ==
    /\ Starts(w, "clean")
    /\ \E k \in Known("recycled") : Purges(w, {row \in db.recycled : row.id <= k})

NextRecord(w) ==
    IF req[w].todo = {}
    THEN Finish(w)
    ELSE req' = [req EXCEPT ![w] = [Idle EXCEPT !.pc = "purge", !.todo = req[w].todo]]

(* The record of the list that is taken next.                              *)
Take(w, row, pc, f) ==
    req' = [req EXCEPT ![w].pc = pc, ![w].record = row, ![w].user = row.user,
                       ![w].userFile = row.userFile, ![w].file = f, ![w].todo = @ \ {row}]

PurgeReadFile(w) ==
    /\ At(w, "purge")
    /\ \E row \in req[w].todo :
        LET l == row.userFile IN
        IF HasUserFile(l)
        THEN Take(w, row, "refs", db.userFiles[l].file)
        ELSE Take(w, row, "drop record", NULL)
    /\ UNCHANGED <<stored, cache, shared>>

(* Mutant: a single reference is taken for the caller's own.               *)
PurgeCountRefsOffByOne(w) ==
    /\ At(w, "refs")
    /\ Goto(w, IF Cardinality(ActiveUserFiles(req[w].file)) <= 1 THEN "purge info" ELSE "hard delete")
    /\ UNCHANGED <<stored, cache, shared>>

PurgeCountRefs(w) ==
    /\ At(w, "refs")
    /\ Goto(w, IF ActiveUserFiles(req[w].file) = {} THEN "purge info" ELSE "hard delete")
    /\ UNCHANGED <<stored, cache, shared>>

PurgeReadInfo(w) ==
    /\ At(w, "purge info")
    /\ Goto(w, IF req[w].file \in DOMAIN db.fileInfos THEN "unlink" ELSE "hard delete")
    /\ UNCHANGED <<stored, cache, shared>>

(* deletePhysical; an error is logged.                                     *)
PurgeUnlink(w) ==
    /\ At(w, "unlink")
    /\ disk' = Drop(disk, {req[w].file})
    /\ Goto(w, "quota")
    /\ UNCHANGED <<db, temp, used, cache, shared>>

(* returnSpace: the row of the user is read, and written back as read with *)
(* the size added.                                                         *)
PurgeReadQuota(w) ==
    /\ At(w, "quota")
    /\ IF Space > 0
       THEN req' = [req EXCEPT ![w].pc = "return", ![w].free = db.freeSpace[req[w].user]]
       ELSE Goto(w, "drop info")
    /\ UNCHANGED <<stored, cache, shared>>

PurgeWriteQuota(w) ==
    /\ At(w, "return")
    /\ UpdateUser(req[w].user, req[w].free + 1)
    /\ Goto(w, "drop info")
    /\ UNCHANGED <<disk, temp, used, cache, shared>>

PurgeDropInfo(w) ==
    /\ At(w, "drop info")
    /\ IF req[w].file \in DOMAIN db.fileInfos
       THEN DeleteFileInfo(req[w].file) /\ Goto(w, "hard delete")
       ELSE UNCHANGED db /\ NextRecord(w)
    /\ UNCHANGED <<disk, temp, used, cache, shared>>

PurgeHardDelete(w) ==
    /\ At(w, "hard delete")
    /\ IF HasUserFile(req[w].userFile)
       THEN HardDelete(req[w].userFile) /\ Goto(w, "drop record")
       ELSE UNCHANGED db /\ NextRecord(w)
    /\ UNCHANGED <<disk, temp, used, cache, shared>>

(* The end of Restore and of permanentlyDelete.                            *)
DropRecord(w) ==
    /\ At(w, "drop record")
    /\ DeleteRecycled(req[w].record)
    /\ NextRecord(w)
    /\ UNCHANGED <<disk, temp, used, cache, shared>>

-----------------------------------------------------------------------------
(***************************************************************************)
(* A call that fails.                                                      *)
(***************************************************************************)
RecycledFails(w) ==
    \/ /\ req[w].pc \in {"record", "restore file", "restore"}
       /\ Finish(w)
    \/ /\ At(w, "restore dir")
       /\ RestoreToRoot(w)
    \/ /\ At(w, "purge") \* any error counts as a missing row
       /\ \E row \in req[w].todo : Take(w, row, "drop record", NULL)
    \/ /\ req[w].pc \in {"refs", "drop info", "hard delete", "drop record"}
       /\ NextRecord(w)
    \/ /\ At(w, "purge info")
       /\ Goto(w, "hard delete")
    \/ /\ At(w, "unlink")
       /\ Goto(w, "quota")
    \/ /\ req[w].pc \in {"quota", "return"}
       /\ Goto(w, "drop info")
=============================================================================
