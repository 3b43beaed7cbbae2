-------------------------------- MODULE Drive --------------------------------
(***************************************************************************)
(* One drive of the upload service: its handlers, its goroutines and the   *)
(* clients that use the presigned URLs, over the same tables and bucket.   *)
(***************************************************************************)
EXTENDS Upload, Manage, Recycle

Shared(w) ==
    \/ LookupName(w)
    \/ CleanupStaleUploadEntry(w)
    \/ SelectTree(w)
    \/ PurgeTree(w)

Client ==
    /\ \E f \in FileIDs :
        \/ \E c \in Blobs : ClientPutObject(f, c)
        \/ \E n \in PartNo : ClientUploadPart(f, n)
    /\ UNCHANGED <<tables, req, minted, deletions, postings>>

PostComplete(p) ==
    \/ PostCompleteMarkPart(p)
    \/ PostCompleteHash(p)
    \/ PostCompleteUpdate(p)

Next ==
    \/ \E w \in Workers :
        \/ Shared(w)
        \/ UploadNext(w)
        \/ ManageNext(w)
        \/ RecycleNext(w)
        \/ CallFails(w)
    \/ \E f \in FileIDs : BackgroundDelete(f)
    \/ \E p \in postings : PostComplete(p)
    \/ Client
    \/ Crash

Init == ServiceInit

Spec == Init /\ [][Next]_vars

(* A request that has begun goes on, and so do the goroutines: the Go      *)
(* scheduler runs each, and every call has a deadline.  Nothing obliges a  *)
(* client to send another request or to upload anything.                   *)
Proceed(w) ==
    /\ req[w].pc # "idle"
    /\ Shared(w) \/ UploadNext(w) \/ ManageNext(w) \/ RecycleNext(w)

FairSpec ==
    /\ Spec
    /\ \A w \in Workers : WF_vars(Proceed(w))
    /\ \A f \in FileIDs :
        /\ WF_vars(BackgroundDelete(f))
        /\ WF_vars(\E p \in postings : p.file = f /\ PostComplete(p))

-----------------------------------------------------------------------------
(***************************************************************************)
(* Invariants.                                                             *)
(***************************************************************************)
TypeOK == ServiceTypeOK

(* A multipart upload whose session says completed (isVisibleEntry shows   *)
(* the file then) has its object in the bucket: CompleteFile publishes     *)
(* after CompleteMultipartUpload, and no goroutine of                      *)
(* scheduleObjectDeletion, started by any other request, removes the       *)
(* object while the session is there.                                      *)
ObjectBehindFile ==
    \A u \in DOMAIN sessions :
        Completed(u) /\ ~IsSinglePut(u) => u \in DOMAIN objects

(* A key handed to scheduleObjectDeletion belongs to a file that has lost  *)
(* its session, so no listing shows it and no CompleteFile can publish it. *)
DeletionsAreDead == \A f \in deletions : ~HasSession(f)

(* The object of a published multipart upload is made of part 1 up to some *)
(* part without a gap, and of no more parts than the session counts, also  *)
(* when GetUploadURL raises the count while CompleteFile runs.             *)
NoGapInObject ==
    \A u \in DOMAIN sessions :
        Completed(u) /\ ~IsSinglePut(u) =>
            \E k \in 1..sessions[u].partCount : objects[u] = 1..k

(* An entry of a file and its upload session come and go together.         *)
FileHasSession == \A f \in FileIDs : IsFile(f) <=> HasSession(f)

(* No folder is its own descendant: MoveFolder's check.  DeleteEntryTree   *)
(* and GetSubtreeStats do not end on one that is.                          *)
Acyclic == \A f \in DOMAIN entries : ~Looping(f)

(* Every entry lies in the root, in the bin or in a folder that exists.    *)
NoOrphan ==
    \A f \in DOMAIN entries : entries[f].parent \in {Root, Bin} \/ IsFolder(entries[f].parent)

-----------------------------------------------------------------------------
(***************************************************************************)
(* Action properties.                                                      *)
(***************************************************************************)
Purging(w, ops, why) == req[w].pc = "purge" /\ req[w].op \in ops /\ req[w].why \in why

(* A completed file disappears only at the wish of a client: by DeleteFile *)
(* or RecycleBinClear, or with check_name_mode overwrite.  The cleanup of  *)
(* stale uploads never takes one.                                          *)
CompletedFileIsKept ==
    [][\A f \in FileIDs :
        IsFile(f) /\ Completed(f) /\ f \notin DOMAIN entries' =>
            \E w \in Workers :
                \/ Purging(w, {"delete", "clear"}, {NULL})
                \/ Purging(w, Operations, {"overwrite"})]_vars

(* DeleteFile and RecycleBinClear destroy what is in the recycle bin, or   *)
(* below a folder in it, when they destroy it.                             *)
OnlyBinnedIsDestroyed ==
    [][\A w \in Workers, f \in DOMAIN entries :
        Purging(w, {"delete", "clear"}, {NULL}) /\ req'[w] # req[w] /\ f \notin DOMAIN entries'
            => f \in Below(Bin)]_vars

(* One request at a time, the folders become a loop only below the recycle *)
(* bin: MoveFolder's check misses folders that lie in it, or below one     *)
(* that does, and no others, and RecycleBinRestore puts a folder below one *)
(* of its own only if that was moved there while both were in the bin.     *)
LoopsComeFromTheBin ==
    [][Acyclic => \A f \in FileIDs : Looping(f)' => f \in Below(Bin)]_vars

(* As long as no call fails, the object of every file that goes is handed  *)
(* to scheduleObjectDeletion, also that of a file deep in the tree that is *)
(* deleted.                                                                *)
DeletionIsScheduled ==
    [][\A f \in FileIDs : IsFile(f) /\ f \notin DOMAIN entries' => f \in deletions']_vars

-----------------------------------------------------------------------------
(***************************************************************************)
(* Liveness, under FairSpec and without faults.                            *)
(***************************************************************************)

(* Every request is answered: name resolution stops trying candidates, and *)
(* RecycleBinClear empties its list.                                       *)
RequestsEnd == \A w \in Workers : req[w].pc # "idle" ~> req[w].pc = "idle"

(* A published multipart file gets its content hash, unless it is deleted. *)
HashIsRecorded ==
    \A f \in FileIDs :
        (IsFile(f) /\ Completed(f) /\ ~IsSinglePut(f)) ~> (Exists(f) => entries[f].hash # NULL)

(* The object of a file that was deleted, by whatever operation, leaves    *)
(* the bucket: what DeleteEntryTree selected reaches scheduleObjectDeletion *)
(* on every path.                                                          *)
DeletedObjectGoes ==
    \A f \in FileIDs : f \in DOMAIN objects /\ ~Exists(f) ~> f \notin DOMAIN objects

-----------------------------------------------------------------------------
(***************************************************************************)
(* The drive implements Library.                                           *)
(***************************************************************************)
Reserved == {req[w].file : w \in {v \in Workers : At(v, "create", "persist")}}

LifeOf(f) ==
    CASE f \notin minted -> "fresh"
      [] Exists(f)       -> "filed"
      [] f \in Reserved /\ ~Exists(f) -> "reserved"
      [] OTHER           -> "gone"

PlaceOf(e) == <<e.parent, e.name>>

Lib == INSTANCE Library WITH
    IDs       <- FileIDs,
    Places    <- Folder \X Name,
    InitPlace <- [f \in DOMAIN Seed |-> PlaceOf(Seed[f])],
    life      <- [f \in FileIDs |-> LifeOf(f)],
    place     <- [f \in DOMAIN entries |-> PlaceOf(entries[f])],
    visible   <- {f \in DOMAIN entries : IsFolder(f) \/ Completed(f)}

(* Every step of the drive is a step of Library or none of its own.        *)
ImplementsLibrary == Lib!Spec
=============================================================================
