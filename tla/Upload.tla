------------------------------- MODULE Upload -------------------------------
(***************************************************************************)
(* internal/upload/service/upload.go: CreateWithFolders, GetUploadURL and  *)
(* CompleteFile.                                                           *)
(***************************************************************************)
EXTENDS Service

CONSTANTS
    Types,              \* the types of entry clients create
    Sizes,              \* the size a client declares, -1 for a negative one
    PartLists,          \* the part numbers it lists, 0 for one that is not positive
    SinglePutMaxSize    \* the largest file a single PUT takes

ASSUME UploadAssumption ==
    /\ Types \subseteq {"file", "folder"}
    /\ Sizes \subseteq Nat \cup {-1}
    /\ PartLists \subseteq SUBSET (0..MaxPart)
    /\ SinglePutMaxSize \in Nat \ {0}

(* shouldUseSinglePutUpload, for a size that is not negative.              *)
ShouldUseSinglePut(size, numbers) ==
    Cardinality(numbers) <= 1 /\ size <= SinglePutMaxSize

(* normalizeChunkSize > 0, when the client gives no chunk size.            *)
NormalizeChunkSize(size) == size > 0

(* isSinglePutUploadSession: how the handlers tell the two kinds apart.    *)
IsSinglePut(u) == sessions[u].partCount <= 1 /\ ~sessions[u].chunked

-----------------------------------------------------------------------------
(***************************************************************************)
(* CreateWithFolders.  The name is resolved, and what was in its way is    *)
(* deleted, before the rest of the request is looked at.                   *)
(***************************************************************************)
(* Bound: a request starts only while an identifier is left for it.        *)
IdLeft ==
    Cardinality({v \in Workers : req[v].op = "create" /\ req[v].file = NULL})
        < Cardinality(FileIDs \ minted)

CreateWithFolders(w) ==
    /\ "create" \in Ops
    /\ req[w].pc = "idle"
    /\ IdLeft
    /\ \E p \in FileIDs \cup {Root}, b \in Names :
        /\ EnsureFolderExists(p)
        /\ req' = [req EXCEPT ![w].op = "create", ![w].pc = "lookup", ![w].parent = p,
                              ![w].name = [base |-> b, tags |-> << >>]]
    /\ UNCHANGED <<tables, bucket, Local>>

CreateFolderEntry(w) ==
    /\ "folder" \in Types
    /\ At(w, "create", "apply")
    /\ \E f \in FileIDs \ minted :
        /\ minted' = minted \cup {f}
        /\ IF Conflict(f, req[w].parent, Target(w))
           THEN UNCHANGED tables
           ELSE CreateFolder(f, req[w].parent, Target(w))
    /\ Finish(w)
    /\ UNCHANGED <<bucket, deletions, postings>>

(* The checks of size and part numbers, then CreateMultipartUpload unless  *)
(* a single PUT will do.                                                   *)
PrepareUpload(w) ==
    /\ "file" \in Types
    /\ At(w, "create", "apply")
    /\ \E size \in Sizes, list \in PartLists :
        LET numbers == IF list = {} THEN {1} ELSE list IN
        IF size < 0 \/ 0 \in list
        THEN Finish(w) /\ UNCHANGED <<bucket, minted>>
        ELSE \E f \in FileIDs \ minted :
            /\ minted' = minted \cup {f}
            /\ IF ShouldUseSinglePut(size, numbers)
               THEN /\ req' = [req EXCEPT ![w].pc = "persist", ![w].file = f]
                    /\ UNCHANGED bucket
               ELSE /\ req' = [req EXCEPT ![w].pc = "persist", ![w].file = f,
                                          ![w].numbers = numbers,
                                          ![w].chunked = NormalizeChunkSize(size)]
                    /\ CreateMultipartUpload(f)
    /\ UNCHANGED <<tables, deletions, postings>>

(* One transaction, then the presigned URLs.  On a conflict, or when the   *)
(* commit reports an error although it took effect, the multipart upload   *)
(* is aborted.                                                             *)
GiveUpUpload(w) == IF req[w].numbers = {} THEN Finish(w) ELSE Goto(w, "abort")

PersistUpload(w) ==
    /\ At(w, "create", "persist")
    /\ LET f == req[w].file
           numbers == req[w].numbers
           insert == CreateFileWithUpload(f, req[w].parent, Target(w),
                        IF numbers = {} THEN {1} ELSE numbers, req[w].chunked)
       IN
       \/ /\ Conflict(f, req[w].parent, Target(w))
          /\ GiveUpUpload(w)
          /\ UNCHANGED <<tables, bucket>>
       \/ /\ ~Conflict(f, req[w].parent, Target(w))
          /\ insert
          /\ Finish(w)
          /\ IF numbers = {} THEN PresignPutObject(f) ELSE PresignUploadPart(f, numbers)
       \/ /\ Faults
          /\ ~Conflict(f, req[w].parent, Target(w))
          /\ insert
          /\ GiveUpUpload(w)
          /\ UNCHANGED bucket
    /\ UNCHANGED Local

AbortUpload(w) ==
    /\ At(w, "create", "abort")
    /\ AbortMultipartUpload(req[w].file)
    /\ Finish(w)
    /\ UNCHANGED <<tables, Local>>

-----------------------------------------------------------------------------
(***************************************************************************)
(* GetUploadURL, of a file whose upload_id the request gives.              *)
(***************************************************************************)
GetUploadURL(w) ==
    /\ "url" \in Ops
    /\ req[w].pc = "idle"
    /\ \E f \in FileIDs :
        /\ IsFile(f)
        /\ req' = [req EXCEPT ![w].op = "url", ![w].pc = "session", ![w].file = f]
    /\ UNCHANGED <<tables, bucket, Local>>

UrlReadSession(w) ==
    /\ At(w, "url", "session")
    /\ LET u == req[w].file IN
       \E list \in PartLists :
        IF ~HasSession(u) \/ 0 \in list \/ list = {} \/ (IsSinglePut(u) /\ list # {1})
        THEN Finish(w) /\ UNCHANGED bucket
        ELSE IF IsSinglePut(u)
        THEN Finish(w) /\ PresignPutObject(u)
        ELSE /\ req' = [req EXCEPT ![w].pc = "rows", ![w].numbers = list]
             /\ UNCHANGED bucket
    /\ UNCHANGED <<tables, Local>>

UrlEnsureParts(w) ==
    /\ At(w, "url", "rows")
    /\ EnsurePartRows(req[w].file, req[w].numbers)
    /\ Goto(w, "raise")
    /\ UNCHANGED <<bucket, Local>>

UrlRaisePartCount(w) ==
    /\ At(w, "url", "raise")
    /\ \E top \in req[w].numbers :
        /\ \A i \in req[w].numbers : i <= top
        /\ RaisePartCount(req[w].file, top)
    /\ PresignUploadPart(req[w].file, req[w].numbers)
    /\ Finish(w)
    /\ UNCHANGED Local

-----------------------------------------------------------------------------
(***************************************************************************)
(* CompleteFile.  The session is read first; the number of parts it says   *)
(* then is the number the object is made of.                               *)
(***************************************************************************)
CompleteFile(w) ==
    /\ "complete" \in Ops
    /\ req[w].pc = "idle"
    /\ \E u \in FileIDs :
        /\ HasSession(u)
        /\ req' = [req EXCEPT ![w].op = "complete", ![w].pc = "entry", ![w].file = u,
                        ![w].numbers = IF IsSinglePut(u) THEN {} ELSE 1..sessions[u].partCount]
    /\ UNCHANGED <<tables, bucket, Local>>

CompleteReadEntry(w) ==
    /\ At(w, "complete", "entry")
    /\ \E f \in FileIDs :
        IF IsFile(f) /\ f = req[w].file
        THEN req' = [req EXCEPT ![w].pc = IF req[w].numbers = {} THEN "publish" ELSE "list",
                                ![w].hash = entries[f].hash]
        ELSE Finish(w)
    /\ UNCHANGED <<tables, bucket, Local>>

(* collectCompletedPartsFromStorage: part 1 up to the part count, no gap.  *)
AllPartsUploaded(u, numbers) == IsOpen(u) /\ numbers \subseteq multiparts[u]

(* Mutant: the parts the storage lists, when there are enough of them.     *)
CollectCompletedPartsAny(w) ==
    /\ At(w, "complete", "list")
    /\ LET u == req[w].file IN
       IF IsOpen(u) /\ Cardinality(multiparts[u]) >= Cardinality(req[w].numbers)
       THEN req' = [req EXCEPT ![w].pc = "combine", ![w].numbers = multiparts[u]]
       ELSE Finish(w)
    /\ UNCHANGED <<tables, bucket, Local>>

CollectCompletedParts(w) ==
    /\ At(w, "complete", "list")
    /\ IF AllPartsUploaded(req[w].file, req[w].numbers)
       THEN Goto(w, "combine")
       ELSE Finish(w)
    /\ UNCHANGED <<tables, bucket, Local>>

CombineParts(w) ==
    /\ At(w, "complete", "combine")
    /\ IF IsOpen(req[w].file)
       THEN /\ CompleteMultipartUpload(req[w].file, req[w].numbers)
            /\ Goto(w, "publish")
       ELSE Finish(w) /\ UNCHANGED bucket
    /\ UNCHANGED <<tables, Local>>

(* A session that is gone by now is tolerated.                             *)
PublishFile(w) ==
    /\ At(w, "complete", "publish")
    /\ SetUploadSessionStatus(req[w].file, "completed")
    /\ SchedulePostComplete(req[w].file,
            IF req[w].numbers = {} THEN {1} ELSE req[w].numbers, req[w].hash)
    /\ Finish(w)
    /\ UNCHANGED <<bucket, minted, deletions>>

-----------------------------------------------------------------------------
UploadNext(w) ==
    \/ CreateWithFolders(w)
    \/ CreateFolderEntry(w)
    \/ PrepareUpload(w)
    \/ PersistUpload(w)
    \/ AbortUpload(w)
    \/ GetUploadURL(w)
    \/ UrlReadSession(w)
    \/ UrlEnsureParts(w)
    \/ UrlRaisePartCount(w)
    \/ CompleteFile(w)
    \/ CompleteReadEntry(w)
    \/ CollectCompletedParts(w)
    \/ CombineParts(w)
    \/ PublishFile(w)
=============================================================================
