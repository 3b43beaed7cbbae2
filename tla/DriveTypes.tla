----------------------------- MODULE DriveTypes ------------------------------
(***************************************************************************)
(* Type correctness of a drive, for every set of identifiers, names and    *)
(* workers, and every number of parts.                                     *)
(***************************************************************************)
EXTENDS Drive, FiniteSetTheorems, SequenceTheorems, TLAPS

-----------------------------------------------------------------------------
(***************************************************************************)
(* TypeOK lets any field be NULL; what makes it inductive is which fields  *)
(* a request has filled in at which step.                                  *)
(***************************************************************************)

(* The fields a request has filled in by the time a step uses them.        *)
Filled(r) ==
    /\ r.op \in {"create", "rename", "trash", "restore"} => r.parent # NULL /\ r.name # NULL
    /\ r.op \in {"moveFile", "moveFolder"} => r.parent # NULL
    /\ r.op \in {"url", "complete"} => r.file # NULL
    /\ r.pc \in {"persist", "abort"} => r.op = "create" /\ r.file # NULL
    /\ r.pc \in {"stale", "select", "purge"} => r.victim # NULL

GoodRequest == {r \in Request : Filled(r)}

RequestsFilled == req \in [Workers -> GoodRequest]

Typed == TypeOK /\ RequestsFilled

-----------------------------------------------------------------------------
(***************************************************************************)
(* Requests.                                                               *)
(***************************************************************************)
LEMMA RequestStep ==
    ASSUME RequestsFilled, NEW w \in Workers, NEW r \in GoodRequest,
           req' = [req EXCEPT ![w] = r]
    PROVE  RequestsFilled' /\ req' \in [Workers -> Request]
BY DEF RequestsFilled, GoodRequest

LEMMA IdleIsGood == Idle \in GoodRequest
BY ServiceAssumption DEF Idle, GoodRequest, Request, Filled, Steps, Operations

LEMMA FinishStep ==
    ASSUME RequestsFilled, NEW w \in Workers, Finish(w)
    PROVE  RequestsFilled' /\ req' \in [Workers -> Request]
BY IdleIsGood, RequestStep DEF Finish

LEMMA GotoStep ==
    ASSUME RequestsFilled, NEW w \in Workers, NEW pc \in Steps, Goto(w, pc),
           Filled([req[w] EXCEPT !.pc = pc])
    PROVE  RequestsFilled' /\ req' \in [Workers -> Request]
<1>1. [req[w] EXCEPT !.pc = pc] \in GoodRequest
      BY DEF RequestsFilled, GoodRequest, Request
<1>2. req' = [req EXCEPT ![w] = [req[w] EXCEPT !.pc = pc]]
      BY DEF Goto
<1> QED BY <1>1, <1>2, RequestStep

LEMMA NextCandidateStep ==
    ASSUME RequestsFilled, NEW w \in Workers, NextCandidate(w)
    PROVE  RequestsFilled' /\ req' \in [Workers -> Request]
<1>1. CASE req[w].n < MaxRename
      <2> DEFINE r == [req[w] EXCEPT !.pc = "lookup", !.n = @ + 1, !.victim = NULL]
      <2>1. req' = [req EXCEPT ![w] = r]
            BY <1>1 DEF NextCandidate
      <2>2. req[w] \in Request /\ Filled(req[w])
            BY DEF RequestsFilled, GoodRequest
      <2>3. r.n \in 0..MaxRename
            BY <1>1, <2>2, ServiceAssumption DEF Request
      <2>4. r \in Request
            BY <2>2, <2>3 DEF Request, Steps
      <2>5. Filled(r)
            BY <2>2 DEF Request, Filled
      <2> HIDE DEF r
      <2>6. r \in GoodRequest
            BY <2>4, <2>5 DEF GoodRequest
      <2> QED BY <2>1, <2>6, RequestStep
<1>2. CASE ~(req[w].n < MaxRename)
      BY <1>2, FinishStep DEF NextCandidate
<1> QED BY <1>1, <1>2

LEMMA RequestOf ==
    ASSUME RequestsFilled, NEW w \in Workers
    PROVE  req[w] \in Request /\ Filled(req[w])
BY DEF RequestsFilled, GoodRequest

LEMMA DestroyStep ==
    ASSUME RequestsFilled, NEW w \in Workers, NEW e \in FileIDs,
           NEW why \in {"stale", "overwrite"}, Destroy(w, e, why)
    PROVE  RequestsFilled' /\ req' \in [Workers -> Request]
<1> DEFINE r == [req[w] EXCEPT !.pc = "select", !.victim = e, !.why = why]
<1>0. req[w] \in Request /\ Filled(req[w])
      BY RequestOf
<1>1. r \in Request
      BY <1>0 DEF Request, Steps
<1>2. Filled(r)
      BY <1>0, RepositoryAssumption DEF Request, Filled, Folder
<1>3. req' = [req EXCEPT ![w] = r]
      BY DEF Destroy
<1> HIDE DEF r
<1> QED BY <1>1, <1>2, <1>3, RequestStep DEF GoodRequest

LEMMA NameTakenStep ==
    ASSUME RequestsFilled, NEW w \in Workers, NEW e \in FileIDs, NameTaken(w, e)
    PROVE  RequestsFilled' /\ req' \in [Workers -> Request]
<1>1. NextCandidate(w) \/ Finish(w) \/ Destroy(w, e, "overwrite")
      BY DEF NameTaken
<1> QED BY <1>1, FinishStep, DestroyStep, NextCandidateStep

-----------------------------------------------------------------------------
(***************************************************************************)
(* Type correctness, first of the steps all operations share.              *)
(***************************************************************************)
LEMMA QuietStep ==
    ASSUME Typed, RequestsFilled', req' \in [Workers -> Request],
           UNCHANGED <<tables, bucket, Local>>
    PROVE  Typed'
BY DEF Typed, TypeOK, ServiceTypeOK, RepositoryTypeOK, StorageTypeOK, tables, bucket, Local

LEMMA LookupNameType ==
    ASSUME Typed, NEW w \in Workers, LookupName(w)
    PROVE  Typed'
<1> RequestsFilled
    BY DEF Typed
<1>0. req[w] \in Request /\ Filled(req[w])
      BY RequestOf DEF Typed
<1>1. CASE Goto(w, "apply")
      <2>1. Filled([req[w] EXCEPT !.pc = "apply"])
            BY <1>0 DEF Request, Filled
      <2> QED BY <1>1, <2>1, GotoStep, QuietStep DEF LookupName, Steps
<1>2. ASSUME NEW e \in FileIDs, NameTaken(w, e)
      PROVE  Typed'
      BY <1>2, NameTakenStep, QuietStep DEF LookupName
<1>3. ASSUME NEW e \in FileIDs, req' = [req EXCEPT ![w].pc = "stale", ![w].victim = e]
      PROVE  Typed'
      <2> DEFINE r == [req[w] EXCEPT !.pc = "stale", !.victim = e]
      <2>1. r \in Request
            BY <1>0 DEF Request, Steps
      <2>2. Filled(r)
            BY <1>0, RepositoryAssumption DEF Request, Filled, Folder
      <2>3. req' = [req EXCEPT ![w] = r]
            BY <1>3
      <2> HIDE DEF r
      <2>4. RequestsFilled' /\ req' \in [Workers -> Request]
            BY <2>1, <2>2, <2>3, RequestStep DEF GoodRequest
      <2> QED BY <2>4, QuietStep DEF LookupName
<1>4. DOMAIN entries \subseteq FileIDs
      BY DEF Typed, TypeOK, ServiceTypeOK, RepositoryTypeOK
<1> QED BY <1>1, <1>2, <1>3, <1>4 DEF LookupName, EntryAt

LEMMA CleanupStaleUploadEntryType ==
    ASSUME Typed, NEW w \in Workers, CleanupStaleUploadEntry(w)
    PROVE  Typed'
<1>0. req[w] \in Request /\ Filled(req[w])
      BY RequestOf DEF Typed
<1>1. RequestsFilled
      BY DEF Typed
<1>2. req[w].victim \in FileIDs
      BY <1>1, <1>0 DEF CleanupStaleUploadEntry, Request, Filled
<1>3. RequestsFilled' /\ req' \in [Workers -> Request]
      BY <1>1, <1>2, NameTakenStep, DestroyStep DEF CleanupStaleUploadEntry
<1> QED BY <1>3, QuietStep DEF CleanupStaleUploadEntry

LEMMA AfterDeleteStep ==
    ASSUME RequestsFilled, NEW w \in Workers, AfterDelete(w)
    PROVE  RequestsFilled' /\ req' \in [Workers -> Request]
<1> DEFINE a == [req[w] EXCEPT !.pc = "apply", !.victim = NULL, !.why = NULL, !.doomed = {}]
           left == req[w].todo \ {req[w].victim}
           s(next) == [req[w] EXCEPT !.pc = "select", !.victim = next,
                                     !.todo = left, !.doomed = {}]
<1>0. req[w] \in Request /\ Filled(req[w])
      BY RequestOf
<1>1. a \in Request /\ Filled(a)
      <2>1. a \in Request
            BY <1>0 DEF Request, Steps
      <2>2. Filled(a)
            BY <1>0 DEF Request, Filled
      <2> QED BY <2>1, <2>2
<1>2. ASSUME NEW next \in left
      PROVE  s(next) \in Request /\ Filled(s(next))
      <2>1. next \in FileIDs /\ left \subseteq FileIDs
            BY <1>0 DEF Request
      <2>2. s(next) \in Request
            BY <2>1, <1>0 DEF Request, Steps
      <2>3. Filled(s(next))
            BY <2>1, <1>0, RepositoryAssumption DEF Request, Filled, Folder
      <2> QED BY <2>2, <2>3
<1>3. \/ Finish(w)
      \/ req' = [req EXCEPT ![w] = a]
      \/ \E next \in left : req' = [req EXCEPT ![w] = s(next)]
      BY DEF AfterDelete
<1> HIDE DEF a, s, left
<1> QED BY <1>1, <1>2, <1>3, FinishStep, RequestStep DEF GoodRequest

LEMMA SelectTreeType ==
    ASSUME Typed, NEW w \in Workers, SelectTree(w)
    PROVE  Typed'
<1> RequestsFilled
    BY DEF Typed
<1> DEFINE D == {e \in Subtree(req[w].victim) : IsFile(e)}
           r == [req[w] EXCEPT !.pc = "purge", !.doomed = D]
<1>0. req[w] \in Request /\ Filled(req[w])
      BY RequestOf DEF Typed
<1>1. D \subseteq FileIDs
      BY DEF Typed, TypeOK, ServiceTypeOK, RepositoryTypeOK, Subtree, Below, IsFile, Exists
<1>2. CASE req' = [req EXCEPT ![w] = r]
      <2> HIDE DEF D
      <2>1. r \in Request
            BY <1>1, <1>0 DEF Request, Steps
      <2>2. Filled(r)
            BY <1>0 DEF Request, Filled, SelectTree
      <2> HIDE DEF r
      <2>3. RequestsFilled' /\ req' \in [Workers -> Request]
            BY <1>2, <2>1, <2>2, RequestStep DEF GoodRequest
      <2> QED BY <2>3, QuietStep DEF SelectTree
<1>3. CASE AfterDelete(w)
      BY <1>3, AfterDeleteStep, QuietStep DEF SelectTree
<1> QED BY <1>2, <1>3 DEF SelectTree

LEMMA PurgeTreeType ==
    ASSUME Typed, NEW w \in Workers, PurgeTree(w)
    PROVE  Typed'
<1> RequestsFilled
    BY DEF Typed
<1>0. req[w] \in Request /\ Filled(req[w])
      BY RequestOf DEF Typed
<1>1. RequestsFilled' /\ req' \in [Workers -> Request]
      BY AfterDeleteStep, FinishStep DEF PurgeTree
<1>2. RepositoryTypeOK'
      BY DEF PurgeTree, DeleteEntryTree, Drop, Typed, TypeOK, ServiceTypeOK, RepositoryTypeOK
<1>3. deletions' \subseteq FileIDs
      BY <1>0 DEF PurgeTree, Typed, TypeOK, ServiceTypeOK, Request
<1> QED BY <1>1, <1>2, <1>3
        DEF PurgeTree, Typed, TypeOK, ServiceTypeOK, StorageTypeOK, bucket

-----------------------------------------------------------------------------
(***************************************************************************)
(* Rows.                                                                   *)
(***************************************************************************)
LEMMA TargetIsName ==
    ASSUME RequestsFilled, NEW w \in Workers, req[w].name # NULL
    PROVE  Target(w) \in Name
<1>1. req[w] \in Request
      BY RequestOf
<1>2. req[w].name \in Name /\ req[w].n \in Nat
      BY <1>1, ServiceAssumption DEF Request
<1>3. Append(req[w].name.tags, req[w].n) \in Seq(Nat)
      BY <1>2, AppendProperties DEF Name
<1> QED BY <1>2, <1>3 DEF Target, Candidate, Name

LEMMA PutEntryType ==
    ASSUME RepositoryTypeOK, NEW f \in FileIDs, NEW row \in Entry,
           entries' = Put(entries, f, row), UNCHANGED <<sessions, parts>>
    PROVE  RepositoryTypeOK'
BY DEF RepositoryTypeOK, Put

LEMMA SetEntryType ==
    ASSUME RepositoryTypeOK, NEW f \in DOMAIN entries, NEW row \in Entry,
           entries' = [entries EXCEPT ![f] = row], UNCHANGED <<sessions, parts>>
    PROVE  RepositoryTypeOK'
BY DEF RepositoryTypeOK

LEMMA NewRowsAreEntries ==
    ASSUME NEW p \in Folder, NEW n \in Name
    PROVE  FolderRow(p, n) \in Entry /\ FileRow(p, n) \in Entry
BY DEF FolderRow, FileRow, Entry

LEMMA RenameEntryType ==
    ASSUME RepositoryTypeOK, NEW f \in DOMAIN entries, NEW n \in Name, RenameEntry(f, n)
    PROVE  RepositoryTypeOK'
<1>1. [entries[f] EXCEPT !.name = n] \in Entry
      BY DEF RepositoryTypeOK, Entry
<1>2. entries' = [entries EXCEPT ![f] = [entries[f] EXCEPT !.name = n]]
      BY DEF RenameEntry
<1> QED BY <1>1, <1>2, SetEntryType DEF RenameEntry

LEMMA MoveEntryType ==
    ASSUME RepositoryTypeOK, NEW f \in DOMAIN entries, NEW p \in Folder, MoveEntry(f, p)
    PROVE  RepositoryTypeOK'
<1>1. [entries[f] EXCEPT !.parent = p] \in Entry
      BY DEF RepositoryTypeOK, Entry
<1>2. entries' = [entries EXCEPT ![f] = [entries[f] EXCEPT !.parent = p]]
      BY DEF MoveEntry
<1> QED BY <1>1, <1>2, SetEntryType DEF MoveEntry

LEMMA RefileEntryType ==
    ASSUME RepositoryTypeOK, NEW f \in DOMAIN entries, NEW n \in Name, NEW p \in Folder,
           NEW from \in {NULL} \cup Folder, UNCHANGED <<sessions, parts>>,
           entries' = [entries EXCEPT ![f].name = n, ![f].parent = p, ![f].origin = from]
    PROVE  RepositoryTypeOK'
<1> DEFINE row == [entries[f] EXCEPT !.name = n, !.parent = p, !.origin = from]
<1>1. entries[f] \in Entry
      BY DEF RepositoryTypeOK
<1>2. row \in Entry
      BY <1>1 DEF Entry
<1>3. entries' = [entries EXCEPT ![f] = row]
      OBVIOUS
<1> HIDE DEF row
<1> QED BY <1>2, <1>3, SetEntryType

LEMMA UpdateEntryHashType ==
    ASSUME RepositoryTypeOK, NEW f \in FileIDs, NEW h \in {NULL} \cup Content,
           UpdateEntryHash(f, h)
    PROVE  RepositoryTypeOK'
<1>1. CASE Exists(f)
      <2>1. [entries[f] EXCEPT !.hash = h] \in Entry
            BY <1>1 DEF RepositoryTypeOK, Entry, Exists
      <2>2. entries' = [entries EXCEPT ![f] = [entries[f] EXCEPT !.hash = h]]
            BY <1>1 DEF UpdateEntryHash
      <2> QED BY <1>1, <2>1, <2>2, SetEntryType DEF UpdateEntryHash, Exists
<1>2. CASE ~Exists(f)
      BY <1>2 DEF UpdateEntryHash, RepositoryTypeOK
<1> QED BY <1>1, <1>2

LEMMA PartNumbersCounted ==
    ASSUME NEW numbers \in SUBSET PartNo, numbers # {}
    PROVE  Cardinality(numbers) \in PartNo
<1>1. IsFiniteSet(PartNo) /\ Cardinality(PartNo) = MaxPart
      BY RepositoryAssumption, FS_Interval DEF PartNo
<1>2. IsFiniteSet(numbers) /\ Cardinality(numbers) <= MaxPart
      BY <1>1, FS_Subset
<1>3. Cardinality(numbers) \in Nat /\ Cardinality(numbers) # 0
      BY <1>2, FS_CardinalityType, FS_EmptySet
<1> QED BY <1>2, <1>3, RepositoryAssumption DEF PartNo

LEMMA CreateFileWithUploadType ==
    ASSUME RepositoryTypeOK, NEW f \in FileIDs, NEW p \in Folder, NEW n \in Name,
           NEW numbers \in SUBSET PartNo, numbers # {}, NEW chunked \in BOOLEAN,
           CreateFileWithUpload(f, p, n, numbers, chunked)
    PROVE  RepositoryTypeOK'
<1> DEFINE row == [status |-> "init", partCount |-> Cardinality(numbers), chunked |-> chunked]
<1>1. FileRow(p, n) \in Entry
      BY NewRowsAreEntries
<1>2. row \in Session
      BY PartNumbersCounted DEF Session
<1>3. /\ entries' = Put(entries, f, FileRow(p, n))
      /\ sessions' = Put(sessions, f, row)
      /\ parts' = parts \cup ({f} \X numbers)
      BY DEF CreateFileWithUpload
<1> HIDE DEF row
<1>4. DOMAIN entries' \subseteq FileIDs /\ \A e \in DOMAIN entries' : entries'[e] \in Entry
      BY <1>1, <1>3 DEF RepositoryTypeOK, Put
<1>5. DOMAIN sessions' \subseteq FileIDs /\ \A u \in DOMAIN sessions' : sessions'[u] \in Session
      BY <1>2, <1>3 DEF RepositoryTypeOK, Put
<1>6. parts' \subseteq FileIDs \X PartNo
      BY <1>3 DEF RepositoryTypeOK
<1> QED BY <1>4, <1>5, <1>6 DEF RepositoryTypeOK

LEMMA SetUploadSessionStatusType ==
    ASSUME RepositoryTypeOK, NEW u \in FileIDs, SetUploadSessionStatus(u, "completed")
    PROVE  RepositoryTypeOK'
<1>1. CASE HasSession(u)
      <2>1. [sessions[u] EXCEPT !.status = "completed"] \in Session
            BY <1>1 DEF RepositoryTypeOK, Session, HasSession
      <2>2. sessions' = [sessions EXCEPT ![u] = [sessions[u] EXCEPT !.status = "completed"]]
            BY <1>1 DEF SetUploadSessionStatus
      <2> QED BY <1>1, <2>1, <2>2 DEF SetUploadSessionStatus, RepositoryTypeOK
<1>2. CASE ~HasSession(u)
      BY <1>2 DEF SetUploadSessionStatus, RepositoryTypeOK
<1> QED BY <1>1, <1>2

LEMMA RaisePartCountType ==
    ASSUME RepositoryTypeOK, NEW u \in FileIDs, NEW count \in PartNo, RaisePartCount(u, count)
    PROVE  RepositoryTypeOK'
<1>1. CASE HasSession(u) /\ sessions[u].partCount < count
      <2>1. [sessions[u] EXCEPT !.partCount = count] \in Session
            BY <1>1 DEF RepositoryTypeOK, Session, HasSession
      <2>2. sessions' = [sessions EXCEPT ![u] = [sessions[u] EXCEPT !.partCount = count]]
            BY <1>1 DEF RaisePartCount
      <2> QED BY <1>1, <2>1, <2>2 DEF RaisePartCount, RepositoryTypeOK
<1>2. CASE ~(HasSession(u) /\ sessions[u].partCount < count)
      BY <1>2 DEF RaisePartCount, RepositoryTypeOK
<1> QED BY <1>1, <1>2

-----------------------------------------------------------------------------
(***************************************************************************)
(* Type correctness of the steps of upload.go.                             *)
(***************************************************************************)
LEMMA TypedParts ==
    ASSUME Typed
    PROVE  /\ RepositoryTypeOK /\ StorageTypeOK /\ RequestsFilled
           /\ minted \subseteq FileIDs /\ deletions \subseteq FileIDs
           /\ postings \subseteq Posting
BY DEF Typed, TypeOK, ServiceTypeOK

LEMMA TypedFromParts ==
    ASSUME RepositoryTypeOK', StorageTypeOK', RequestsFilled', req' \in [Workers -> Request],
           minted' \subseteq FileIDs, deletions' \subseteq FileIDs, postings' \subseteq Posting
    PROVE  Typed'
BY DEF Typed, TypeOK, ServiceTypeOK

LEMMA BucketUnchanged ==
    ASSUME StorageTypeOK, UNCHANGED bucket
    PROVE  StorageTypeOK'
BY DEF StorageTypeOK, bucket

LEMMA TablesUnchanged ==
    ASSUME RepositoryTypeOK, UNCHANGED tables
    PROVE  RepositoryTypeOK'
BY DEF RepositoryTypeOK, tables

LEMMA CreateWithFoldersType ==
    ASSUME Typed, NEW w \in Workers, CreateWithFolders(w)
    PROVE  Typed'
<1> RequestsFilled /\ req[w] \in Request
    BY TypedParts, RequestOf
<1>1. PICK p \in FileIDs \cup {Root}, b \in Names :
        req' = [req EXCEPT ![w].op = "create", ![w].pc = "lookup", ![w].parent = p,
                           ![w].name = [base |-> b, tags |-> << >>]]
      BY DEF CreateWithFolders
<1> DEFINE name == [base |-> b, tags |-> << >>]
           r == [req[w] EXCEPT !.op = "create", !.pc = "lookup", !.parent = p, !.name = name]
<1>2. name \in Name
      BY EmptySeq DEF Name
<1>3. req' = [req EXCEPT ![w] = r]
      BY <1>1
<1>4. name # NULL /\ p # NULL
      BY <1>2, RepositoryAssumption DEF Folder
<1> HIDE DEF name
<1>5. r \in Request
      BY <1>2 DEF Request, Steps, Operations, Folder
<1>6. Filled(r)
      BY <1>4 DEF Request, Filled
<1> HIDE DEF r
<1> QED BY <1>3, <1>5, <1>6, RequestStep, QuietStep DEF CreateWithFolders, GoodRequest

LEMMA CreateFolderEntryType ==
    ASSUME Typed, NEW w \in Workers, CreateFolderEntry(w)
    PROVE  Typed'
<1>0. /\ RepositoryTypeOK /\ StorageTypeOK /\ RequestsFilled /\ minted \subseteq FileIDs
      /\ deletions \subseteq FileIDs /\ postings \subseteq Posting
      BY TypedParts
<1>1. RequestsFilled' /\ req' \in [Workers -> Request]
      BY <1>0, FinishStep DEF CreateFolderEntry
<1>2. req[w].parent \in Folder /\ Target(w) \in Name
      <2>1. req[w] \in Request /\ req[w].parent # NULL /\ req[w].name # NULL
            BY <1>0, RequestOf DEF CreateFolderEntry, At, Filled
      <2> QED BY <1>0, <2>1, TargetIsName DEF Request
<1>3. PICK f \in FileIDs \ minted :
        /\ minted' = minted \cup {f}
        /\ UNCHANGED tables \/ CreateFolder(f, req[w].parent, Target(w))
      BY DEF CreateFolderEntry
<1>4. RepositoryTypeOK'
      <2>1. CASE UNCHANGED tables
            BY <1>0, <2>1, TablesUnchanged
      <2>2. CASE CreateFolder(f, req[w].parent, Target(w))
            BY <1>0, <1>2, <2>2, NewRowsAreEntries, PutEntryType DEF CreateFolder
      <2> QED BY <1>3, <2>1, <2>2
<1>5. StorageTypeOK'
      BY <1>0, BucketUnchanged DEF CreateFolderEntry
<1> QED BY <1>0, <1>1, <1>3, <1>4, <1>5, TypedFromParts DEF CreateFolderEntry

LEMMA PrepareUploadType ==
    ASSUME Typed, NEW w \in Workers, PrepareUpload(w)
    PROVE  Typed'
<1>0. /\ RepositoryTypeOK /\ StorageTypeOK /\ RequestsFilled /\ minted \subseteq FileIDs
      /\ deletions \subseteq FileIDs /\ postings \subseteq Posting
      /\ req[w] \in Request /\ Filled(req[w]) /\ req[w].op = "create"
      BY TypedParts, RequestOf DEF PrepareUpload, At
<1> DEFINE one(f) == [req[w] EXCEPT !.pc = "persist", !.file = f]
           many(f, numbers, chunked) ==
               [req[w] EXCEPT !.pc = "persist", !.file = f, !.numbers = numbers,
                              !.chunked = chunked]
<1>1. \/ Finish(w) /\ UNCHANGED <<bucket, minted>>
      \/ \E f \in FileIDs : /\ minted' = minted \cup {f}
                           /\ req' = [req EXCEPT ![w] = one(f)]
                           /\ UNCHANGED bucket
      \/ \E f \in FileIDs, numbers \in SUBSET PartNo, chunked \in BOOLEAN :
            /\ minted' = minted \cup {f}
            /\ req' = [req EXCEPT ![w] = many(f, numbers, chunked)]
            /\ CreateMultipartUpload(f)
      <2> DEFINE all(list) == IF list = {} THEN {1} ELSE list
      <2>1. PICK size \in Sizes, list \in PartLists :
                IF size < 0 \/ 0 \in list
                THEN Finish(w) /\ UNCHANGED <<bucket, minted>>
                ELSE \E f \in FileIDs \ minted :
                    /\ minted' = minted \cup {f}
                    /\ IF ShouldUseSinglePut(size, all(list))
                       THEN /\ req' = [req EXCEPT ![w].pc = "persist", ![w].file = f]
                            /\ UNCHANGED bucket
                       ELSE /\ req' = [req EXCEPT ![w].pc = "persist", ![w].file = f,
                                                  ![w].numbers = all(list),
                                                  ![w].chunked = NormalizeChunkSize(size)]
                            /\ CreateMultipartUpload(f)
            BY Zenon DEF PrepareUpload
      <2>2. NormalizeChunkSize(size) \in BOOLEAN
            BY DEF NormalizeChunkSize
      <2>3. 0 \notin list => all(list) \in SUBSET PartNo
            BY UploadAssumption, RepositoryAssumption DEF PartNo
      <2> HIDE DEF one, many, all
      <2>4. CASE size < 0 \/ 0 \in list
            BY <2>1, <2>4
      <2>5. CASE ~(size < 0 \/ 0 \in list)
            <3>1. PICK f \in FileIDs \ minted :
                    /\ minted' = minted \cup {f}
                    /\ \/ /\ req' = [req EXCEPT ![w].pc = "persist", ![w].file = f]
                          /\ UNCHANGED bucket
                       \/ /\ req' = [req EXCEPT ![w].pc = "persist", ![w].file = f,
                                                ![w].numbers = all(list),
                                                ![w].chunked = NormalizeChunkSize(size)]
                          /\ CreateMultipartUpload(f)
                  BY <2>1, <2>5
            <3>2. /\ [req EXCEPT ![w].pc = "persist", ![w].file = f] = [req EXCEPT ![w] = one(f)]
                  /\ [req EXCEPT ![w].pc = "persist", ![w].file = f,
                                 ![w].numbers = all(list),
                                 ![w].chunked = NormalizeChunkSize(size)]
                        = [req EXCEPT ![w] = many(f, all(list), NormalizeChunkSize(size))]
                  BY DEF one, many
            <3> QED BY <3>1, <3>2, <2>2, <2>3, <2>5
      <2> QED BY <2>4, <2>5
<1>2. ASSUME NEW f \in FileIDs
      PROVE  one(f) \in GoodRequest
      <2>1. one(f) \in Request
            BY <1>0 DEF Request, Steps
      <2>2. Filled(one(f))
            BY <1>0, RepositoryAssumption DEF Request, Filled, Folder
      <2> QED BY <2>1, <2>2 DEF GoodRequest
<1>3. ASSUME NEW f \in FileIDs, NEW numbers \in SUBSET PartNo, NEW chunked \in BOOLEAN
      PROVE  many(f, numbers, chunked) \in GoodRequest
      <2>1. many(f, numbers, chunked) \in Request
            BY <1>0 DEF Request, Steps
      <2>2. Filled(many(f, numbers, chunked))
            BY <1>0, RepositoryAssumption DEF Request, Filled, Folder
      <2> QED BY <2>1, <2>2 DEF GoodRequest
<1> HIDE DEF one, many
<1>4. RequestsFilled' /\ req' \in [Workers -> Request]
      BY <1>0, <1>1, <1>2, <1>3, FinishStep, RequestStep
<1>5. StorageTypeOK' /\ minted' \subseteq FileIDs
      BY <1>0, <1>1 DEF CreateMultipartUpload, Put, StorageTypeOK, bucket
<1> QED BY <1>0, <1>4, <1>5, TablesUnchanged, TypedFromParts DEF PrepareUpload

LEMMA PersistUploadType ==
    ASSUME Typed, NEW w \in Workers, PersistUpload(w)
    PROVE  Typed'
<1>0. /\ RepositoryTypeOK /\ StorageTypeOK /\ RequestsFilled /\ minted \subseteq FileIDs
      /\ deletions \subseteq FileIDs /\ postings \subseteq Posting
      /\ req[w] \in Request /\ Filled(req[w]) /\ req[w].op = "create" /\ req[w].pc = "persist"
      BY TypedParts, RequestOf DEF PersistUpload, At
<1>1. req[w].parent \in Folder /\ Target(w) \in Name /\ req[w].file \in FileIDs
      <2>1. req[w].name # NULL /\ req[w].parent # NULL /\ req[w].file # NULL
            BY <1>0 DEF Filled
      <2> QED BY <1>0, <2>1, TargetIsName DEF Request
<1>2. RequestsFilled' /\ req' \in [Workers -> Request]
      <2>1. Filled([req[w] EXCEPT !.pc = "abort"])
            BY <1>0 DEF Filled, Request
      <2>2. Finish(w) \/ Goto(w, "abort")
            BY DEF PersistUpload, GiveUpUpload
      <2> QED BY <1>0, <2>1, <2>2, FinishStep, GotoStep DEF Steps
<1> DEFINE numbers == IF req[w].numbers = {} THEN {1} ELSE req[w].numbers
<1>3. numbers \in SUBSET PartNo /\ numbers # {}
      BY <1>0, RepositoryAssumption DEF Request, PartNo
<1>4. \/ UNCHANGED tables
      \/ CreateFileWithUpload(req[w].file, req[w].parent, Target(w), numbers, req[w].chunked)
      BY DEF PersistUpload, tables
<1>5. RepositoryTypeOK'
      <2> HIDE DEF numbers
      <2>1. req[w].chunked \in BOOLEAN
            BY <1>0 DEF Request
      <2> QED BY <1>0, <1>1, <1>3, <1>4, <2>1, TablesUnchanged, CreateFileWithUploadType
<1>6. StorageTypeOK'
      <2>1. \/ UNCHANGED bucket
            \/ PresignPutObject(req[w].file)
            \/ PresignUploadPart(req[w].file, req[w].numbers)
            BY DEF PersistUpload
      <2>2. req[w].numbers \subseteq 0..MaxPart /\ 0 \in 0..MaxPart
            BY <1>0, RepositoryAssumption DEF Request, PartNo
      <2> QED BY <1>0, <1>1, <2>1, <2>2
              DEF PresignPutObject, PresignUploadPart, StorageTypeOK, bucket
<1> QED BY <1>0, <1>2, <1>5, <1>6, TypedFromParts DEF PersistUpload, Local

LEMMA AbortUploadType ==
    ASSUME Typed, NEW w \in Workers, AbortUpload(w)
    PROVE  Typed'
<1>1. StorageTypeOK'
      BY TypedParts DEF AbortUpload, AbortMultipartUpload, Drop, StorageTypeOK
<1> QED BY <1>1, TypedParts, TablesUnchanged, FinishStep, TypedFromParts DEF AbortUpload, Local

LEMMA GetUploadURLType ==
    ASSUME Typed, NEW w \in Workers, GetUploadURL(w)
    PROVE  Typed'
<1>0. RequestsFilled /\ req[w] \in Request
      BY TypedParts, RequestOf
<1>1. PICK f \in FileIDs :
        req' = [req EXCEPT ![w].op = "url", ![w].pc = "session", ![w].file = f]
      BY DEF GetUploadURL
<1> DEFINE r == [req[w] EXCEPT !.op = "url", !.pc = "session", !.file = f]
<1>2. req' = [req EXCEPT ![w] = r]
      BY <1>1
<1>3. r \in Request
      BY <1>0 DEF Request, Steps, Operations
<1>4. Filled(r)
      BY <1>0, RepositoryAssumption DEF Request, Filled, Folder
<1> HIDE DEF r
<1> QED BY <1>0, <1>2, <1>3, <1>4, RequestStep, QuietStep DEF GetUploadURL, GoodRequest

LEMMA UrlReadSessionType ==
    ASSUME Typed, NEW w \in Workers, UrlReadSession(w)
    PROVE  Typed'
<1>0. /\ RepositoryTypeOK /\ StorageTypeOK /\ RequestsFilled /\ minted \subseteq FileIDs
      /\ deletions \subseteq FileIDs /\ postings \subseteq Posting
      /\ req[w] \in Request /\ Filled(req[w]) /\ req[w].op = "url"
      BY TypedParts, RequestOf DEF UrlReadSession, At
<1>1. req[w].file \in FileIDs
      BY <1>0 DEF Request, Filled
<1>2. PICK list \in PartLists :
        \/ Finish(w) /\ UNCHANGED bucket
        \/ Finish(w) /\ PresignPutObject(req[w].file)
        \/ /\ 0 \notin list
           /\ req' = [req EXCEPT ![w].pc = "rows", ![w].numbers = list]
           /\ UNCHANGED bucket
      BY DEF UrlReadSession
<1>3. StorageTypeOK'
      BY <1>0, <1>1, <1>2, RepositoryAssumption DEF PresignPutObject, StorageTypeOK, bucket
<1>4. RequestsFilled' /\ req' \in [Workers -> Request]
      <2>1. CASE Finish(w)
            BY <1>0, <2>1, FinishStep
      <2>2. CASE /\ 0 \notin list
                 /\ req' = [req EXCEPT ![w].pc = "rows", ![w].numbers = list]
            <3> DEFINE r == [req[w] EXCEPT !.pc = "rows", !.numbers = list]
            <3>1. list \in SUBSET PartNo
                  BY <2>2, UploadAssumption, RepositoryAssumption DEF PartNo
            <3>2. r \in Request
                  BY <1>0, <3>1 DEF Request, Steps
            <3>3. Filled(r)
                  BY <1>0 DEF Request, Filled
            <3>4. req' = [req EXCEPT ![w] = r]
                  BY <2>2
            <3> HIDE DEF r
            <3> QED BY <1>0, <3>2, <3>3, <3>4, RequestStep DEF GoodRequest
      <2> QED BY <1>2, <2>1, <2>2
<1> QED BY <1>0, <1>3, <1>4, TablesUnchanged, TypedFromParts DEF UrlReadSession, Local

LEMMA UrlEnsurePartsType ==
    ASSUME Typed, NEW w \in Workers, UrlEnsureParts(w)
    PROVE  Typed'
<1>0. /\ RepositoryTypeOK /\ RequestsFilled
      /\ req[w] \in Request /\ Filled(req[w]) /\ req[w].op = "url"
      BY TypedParts, RequestOf DEF UrlEnsureParts, At
<1>1. req[w].file \in FileIDs /\ req[w].numbers \subseteq PartNo
      BY <1>0 DEF Request, Filled
<1>2. RepositoryTypeOK'
      BY <1>0, <1>1 DEF UrlEnsureParts, EnsurePartRows, RepositoryTypeOK
<1>3. Filled([req[w] EXCEPT !.pc = "raise"])
      BY <1>0 DEF Filled, Request
<1>4. RequestsFilled' /\ req' \in [Workers -> Request]
      BY <1>0, <1>3, GotoStep DEF UrlEnsureParts, Steps
<1> QED BY <1>2, <1>4, TypedParts, BucketUnchanged, TypedFromParts DEF UrlEnsureParts, Local

LEMMA UrlRaisePartCountType ==
    ASSUME Typed, NEW w \in Workers, UrlRaisePartCount(w)
    PROVE  Typed'
<1>0. /\ RepositoryTypeOK /\ StorageTypeOK /\ RequestsFilled
      /\ req[w] \in Request /\ Filled(req[w]) /\ req[w].op = "url"
      BY TypedParts, RequestOf DEF UrlRaisePartCount, At
<1>1. req[w].file \in FileIDs /\ req[w].numbers \subseteq PartNo
      BY <1>0 DEF Request, Filled
<1>2. RepositoryTypeOK'
      BY <1>0, <1>1, RaisePartCountType DEF UrlRaisePartCount
<1>3. StorageTypeOK'
      BY <1>0, <1>1, RepositoryAssumption
         DEF UrlRaisePartCount, PresignUploadPart, StorageTypeOK, PartNo
<1>4. RequestsFilled' /\ req' \in [Workers -> Request]
      BY <1>0, FinishStep DEF UrlRaisePartCount
<1> QED BY <1>2, <1>3, <1>4, TypedParts, TypedFromParts DEF UrlRaisePartCount, Local

LEMMA QuietRequestStep ==
    ASSUME Typed, NEW w \in Workers, NEW r \in Request, Filled(r),
           req' = [req EXCEPT ![w] = r], UNCHANGED <<tables, bucket, Local>>
    PROVE  Typed'
BY TypedParts, RequestStep, QuietStep DEF GoodRequest

LEMMA QuietFinish ==
    ASSUME Typed, NEW w \in Workers, Finish(w), UNCHANGED <<tables, bucket, Local>>
    PROVE  Typed'
BY TypedParts, FinishStep, QuietStep

LEMMA QuietGoto ==
    ASSUME Typed, NEW w \in Workers, NEW pc \in Steps, Goto(w, pc),
           pc \notin {"persist", "abort", "stale", "select", "purge"},
           UNCHANGED <<tables, bucket, Local>>
    PROVE  Typed'
<1>1. RequestsFilled /\ req[w] \in Request /\ Filled(req[w])
      BY TypedParts, RequestOf
<1>2. Filled([req[w] EXCEPT !.pc = pc])
      BY <1>1 DEF Request, Filled
<1> QED BY <1>1, <1>2, GotoStep, QuietStep

LEMMA CompleteFileType ==
    ASSUME Typed, NEW w \in Workers, CompleteFile(w)
    PROVE  Typed'
<1>0. RepositoryTypeOK /\ RequestsFilled /\ req[w] \in Request
      BY TypedParts, RequestOf
<1>1. PICK u \in FileIDs :
        /\ HasSession(u)
        /\ req' = [req EXCEPT ![w].op = "complete", ![w].pc = "entry", ![w].file = u,
                        ![w].numbers = IF IsSinglePut(u) THEN {} ELSE 1..sessions[u].partCount]
      BY DEF CompleteFile
<1> DEFINE numbers == IF IsSinglePut(u) THEN {} ELSE 1..sessions[u].partCount
           r == [req[w] EXCEPT !.op = "complete", !.pc = "entry", !.file = u,
                               !.numbers = numbers]
<1>2. req' = [req EXCEPT ![w] = r]
      BY <1>1
<1>3. sessions[u].partCount \in PartNo
      BY <1>0, <1>1 DEF RepositoryTypeOK, HasSession, Session
<1>4. numbers \in SUBSET PartNo
      BY <1>3, RepositoryAssumption DEF PartNo
<1> HIDE DEF numbers
<1>5. r \in Request
      BY <1>0, <1>4 DEF Request, Steps, Operations
<1>6. Filled(r)
      BY <1>0, RepositoryAssumption DEF Request, Filled, Folder
<1> HIDE DEF r
<1> QED BY <1>2, <1>5, <1>6, QuietRequestStep DEF CompleteFile

LEMMA CompleteReadEntryType ==
    ASSUME Typed, NEW w \in Workers, CompleteReadEntry(w)
    PROVE  Typed'
<1>0. RepositoryTypeOK /\ req[w] \in Request /\ Filled(req[w]) /\ req[w].op = "complete"
      BY TypedParts, RequestOf DEF CompleteReadEntry, At
<1>1. CASE Finish(w)
      BY <1>1, QuietFinish DEF CompleteReadEntry
<1>2. ASSUME NEW f \in FileIDs, IsFile(f), NEW pc \in {"publish", "list"},
             req' = [req EXCEPT ![w].pc = pc, ![w].hash = entries[f].hash]
      PROVE  Typed'
      <2> DEFINE r == [req[w] EXCEPT !.pc = pc, !.hash = entries[f].hash]
      <2>1. req' = [req EXCEPT ![w] = r]
            BY <1>2
      <2>2. entries[f].hash \in {NULL} \cup Content
            BY <1>0, <1>2 DEF RepositoryTypeOK, IsFile, Exists, Entry
      <2>3. r \in Request
            BY <1>0, <2>2 DEF Request, Steps
      <2>4. Filled(r)
            BY <1>0 DEF Request, Filled
      <2> HIDE DEF r
      <2> QED BY <2>1, <2>3, <2>4, QuietRequestStep DEF CompleteReadEntry
<1> QED BY <1>1, <1>2 DEF CompleteReadEntry

LEMMA CollectCompletedPartsType ==
    ASSUME Typed, NEW w \in Workers, CollectCompletedParts(w)
    PROVE  Typed'
BY QuietFinish, QuietGoto DEF CollectCompletedParts, Steps

LEMMA CombinePartsType ==
    ASSUME Typed, NEW w \in Workers, CombineParts(w)
    PROVE  Typed'
<1>0. /\ RepositoryTypeOK /\ StorageTypeOK /\ RequestsFilled
      /\ req[w] \in Request /\ Filled(req[w]) /\ req[w].op = "complete"
      BY TypedParts, RequestOf DEF CombineParts, At
<1>1. req[w].file \in FileIDs /\ req[w].numbers \in Content
      BY <1>0 DEF Request, Filled, Content
<1>2. StorageTypeOK'
      <2>1. CASE CompleteMultipartUpload(req[w].file, req[w].numbers)
            BY <1>0, <1>1, <2>1 DEF CompleteMultipartUpload, StorageTypeOK, Put, Drop
      <2>2. CASE UNCHANGED bucket
            BY <1>0, <2>2, BucketUnchanged
      <2> QED BY <2>1, <2>2 DEF CombineParts
<1>3. Filled([req[w] EXCEPT !.pc = "publish"])
      BY <1>0 DEF Filled, Request
<1>4. RequestsFilled' /\ req' \in [Workers -> Request]
      BY <1>0, <1>3, FinishStep, GotoStep DEF CombineParts, Steps
<1> QED BY <1>0, <1>2, <1>4, TypedParts, TablesUnchanged, TypedFromParts DEF CombineParts, Local

LEMMA PublishFileType ==
    ASSUME Typed, NEW w \in Workers, PublishFile(w)
    PROVE  Typed'
<1>0. /\ RepositoryTypeOK /\ StorageTypeOK /\ RequestsFilled
      /\ req[w] \in Request /\ Filled(req[w]) /\ req[w].op = "complete"
      BY TypedParts, RequestOf DEF PublishFile, At
<1> DEFINE numbers == IF req[w].numbers = {} THEN {1} ELSE req[w].numbers
           posting == [file |-> req[w].file, numbers |-> numbers,
                       seen |-> req[w].hash, hash |-> NULL]
<1>1. req[w].file \in FileIDs /\ numbers \in SUBSET PartNo /\ req[w].hash \in {NULL} \cup Content
      BY <1>0, RepositoryAssumption DEF Request, Filled, PartNo
<1>2. posting \in Posting
      <2> HIDE DEF numbers
      <2> QED BY <1>1 DEF Posting
<1>3. postings' = postings \cup {posting}
      BY DEF PublishFile, SchedulePostComplete
<1> HIDE DEF posting
<1>4. postings' \subseteq Posting
      BY <1>2, <1>3, TypedParts
<1>5. RepositoryTypeOK'
      BY <1>0, <1>1, SetUploadSessionStatusType DEF PublishFile
<1>6. RequestsFilled' /\ req' \in [Workers -> Request]
      BY <1>0, FinishStep DEF PublishFile
<1> QED BY <1>0, <1>4, <1>5, <1>6, TypedParts, BucketUnchanged, TypedFromParts DEF PublishFile
-----------------------------------------------------------------------------
(***************************************************************************)
(* Type correctness of the steps of manage.go and recycle.go.              *)
(***************************************************************************)

(* A step that ends a request and writes at most one row of entries.       *)
LEMMA ApplyType ==
    ASSUME Typed, NEW w \in Workers, Finish(w), RepositoryTypeOK', UNCHANGED <<bucket, Local>>
    PROVE  Typed'
BY TypedParts, FinishStep, BucketUnchanged, TypedFromParts DEF Local

LEMMA DeleteFileType ==
    ASSUME Typed, NEW w \in Workers, DeleteFile(w)
    PROVE  Typed'
<1>0. req[w] \in Request
      BY TypedParts, RequestOf
<1>1. PICK f \in FileIDs :
        req' = [req EXCEPT ![w].op = "delete", ![w].pc = "select",
                           ![w].file = f, ![w].victim = f]
      BY DEF DeleteFile
<1> DEFINE r == [req[w] EXCEPT !.op = "delete", !.pc = "select", !.file = f, !.victim = f]
<1>2. req' = [req EXCEPT ![w] = r]
      BY <1>1
<1>3. r \in Request
      BY <1>0 DEF Request, Steps, Operations
<1>4. Filled(r)
      BY <1>0, RepositoryAssumption DEF Request, Filled, Folder
<1> HIDE DEF r
<1> QED BY <1>2, <1>3, <1>4, QuietRequestStep DEF DeleteFile

LEMMA UpdateType ==
    ASSUME Typed, NEW w \in Workers, Update(w)
    PROVE  Typed'
<1>0. RepositoryTypeOK /\ req[w] \in Request
      BY TypedParts, RequestOf
<1>1. PICK f \in DOMAIN entries, b \in Names :
        req' = [req EXCEPT ![w].op = "rename", ![w].pc = "lookup", ![w].file = f,
                           ![w].parent = entries[f].parent,
                           ![w].name = [base |-> b, tags |-> << >>],
                           ![w].was = entries[f].name]
      BY DEF Update
<1> DEFINE name == [base |-> b, tags |-> << >>]
           p == entries[f].parent
           was == entries[f].name
           r == [req[w] EXCEPT !.op = "rename", !.pc = "lookup", !.file = f, !.parent = p,
                               !.name = name, !.was = was]
<1>2. req' = [req EXCEPT ![w] = r]
      BY <1>1
<1>3. f \in FileIDs /\ p \in Folder /\ was \in Name /\ name \in Name
      BY <1>0, EmptySeq DEF RepositoryTypeOK, Entry, Name
<1> HIDE DEF p, was, name
<1>4. r \in Request
      BY <1>0, <1>3 DEF Request, Steps, Operations
<1>5. Filled(r)
      BY <1>0, <1>3, RepositoryAssumption DEF Request, Filled
<1> HIDE DEF r
<1> QED BY <1>2, <1>4, <1>5, QuietRequestStep DEF Update

LEMMA UpdateApplyType ==
    ASSUME Typed, NEW w \in Workers, UpdateApply(w)
    PROVE  Typed'
<1>0. RepositoryTypeOK /\ RequestsFilled /\ req[w].name # NULL
      BY TypedParts, RequestOf DEF UpdateApply, At, Filled
<1>1. Target(w) \in Name
      BY <1>0, TargetIsName
<1>2. \/ UNCHANGED tables
      \/ req[w].file \in DOMAIN entries /\ RenameEntry(req[w].file, Target(w))
      BY DEF UpdateApply, Exists
<1>3. RepositoryTypeOK'
      BY <1>0, <1>1, <1>2, TablesUnchanged, RenameEntryType
<1> QED BY <1>3, ApplyType DEF UpdateApply

LEMMA MoveFileType ==
    ASSUME Typed, NEW w \in Workers, MoveFile(w)
    PROVE  Typed'
<1>0. req[w] \in Request
      BY TypedParts, RequestOf
<1>1. PICK f \in FileIDs, p \in FileIDs \cup {Root} :
        req' = [req EXCEPT ![w].op = "moveFile", ![w].pc = "entry",
                           ![w].file = f, ![w].parent = p]
      BY DEF MoveFile
<1> DEFINE r == [req[w] EXCEPT !.op = "moveFile", !.pc = "entry", !.file = f, !.parent = p]
<1>2. req' = [req EXCEPT ![w] = r]
      BY <1>1
<1>3. r \in Request
      BY <1>0 DEF Request, Steps, Operations, Folder
<1>4. Filled(r)
      BY <1>0, RepositoryAssumption DEF Request, Filled, Folder
<1> HIDE DEF r
<1> QED BY <1>2, <1>3, <1>4, QuietRequestStep DEF MoveFile

LEMMA MoveFolderType ==
    ASSUME Typed, NEW w \in Workers, MoveFolder(w)
    PROVE  Typed'
<1>0. req[w] \in Request
      BY TypedParts, RequestOf
<1>1. PICK f \in FileIDs, p \in FileIDs \cup {Root} :
        req' = [req EXCEPT ![w].op = "moveFolder", ![w].pc = "parent",
                           ![w].file = f, ![w].parent = p]
      BY DEF MoveFolder
<1> DEFINE r == [req[w] EXCEPT !.op = "moveFolder", !.pc = "parent", !.file = f, !.parent = p]
<1>2. req' = [req EXCEPT ![w] = r]
      BY <1>1
<1>3. r \in Request
      BY <1>0 DEF Request, Steps, Operations, Folder
<1>4. Filled(r)
      BY <1>0, RepositoryAssumption DEF Request, Filled, Folder
<1> HIDE DEF r
<1> QED BY <1>2, <1>3, <1>4, QuietRequestStep DEF MoveFolder

(* The reads between the arrival of a move and its write.                  *)
LEMMA MoveReadsType ==
    ASSUME Typed, NEW w \in Workers,
           MoveFileReadEntry(w) \/ MoveFolderReadParent(w) \/ MoveFolderCheck(w)
    PROVE  Typed'
BY QuietFinish, QuietGoto DEF MoveFileReadEntry, MoveFolderReadParent, MoveFolderCheck, Steps

LEMMA MoveApplyType ==
    ASSUME Typed, NEW w \in Workers, MoveApply(w)
    PROVE  Typed'
<1>0. RepositoryTypeOK /\ req[w] \in Request /\ req[w].parent # NULL
      BY TypedParts, RequestOf DEF MoveApply, Filled
<1>1. req[w].parent \in Folder
      BY <1>0 DEF Request
<1>2. \/ UNCHANGED tables
      \/ req[w].file \in DOMAIN entries /\ MoveEntry(req[w].file, req[w].parent)
      BY DEF MoveApply, Exists
<1>3. RepositoryTypeOK'
      BY <1>0, <1>1, <1>2, TablesUnchanged, MoveEntryType
<1> QED BY <1>3, ApplyType DEF MoveApply

LEMMA RecycleBinTrashType ==
    ASSUME Typed, NEW w \in Workers, RecycleBinTrash(w)
    PROVE  Typed'
<1>0. RepositoryTypeOK /\ req[w] \in Request
      BY TypedParts, RequestOf
<1>1. PICK f \in DOMAIN entries :
        req' = [req EXCEPT ![w].op = "trash", ![w].pc = "lookup", ![w].file = f,
                           ![w].parent = Bin, ![w].name = entries[f].name,
                           ![w].from = entries[f].parent]
      BY DEF RecycleBinTrash
<1> DEFINE name == entries[f].name
           from == entries[f].parent
           r == [req[w] EXCEPT !.op = "trash", !.pc = "lookup", !.file = f, !.parent = Bin,
                               !.name = name, !.from = from]
<1>2. req' = [req EXCEPT ![w] = r]
      BY <1>1
<1>3. f \in FileIDs /\ name \in Name /\ from \in Folder /\ Bin \in Folder
      BY <1>0 DEF RepositoryTypeOK, Entry, Folder
<1> HIDE DEF name, from
<1>4. r \in Request
      BY <1>0, <1>3 DEF Request, Steps, Operations
<1>5. Filled(r)
      BY <1>0, <1>3, RepositoryAssumption DEF Request, Filled
<1> HIDE DEF r
<1> QED BY <1>2, <1>4, <1>5, QuietRequestStep DEF RecycleBinTrash

LEMMA TrashApplyType ==
    ASSUME Typed, NEW w \in Workers, TrashApply(w)
    PROVE  Typed'
<1>0. /\ RepositoryTypeOK /\ RequestsFilled
      /\ req[w] \in Request /\ req[w].name # NULL
      BY TypedParts, RequestOf DEF TrashApply, At, Filled
<1>1. Target(w) \in Name /\ Bin \in Folder /\ req[w].from \in {NULL} \cup Folder
      BY <1>0, TargetIsName DEF Folder, Request
<1>2. \/ UNCHANGED tables
      \/ /\ req[w].file \in DOMAIN entries
         /\ TrashEntry(req[w].file, Target(w), req[w].from)
      BY DEF TrashApply, Exists
<1>3. RepositoryTypeOK'
      <2>1. CASE UNCHANGED tables
            BY <1>0, <2>1, TablesUnchanged
      <2>2. ASSUME NEW f \in DOMAIN entries, NEW n \in Name, NEW p \in Folder,
                   NEW from \in {NULL} \cup Folder, TrashEntry(f, n, from)
            PROVE  RepositoryTypeOK'
            BY <1>0, <1>1, <2>2, RefileEntryType DEF TrashEntry
      <2> QED BY <1>1, <1>2, <2>1, <2>2
<1> QED BY <1>3, ApplyType DEF TrashApply

LEMMA RecycleBinRestoreType ==
    ASSUME Typed, NEW w \in Workers, RecycleBinRestore(w)
    PROVE  Typed'
<1>0. RepositoryTypeOK /\ req[w] \in Request
      BY TypedParts, RequestOf
<1>1. PICK f \in DOMAIN entries :
        req' = [req EXCEPT ![w].op = "restore", ![w].file = f,
                           ![w].pc = IF RestoreTarget(f) = Root THEN "lookup" ELSE "folder",
                           ![w].parent = RestoreTarget(f), ![w].name = entries[f].name]
      BY DEF RecycleBinRestore
<1> DEFINE name == entries[f].name
           p == RestoreTarget(f)
           pc == IF p = Root THEN "lookup" ELSE "folder"
           r == [req[w] EXCEPT !.op = "restore", !.file = f, !.pc = pc, !.parent = p,
                               !.name = name]
<1>2. req' = [req EXCEPT ![w] = r]
      BY <1>1
<1>3. f \in FileIDs /\ name \in Name /\ p \in Folder
      BY <1>0 DEF RepositoryTypeOK, Entry, RestoreTarget, Folder
<1>4. pc \in {"lookup", "folder"}
      OBVIOUS
<1> HIDE DEF name, p, pc
<1>5. r \in Request
      BY <1>0, <1>3, <1>4 DEF Request, Steps, Operations
<1>6. Filled(r)
      BY <1>0, <1>3, <1>4, RepositoryAssumption DEF Request, Filled
<1> HIDE DEF r
<1> QED BY <1>2, <1>5, <1>6, QuietRequestStep DEF RecycleBinRestore

LEMMA RestoreReadParentType ==
    ASSUME Typed, NEW w \in Workers, RestoreReadParent(w)
    PROVE  Typed'
<1>0. req[w] \in Request /\ Filled(req[w]) /\ req[w].op = "restore"
      BY TypedParts, RequestOf DEF RestoreReadParent, At
<1>1. PICK p \in {req[w].parent, Root} :
        req' = [req EXCEPT ![w].pc = "lookup", ![w].parent = p]
      BY DEF RestoreReadParent
<1> DEFINE r == [req[w] EXCEPT !.pc = "lookup", !.parent = p]
<1>2. req' = [req EXCEPT ![w] = r]
      BY <1>1
<1>3. p \in Folder /\ req[w].name # NULL
      BY <1>0 DEF Folder, Request, Filled
<1>4. r \in Request
      BY <1>0, <1>3 DEF Request, Steps
<1>5. Filled(r)
      BY <1>0, <1>3, RepositoryAssumption DEF Request, Filled
<1> HIDE DEF r
<1> QED BY <1>2, <1>4, <1>5, QuietRequestStep DEF RestoreReadParent

LEMMA RestoreApplyType ==
    ASSUME Typed, NEW w \in Workers, RestoreApply(w)
    PROVE  Typed'
<1>0. /\ RepositoryTypeOK /\ RequestsFilled
      /\ req[w] \in Request /\ req[w].name # NULL /\ req[w].parent # NULL
      BY TypedParts, RequestOf DEF RestoreApply, At, Filled
<1>1. Target(w) \in Name /\ req[w].parent \in Folder
      BY <1>0, TargetIsName DEF Request
<1>2. \/ UNCHANGED tables
      \/ /\ req[w].file \in DOMAIN entries
         /\ RestoreEntry(req[w].file, Target(w), req[w].parent)
      BY DEF RestoreApply, Exists
<1>3. RepositoryTypeOK'
      <2>1. CASE UNCHANGED tables
            BY <1>0, <2>1, TablesUnchanged
      <2>2. ASSUME NEW f \in DOMAIN entries, NEW n \in Name, NEW p \in Folder,
                   NEW from \in {NULL} \cup Folder, RestoreEntry(f, n, p)
            PROVE  RepositoryTypeOK'
            BY <1>0, <1>1, <2>2, RefileEntryType DEF RestoreEntry
      <2> QED BY <1>1, <1>2, <2>1, <2>2
<1> QED BY <1>3, ApplyType DEF RestoreApply

LEMMA RecycleBinClearType ==
    ASSUME Typed, NEW w \in Workers, RecycleBinClear(w)
    PROVE  Typed'
<1>0. RepositoryTypeOK /\ req[w] \in Request
      BY TypedParts, RequestOf
<1> DEFINE binned == {f \in DOMAIN entries : InRecycleBin(f)}
<1>1. PICK first \in binned :
        req' = [req EXCEPT ![w].op = "clear", ![w].pc = "select",
                           ![w].todo = binned, ![w].victim = first]
      BY DEF RecycleBinClear
<1>2. binned \subseteq FileIDs /\ first \in FileIDs
      BY <1>0 DEF RepositoryTypeOK
<1> HIDE DEF binned
<1> DEFINE r == [req[w] EXCEPT !.op = "clear", !.pc = "select", !.todo = binned,
                               !.victim = first]
<1>3. req' = [req EXCEPT ![w] = r]
      BY <1>1
<1>4. r \in Request
      BY <1>0, <1>2 DEF Request, Steps, Operations
<1>5. Filled(r)
      BY <1>0, <1>2, RepositoryAssumption DEF Request, Filled, Folder
<1> HIDE DEF r
<1> QED BY <1>3, <1>4, <1>5, QuietRequestStep DEF RecycleBinClear
-----------------------------------------------------------------------------
(***************************************************************************)
(* Type correctness of the goroutines, the clients and the failures.       *)
(***************************************************************************)
LEMMA BackgroundDeleteType ==
    ASSUME Typed, NEW f \in FileIDs, BackgroundDelete(f)
    PROVE  Typed'
<1>1. StorageTypeOK'
      BY TypedParts DEF BackgroundDelete, DeleteObject, Drop, StorageTypeOK, bucket
<1>2. RequestsFilled' /\ req' \in [Workers -> Request]
      BY DEF BackgroundDelete, Typed, TypeOK, ServiceTypeOK, RequestsFilled
<1> QED BY <1>1, <1>2, TypedParts, TablesUnchanged, TypedFromParts DEF BackgroundDelete

LEMMA PostCompleteMarkPartType ==
    ASSUME Typed, NEW p \in postings, PostCompleteMarkPart(p)
    PROVE  Typed'
<1>0. RepositoryTypeOK /\ StorageTypeOK /\ p \in Posting /\ postings \subseteq Posting
      BY TypedParts
<1>1. PICK n \in p.numbers :
        /\ postings' = (postings \ {p}) \cup {[p EXCEPT !.numbers = @ \ {n}]}
        /\ MarkUploadPartUploaded(p.file, n) \/ UNCHANGED tables
      BY DEF PostCompleteMarkPart
<1>2. [p EXCEPT !.numbers = @ \ {n}] \in Posting
      BY <1>0 DEF Posting
<1>3. n \in PartNo /\ p.file \in FileIDs
      BY <1>0 DEF Posting
<1>4. RepositoryTypeOK'
      BY <1>0, <1>1, <1>3 DEF MarkUploadPartUploaded, RepositoryTypeOK, tables
<1>5. RequestsFilled' /\ req' \in [Workers -> Request]
      BY DEF PostCompleteMarkPart, Typed, TypeOK, ServiceTypeOK, RequestsFilled
<1> QED BY <1>0, <1>1, <1>2, <1>4, <1>5, TypedParts, BucketUnchanged, TypedFromParts
        DEF PostCompleteMarkPart

LEMMA PostCompleteHashType ==
    ASSUME Typed, NEW p \in postings, PostCompleteHash(p)
    PROVE  Typed'
<1>0. StorageTypeOK /\ p \in Posting /\ postings \subseteq Posting
      BY TypedParts
<1>1. \/ postings' = postings \ {p}
      \/ /\ p.file \in DOMAIN objects
         /\ postings' = (postings \ {p}) \cup {[p EXCEPT !.hash = objects[p.file]]}
      BY DEF PostCompleteHash
<1>2. ASSUME p.file \in DOMAIN objects
      PROVE  [p EXCEPT !.hash = objects[p.file]] \in Posting
      <2>1. objects[p.file] \in Content
            BY <1>0, <1>2 DEF StorageTypeOK
      <2> QED BY <1>0, <2>1 DEF Posting
<1>3. postings' \subseteq Posting
      BY <1>0, <1>1, <1>2
<1>4. RequestsFilled' /\ req' \in [Workers -> Request]
      BY DEF PostCompleteHash, Typed, TypeOK, ServiceTypeOK, RequestsFilled
<1> QED BY <1>3, <1>4, TypedParts, TablesUnchanged, BucketUnchanged, TypedFromParts
        DEF PostCompleteHash

LEMMA PostCompleteUpdateType ==
    ASSUME Typed, NEW p \in postings, PostCompleteUpdate(p)
    PROVE  Typed'
<1>0. RepositoryTypeOK /\ p.file \in FileIDs /\ p.hash \in {NULL} \cup Content
      BY TypedParts DEF Posting
<1>1. RepositoryTypeOK'
      BY <1>0, UpdateEntryHashType, TablesUnchanged DEF PostCompleteUpdate
<1>2. RequestsFilled' /\ req' \in [Workers -> Request]
      BY DEF PostCompleteUpdate, Typed, TypeOK, ServiceTypeOK, RequestsFilled
<1> QED BY <1>1, <1>2, TypedParts, BucketUnchanged, TypedFromParts DEF PostCompleteUpdate

LEMMA ClientType ==
    ASSUME Typed, Client
    PROVE  Typed'
<1>0. StorageTypeOK
      BY TypedParts
<1>1. StorageTypeOK'
      <2>1. ASSUME NEW f \in FileIDs, NEW c \in Blobs, ClientPutObject(f, c)
            PROVE  StorageTypeOK'
            BY <1>0, <2>1 DEF ClientPutObject, Put, StorageTypeOK, Content
      <2>2. ASSUME NEW f \in FileIDs, NEW n \in PartNo, ClientUploadPart(f, n)
            PROVE  StorageTypeOK'
            BY <1>0, <2>2 DEF ClientUploadPart, StorageTypeOK, IsOpen
      <2> QED BY <2>1, <2>2 DEF Client
<1>2. RequestsFilled' /\ req' \in [Workers -> Request]
      BY DEF Client, Typed, TypeOK, ServiceTypeOK, RequestsFilled
<1> QED BY <1>1, <1>2, TypedParts, TablesUnchanged, TypedFromParts DEF Client

LEMMA CallFailsType ==
    ASSUME Typed, NEW w \in Workers, CallFails(w)
    PROVE  Typed'
<1>0. RequestsFilled /\ req[w] \in Request /\ Filled(req[w])
      BY TypedParts, RequestOf
<1>1. CASE Finish(w)
      BY <1>1, QuietFinish DEF CallFails
<1>2. CASE req[w].pc = "persist" /\ Goto(w, "abort")
      <2>1. Filled([req[w] EXCEPT !.pc = "abort"])
            BY <1>0, <1>2 DEF Request, Filled
      <2> QED BY <1>0, <1>2, <2>1, GotoStep, QuietStep DEF CallFails, Steps
<1> QED BY <1>1, <1>2 DEF CallFails

LEMMA CrashType ==
    ASSUME Typed, Crash
    PROVE  Typed'
<1>1. RequestsFilled' /\ req' \in [Workers -> Request]
      BY IdleIsGood DEF Crash, RequestsFilled, GoodRequest
<1> QED BY <1>1, TypedParts, TablesUnchanged, BucketUnchanged, TypedFromParts DEF Crash

-----------------------------------------------------------------------------
(***************************************************************************)
(* The theorem.                                                            *)
(***************************************************************************)
LEMMA InitTyped ==
    ASSUME Init
    PROVE  Typed
<1>1. RepositoryTypeOK
      BY RepositoryAssumption DEF Init, ServiceInit, RepositoryInit, RepositoryTypeOK, Empty
<1>2. StorageTypeOK
      BY DEF Init, ServiceInit, StorageInit, StorageTypeOK, Empty
<1>3. RequestsFilled /\ req \in [Workers -> Request]
      BY IdleIsGood DEF Init, ServiceInit, RequestsFilled, GoodRequest
<1> QED BY <1>1, <1>2, <1>3, RepositoryAssumption
        DEF Init, ServiceInit, Typed, TypeOK, ServiceTypeOK

LEMMA StepTyped ==
    ASSUME Typed, [Next]_vars
    PROVE  Typed'
<1>1. CASE UNCHANGED vars
      BY <1>1 DEF vars, Local, tables, bucket, Typed, TypeOK, ServiceTypeOK,
                  RepositoryTypeOK, StorageTypeOK, RequestsFilled
<1>2. ASSUME NEW w \in Workers, Shared(w)
      PROVE  Typed'
      BY <1>2, LookupNameType, CleanupStaleUploadEntryType, SelectTreeType, PurgeTreeType
         DEF Shared
<1>3. ASSUME NEW w \in Workers, UploadNext(w)
      PROVE  Typed'
      BY <1>3, CreateWithFoldersType, CreateFolderEntryType, PrepareUploadType,
         PersistUploadType, AbortUploadType, GetUploadURLType, UrlReadSessionType,
         UrlEnsurePartsType, UrlRaisePartCountType, CompleteFileType, CompleteReadEntryType,
         CollectCompletedPartsType, CombinePartsType, PublishFileType
         DEF UploadNext
<1>4. ASSUME NEW w \in Workers, ManageNext(w)
      PROVE  Typed'
      BY <1>4, DeleteFileType, UpdateType, UpdateApplyType, MoveFileType, MoveFolderType,
         MoveReadsType, MoveApplyType
         DEF ManageNext
<1>5. ASSUME NEW w \in Workers, RecycleNext(w)
      PROVE  Typed'
      BY <1>5, RecycleBinTrashType, TrashApplyType, RecycleBinRestoreType,
         RestoreReadParentType, RestoreApplyType, RecycleBinClearType
         DEF RecycleNext
<1>6. ASSUME NEW p \in postings, PostComplete(p)
      PROVE  Typed'
      BY <1>6, PostCompleteMarkPartType, PostCompleteHashType, PostCompleteUpdateType
         DEF PostComplete
<1> QED BY <1>1, <1>2, <1>3, <1>4, <1>5, <1>6, CallFailsType, BackgroundDeleteType,
           ClientType, CrashType
        DEF Next

(* Every variable keeps its type, and a step never uses a field its        *)
(* request has not filled in: a part count is a possible part number, a    *)
(* row has the columns its table declares, whatever the requests do to it. *)
THEOREM TypeCorrect == Spec => []TypeOK
<1>1. Init => Typed
      BY InitTyped
<1>2. Typed /\ [Next]_vars => Typed'
      BY StepTyped
<1>3. Typed => TypeOK
      BY DEF Typed
<1> QED BY <1>1, <1>2, <1>3, PTL DEF Spec
=============================================================================
