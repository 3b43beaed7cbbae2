# molly-server: verification

TLA+ models of the upload service and of the file application of molly-server, the TLC runs that check
them on small instances, and theorems about them that TLAPS checks for every value of the constants.

## 1. The system

The repository holds two applications that share configuration, the ORM and an S3 client.

**The upload service** (`internal/upload`, `pkg/objectstorage`) is the program's core: a drive of
files and folders in Postgres whose contents are objects in an S3 bucket that clients reach
directly through presigned URLs. **The file application** (`internal/application`, the older one,
`internal/domain`, `internal/infrastructure`, `internal/presentation`, `internal/task`, `pkg/cache`)
keeps files on the local disk, with chunked upload, instant upload of content it has already, a recycle
table and a quota per user. The two share no state.

| component | state | operations | interacts with | what is hard |
|---|---|---|---|---|
| Upload: create, sign, complete (`upload.go`, `helpers.go`) | none of its own | CreateWithFolders, GetUploadURL, CompleteFile | repository, object storage; starts the goroutines of schedulePostCompleteProcessing | five or more calls per request with nothing locked in between; storage and database cannot commit together; completion races re-creation of the same name |
| Upload: manage (`manage.go`) | none | DeleteFile, Update, MoveFile, MoveFolder | repository; scheduleObjectDeletion | checks on rows read earlier; a tree changed by others while its shape is checked |
| Upload: recycle bin (`recycle.go`) | none (the bin is a `parent_file_id`) | RecycleBinTrash, RecycleBinRestore, RecycleBinClear | repository; scheduleObjectDeletion | restoring into folders that are gone or in the bin; clearing a list while it is being restored |
| Upload repository | tables `entries`, `upload_sessions`, `upload_parts` | one statement or transaction per operation | Postgres | recursive deletes at READ COMMITTED; the unique index on (drive, parent, name) decides races |
| Object storage client | objects, open multipart uploads, presigned URLs (in S3) | create, presign, list, complete, abort, delete | S3, clients | a URL outlives what it was signed for; each call may fail on its own |
| Upload: read handlers, batch | none | search, list, path, size, access, batch | the operations above | which entries are shown (`isVisibleEntry`) |
| Files and chunked upload (`application/file/usecase.go`) | file_info, user_files, upload_tasks, virtual_paths; physical files, chunk files; merge locks in memory | Precheck, instant upload, UploadChunk and its merge, tasks, folders, MoveFile | disk, cache, database; the recycle bin | database, disk and cache cannot commit together; chunks arrive at once, twice, late |
| Recycle bin and quota (`application/recycled/usecase.go`) | recycled, users.free_space | MoveToRecycled, Restore, DeletePermanently, Empty, CleanExpired | files, users | references are counted, and quota is changed, by read and later write |
| Cache (`pkg/cache/memory.go`) | map with expiry | Get, Set, Delete, cleanup loop | file application | lazy deletion under a second lock |
| Periodic cleanup (`internal/task`) | none | RecycledCleanup, UploadCleanup | recycle bin, tasks | runs beside requests; rows go, files stay |
| Users and sessions | users, cached tokens | Register, Login, Logout, renewToken | cache, JWT | not modelled: section 7 |
| HTTP handlers, routing, start-up, logging, RSA/password helpers, generated ORM | none | - | - | not modelled: no state of their own |

What makes each correct: *uploads* – a file is shown only when its object is complete, each name has
one entry, a completed file goes only on request; *manage and bin* – folders form a tree, nothing
is destroyed outside the bin, nothing is lost under a folder; *repository and storage* – entry,
session and object go together, and no late deletion takes a live object; *file application* – one merge per upload,
no upload left over with all its chunks, content stays as long as somebody sees it, what is in the bin can
be found there, free space is never negative; *cache and cleanup* – only what has expired goes.

## 2. Modules

### The upload service

```
Library                     the abstract specification
   ^ implemented by
Drive  = Upload + Manage + Recycle         handlers, goroutines, clients, properties
            \      |      /
             Service                       requests in flight, name resolution, tree deletion, goroutines
                |
           ObjectStorage                   bucket and presigned URLs
                |
            Repository                     tables and statements (over Tables: partial functions)
MCDrive extends Drive (values of the constants)
DriveTypes extends Drive; DriveProofs extends DriveTypes; DriveRefinement extends DriveProofs (theorems and proofs)
```

**Repository**: `entries`, `sessions`, `parts`, one operator per statement or transaction of
`repository.go`. A request draws `file_id`, `revision_id`, `upload_id` and hence the object key together,
so one identifier stands for the four. Nothing of the service reads `upload_parts`, so `parts` is the
set of its keys. `DeleteEntryTree` keeps the code's two recursive queries apart: sessions and parts
go by the first selection, entries by the second. `Looping` says where the `UNION ALL` recursion does
not end. Names are a base and the candidate numbers appended to it: `appendNameSuffix` on `a` gives
`a` with tag 1; that two bases could meet that way (a client that itself sends `a(1)`) is left out,
the unique index treats such a case like any other taken name.

**ObjectStorage**: `objects`, `multiparts`, `urls`, the calls of `pkg/objectstorage/client.go` that the
service makes, and a client's use of its URLs at any time, also after completion or deletion.

**Service**: `req[w]` is the request in flight of worker `w`. Its field `pc` names the *next call* to
Postgres or S3; the code between two calls touches only local variables, so it belongs to the step
before it. Everything may happen between two calls. Parameters that a handler only uses later are
chosen where they are used. A request whose first read fails changes nothing and is no step.
`LookupName` and `CleanupStaleUploadEntry` are `resolveEntryName` and the first half of
`cleanupStaleUploadEntry`; `SelectTree` and `PurgeTree` are the two halves of `DeleteEntryTree`,
followed by `scheduleObjectDeletion`, and are used by name resolution, DeleteFile and
RecycleBinClear alike. `deletions` and `postings` are the goroutines that outlive a request.
`CallFails` ends a request at any call, `Crash` ends all requests and goroutines and keeps the tables
and the bucket; the code has no recovery, and neither has the model. A failing call has had no effect,
or it has had its effect and only its answer is lost. The second case needs a step of its own where the
handler's error path differs from an end of the request after that call: when the commit of
CreateFileWithUpload is in doubt, the handler aborts the multipart upload under the entry it may have made
(`PersistUpload`), and when that of DeleteEntryTree is, no object key is handed over (`PurgeTree`).
Everywhere else it is the call followed by `CallFails` at the next one (CombineParts, then PublishFile
not reached; the part count raised, then no URL signed), or the last write of a request whose client is told of an error.

**Upload, Manage, Recycle**: one action per call of each handler; the map in `PROJECT.json` names the
lines. **Drive** composes them and states the properties. **Library** is what a user of the drive may
rely on: an entry is fresh, reserved, filed, gone, in this order and once; each place (parent, name)
holds one entry; what is visible stays visible until it is gone. Drive implements it (`Lib`).

### The file application

```
Shelf                       the abstract specification
   ^ implemented by
FileApp = FileUpload + RecycledFiles       Next, failures, clock, properties
              \         /
             FileRequests                  requests in flight, merge locks
              /         \
        FileStore     MemoryCache          tables, statements, files | map with expiry
              \         /
                Tables                     partial functions
MCFileApp extends FileApp (values of the constants)
FileAppTypes -> FileAppProofs -> FileQuotaProofs, FileContentProofs, FileExpiryProofs (theorems and proofs)
```

**FileStore**: `db` is the record of the tables, with one operator per statement of
`internal/infrastructure/persistence`; `disk` and `temp` are the files under `StoragePath`. A file is
known by its *content*, which stands for its chunk signature, size and chunk hashes; its size is one
unit of quota. A row of file_info and the physical file it names share an identifier. What a file holds is
`"Whole"`, `"Half"`, or the worker that is writing it: a file that `os.Create` has cut to nothing is there for
`os.Stat`, `os.Open` and `os.Rename` from that moment on. Chunk indices are 0 to `Chunks` - 1 and totals at
most `Chunks`: any other index (negative, or larger) is counted and merged by nobody, as is index 1 by a request that states
total 1, and a larger total is never reached, as is total 2 while index 1 is not sent. Keys are 1, 2, ... in the order they are drawn.

**MemoryCache**: `items` and `clock`. Get releases the read lock between the look-up and the removal of
an entry it found expired, so those are two steps (`UploadChunkLate`, `EvictPrecheck`); Set, Delete and a
round of `cleanupLoop` are one each. It holds the precheck entries, by task.

**FileRequests**: `req[w]` is what worker `w` is doing: a request, or a round of a background job. A
step is *one* statement, cache access or file operation; between two steps everything else may happen,
and what a handler has read stays in its request (`free`, `expires`, `uploaded`, `todo`, ...). Writes that
put back a whole row put back what was read. A request that only reads, or is refused at its first read,
is no step; a check that the caller owns an immutable row is folded into the choice of the row.

**FileUpload**: Precheck with `tryInstantUpload` and its rollback; UploadChunk for a chunk and for a
whole file (`handleChunk`, `handleSingleFile`). The index and the `total_chunks` of a chunk come with each
request and are compared with nothing; `Totals` are the values clients state, and a request counts and merges by its
own (`total`). Zero stands for every total that is not positive: such a request merges at once, an empty file. `countChunks`, `updateTaskProgress`, the merge lock and
`mergeAndSave`, chunk by chunk; RenewUploadTask, DeleteUploadTask and a round of UploadCleanup; MakeDir,
DeleteDir, MoveFile. **RecycledFiles**: MoveToRecycled, Restore, and `permanentlyDelete` statement by
statement for the lists of DeletePermanently, Empty and CleanExpired. **FileApp** composes them.

**Shelf** is what its users may rely on without knowing of requests, chunks and records: a file is kept once and removed once; the
catalogue takes in only what is kept; a link is made once, hidden, shown again and erased for good, and always leads to the
same file. FileApp implements it (`TheShelf`): files and links are the keys drawn so far, what is kept is what is on the disk, the
catalogue is file_info, a link is a row of user_files, and it is shown while it is not soft-deleted. Its `CarefulSpec` adds
that what is linked is in the catalogue and that nothing shown loses its file. Not part of it, because the code
does not keep it: that a link which is shown cannot be erased (finding 6), that what is hidden keeps its file (finding 5), that what
is kept is whole (finding 4), and what the quota adds up to (hazard at `recycled/usecase.go:319`).

`CallFails` ends a call with an error and takes the handler's error path, whatever it is: rollback, log and
go on, mark the task failed, give up. `Crash` ends every request, drops cache and merge locks, keeps tables
and files, and leaves what was being written half-written. A statement that fails is taken to have had no
effect: these are single statements outside of any transaction, and that one of them is carried out and reported as failed
is left out, in the runs and in the theorems alike. `Ticking` is the clock, the cache's loop and
UploadCleanup.

Simplifications, each at its place in the modules: `countChunks`, which calls `os.Stat` chunk by chunk,
is one step (files only appear until the merge, so what a longer count would miss, a later count
finds); the lists are purged in any order (the code takes the newest first); CleanExpired takes the records up to any one of them, since
which are old enough depends on a configured number of days; `CacheTTL` = 1 and `TaskTTL` = 2 keep the order of
twelve hours and days; time stands still between CreateTask and the `Cache.Set` after it.

## 3. Runs

Deadlock checking is off everywhere: a model stops when its identifiers are used up and no request is in
flight, as the service does when nobody calls it.

### The upload service (`MCDrive`)

| run | instance | shows |
|---|---|---|
| `upload_two_workers` | 2 requests at a time, 2 files, 1 name; create (mode refuse), url, complete; multipart uploads with the parts a client lists being {1} or {2}; failing calls and crashes; symmetry; 480,796 states | ObjectBehindFile, DeletionsAreDead, NoGapInObject, FileHasSession, ImplementsLibrary under every interleaving of creations, signing, completion, stale-upload cleanup and late object deletion |
| `one_worker` | 1 request at a time beside all goroutines; every operation; 2 entries, 2 names; every check_name_mode; single PUT and multipart, refused sizes and part numbers; 757,387 states | TypeOK, FileHasSession, NoOrphan, CompletedFileIsKept, OnlyBinnedIsDestroyed, LoopsComeFromTheBin, DeletionIsScheduled, ImplementsLibrary over sequences of calls |
| `liveness` | 1 request at a time, fairness, no faults; create, complete, trash, delete, clear; 8,993 states | RequestsEnd, HashIsRecorded, DeletedObjectGoes |
| `folder_into_itself` | finding 1 | Acyclic fails |
| `folders_into_each_other` | finding 7; 2 requests, MoveFolder only, a drive with two folders | Acyclic fails |
| `restored_entry_deleted` | finding 2 | OnlyBinnedIsDestroyed fails |
| `completed_file_deleted` | finding 3 | CompletedFileIsKept fails |

**Bounds.** `FileIDs` bounds the creations (`IdLeft`: a request starts only while an identifier is left
for it); identifiers are never reused, so a bound on them bounds behaviours and not the state of an
entry. Two entries are enough for one to be in the other's way, above or below the other, and two
folders for a loop. `MaxPart` = 2 tells the number of parts from the largest part number: a client that lists
only part 2 gets a session that counts one part, and GetUploadURL raises it to two. `MaxRename` stands
for 9999: with 1 the loop is entered, continued and given up. `Workers` = 2: every race in the hazard
list is between two requests, or a request and a goroutine. `SinglePutMaxSize` = 1 puts a size on each
side of the limit, and -1 is refused. `Blobs` is empty: a client's PUT on an object URL is not needed to
reach the states the runs ask about, and the theorems cover it.

**Fairness** (`FairSpec`): weak fairness of each request that has begun (the Go scheduler runs every
goroutine and each call has a deadline), of each pending object deletion and of the goroutines after
completion. None for clients: nobody has to send a request or upload a part. Liveness is stated
without faults, because it does not hold with them: a crash, or a DeleteObject that fails (it is
logged and dropped), leaves an object in the bucket for good. DeletionIsScheduled is run and proved
without faults for a like reason: a DeleteEntryTree that commits and reports an error leaves rows gone and
objects nobody deletes. `one_worker` is therefore free of faults; `upload_two_workers` has them.

**One request at a time.** FileHasSession, NoOrphan, CompletedFileIsKept, OnlyBinnedIsDestroyed, LoopsComeFromTheBin
and DeletionIsScheduled need it, except where the upload run shows otherwise. With two
requests and folders they fail, because the handlers decide on rows read earlier: the findings are
such cases, and so is a file that enters a folder between the two queries of DeleteEntryTree (its
entry goes, its session stays, its object is never deleted). No passing run has a move or a client's
deletion beside another request; section 5 says for which operations the properties hold with any number of
requests. ObjectBehindFile, DeletionsAreDead and NoGapInObject need no such restriction.

### The file application (`MCFileApp`)

| run | instance | shows |
|---|---|---|
| `file_app_two_workers` | 2 requests at a time, one file of 2 chunks under one precheck, quota for one file; precheck, chunk, trash, restore, purge; each chunk request with index 0 or 1 and a total of 0 or 2, as it likes; 2 files, 1 user file, 2 records; no failures; symmetry; 939,425 states | TypeOK (no merge copies more chunks than its request stated), MergeLock, NoStrandedUpload, TrashedHasRecord, LiveRequestKept, ImplementsShelf under every interleaving of chunks, merge, cache expiry and the bin, although requests of one upload disagree about its chunks |
| `file_app_one_worker` | 1 request or job at a time; every operation; file of 1 chunk (stated as 1 or 0) or in one piece; 2 user files of one content, 1 record, 2 folders, the clock past both expiries; one failing call or crash; 761,433 states | TypeOK, MergeLock, FreeNeverNegative, LiveTaskKept, LiveRequestKept, ReferencedContentStays, RestoredIntoDir, CompletedHasFile, ImplementsCarefulShelf on every error path |
| `half_written_chunk_merged` | finding 4; 2 requests, precheck and chunk | MergedIsWhole fails |
| `restored_without_content` | finding 5; 1 request at a time | ActiveHasContent fails |
| `active_file_destroyed` | finding 6; 1 request at a time | ActiveIsKept fails |

**Bounds.** `Limit` says how many keys of each kind there are; a step that draws one waits for ever when they
are used up. One task is one upload, and everything about merging is about the chunks of one upload; two
chunks make "the last two arrive together" possible, and each may be sent again and again. One
content, but two user files of it, is what sharing a physical file needs, and is in the run of one request at a time; two records, with two requests at a time,
are an old and a new one for the same user file. Two folders are a root and one in it, or two roots. `MaxTime` = 1 makes the precheck expire,
2 the task. `MaxFailures` = 1: one call that fails, or one crash, at any point of any behaviour; the second worker
stands for what a second failure would leave behind. One user: rows of other users are chosen by no request,
and content is shared between two user files of one user as between two users.

**Which properties need what.** ReferencedContentStays, RestoredIntoDir, CompletedHasFile and ImplementsCarefulShelf are
checked for one request or job at a time. With two they fail, and the hazard list says where: an instant upload
takes up a file between the count of its references and the unlink; a folder goes between the look-up and the
restore; a file is trashed and purged between the link of a merge and its status. TrashedHasRecord is checked without failures, as MoveToRecycled has no transaction: an
insert that fails leaves a soft-deleted file that no list shows. NoStrandedUpload is about an upload with all the chunks there are,
whatever numbers up to that its requests state; nobody states more, because the chunks would then wait for others that never come, and that is
what the client asked for. MergeLock, FreeNeverNegative, LiveRequestKept, LiveTaskKept and ImplementsShelf need
neither restriction (section 5); LiveTaskKept is run with one worker because the operations on tasks are, FreeNeverNegative
because it needs two user files.

No liveness is stated here: a client may stop between two chunks, and what is to happen then is that
the task expires, which is the safety property LiveTaskKept. NoStrandedUpload says the part of progress that the
code is responsible for: an upload that has all its chunks is being worked on.

## 4. Findings

1. `folder_into_itself`: once a folder is in the recycle bin, `isDescendantOrSelf` no longer knows it
   (`loadFolderNodes` drops every folder whose path does not reach the root) and MoveFolder moves it
   below itself. DeleteEntryTree and GetSubtreeStats do not end on such a loop.
2. `restored_entry_deleted`: DeleteFile tests that the entry it read is in the bin; DeleteEntryTree does
   not test again. An entry restored in between is destroyed.
3. `completed_file_deleted`: cleanupStaleUploadEntry reads the session status and deletes afterwards; a
   CompleteFile in between is acknowledged, and its file destroyed, even in refuse mode.
4. `half_written_chunk_merged`: "all chunks have arrived" is what `countChunks` concludes from `os.Stat`, which
   finds a chunk as soon as `os.Create` has made it. With two chunks in flight the first to finish can count
   the other, merge the part of it that is written, and publish the file as completed.
5. `restored_without_content`: `permanentlyDelete` keeps content that an *active* user file refers to. A second
   user file in the bin does not count: its content goes with the first, and Restore brings back a file without it.
6. `active_file_destroyed`: MoveToRecycled soft-deletes a file that is soft-deleted already and writes a second
   record. After Restore by the one record, the other still lets the bin destroy the file.
7. `folders_into_each_other`: MoveFolder checks on folders it has loaded and writes later, with nothing locked. Two of
   them, A into B and B into A, both pass and both write: the same loop as in finding 1, with nothing trashed.

## 5. Proofs

### The upload service

The theorems hold for any finite or infinite set of workers, any identifiers, names,
blobs, part bound, seed folders, and with or without faults unless the statement says `~Faults`. They assume `RepositoryAssumption`,
`ServiceAssumption` and `UploadAssumption` (TLC evaluates them on each run) and nothing else.

* `TypeCorrect`: `Spec => []TypeOK`. TypeOK is not inductive: at a call a handler uses what an earlier
  one put into the request (an entry read, a part list, a victim), so the invariant `Typed` adds
  `RequestsFilled`: at each `pc` the fields used from there on are filled in.
* `DeletionsStayDead`: `Spec => []DeletionsAreDead`. A session appears only in PersistUpload, for the
  identifier the request drew. `PendingIsFresh` says that until then this identifier is in no table, in
  no request's selection and in no goroutine; `MintedOnly` says that nothing refers to an identifier
  never drawn, which makes a drawn one fresh. PurgeTree drops the sessions it hands over. So nothing
  that waits for deletion has a session, then or later.
* `PublishedHasObject`: `Spec => []ObjectBehindFile`. CombineParts makes the object before the request can
  reach PublishFile (`PublishHasObject`, which holds only while the session is there, since another
  request may delete the file in between). `KindIsKnown` says that a request that took a session for a
  single PUT is right for good: `chunked` never changes, and the part count is raised only by a
  request that took the session for a multipart upload. The only action that
  removes objects works on `deletions`, which `DeletionsAreDead` keeps apart from sessions.

The inductive invariant of the last two is the conjunction `IInv`; the proof has a lemma per action (`...Type`,
`...Safe`), and two frame lemmas for actions that leave tables or bucket alone.

* `PublishedHasNoGap`: `Spec => []NoGapInObject`, from `GapInv`, which adds to IInv what an object is made of.
  `CountedParts`: a request completes parts 1..k with k at most what the session counts, and the count only grows, so a
  GetUploadURL that raises it in between does no harm. `PutIsSingle`: a URL that puts a whole object exists for a
  single PUT upload only, so no client can overwrite what CombineParts made; that needs `KeyIsFresh` (nothing is in
  the bucket, and nothing signed, under the key of a pending creation) and `ChunksHaveParts`.

* `OneAtATimeImplements`, `NothingMovedImplements` (`DriveRefinement`): `Spec => ImplementsLibrary`, with every
  operation when one request runs at a time, and with any number of requests when none moves, trashes or
  restores. Each step is shown to be one step of Library or none: `LifeOf` needs `PendingIsFresh` and
  `MintedOnly`, places are distinct by the unique index. One step breaks the promise in general:
  DeleteEntryTree drops the sessions it selected and the entries it finds below the victim later, so a file that
  was moved out of the tree in between stays without a session and vanishes from every listing. `Selected` excludes
  exactly that, `Refinement` proves the rest from it for any number of requests of any kind, and `SelectedHolds`
  proves Selected under either of these assumptions: a subtree keeps its members when entries are added or
  removed elsewhere (`TreesKept`), although `Below` is a least fixed point (`BelowClosed`).

* `FilesHaveSessions`, `NoEntryIsOrphaned`, `CompletedFilesAreKept`, `OnlyTheBinIsEmptied`, `DeletionsAreScheduled`
  (`DriveRefinement`): FileHasSession, NoOrphan, CompletedFileIsKept, OnlyBinnedIsDestroyed and
  DeletionIsScheduled, with one request at a time (`OneWorker`) beside every goroutine, failing call and crash;
  `DeletionsAreScheduled` alone needs `~Faults`, because a DeleteEntryTree that commits and reports an error hands nothing over.
  `SingleInv` says what such a request may rely on between two calls (`Sound`): the folder it will write into is there
  (`NamesFolder`), although name resolution deletes a tree in that very folder on the way; this tree does not hold the
  folder, or it would loop and the first query would not have returned. What is deleted for a stale upload is a file, hence has nothing
  below it (`ClearsTheWay`, `FileIsLeaf`); what DeleteFile and RecycleBinClear delete stays in the bin until
  they do (`DeletesBinned`); and the files selected are those deleted (`Exact`). `RepositoryAssumption` says for this
  that the seed folders lie in the root, the bin or one another.

* `OnlyTheBinLoops` (`DriveRefinement`): `OneWorker` gives `Spec => LoopsComeFromTheBin`, with failing calls and crashes: the
  first loop is made of folders below the bin. `MovingInv` adds to `SingleInv` that what MoveFolder found when it
  checked is still true when it writes, and that what is restored is still in the bin (`Moving`). The check
  climbs over folders outside the bin; if it misses that the target lies below the folder, the target lies below the bin, and so does the
  folder, because of two that lie above one entry one lies above the other (`BelowBoth`). Hanging an entry under one that is not
  below it makes no loop (`RefiledAcyclic`), and one of the bin under its own tree makes a loop of that tree only
  (`RefiledInside`). Once there is a loop, MoveFolder may add folders to it that were never in the bin (the climb over a loop may
  end early), so the property speaks of the first.
* `NoFolderLoops` (`DriveRefinement`): `Spec => []Acyclic` with one request at a time, from a drive without loops
  (`SeedHasNoLoop`) in which nothing is trashed (`NothingTrashed`). The bin stays empty (`BinEmpty`), so nothing is below it,
  and `StepLoops` leaves no folder to loop. With trashed folders the property is false even for one request: finding 1.
  No passing run checks Acyclic itself; `one_worker` checks LoopsComeFromTheBin, from which it follows here.

* `StaleCleanupKeepsSessions`, `StaleCleanupOrphansNothing`, `StaleCleanupSchedules`, `StaleCleanupImplements` (end of
  `DriveRefinement`): FileHasSession, NoOrphan, DeletionIsScheduled and ImplementsLibrary for **any** number of requests
  that create, sign, complete, rename, move, trash and restore, with failing calls and crashes (but for
  `StaleCleanupSchedules`, which needs `~Faults` as above), as long as no client deletes, clears
  or overwrites (`OnlyStaleGo`). What is deleted then are stale uploads, by requests that want their names. The
  inductive invariant `StaleInv` adds to IInv the two invariants and what each request relies on:
  its folder is there (`Standing`), because no folder ever goes, and what it deletes is a minted identifier
  that is no folder (`TakesUpload`), so it has nothing below it and goes alone, also when two requests clean
  up the same upload or it was moved or completed meanwhile. `Kept` is what every step leaves true for the
  requests that wait. Next to NothingMovedImplements this says what it takes to break the promise of Library: one request that
  moves, trashes or restores and another that deletes, clears or overwrites. CompletedFileIsKept is not among the four:
  a stale upload may be completed while it is being cleaned up (finding `completed_file_deleted`).

**Only model-checked**: liveness, which is out of the prover's reach with fairness and ENABLED.

### The file application

The theorems hold for any workers, users and contents, every number of chunks, every quota and every bound
on keys, time and failures. They assume `FileStoreAssumption`, `MemoryCacheAssumption` and
`FileRequestsAssumption` (TLC evaluates them on each run). Where a theorem needs more, its statement says so, by `OneWorker`
(one request or job at a time, beside failing calls and crashes) or by `NothingFails` (any number of requests and jobs,
`MaxFailures = 0`: no call fails and the process does not end). Under the other condition each of these properties is
false, for the reason given with it: the condition is the one thing the code relies on without ensuring it.

* `TypeCorrect` (`FileAppTypes`): `Spec => []TypeOK`. Most fields of a request may be NULL; `RequestsFilled` says which are
  not at which step, so that no statement is given a NULL key. TypeOK bounds the chunks merged by the total of the request,
  for any set of totals that requests of one upload may state. It also separates the requests that came with a
  chunk from those that came with a whole file, which share steps.
* `MergeLockHolds` (`FileAppProofs`): `Spec => []MergeLock`, with any number of workers, failures and crashes. One
  control lemma per action (`...Moves`) says from which step to which it goes; those that stay outside the merge
  leave the lock alone (`OutsideStep`), those within keep task and part (`InsideStep`), LockMerge enters with a lock
  nobody holds, UnlockMerge leaves and takes away the lock of its task, which no other request is merging. The
  error paths of `updateTaskProgress`, which is called inside and outside the merge, are where the set of steps
  alone does not tell who holds the lock, and the status the request carries does.
* `FreeNeverNegativeHolds` (`FileQuotaProofs`): `Spec => []FreeNeverNegative`. It holds although updates are lost: the invariant
  `QuotaInv` says what each request *read* (`ReadEnough`: at least one unit between Precheck's check and the
  deduction, not below zero in returnSpace), and what is written is that number less or plus one; what the others wrote
  meanwhile does not matter.
* `ReferencedContentStaysHolds` (`FileContentProofs`): with one worker (`OneWorker`), nothing leaves the disk while an active user
  file refers to it. `CountIsRight`: from the count of references to the unlink it is still true that there is none. This
  is where a second worker breaks it.
* `LiveRequestKeptHolds`, `LiveTaskKeptHolds` (`FileExpiryProofs`): `Spec => LiveRequestKept` and `Spec => LiveTaskKept`, with
  any number of workers, failures and crashes. The invariant `ExpiryInv` says that a task outlives the precheck
  entry of its upload (`TaskOutlives`), also by the `expires_at` a request has read and will write back
  (`WritesLater`): a progress write may undo a renewal, but never puts the expiry before that of the entry. What Get found expired is
  expired when it deletes the key (`EvictsExpired`), because a new entry is only for a new task; for the same
  reason a Precheck between CreateTask and the `Cache.Set` after it has its task to itself, but for a client's delete
  (`NewTask`). `LinkedWhenDone` leaves the end of the upload as the one way in which a live entry goes.

* `TrashedHasRecordHolds` (`FileContentProofs`): `NothingFails` gives `Spec => []TrashedHasRecord`. Moving to the bin and
  recording it are two statements of two calls, and Restore and permanentlyDelete remove the record in a statement after
  the one that changes the file; `BinInv` says that a record which some request is about to remove (`Stays`) is never the
  one a trashed file is found by (`Found`). That needs identifiers of records never to come back (`KnownRow`) and each request
  to work on the file that its record names (`Handles`). A write that fails after the file was trashed leaves it without a
  record for good.
* `NoStrandedUploadHolds` (`FileExpiryProofs`): `NothingFails` gives `Spec => []NoStrandedUpload`, the race of the last two
  chunks, whatever totals in 0..Chunks the requests state. `StrandInv` names who takes care of an upload whose chunks are all there (`GoesOn`): a request that still has to
  count them (`Sends`), one that has counted all it states and is on its way to the merge (`SawAll`), or one that has copied them
  (`Copied`). A request refused the lock may leave because `MergeLock` shows another one merging, and one whose
  count was right stays right, since chunks go only after some request copied them. `TempInv` says that a task gets a folder only
  once its precheck entry is stored. With a failure the merge gives up while the chunks lie there.
* `RestoredIntoDirHolds`, `CompletedHasFileHolds` (`FileContentProofs`): `OneWorker` gives `Spec => RestoredIntoDir` and
  `Spec => CompletedHasFile`, both with failing calls and crashes. `OutcomeInv` says what a request may rely on between
  two statements (`HoldsOn`): the folder that RestoreReadDir found is there; the file that the merge made is on the
  disk from the merge to the user file, its `file_info` from CreateFileInfo on; a request that will write
  `completed` has its active user file; a renewal writes back the status that the task has. Another request may delete the folder, trash the
  new user file or write the status in between.
* `ShelfImplemented` (`FileContentProofs`): `Spec => ImplementsShelf`, with any number of workers, failures and crashes. Most
  steps leave the shelf alone, and each other one is one action of it. The invariant `ShelfInv` says why a merge or a whole-file
  upload may enter its file into file_info: from the moment the key is drawn until then, the file is on the disk and no table and no
  other request knows it (`Own`), so no purge can remove it and no second row can name it; and every key that a table, the disk
  or a request holds was drawn (`KeysDrawn`), so a drawn one is new. Rows written back whole keep the file they
  lead to.
* `CarefulShelfImplemented` (`FileContentProofs`): `OneWorker` gives `Spec => ImplementsCarefulShelf`, with failing calls and
  crashes. It puts together `ShelfInv`, `CountIsRight` (what is unlinked nobody sees), `OutcomeInv` (what a merge links has its
  row of file_info) and `CandidatesStay` (so has what an instant upload links). With a second worker the candidate
  may be purged before it is linked, or linked between the count and the unlink.

**Only model-checked**: nothing of what the passing runs check here. MergedIsWhole, ActiveIsKept and ActiveHasContent belong to runs that expect
a violation.

## 6. Plan

Done: both applications' state-changing operations, their runs, and the proofs above. Left, in this order:

1. the read handlers of the upload service: what a listing shows after trash and restore, in particular
   a restore into a folder below a trashed one.
2. sessions, once Login fills the cache they are looked up in.

## 7. Not modelled

* **Upload service**: EnsureDrive (a row nothing reads), pre_hash and rapid-upload answers, sizes, timestamps and the
  expiry of sessions and URLs, the handlers that only read, the batch dispatcher, HTTP decoding.
* **File application**: RenameDir, RenameFile, SetPublic (one field each that decides nothing modelled), file and folder
  names, downloads and lists; `Clear` and `Stop` of the cache, which nothing calls, and `redis.go`, which hands each call to a server.
  `deletePhysical` also removes the file's directory when it is empty; the model takes that directory to be always there.
* **Users and sessions**: Register inserts one row. Login issues tokens but never puts a session into the cache,
  so `verifyJWT` finds none, refuses every token and `renewToken` is not reached; there is no behaviour to check. API keys are only read.
* **HTTP handlers, middleware, start-up, configuration, logging, RSA and password helpers**: they keep no state that outlives a request.
* **Generated ORM** (`internal/ent/gen`): some nineteen of twenty lines of the implementation. It is generated from `internal/ent/schema`, carries no
  decision of this program, and is modelled by the statements built with it. The share of lines that the map covers is low for this
  reason, and cannot become high without pointing definitions at code they do not translate.
* Hazards without a property carry the reason in `PROJECT.json`. Most are behaviours the code has, so that no property about
  them holds: a parent deleted, or a file moved, while a tree is being deleted by another request; a refused overwrite that has deleted; a rename that
  deletes the entry itself as stale; objects left behind by a crash or a doubtful commit; a combined upload that cannot be published
  after a failed write; a URL used late; two whole-file uploads under one precheck. Others have no promise to hold them to:
  free space that drifts, a late chunk that writes `uploading` over `completed`, destination files of failed merges,
  temporary files of expired tasks.
