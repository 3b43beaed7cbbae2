------------------------------- MODULE Service -------------------------------
(***************************************************************************)
(* What the handlers of internal/upload/service share: the requests in     *)
(* flight, the name resolution that runs inside most of them, the deletion *)
(* of an entry tree, and the goroutines that outlive a request.            *)
(*                                                                         *)
(* A request is a sequence of calls to Postgres and to S3.  Every call is  *)
(* a step of its own and another request may run between any two of them;  *)
(* the code between two calls touches nothing shared and belongs to the    *)
(* step before it.  A parameter of a request is chosen at the step that    *)
(* first uses it.  A request that fails its first read changes nothing and *)
(* is not a step.                                                          *)
(***************************************************************************)
EXTENDS ObjectStorage

CONSTANTS
    Workers,        \* the requests that can be in flight at the same time
    Ops,            \* the operations of the service clients use
    CheckNameModes, \* the check_name_mode values clients send
    MaxRename,      \* candidates auto_rename tries, 9999 in the code
    Faults          \* whether calls fail and the process crashes

VARIABLES
    req,        \* the request of each worker
    minted,     \* identifiers newHexID has returned
    deletions,  \* object keys the goroutines of scheduleObjectDeletion still hold
    postings    \* goroutines of schedulePostCompleteProcessing

vars == <<tables, bucket, req, minted, deletions, postings>>

Operations ==
    {"create", "url", "complete", "delete", "rename", "moveFile", "moveFolder",
     "trash", "restore", "clear"}

Modes == {"refuse", "overwrite", "auto_rename"}

ASSUME ServiceAssumption ==
    /\ Ops \subseteq Operations
    /\ CheckNameModes \subseteq Modes
    /\ MaxRename \in Nat
    /\ Faults \in BOOLEAN

Steps ==
    {"idle", "parent", "entry", "session", "folder", "check", "lookup", "stale", "select",
     "purge", "apply", "persist", "abort", "list", "combine", "publish", "rows", "raise"}

Idle ==
    [op      |-> "none",  \* the handler
     pc      |-> "idle",  \* the call it makes next
     file    |-> NULL,    \* the entry it is about
     parent  |-> NULL,    \* the folder the entry is to be in
     name    |-> NULL,    \* the name it is to have there
     n       |-> 0,       \* the candidate tried, 0 for the name itself
     from    |-> NULL,    \* parent_file_id of the entry when it was read
     was     |-> NULL,    \* name of the entry when it was read
     hash    |-> NULL,    \* content_hash of the entry when it was read
     victim  |-> NULL,    \* the entry found in the way, or to be deleted
     why     |-> NULL,    \* why name resolution deletes the victim
     doomed  |-> {},      \* the files DeleteEntryTree selected
     todo    |-> {},      \* the binned entries RecycleBinClear has left
     numbers |-> {},      \* part numbers, {} for a single PUT
     chunked |-> FALSE]   \* chunk_size > 0

Local == <<minted, deletions, postings>>

At(w, op, pc) == req[w].op = op /\ req[w].pc = pc

Goto(w, pc) == req' = [req EXCEPT ![w].pc = pc]

Finish(w) == req' = [req EXCEPT ![w] = Idle]

Candidate(name, n) == IF n = 0 THEN name ELSE [name EXCEPT !.tags = Append(@, n)]

Target(w) == Candidate(req[w].name, req[w].n)

-----------------------------------------------------------------------------
(* ensureFolderExists.  The root folder has no row, the recycle bin has    *)
(* none either and is no folder.                                           *)
EnsureFolderExists(p) == p = Root \/ IsFolder(p)

-----------------------------------------------------------------------------
(***************************************************************************)
(* resolveEntryName: find a free name under req.parent, and delete what is *)
(* in the way when the mode says so or when it is a stale upload.          *)
(***************************************************************************)
(* Mutant: the candidate number is not advanced.                           *)
NextCandidateStuck(w) ==
    IF req[w].n < MaxRename
    THEN req' = [req EXCEPT ![w].pc = "lookup", ![w].victim = NULL]
    ELSE Finish(w)

NextCandidate(w) ==
    IF req[w].n < MaxRename
    THEN req' = [req EXCEPT ![w].pc = "lookup", ![w].n = @ + 1, ![w].victim = NULL]
    ELSE Finish(w)

Destroy(w, e, why) ==
    req' = [req EXCEPT ![w].pc = "select", ![w].victim = e, ![w].why = why]

ModesOf(op) == IF op \in {"trash", "restore"} THEN {"auto_rename"} ELSE CheckNameModes

NameTaken(w, e) ==
    \/ req[w].n > 0 /\ NextCandidate(w)
    \/ /\ req[w].n = 0
       /\ \E mode \in ModesOf(req[w].op) :
            \/ mode = "refuse" /\ Finish(w)
            \/ mode = "overwrite" /\ Destroy(w, e, "overwrite")
            \/ mode = "auto_rename" /\ NextCandidate(w)

LookupName(w) ==
    /\ req[w].pc = "lookup"
    /\ LET found == EntryAt(req[w].parent, Target(w)) IN
       \/ /\ found = {}
          /\ Goto(w, "apply")
       \/ \E e \in found :
            IF IsFile(e)
            THEN req' = [req EXCEPT ![w].pc = "stale", ![w].victim = e]
            ELSE NameTaken(w, e)
    /\ UNCHANGED <<tables, bucket, Local>>

(* Mutant: the status of the session is not looked at.                     *)
CleanupStaleUploadEntryAlways(w) ==
    /\ req[w].pc = "stale"
    /\ Destroy(w, req[w].victim, "stale")
    /\ UNCHANGED <<tables, bucket, Local>>

(* cleanupStaleUploadEntry up to its delete: a file whose session is not   *)
(* completed, or is missing, counts as stale.                              *)
CleanupStaleUploadEntry(w) ==
    /\ req[w].pc = "stale"
    /\ IF Completed(req[w].victim)
       THEN NameTaken(w, req[w].victim)
       ELSE Destroy(w, req[w].victim, "stale")
    /\ UNCHANGED <<tables, bucket, Local>>

-----------------------------------------------------------------------------
(***************************************************************************)
(* DeleteEntryTree and the scheduleObjectDeletion that follows it.         *)
(***************************************************************************)
AfterDelete(w) ==
    LET left == req[w].todo \ {req[w].victim} IN
    \/ /\ req[w].op \in {"delete", "clear"}
       /\ left = {}
       /\ Finish(w)
    \/ /\ req[w].op = "clear"
       /\ \E next \in left :
            req' = [req EXCEPT ![w].pc = "select", ![w].victim = next,
                               ![w].todo = left, ![w].doomed = {}]
    \/ /\ req[w].op \notin {"delete", "clear"}
       /\ req' = [req EXCEPT ![w].pc = "apply", ![w].victim = NULL,
                             ![w].why = NULL, ![w].doomed = {}]

(* Mutant: only the top of the tree is selected.                           *)
SelectTreeTopOnly(w) ==
    /\ req[w].pc = "select"
    /\ ~Looping(req[w].victim)
    /\ IF Exists(req[w].victim)
       THEN req' = [req EXCEPT ![w].pc = "purge",
                               ![w].doomed = {e \in {req[w].victim} : IsFile(e)}]
       ELSE AfterDelete(w)
    /\ UNCHANGED <<tables, bucket, Local>>

(* Mutant: the object keys are handed over before the transaction commits. *)
SelectTreeSchedules(w) ==
    /\ req[w].pc = "select"
    /\ ~Looping(req[w].victim)
    /\ deletions' = deletions \cup {e \in Subtree(req[w].victim) : IsFile(e)}
    /\ IF Exists(req[w].victim)
       THEN req' = [req EXCEPT ![w].pc = "purge",
                               ![w].doomed = {e \in Subtree(req[w].victim) : IsFile(e)}]
       ELSE AfterDelete(w)
    /\ UNCHANGED <<tables, bucket, minted, postings>>

(* The first recursive query.  On a looping tree it does not return.       *)
SelectTree(w) ==
    /\ req[w].pc = "select"
    /\ ~Looping(req[w].victim)
    /\ IF Exists(req[w].victim)
       THEN req' = [req EXCEPT ![w].pc = "purge",
                               ![w].doomed = {e \in Subtree(req[w].victim) : IsFile(e)}]
       ELSE AfterDelete(w)
    /\ UNCHANGED <<tables, bucket, Local>>

(* Mutant: RecycleBinClear forgets the objects.                            *)
PurgeTreeForgetful(w) ==
    /\ req[w].pc = "purge"
    /\ ~Looping(req[w].victim)
    /\ DeleteEntryTree(req[w].victim, req[w].doomed)
    /\ deletions' = IF req[w].op = "clear" THEN deletions ELSE deletions \cup req[w].doomed
    /\ AfterDelete(w)
    /\ UNCHANGED <<bucket, minted, postings>>

(* The deletes and the commit; the object keys go to a goroutine.  A       *)
(* commit that took effect may report an error all the same: the caller    *)
(* then fails without handing the keys over.                               *)
PurgeTree(w) ==
    /\ req[w].pc = "purge"
    /\ ~Looping(req[w].victim)
    /\ DeleteEntryTree(req[w].victim, req[w].doomed)
    /\ \/ deletions' = deletions \cup req[w].doomed /\ AfterDelete(w)
       \/ Faults /\ UNCHANGED deletions /\ Finish(w)
    /\ UNCHANGED <<bucket, minted, postings>>

-----------------------------------------------------------------------------
(***************************************************************************)
(* Goroutines.                                                             *)
(***************************************************************************)
BackgroundDelete(f) ==
    /\ f \in deletions
    /\ deletions' = deletions \ {f}
    /\ \/ DeleteObject(f)
       \/ Faults /\ UNCHANGED bucket
    /\ UNCHANGED <<tables, req, minted, postings>>

(* Mutant: a single PUT only.                                              *)
SchedulePostCompleteSingle(f, numbers, seen) ==
    postings' = IF IsOpen(f) \/ f \in DOMAIN objects THEN postings
                ELSE postings \cup
                    {[file |-> f, numbers |-> numbers, seen |-> seen, hash |-> NULL]}

SchedulePostComplete(f, numbers, seen) ==
    postings' = postings \cup
        {[file |-> f, numbers |-> numbers, seen |-> seen, hash |-> NULL]}

PostCompleteMarkPart(p) ==
    /\ p \in postings
    /\ \E n \in p.numbers :
        /\ \A i \in p.numbers : n <= i
        /\ postings' = (postings \ {p}) \cup {[p EXCEPT !.numbers = @ \ {n}]}
        /\ \/ MarkUploadPartUploaded(p.file, n)
           \/ Faults /\ UNCHANGED tables
    /\ UNCHANGED <<bucket, req, minted, deletions>>

(* computeObjectContentHash.  The content stands for its SHA-1.            *)
PostCompleteHash(p) ==
    /\ p \in postings
    /\ p.numbers = {} /\ p.hash = NULL
    /\ \/ /\ p.file \in DOMAIN objects /\ objects[p.file] # p.seen
          /\ postings' = (postings \ {p}) \cup {[p EXCEPT !.hash = objects[p.file]]}
       \/ /\ p.file \in DOMAIN objects /\ objects[p.file] # p.seen => Faults
          /\ postings' = postings \ {p}
    /\ UNCHANGED <<tables, bucket, req, minted, deletions>>

PostCompleteUpdate(p) ==
    /\ p \in postings
    /\ p.hash # NULL
    /\ postings' = postings \ {p}
    /\ \/ UpdateEntryHash(p.file, p.hash)
       \/ Faults /\ UNCHANGED tables
    /\ UNCHANGED <<bucket, req, minted, deletions>>

-----------------------------------------------------------------------------
(***************************************************************************)
(* Failures.  A call that fails has done nothing and ends its request,     *)
(* except that a failed CreateFileWithUpload is followed by                *)
(* AbortMultipartUpload.  A call that took effect and reports an error is  *)
(* in PersistUpload and PurgeTree, where the caller would have gone on     *)
(* differently; elsewhere it equals the success with the request failing   *)
(* at its next call, or the goroutine it would have started failing.       *)
(***************************************************************************)
CallFails(w) ==
    /\ Faults
    /\ req[w].pc # "idle"
    /\ IF req[w].pc = "persist" /\ req[w].numbers # {} THEN Goto(w, "abort") ELSE Finish(w)
    /\ UNCHANGED <<tables, bucket, Local>>

(* The process dies: requests and goroutines are gone, tables and bucket   *)
(* stay.  Nothing picks up what the goroutines had left.                   *)
Crash ==
    /\ Faults
    /\ req' = [w \in Workers |-> Idle]
    /\ deletions' = {}
    /\ postings' = {}
    /\ UNCHANGED <<tables, bucket, minted>>

-----------------------------------------------------------------------------
Request ==
    [op      : Operations \cup {"none"},
     pc      : Steps,
     file    : {NULL} \cup FileIDs,
     parent  : {NULL} \cup Folder,
     name    : {NULL} \cup Name,
     n       : 0..MaxRename,
     from    : {NULL} \cup Folder,
     was     : {NULL} \cup Name,
     hash    : {NULL} \cup Content,
     victim  : {NULL} \cup FileIDs,
     why     : {"stale", "overwrite", NULL},
     doomed  : SUBSET FileIDs,
     todo    : SUBSET FileIDs,
     numbers : SUBSET PartNo,
     chunked : BOOLEAN]

Posting ==
    [file    : FileIDs,
     numbers : SUBSET PartNo,
     seen    : {NULL} \cup Content,
     hash    : {NULL} \cup Content]

ServiceInit ==
    /\ RepositoryInit
    /\ StorageInit
    /\ req = [w \in Workers |-> Idle]
    /\ minted = DOMAIN Seed
    /\ deletions = {}
    /\ postings = {}

ServiceTypeOK ==
    /\ RepositoryTypeOK
    /\ StorageTypeOK
    /\ req \in [Workers -> Request]
    /\ minted \subseteq FileIDs
    /\ deletions \subseteq FileIDs
    /\ postings \subseteq Posting
=============================================================================
