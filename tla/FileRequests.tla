---------------------------- MODULE FileRequests ----------------------------
(***************************************************************************)
(* The requests the file application has in flight.  A request, or a round *)
(* of a background job, is a sequence of statements, cache accesses and    *)
(* file operations.  Each is a step, and other requests run between any    *)
(* two of them; what was read is kept in the request.  A request that only *)
(* reads, or is refused at its first read, is not a step.  A check that    *)
(* the owner of an immutable row is the caller is folded into the choice   *)
(* of the row.                                                             *)
(***************************************************************************)
EXTENDS FileStore, MemoryCache

CONSTANTS
    Ops,        \* the operations in use
    MaxFailures \* bound: how many calls fail and processes end

VARIABLES
    req,        \* worker -> what it is doing
    mergeLocks, \* the sync.Map of UseCase: tasks being merged
    failures    \* the failures there have been

shared == <<mergeLocks, failures>>

vars == <<stored, cache, req, shared>>

Operations ==
    {"precheck", "chunk", "single", "tasks", "dirs", "move", "trash", "restore", "purge",
     "empty", "clean"}

ASSUME FileRequestsAssumption == Ops \subseteq Operations /\ MaxFailures \in Nat

Steps ==
    {"idle", "candidate", "instant", "deduct", "rollback", "task", "cache", "evict", "mkdir",
     "open", "copy", "count", "progress", "write", "lock", "merge", "remove temp", "info",
     "link", "clean", "unlock", "rename", "renew", "delete task", "make dir", "delete dirs",
     "record", "restore file", "restore dir", "restore", "purge", "refs", "purge info", "unlink",
     "quota", "return", "drop info", "hard delete", "drop record"}

Idle ==
    [pc       |-> "idle",   \* the step it takes next
     user     |-> NULL,
     content  |-> NULL,     \* of the precheck
     dir      |-> NULL,     \* of the precheck, of the user file read, or to make a folder in
     task     |-> NULL,
     part     |-> NULL,     \* the chunk, or the whole file, that is uploaded
     total    |-> 0,        \* total_chunks, as the request states it
     merged   |-> 0,        \* chunks copied by mergeAndSave
     file     |-> NULL,
     userFile |-> NULL,
     status   |-> NULL,     \* the status the task is to get
     uploaded |-> 0,        \* the number of chunks it is to get
     expires  |-> 0,        \* expires_at as it was read, or is to be
     free     |-> 0,        \* free_space as it was read
     record   |-> NULL,     \* the recycled record at work
     todo     |-> {},       \* the records to delete for good next
     doomed   |-> {}]       \* the folders to delete next

Request ==
    [pc       : Steps,
     user     : Users \cup {NULL},
     content  : Contents \cup {NULL},
     dir      : Key("dir") \cup {NULL},
     task     : Key("task") \cup {NULL},
     part     : Parts \cup {NULL},
     total    : 0..Chunks,
     merged   : 0..Chunks,
     file     : Key("file") \cup {NULL},
     userFile : Key("userFile") \cup {NULL},
     status   : Statuses \cup {NULL},
     uploaded : 0..Chunks,
     expires  : Nat,
     free     : Int,
     record   : Recycled \cup {NULL},
     todo     : SUBSET Recycled,
     doomed   : SUBSET Key("dir")]

RequestsInit == req = [w \in Workers |-> Idle] /\ mergeLocks = {} /\ failures = 0

At(w, pc) == req[w].pc = pc

Starts(w, op) == op \in Ops /\ At(w, "idle")

Goto(w, pc) == req' = [req EXCEPT ![w].pc = pc]

Finish(w) == req' = [req EXCEPT ![w] = Idle]
=============================================================================
