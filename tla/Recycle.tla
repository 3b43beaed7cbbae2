------------------------------- MODULE Recycle -------------------------------
(***************************************************************************)
(* internal/upload/service/recycle.go: RecycleBinTrash, RecycleBinRestore  *)
(* and RecycleBinClear.  The recycle bin is a parent_file_id, not a row.   *)
(***************************************************************************)
EXTENDS Service

RecycleBinTrash(w) ==
    /\ "trash" \in Ops
    /\ req[w].pc = "idle"
    /\ \E f \in DOMAIN entries :
        /\ ~InRecycleBin(f)
        /\ req' = [req EXCEPT ![w].op = "trash", ![w].pc = "lookup", ![w].file = f,
                              ![w].parent = Bin, ![w].name = entries[f].name,
                              ![w].from = entries[f].parent]
    /\ UNCHANGED <<tables, bucket, Local>>

TrashApply(w) ==
    /\ At(w, "trash", "apply")
    /\ LET f == req[w].file IN
       IF Exists(f) /\ ~Conflict(f, Bin, Target(w))
       THEN TrashEntry(f, Target(w), req[w].from)
       ELSE UNCHANGED tables
    /\ Finish(w)
    /\ UNCHANGED <<bucket, Local>>

-----------------------------------------------------------------------------
(***************************************************************************)
(* RecycleBinRestore: back to where the entry was trashed from, or to the  *)
(* root when that folder is gone or is in the bin itself.                  *)
(***************************************************************************)
RestoreTarget(f) ==
    IF entries[f].origin \in {NULL, Bin} THEN Root ELSE entries[f].origin

RecycleBinRestore(w) ==
    /\ "restore" \in Ops
    /\ req[w].pc = "idle"
    /\ \E f \in DOMAIN entries :
        /\ InRecycleBin(f)
        /\ req' = [req EXCEPT ![w].op = "restore", ![w].file = f,
                              ![w].pc = IF RestoreTarget(f) = Root THEN "lookup" ELSE "folder",
                              ![w].parent = RestoreTarget(f), ![w].name = entries[f].name]
    /\ UNCHANGED <<tables, bucket, Local>>

RestoreReadParent(w) ==
    /\ At(w, "restore", "folder")
    /\ LET p == req[w].parent IN
       req' = [req EXCEPT ![w].pc = "lookup",
                          ![w].parent = IF IsFolder(p) /\ ~InRecycleBin(p) THEN p ELSE Root]
    /\ UNCHANGED <<tables, bucket, Local>>

RestoreApply(w) ==
    /\ At(w, "restore", "apply")
    /\ LET f == req[w].file IN
       IF Exists(f) /\ ~Conflict(f, req[w].parent, Target(w))
       THEN RestoreEntry(f, Target(w), req[w].parent)
       ELSE UNCHANGED tables
    /\ Finish(w)
    /\ UNCHANGED <<bucket, Local>>

-----------------------------------------------------------------------------
(***************************************************************************)
(* RecycleBinClear: list the bin, then delete tree after tree.             *)
(***************************************************************************)
RecycleBinClear(w) ==
    /\ "clear" \in Ops
    /\ req[w].pc = "idle"
    /\ LET binned == {f \in DOMAIN entries : InRecycleBin(f)} IN
       \E first \in binned :
        req' = [req EXCEPT ![w].op = "clear", ![w].pc = "select",
                           ![w].todo = binned, ![w].victim = first]
    /\ UNCHANGED <<tables, bucket, Local>>

-----------------------------------------------------------------------------
RecycleNext(w) ==
    \/ RecycleBinTrash(w)
    \/ TrashApply(w)
    \/ RecycleBinRestore(w)
    \/ RestoreReadParent(w)
    \/ RestoreApply(w)
    \/ RecycleBinClear(w)
=============================================================================
