------------------------------- MODULE Manage -------------------------------
(***************************************************************************)
(* internal/upload/service/manage.go: DeleteFile, Update, MoveFile and     *)
(* MoveFolder.                                                             *)
(***************************************************************************)
EXTENDS Service

(* Mutant: anything can be deleted.                                        *)
DeleteFileAnywhere(w) ==
    /\ "delete" \in Ops
    /\ req[w].pc = "idle"
    /\ \E f \in FileIDs :
        /\ Exists(f)
        /\ req' = [req EXCEPT ![w].op = "delete", ![w].pc = "select",
                              ![w].file = f, ![w].victim = f]
    /\ UNCHANGED <<tables, bucket, Local>>

(* DeleteFile: only what lies directly in the recycle bin when it is read. *)
DeleteFile(w) ==
    /\ "delete" \in Ops
    /\ req[w].pc = "idle"
    /\ \E f \in FileIDs :
        /\ InRecycleBin(f)
        /\ req' = [req EXCEPT ![w].op = "delete", ![w].pc = "select",
                              ![w].file = f, ![w].victim = f]
    /\ UNCHANGED <<tables, bucket, Local>>

-----------------------------------------------------------------------------
(***************************************************************************)
(* Update: rename in place.  Names carry no extension here, so its check   *)
(* passes.                                                                 *)
(***************************************************************************)
Update(w) ==
    /\ "rename" \in Ops
    /\ req[w].pc = "idle"
    /\ \E f \in DOMAIN entries, b \in Names :
        LET name == [base |-> b, tags |-> << >>] IN
        /\ entries[f].name # name
        /\ req' = [req EXCEPT ![w].op = "rename", ![w].pc = "lookup", ![w].file = f,
                              ![w].parent = entries[f].parent, ![w].name = name,
                              ![w].was = entries[f].name]
    /\ UNCHANGED <<tables, bucket, Local>>

UpdateApply(w) ==
    /\ At(w, "rename", "apply")
    /\ LET f == req[w].file IN
       IF Target(w) # req[w].was /\ Exists(f) /\ ~Conflict(f, entries[f].parent, Target(w))
       THEN RenameEntry(f, Target(w))
       ELSE UNCHANGED tables
    /\ Finish(w)
    /\ UNCHANGED <<bucket, Local>>

-----------------------------------------------------------------------------
(***************************************************************************)
(* MoveFile and MoveFolder.  Neither resolves the name; the unique index   *)
(* refuses a taken one.                                                    *)
(***************************************************************************)
MoveFile(w) ==
    /\ "moveFile" \in Ops
    /\ req[w].pc = "idle"
    /\ \E f \in FileIDs, p \in FileIDs \cup {Root} :
        /\ EnsureFolderExists(p)
        /\ req' = [req EXCEPT ![w].op = "moveFile", ![w].pc = "entry",
                              ![w].file = f, ![w].parent = p]
    /\ UNCHANGED <<tables, bucket, Local>>

MoveFileReadEntry(w) ==
    /\ At(w, "moveFile", "entry")
    /\ LET f == req[w].file IN
       IF IsFile(f) /\ entries[f].parent # req[w].parent
       THEN Goto(w, "apply")
       ELSE Finish(w)
    /\ UNCHANGED <<tables, bucket, Local>>

MoveFolder(w) ==
    /\ "moveFolder" \in Ops
    /\ req[w].pc = "idle"
    /\ \E f \in FileIDs, p \in FileIDs \cup {Root} :
        /\ IsFolder(f)
        /\ req' = [req EXCEPT ![w].op = "moveFolder", ![w].pc = "parent",
                              ![w].file = f, ![w].parent = p]
    /\ UNCHANGED <<tables, bucket, Local>>

MoveFolderReadParent(w) ==
    /\ At(w, "moveFolder", "parent")
    /\ IF EnsureFolderExists(req[w].parent) THEN Goto(w, "check") ELSE Finish(w)
    /\ UNCHANGED <<tables, bucket, Local>>

(* loadFolderNodes: the folders, without those in the recycle bin or below *)
(* a folder in it.                                                         *)
FolderNodes == {f \in DOMAIN entries : IsFolder(f)} \ Below(Bin)

(* Mutant: itself only.                                                    *)
IsSelf(candidate, ancestor) == candidate = ancestor

(* isDescendantOrSelf climbs from the candidate as far as the nodes go.    *)
IsDescendantOrSelf(candidate, ancestor) ==
    \/ candidate = ancestor
    \/ candidate \in FolderNodes /\ candidate \in Below(ancestor)

(* On a loop of folders resolvePath makes one of them, whichever it visits *)
(* first, a child of the root, and the climb may end there.                *)
MoveFolderCheck(w) ==
    /\ At(w, "moveFolder", "check")
    /\ LET f == req[w].file
           p == req[w].parent
       IN  \/ IsDescendantOrSelf(p, f) /\ Finish(w)
           \/ /\ IsDescendantOrSelf(p, f) => p # f /\ Looping(f)
              /\ Goto(w, "apply")
    /\ UNCHANGED <<tables, bucket, Local>>

MoveApply(w) ==
    /\ req[w].op \in {"moveFile", "moveFolder"}
    /\ req[w].pc = "apply"
    /\ LET f == req[w].file
           p == req[w].parent
       IN  IF Exists(f) /\ ~Conflict(f, p, entries[f].name)
           THEN MoveEntry(f, p)
           ELSE UNCHANGED tables
    /\ Finish(w)
    /\ UNCHANGED <<bucket, Local>>

-----------------------------------------------------------------------------
ManageNext(w) ==
    \/ DeleteFile(w)
    \/ Update(w)
    \/ UpdateApply(w)
    \/ MoveFile(w)
    \/ MoveFileReadEntry(w)
    \/ MoveFolder(w)
    \/ MoveFolderReadParent(w)
    \/ MoveFolderCheck(w)
    \/ MoveApply(w)
=============================================================================
