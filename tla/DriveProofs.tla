----------------------------- MODULE DriveProofs -----------------------------
(***************************************************************************)
(* Safety of a drive, for every set of identifiers, names and workers, and *)
(* every number of parts: nothing that scheduleObjectDeletion deletes is   *)
(* still wanted, a published multipart file has its object, and no part is *)
(* missing in it.                                                          *)
(***************************************************************************)
EXTENDS DriveTypes

-----------------------------------------------------------------------------
(***************************************************************************)
(* The inductive invariant.                                                *)
(***************************************************************************)

(* A request that holds an identifier for which there is no row yet.       *)
Pending(w) == req[w].pc = "persist"

(* What is known of an identifier is known of a minted one.                *)
MintedOnly ==
    /\ DOMAIN entries \cup DOMAIN sessions \cup deletions \subseteq minted
    /\ \A w \in Workers :
        /\ req[w].doomed \subseteq minted
        /\ Pending(w) \/ req[w].op \in {"url", "complete"} => req[w].file \in minted

(* The identifier of a pending creation is its own.                        *)
PendingIsFresh ==
    \A w \in Workers : Pending(w) =>
        /\ req[w].file \notin DOMAIN entries \cup DOMAIN sessions \cup deletions
        /\ \A v \in Workers :
            /\ req[w].file \notin req[v].doomed
            /\ v # w /\ (Pending(v) \/ req[v].op \in {"url", "complete"})
                => req[v].file # req[w].file

(* The kind of an upload does not change while a request relies on it.     *)
KindIsKnown ==
    \A w \in Workers : HasSession(req[w].file) =>
        /\ req[w].op = "complete" /\ req[w].numbers = {} => IsSinglePut(req[w].file)
        /\ req[w].op = "url" /\ req[w].pc \in {"rows", "raise"} => ~IsSinglePut(req[w].file)

(* A multipart upload is published when its object is there.               *)
PublishHasObject ==
    \A w \in Workers :
        At(w, "complete", "publish") /\ req[w].numbers # {} /\ HasSession(req[w].file)
            => req[w].file \in DOMAIN objects

IInv ==
    /\ Typed
    /\ MintedOnly
    /\ PendingIsFresh
    /\ KindIsKnown
    /\ PublishHasObject
    /\ DeletionsAreDead
    /\ ObjectBehindFile

-----------------------------------------------------------------------------
(***************************************************************************)
(* Steps that leave the sessions alone.                                    *)
(***************************************************************************)

(* What such a step owes the invariant.                                    *)
Undisturbed ==
    /\ UNCHANGED <<sessions, minted, deletions>>
    /\ DOMAIN entries' \subseteq DOMAIN entries
    /\ DOMAIN objects \subseteq DOMAIN objects'

KindKnown(r) ==
    HasSession(r.file) =>
        /\ r.op = "complete" /\ r.numbers = {} => IsSinglePut(r.file)
        /\ r.op = "url" /\ r.pc \in {"rows", "raise"} => ~IsSinglePut(r.file)

Calm(w, r) ==
    /\ r.pc # "persist"
    /\ r.doomed \subseteq req[w].doomed \cup DOMAIN entries
    /\ r.op \in {"url", "complete"} =>
        \/ r.file \in DOMAIN entries \cup DOMAIN sessions
        \/ req[w].op \in {"url", "complete"} /\ r.file = req[w].file
    /\ KindKnown(r)
    /\ r.op = "complete" /\ r.pc = "publish" /\ r.numbers # {} => r.file \in DOMAIN objects'

LEMMA UndisturbedStep ==
    ASSUME IInv, Typed', Undisturbed, UNCHANGED req
    PROVE  IInv'
<1>1. MintedOnly'
      BY DEF IInv, MintedOnly, Undisturbed, Pending
<1>2. PendingIsFresh'
      BY DEF IInv, PendingIsFresh, Undisturbed, Pending
<1>3. KindIsKnown'
      BY DEF IInv, KindIsKnown, Undisturbed, HasSession, IsSinglePut
<1>4. PublishHasObject'
      BY DEF IInv, PublishHasObject, Undisturbed, HasSession, At
<1>5. DeletionsAreDead'
      BY DEF IInv, DeletionsAreDead, Undisturbed, HasSession
<1>6. ObjectBehindFile'
      BY DEF IInv, ObjectBehindFile, Undisturbed, Completed, HasSession, IsSinglePut
<1> QED BY <1>1, <1>2, <1>3, <1>4, <1>5, <1>6 DEF IInv

LEMMA CalmStep ==
    ASSUME IInv, Typed', Undisturbed, NEW w \in Workers, NEW r, Calm(w, r),
           req' = [req EXCEPT ![w] = r]
    PROVE  IInv'
<1>0. req'[w] = r /\ \A v \in Workers : v # w => req'[v] = req[v]
      BY DEF IInv, Typed, RequestsFilled
<1>1. MintedOnly'
      BY <1>0 DEF IInv, MintedOnly, Undisturbed, Calm, Pending
<1>2. PendingIsFresh'
      <2> SUFFICES ASSUME NEW v \in Workers, Pending(v)'
                   PROVE  /\ req'[v].file \notin DOMAIN entries' \cup DOMAIN sessions' \cup deletions'
                          /\ \A u \in Workers :
                            /\ req'[v].file \notin req'[u].doomed
                            /\ u # v /\ (Pending(u)' \/ req'[u].op \in {"url", "complete"})
                                => req'[u].file # req'[v].file
          BY DEF PendingIsFresh
      <2>1. v # w /\ Pending(v) /\ req'[v] = req[v]
            BY <1>0 DEF Calm, Pending
      <2>2. req[v].file \notin DOMAIN entries \cup DOMAIN sessions \cup deletions
            BY <2>1 DEF IInv, PendingIsFresh
      <2>3. \A u \in Workers :
                /\ req[v].file \notin req[u].doomed
                /\ u # v /\ (Pending(u) \/ req[u].op \in {"url", "complete"})
                    => req[u].file # req[v].file
            BY <2>1 DEF IInv, PendingIsFresh
      <2>4. req[v].file \notin r.doomed
            BY <2>2, <2>3 DEF Calm
      <2>5. r.op \in {"url", "complete"} => r.file # req[v].file
            BY <2>1, <2>2, <2>3 DEF Calm
      <2>6. r.pc # "persist"
            BY DEF Calm
      <2> QED BY <1>0, <2>1, <2>2, <2>3, <2>4, <2>5, <2>6 DEF Undisturbed, Pending
<1>3. KindIsKnown'
      BY <1>0 DEF IInv, KindIsKnown, Undisturbed, Calm, KindKnown, HasSession, IsSinglePut
<1>4. PublishHasObject'
      BY <1>0 DEF IInv, PublishHasObject, Undisturbed, Calm, HasSession, At
<1>5. DeletionsAreDead'
      BY DEF IInv, DeletionsAreDead, Undisturbed, HasSession
<1>6. ObjectBehindFile'
      BY DEF IInv, ObjectBehindFile, Undisturbed, Completed, HasSession, IsSinglePut
<1> QED BY <1>1, <1>2, <1>3, <1>4, <1>5, <1>6 DEF IInv
LEMMA QuietIsUndisturbed ==
    ASSUME UNCHANGED <<sessions, minted, deletions, objects>>, DOMAIN entries' = DOMAIN entries
    PROVE  Undisturbed
BY DEF Undisturbed

(* The end of a request, its next call, and the arrival of one that        *)
(* neither signs URLs nor completes.                                       *)
LEMMA FinishSafe ==
    ASSUME IInv, Typed', Undisturbed, NEW w \in Workers, Finish(w)
    PROVE  IInv'
<1>1. Calm(w, Idle)
      BY DEF Calm, KindKnown, Idle
<1> QED BY <1>1, CalmStep DEF Finish

LEMMA NextCallSafe ==
    ASSUME IInv, Typed', Undisturbed, NEW w \in Workers, NEW r,
           req' = [req EXCEPT ![w] = r],
           r.op = req[w].op, r.file = req[w].file, r.numbers = req[w].numbers,
           r.doomed \subseteq req[w].doomed \cup DOMAIN entries,
           r.pc \notin {"persist", "publish", "rows", "raise"}
    PROVE  IInv'
<1>1. Calm(w, r)
      BY DEF Calm, KindKnown, IInv, KindIsKnown
<1> QED BY <1>1, CalmStep

LEMMA GotoSafe ==
    ASSUME IInv, Typed', Undisturbed, NEW w \in Workers, NEW pc, Goto(w, pc),
           pc \notin {"persist", "publish", "rows", "raise"}
    PROVE  IInv'
<1> DEFINE r == [req[w] EXCEPT !.pc = pc]
<1>1. req[w] \in Request
      BY TypedParts, RequestOf DEF IInv
<1>2. /\ req' = [req EXCEPT ![w] = r]
      /\ r.op = req[w].op /\ r.file = req[w].file /\ r.numbers = req[w].numbers
      /\ r.doomed \subseteq req[w].doomed /\ r.pc = pc
      BY <1>1 DEF Goto, Request
<1> HIDE DEF r
<1> QED BY <1>2, NextCallSafe

LEMMA ArrivalSafe ==
    ASSUME IInv, Typed', Undisturbed, NEW w \in Workers, NEW r,
           req' = [req EXCEPT ![w] = r],
           r.op \notin {"url", "complete"}, r.pc # "persist", r.doomed = req[w].doomed
    PROVE  IInv'
<1>1. Calm(w, r)
      BY DEF Calm, KindKnown
<1> QED BY <1>1, CalmStep

LEMMA NameTakenSafe ==
    ASSUME IInv, Typed', Undisturbed, NEW w \in Workers, NEW e,
           NameTaken(w, e) \/ Destroy(w, e, "stale")
    PROVE  IInv'
<1> req[w] \in Request
    BY TypedParts, RequestOf DEF IInv
<1>1. CASE Finish(w)
      BY <1>1, FinishSafe
<1>2. ASSUME NEW why, Destroy(w, e, why)
      PROVE  IInv'
      <2> DEFINE r == [req[w] EXCEPT !.pc = "select", !.victim = e, !.why = why]
      <2>1. /\ req' = [req EXCEPT ![w] = r]
            /\ r.op = req[w].op /\ r.file = req[w].file /\ r.numbers = req[w].numbers
            /\ r.doomed \subseteq req[w].doomed /\ r.pc = "select"
            <3>1. req' = [req EXCEPT ![w] = r]
                  BY <1>2 DEF Destroy
            <3>2. /\ r.op = req[w].op /\ r.file = req[w].file /\ r.numbers = req[w].numbers
                  /\ r.doomed \subseteq req[w].doomed /\ r.pc = "select"
                  BY DEF Request
            <3> HIDE DEF r
            <3> QED BY <3>1, <3>2
      <2> HIDE DEF r
      <2> QED BY <2>1, NextCallSafe
<1>3. CASE req' = [req EXCEPT ![w].pc = "lookup", ![w].n = @ + 1, ![w].victim = NULL]
      <2> DEFINE r == [req[w] EXCEPT !.pc = "lookup", !.n = @ + 1, !.victim = NULL]
      <2>1. /\ req' = [req EXCEPT ![w] = r]
            /\ r.op = req[w].op /\ r.file = req[w].file /\ r.numbers = req[w].numbers
            /\ r.doomed \subseteq req[w].doomed /\ r.pc = "lookup"
            BY <1>3 DEF Request
      <2> HIDE DEF r
      <2> QED BY <2>1, NextCallSafe
<1> QED BY <1>1, <1>2, <1>3 DEF NameTaken, NextCandidate

LEMMA AfterDeleteIs ==
    ASSUME RequestsFilled, NEW w \in Workers, AfterDelete(w)
    PROVE  \E r :
            /\ req' = [req EXCEPT ![w] = r]
            /\ r.doomed = {} /\ r.pc \in {"idle", "select", "apply"}
            /\ \/ r.op = "none"
               \/ r.op = req[w].op /\ r.file = req[w].file /\ r.numbers = req[w].numbers
<1> req[w] \in Request
    BY RequestOf
<1>1. CASE Finish(w)
      <2>1. /\ req' = [req EXCEPT ![w] = Idle]
            /\ Idle.doomed = {} /\ Idle.pc = "idle" /\ Idle.op = "none"
            BY <1>1 DEF Finish, Idle
      <2> QED BY <2>1
<1>2. ASSUME NEW next, NEW left,
             req' = [req EXCEPT ![w].pc = "select", ![w].victim = next,
                                ![w].todo = left, ![w].doomed = {}]
      PROVE  \E r :
            /\ req' = [req EXCEPT ![w] = r]
            /\ r.doomed = {} /\ r.pc \in {"idle", "select", "apply"}
            /\ r.op = req[w].op /\ r.file = req[w].file /\ r.numbers = req[w].numbers
      <2> DEFINE r == [req[w] EXCEPT !.pc = "select", !.victim = next, !.todo = left, !.doomed = {}]
      <2>1. /\ req' = [req EXCEPT ![w] = r]
            /\ r.op = req[w].op /\ r.file = req[w].file /\ r.numbers = req[w].numbers
            /\ r.doomed = {} /\ r.pc = "select"
            BY <1>2 DEF Request
      <2> HIDE DEF r
      <2> QED BY <2>1
<1>3. CASE req' = [req EXCEPT ![w].pc = "apply", ![w].victim = NULL,
                              ![w].why = NULL, ![w].doomed = {}]
      <2> DEFINE r == [req[w] EXCEPT !.pc = "apply", !.victim = NULL, !.why = NULL, !.doomed = {}]
      <2>1. /\ req' = [req EXCEPT ![w] = r]
            /\ r.op = req[w].op /\ r.file = req[w].file /\ r.numbers = req[w].numbers
            /\ r.doomed = {} /\ r.pc = "apply"
            BY <1>3 DEF Request
      <2> HIDE DEF r
      <2> QED BY <2>1
<1>4. \/ Finish(w)
      \/ \E next, left : req' = [req EXCEPT ![w].pc = "select", ![w].victim = next,
                                            ![w].todo = left, ![w].doomed = {}]
      \/ req' = [req EXCEPT ![w].pc = "apply", ![w].victim = NULL,
                            ![w].why = NULL, ![w].doomed = {}]
      BY DEF AfterDelete
<1> QED BY <1>1, <1>2, <1>3, <1>4

-----------------------------------------------------------------------------
(***************************************************************************)
(* The steps all operations share.                                         *)
(***************************************************************************)
LEMMA LookupNameSafe ==
    ASSUME IInv, Typed', NEW w \in Workers, LookupName(w)
    PROVE  IInv'
<1> req[w] \in Request /\ Undisturbed
    BY TypedParts, RequestOf, QuietIsUndisturbed DEF IInv, LookupName, tables, bucket, Local
<1>1. CASE Goto(w, "apply")
      BY <1>1, GotoSafe
<1>2. ASSUME NEW e, NameTaken(w, e)
      PROVE  IInv'
      BY <1>2, NameTakenSafe
<1>3. ASSUME NEW e, req' = [req EXCEPT ![w].pc = "stale", ![w].victim = e]
      PROVE  IInv'
      <2> DEFINE r == [req[w] EXCEPT !.pc = "stale", !.victim = e]
      <2>1. /\ req' = [req EXCEPT ![w] = r]
            /\ r.op = req[w].op /\ r.file = req[w].file /\ r.numbers = req[w].numbers
            /\ r.doomed \subseteq req[w].doomed /\ r.pc = "stale"
            BY <1>3 DEF Request
      <2> HIDE DEF r
      <2> QED BY <2>1, NextCallSafe
<1> QED BY <1>1, <1>2, <1>3 DEF LookupName

LEMMA CleanupStaleUploadEntrySafe ==
    ASSUME IInv, Typed', NEW w \in Workers, CleanupStaleUploadEntry(w)
    PROVE  IInv'
<1>1. Undisturbed
      BY QuietIsUndisturbed DEF CleanupStaleUploadEntry, tables, bucket, Local
<1> QED BY <1>1, NameTakenSafe DEF CleanupStaleUploadEntry

LEMMA SelectTreeSafe ==
    ASSUME IInv, Typed', NEW w \in Workers, SelectTree(w)
    PROVE  IInv'
<1>0. req[w] \in Request /\ RequestsFilled /\ Undisturbed
      BY TypedParts, RequestOf, QuietIsUndisturbed DEF IInv, SelectTree, tables, bucket, Local
<1>1. CASE AfterDelete(w)
      <2>1. PICK r :
            /\ req' = [req EXCEPT ![w] = r]
            /\ r.doomed = {} /\ r.pc \in {"idle", "select", "apply"}
            /\ \/ r.op = "none"
               \/ r.op = req[w].op /\ r.file = req[w].file /\ r.numbers = req[w].numbers
            BY <1>0, <1>1, AfterDeleteIs
      <2>2. Calm(w, r)
            BY <2>1 DEF Calm, KindKnown, IInv, KindIsKnown
      <2> QED BY <1>0, <2>1, <2>2, CalmStep
<1> DEFINE D == {e \in Subtree(req[w].victim) : IsFile(e)}
<1>2. CASE req' = [req EXCEPT ![w].pc = "purge", ![w].doomed = D]
      <2>1. D \subseteq DOMAIN entries
            BY DEF IsFile, Exists
      <2> HIDE DEF D
      <2> DEFINE r == [req[w] EXCEPT !.pc = "purge", !.doomed = D]
      <2>2. /\ req' = [req EXCEPT ![w] = r]
            /\ r.op = req[w].op /\ r.file = req[w].file /\ r.numbers = req[w].numbers
            /\ r.doomed = D /\ r.pc = "purge"
            BY <1>0, <1>2 DEF Request
      <2> HIDE DEF r
      <2> QED BY <1>0, <2>1, <2>2, NextCallSafe
<1> QED BY <1>1, <1>2 DEF SelectTree

(* What is handed to the goroutine, if anything, was selected before, and  *)
(* loses its session in the same transaction.                              *)
LEMMA PurgeTreeSafe ==
    ASSUME IInv, Typed', NEW w \in Workers, PurgeTree(w)
    PROVE  IInv'
<1> DEFINE D == req[w].doomed
<1>0. /\ DOMAIN entries' \subseteq DOMAIN entries
      /\ DOMAIN sessions' = DOMAIN sessions \ D
      /\ \A u \in DOMAIN sessions' : sessions'[u] = sessions[u]
      /\ deletions' \subseteq deletions \cup D
      /\ UNCHANGED <<minted, objects>>
      BY DEF PurgeTree, DeleteEntryTree, Drop, bucket
<1>1. PICK r :
        /\ req' = [req EXCEPT ![w] = r]
        /\ r.doomed = {} /\ r.pc \in {"idle", "select", "apply"}
        /\ \/ r.op = "none"
           \/ r.op = req[w].op /\ r.file = req[w].file /\ r.numbers = req[w].numbers
      <2>1. CASE AfterDelete(w)
            BY <2>1, AfterDeleteIs DEF IInv, Typed
      <2>2. CASE Finish(w)
            <3>1. /\ req' = [req EXCEPT ![w] = Idle]
                  /\ Idle.doomed = {} /\ Idle.pc = "idle" /\ Idle.op = "none"
                  BY <2>2 DEF Finish, Idle
            <3> QED BY <3>1
      <2> QED BY <2>1, <2>2 DEF PurgeTree
<1>2. req'[w] = r /\ \A v \in Workers : v # w => req'[v] = req[v]
      BY <1>1 DEF IInv, Typed, RequestsFilled
<1>3. MintedOnly'
      BY <1>0, <1>1, <1>2 DEF IInv, MintedOnly, Pending
<1>4. PendingIsFresh'
      BY <1>0, <1>1, <1>2 DEF IInv, PendingIsFresh, Pending
<1>5. KindIsKnown'
      BY <1>0, <1>1, <1>2 DEF IInv, KindIsKnown, HasSession, IsSinglePut
<1>6. PublishHasObject'
      BY <1>0, <1>1, <1>2 DEF IInv, PublishHasObject, HasSession, At
<1>7. DeletionsAreDead'
      BY <1>0 DEF IInv, DeletionsAreDead, HasSession
<1>8. ObjectBehindFile'
      BY <1>0 DEF IInv, ObjectBehindFile, Completed, HasSession, IsSinglePut
<1> QED BY <1>3, <1>4, <1>5, <1>6, <1>7, <1>8 DEF IInv
-----------------------------------------------------------------------------
(***************************************************************************)
(* The steps of upload.go.                                                 *)
(***************************************************************************)
LEMMA CreateWithFoldersSafe ==
    ASSUME IInv, Typed', NEW w \in Workers, CreateWithFolders(w)
    PROVE  IInv'
<1>0. req[w] \in Request /\ Undisturbed
      BY TypedParts, RequestOf, QuietIsUndisturbed
         DEF IInv, CreateWithFolders, tables, bucket, Local
<1>1. PICK p, b : req' = [req EXCEPT ![w].op = "create", ![w].pc = "lookup", ![w].parent = p,
                                     ![w].name = [base |-> b, tags |-> << >>]]
      BY DEF CreateWithFolders
<1> DEFINE name == [base |-> b, tags |-> << >>]
           r == [req[w] EXCEPT !.op = "create", !.pc = "lookup", !.parent = p, !.name = name]
<1>2. /\ req' = [req EXCEPT ![w] = r]
      /\ r.op = "create" /\ r.pc = "lookup" /\ r.doomed = req[w].doomed
      BY <1>0, <1>1 DEF Request
<1> HIDE DEF r
<1> QED BY <1>0, <1>2, ArrivalSafe

(* A pending identifier was minted, so the one drawn now is another.       *)
LEMMA CreateFolderEntrySafe ==
    ASSUME IInv, Typed', NEW w \in Workers, CreateFolderEntry(w)
    PROVE  IInv'
<1>1. PICK f \in FileIDs \ minted :
        /\ minted' = minted \cup {f}
        /\ DOMAIN entries' \subseteq DOMAIN entries \cup {f}
        /\ UNCHANGED <<sessions, objects, deletions>>
      BY DEF CreateFolderEntry, CreateFolder, Put, tables, bucket
<1>2. req'[w] = Idle /\ \A v \in Workers : v # w => req'[v] = req[v]
      BY DEF IInv, Typed, RequestsFilled, CreateFolderEntry, Finish
<1>3. Idle.op = "none" /\ Idle.pc = "idle" /\ Idle.doomed = {}
      BY DEF Idle
<1>4. MintedOnly'
      BY <1>1, <1>2, <1>3 DEF IInv, MintedOnly, Pending
<1>5. PendingIsFresh'
      BY <1>1, <1>2, <1>3 DEF IInv, MintedOnly, PendingIsFresh, Pending
<1>6. KindIsKnown'
      BY <1>1, <1>2, <1>3 DEF IInv, KindIsKnown, HasSession, IsSinglePut
<1>7. PublishHasObject'
      BY <1>1, <1>2, <1>3 DEF IInv, PublishHasObject, HasSession, At
<1>8. DeletionsAreDead'
      BY <1>1 DEF IInv, DeletionsAreDead, HasSession
<1>9. ObjectBehindFile'
      BY <1>1 DEF IInv, ObjectBehindFile, Completed, HasSession, IsSinglePut
<1> QED BY <1>4, <1>5, <1>6, <1>7, <1>8, <1>9 DEF IInv

(* What PrepareUpload does to the variables of the invariant.              *)
LEMMA PrepareUploadIs ==
    ASSUME Typed, NEW w \in Workers, PrepareUpload(w)
    PROVE  \/ Finish(w) /\ UNCHANGED <<tables, bucket, Local>>
           \/ \E f \in FileIDs \ minted :
                /\ minted' = minted \cup {f}
                /\ \A v \in Workers : v # w => req'[v] = req[v]
                /\ req'[w].pc = "persist" /\ req'[w].op = "create" /\ req'[w].file = f
                /\ req'[w].doomed = req[w].doomed
                /\ UNCHANGED objects
<1>0. req[w] \in Request /\ req[w].op = "create" /\ req \in [Workers -> Request]
      BY TypedParts, RequestOf DEF PrepareUpload, At, Typed, TypeOK, ServiceTypeOK
<1>1. \/ Finish(w) /\ UNCHANGED <<bucket, minted>>
      \/ \E f \in FileIDs \ minted :
            /\ minted' = minted \cup {f}
            /\ \/ /\ req' = [req EXCEPT ![w].pc = "persist", ![w].file = f]
                  /\ UNCHANGED bucket
               \/ /\ \E numbers, chunked :
                        req' = [req EXCEPT ![w].pc = "persist", ![w].file = f,
                                           ![w].numbers = numbers, ![w].chunked = chunked]
                  /\ CreateMultipartUpload(f)
      <2>1. PICK size \in Sizes, list \in PartLists :
                LET numbers == IF list = {} THEN {1} ELSE list IN
                IF size < 0 \/ 0 \in list
                THEN Finish(w) /\ UNCHANGED <<bucket, minted>>
                ELSE \E f \in FileIDs \ minted :
                    /\ minted' = minted \cup {f}
                    /\ IF ShouldUseSinglePut(size, numbers)
                       THEN /\ req' = [req EXCEPT ![w].pc = "persist", ![w].file = f]
                            /\ UNCHANGED bucket
                       ELSE /\ req' = [req EXCEPT ![w].pc = "persist", ![w].file = f,
                                                  ![w].numbers = numbers,
                                                  ![w].chunked = NormalizeChunkSize(size)]
                            /\ CreateMultipartUpload(f)
            BY Zenon DEF PrepareUpload
      <2>2. CASE size < 0 \/ 0 \in list
            BY <2>1, <2>2
      <2>3. CASE ~(size < 0 \/ 0 \in list)
            <3> DEFINE numbers == IF list = {} THEN {1} ELSE list
                       chunked == NormalizeChunkSize(size)
            <3>1. PICK f \in FileIDs \ minted :
                    /\ minted' = minted \cup {f}
                    /\ \/ /\ req' = [req EXCEPT ![w].pc = "persist", ![w].file = f]
                          /\ UNCHANGED bucket
                       \/ /\ req' = [req EXCEPT ![w].pc = "persist", ![w].file = f,
                                                ![w].numbers = numbers, ![w].chunked = chunked]
                          /\ CreateMultipartUpload(f)
                  BY <2>1, <2>3
            <3> HIDE DEF numbers, chunked
            <3> QED BY <3>1
      <2> QED BY <2>2, <2>3
<1>2. CASE Finish(w) /\ UNCHANGED <<bucket, minted>>
      BY <1>2 DEF PrepareUpload, Local
<1>3. CASE ~(Finish(w) /\ UNCHANGED <<bucket, minted>>)
      <2>1. PICK f \in FileIDs \ minted :
            /\ minted' = minted \cup {f}
            /\ \/ /\ req' = [req EXCEPT ![w].pc = "persist", ![w].file = f]
                  /\ UNCHANGED bucket
               \/ /\ \E numbers, chunked :
                        req' = [req EXCEPT ![w].pc = "persist", ![w].file = f,
                                           ![w].numbers = numbers, ![w].chunked = chunked]
                  /\ CreateMultipartUpload(f)
            BY <1>1, <1>3
      <2>2. /\ \A v \in Workers : v # w => req'[v] = req[v]
            /\ req'[w].pc = "persist" /\ req'[w].op = "create" /\ req'[w].file = f
            /\ req'[w].doomed = req[w].doomed
            <3>1. CASE req' = [req EXCEPT ![w].pc = "persist", ![w].file = f]
                  BY <1>0, <3>1 DEF Request
            <3>2. ASSUME NEW numbers, NEW chunked,
                         req' = [req EXCEPT ![w].pc = "persist", ![w].file = f,
                                            ![w].numbers = numbers, ![w].chunked = chunked]
                  PROVE  /\ \A v \in Workers : v # w => req'[v] = req[v]
                         /\ req'[w].pc = "persist" /\ req'[w].op = "create"
                         /\ req'[w].file = f /\ req'[w].doomed = req[w].doomed
                  BY <1>0, <3>2 DEF Request
            <3> QED BY <2>1, <3>1, <3>2
      <2>3. UNCHANGED objects
            BY <2>1 DEF bucket, CreateMultipartUpload
      <2> QED BY <2>1, <2>2, <2>3
<1> QED BY <1>2, <1>3

LEMMA PrepareUploadSafe ==
    ASSUME IInv, Typed', NEW w \in Workers, PrepareUpload(w)
    PROVE  IInv'
<1>1. CASE Finish(w) /\ UNCHANGED <<tables, bucket, Local>>
      BY <1>1, QuietIsUndisturbed, FinishSafe DEF tables, bucket, Local
<1>2. ASSUME NEW f \in FileIDs \ minted, minted' = minted \cup {f},
             \A v \in Workers : v # w => req'[v] = req[v],
             req'[w].pc = "persist", req'[w].op = "create", req'[w].file = f,
             req'[w].doomed = req[w].doomed, UNCHANGED objects
      PROVE  IInv'
      <2>0. UNCHANGED <<entries, sessions, deletions>>
            BY DEF PrepareUpload, tables
      <2>1. MintedOnly'
            BY <1>2, <2>0 DEF IInv, MintedOnly, Pending
      <2>2. PendingIsFresh'
            BY <1>2, <2>0 DEF IInv, MintedOnly, PendingIsFresh, Pending
      <2>3. KindIsKnown'
            BY <1>2, <2>0 DEF IInv, KindIsKnown, HasSession, IsSinglePut
      <2>4. PublishHasObject'
            BY <1>2, <2>0 DEF IInv, PublishHasObject, HasSession, At
      <2>5. DeletionsAreDead'
            BY <2>0 DEF IInv, DeletionsAreDead, HasSession
      <2>6. ObjectBehindFile'
            BY <1>2, <2>0 DEF IInv, ObjectBehindFile, Completed, HasSession, IsSinglePut
      <2> QED BY <2>1, <2>2, <2>3, <2>4, <2>5, <2>6 DEF IInv
<1>3. Typed
      BY DEF IInv
<1> QED BY <1>1, <1>2, <1>3, PrepareUploadIs

(* The one step that makes a session: of an identifier nobody else holds,  *)
(* that is in no deletion, and that no request completes yet.              *)
LEMMA PersistUploadSafe ==
    ASSUME IInv, Typed', NEW w \in Workers, PersistUpload(w)
    PROVE  IInv'
<1> DEFINE f == req[w].file
<1>0. /\ req \in [Workers -> Request]
      /\ Pending(w) /\ req[w].op = "create"
      /\ Finish(w) \/ Goto(w, "abort")
      /\ UNCHANGED <<minted, deletions, objects>>
      BY DEF IInv, Typed, TypeOK, ServiceTypeOK, PersistUpload, At, Pending, GiveUpUpload,
             Local, bucket, PresignPutObject, PresignUploadPart
<1>1. \/ UNCHANGED tables
      \/ \E chunked, count :
            /\ DOMAIN entries' = DOMAIN entries \cup {f}
            /\ sessions' = Put(sessions, f, [status |-> "init", partCount |-> count,
                                             chunked |-> chunked])
      BY DEF PersistUpload, CreateFileWithUpload, Put, tables
<1>2. CASE UNCHANGED tables
      <2>1. Undisturbed
            BY <1>0, <1>2, QuietIsUndisturbed DEF tables
      <2> QED BY <1>0, <2>1, FinishSafe, GotoSafe
<1>3. ASSUME NEW chunked, NEW count, DOMAIN entries' = DOMAIN entries \cup {f},
             sessions' = Put(sessions, f, [status |-> "init", partCount |-> count,
                                          chunked |-> chunked])
      PROVE  IInv'
      <2>0. /\ DOMAIN sessions' = DOMAIN sessions \cup {f}
            /\ sessions'[f].status = "init"
            /\ \A u \in DOMAIN sessions : u # f => sessions'[u] = sessions[u]
            BY <1>3 DEF Put
      <2>1. /\ f \in minted /\ f \notin deletions
            /\ \A v \in Workers :
                /\ f \notin req[v].doomed
                /\ v # w /\ (Pending(v) \/ req[v].op \in {"url", "complete"})
                    => req[v].file # f
            BY <1>0 DEF IInv, MintedOnly, PendingIsFresh
      <2>2. /\ \A v \in Workers : v # w => req'[v] = req[v]
            /\ req'[w].op \notin {"url", "complete"} /\ req'[w].pc # "persist"
            /\ req'[w].doomed \subseteq req[w].doomed
            <3>1. CASE Finish(w)
                  BY <1>0, <3>1 DEF Finish, Idle
            <3>2. CASE Goto(w, "abort")
                  BY <1>0, <3>2 DEF Goto, Request
            <3> QED BY <1>0, <3>1, <3>2
      <2> HIDE DEF f
      <2>3. MintedOnly'
            BY <1>0, <1>3, <2>0, <2>1, <2>2 DEF IInv, MintedOnly, Pending
      <2>4. PendingIsFresh'
            BY <1>0, <1>3, <2>0, <2>1, <2>2 DEF IInv, PendingIsFresh, Pending
      <2>5. KindIsKnown'
            BY <2>0, <2>1, <2>2 DEF IInv, KindIsKnown, HasSession, IsSinglePut
      <2>6. PublishHasObject'
            BY <1>0, <2>0, <2>1, <2>2 DEF IInv, PublishHasObject, HasSession, At
      <2>7. DeletionsAreDead'
            BY <1>0, <2>0, <2>1 DEF IInv, DeletionsAreDead, HasSession
      <2>8. ObjectBehindFile'
            BY <1>0, <2>0 DEF IInv, ObjectBehindFile, Completed, HasSession, IsSinglePut
      <2> QED BY <2>3, <2>4, <2>5, <2>6, <2>7, <2>8 DEF IInv
<1> QED BY <1>1, <1>2, <1>3
LEMMA AbortUploadSafe ==
    ASSUME IInv, Typed', NEW w \in Workers, AbortUpload(w)
    PROVE  IInv'
<1>1. Undisturbed
      BY QuietIsUndisturbed DEF AbortUpload, AbortMultipartUpload, tables, Local
<1> QED BY <1>1, FinishSafe DEF AbortUpload

LEMMA GetUploadURLSafe ==
    ASSUME IInv, Typed', NEW w \in Workers, GetUploadURL(w)
    PROVE  IInv'
<1>0. req[w] \in Request /\ Undisturbed
      BY TypedParts, RequestOf, QuietIsUndisturbed DEF IInv, GetUploadURL, tables, bucket, Local
<1>1. PICK f \in DOMAIN entries :
        req' = [req EXCEPT ![w].op = "url", ![w].pc = "session", ![w].file = f]
      BY DEF GetUploadURL, IsFile, Exists
<1> DEFINE r == [req[w] EXCEPT !.op = "url", !.pc = "session", !.file = f]
<1>2. req' = [req EXCEPT ![w] = r]
      BY <1>1
<1>3. r.op = "url" /\ r.pc = "session" /\ r.file = f /\ r.doomed = req[w].doomed
      BY <1>0 DEF Request
<1> HIDE DEF r
<1>4. Calm(w, r)
      BY <1>3 DEF Calm, KindKnown
<1> QED BY <1>0, <1>2, <1>4, CalmStep

LEMMA UrlReadSessionSafe ==
    ASSUME IInv, Typed', NEW w \in Workers, UrlReadSession(w)
    PROVE  IInv'
<1>0. req[w] \in Request /\ req[w].op = "url" /\ Undisturbed
      BY TypedParts, RequestOf, QuietIsUndisturbed
         DEF IInv, UrlReadSession, PresignPutObject, At, tables, bucket, Local
<1>1. CASE Finish(w)
      BY <1>0, <1>1, FinishSafe
<1>2. ASSUME NEW list, HasSession(req[w].file), ~IsSinglePut(req[w].file),
             req' = [req EXCEPT ![w].pc = "rows", ![w].numbers = list]
      PROVE  IInv'
      <2> DEFINE r == [req[w] EXCEPT !.pc = "rows", !.numbers = list]
      <2>1. req' = [req EXCEPT ![w] = r]
            BY <1>2
      <2>2. /\ r.op = "url" /\ r.pc = "rows" /\ r.file = req[w].file
            /\ r.doomed = req[w].doomed
            BY <1>0 DEF Request
      <2> HIDE DEF r
      <2>3. Calm(w, r)
            BY <1>0, <1>2, <2>2 DEF Calm, KindKnown
      <2> QED BY <1>0, <2>1, <2>3, CalmStep
<1> QED BY <1>1, <1>2 DEF UrlReadSession

LEMMA UrlEnsurePartsSafe ==
    ASSUME IInv, Typed', NEW w \in Workers, UrlEnsureParts(w)
    PROVE  IInv'
<1>0. /\ req[w] \in Request /\ req[w].op = "url" /\ req[w].pc = "rows"
      /\ Undisturbed
      BY TypedParts, RequestOf, QuietIsUndisturbed
         DEF IInv, UrlEnsureParts, EnsurePartRows, At, bucket, Local
<1> DEFINE r == [req[w] EXCEPT !.pc = "raise"]
<1>1. req' = [req EXCEPT ![w] = r]
      BY DEF UrlEnsureParts, Goto
<1>2. /\ r.op = "url" /\ r.pc = "raise" /\ r.file = req[w].file
      /\ r.doomed = req[w].doomed
      BY <1>0 DEF Request
<1> HIDE DEF r
<1>3. Calm(w, r)
      BY <1>0, <1>2 DEF Calm, KindKnown, IInv, KindIsKnown
<1> QED BY <1>0, <1>1, <1>3, CalmStep

(* The count of parts only grows, and only on a multipart upload: nobody   *)
(* who took the upload for a single PUT is contradicted.                   *)
LEMMA UrlRaisePartCountSafe ==
    ASSUME IInv, Typed', NEW w \in Workers, UrlRaisePartCount(w)
    PROVE  IInv'
<1>a. PICK f : f = req[w].file
      OBVIOUS
<1>0. /\ UNCHANGED <<entries, minted, deletions, objects>>
      /\ req'[w] = Idle /\ \A v \in Workers : v # w => req'[v] = req[v]
      BY DEF UrlRaisePartCount, RaisePartCount, PresignUploadPart, Local, Finish,
             IInv, Typed, RequestsFilled
<1>1. Idle.op = "none" /\ Idle.pc = "idle" /\ Idle.doomed = {}
      BY DEF Idle
<1>2. HasSession(f) => ~IsSinglePut(f)
      BY <1>a DEF UrlRaisePartCount, At, IInv, KindIsKnown
<1>3. \/ sessions' = sessions
      \/ \E count \in Nat :
            /\ HasSession(f) /\ sessions[f].partCount < count
            /\ sessions' = [sessions EXCEPT ![f].partCount = count]
      <2>1. req[w] \in Request
            BY TypedParts, RequestOf DEF IInv
      <2>2. req[w].numbers \subseteq Nat
            BY <2>1 DEF Request, PartNo
      <2> QED BY <1>a, <2>2 DEF UrlRaisePartCount, RaisePartCount
<1>4. /\ DOMAIN sessions' = DOMAIN sessions
      /\ \A u \in DOMAIN sessions :
            /\ sessions'[u].status = sessions[u].status
            /\ IsSinglePut(u)' <=> IsSinglePut(u)
      <2>1. CASE sessions' = sessions
            BY <2>1 DEF IsSinglePut
      <2>2. ASSUME NEW count \in Nat, HasSession(f), sessions[f].partCount < count,
                   sessions' = [sessions EXCEPT ![f].partCount = count]
            PROVE  /\ DOMAIN sessions' = DOMAIN sessions
                   /\ \A u \in DOMAIN sessions :
                        /\ sessions'[u].status = sessions[u].status
                        /\ IsSinglePut(u)' <=> IsSinglePut(u)
            <3>1. /\ DOMAIN sessions' = DOMAIN sessions
                  /\ \A u \in DOMAIN sessions : u # f => sessions'[u] = sessions[u]
                  BY <2>2
            <3>2. sessions[f] \in Session
                  BY <2>2, TypedParts DEF IInv, RepositoryTypeOK, HasSession
            <3>3. /\ sessions'[f].status = sessions[f].status
                  /\ sessions'[f].chunked = sessions[f].chunked
                  /\ sessions'[f].partCount = count
                  BY <2>2, <3>2 DEF HasSession, Session
            <3>4. ~IsSinglePut(f) /\ ~IsSinglePut(f)'
                  BY <1>2, <2>2, <3>2, <3>3, RepositoryAssumption
                     DEF IsSinglePut, HasSession, Session, PartNo
            <3> QED BY <3>1, <3>3, <3>4 DEF IsSinglePut
      <2> QED BY <1>3, <2>1, <2>2
<1>5. MintedOnly'
      BY <1>0, <1>1, <1>4 DEF IInv, MintedOnly, Pending
<1>6. PendingIsFresh'
      BY <1>0, <1>1, <1>4 DEF IInv, PendingIsFresh, Pending
<1>7. KindIsKnown'
      BY <1>0, <1>1, <1>4 DEF IInv, KindIsKnown, HasSession
<1>8. PublishHasObject'
      BY <1>0, <1>1, <1>4 DEF IInv, PublishHasObject, HasSession, At
<1>9. DeletionsAreDead'
      BY <1>0, <1>4 DEF IInv, DeletionsAreDead, HasSession
<1>10. ObjectBehindFile'
      BY <1>0, <1>4 DEF IInv, ObjectBehindFile, Completed, HasSession
<1> QED BY <1>5, <1>6, <1>7, <1>8, <1>9, <1>10 DEF IInv

LEMMA CompleteFileSafe ==
    ASSUME IInv, Typed', NEW w \in Workers, CompleteFile(w)
    PROVE  IInv'
<1>0. req[w] \in Request /\ Undisturbed
      BY TypedParts, RequestOf, QuietIsUndisturbed DEF IInv, CompleteFile, tables, bucket, Local
<1>1. PICK u \in DOMAIN sessions :
        req' = [req EXCEPT ![w].op = "complete", ![w].pc = "entry", ![w].file = u,
                        ![w].numbers = IF IsSinglePut(u) THEN {} ELSE 1..sessions[u].partCount]
      BY DEF CompleteFile, HasSession
<1> DEFINE numbers == IF IsSinglePut(u) THEN {} ELSE 1..sessions[u].partCount
           r == [req[w] EXCEPT !.op = "complete", !.pc = "entry", !.file = u,
                               !.numbers = numbers]
<1>2. req' = [req EXCEPT ![w] = r]
      BY <1>1
<1>3. numbers = {} => IsSinglePut(u)
      <2>1. sessions[u].partCount \in PartNo
            BY TypedParts DEF IInv, RepositoryTypeOK, Session
      <2>2. 1 \in 1..sessions[u].partCount
            BY <2>1, RepositoryAssumption DEF PartNo
      <2> QED BY <2>2
<1> HIDE DEF numbers
<1>4. /\ r.op = "complete" /\ r.pc = "entry" /\ r.file = u
      /\ r.doomed = req[w].doomed /\ r.numbers = numbers
      BY <1>0 DEF Request
<1> HIDE DEF r
<1>5. Calm(w, r)
      BY <1>3, <1>4 DEF Calm, KindKnown
<1> QED BY <1>0, <1>2, <1>5, CalmStep

LEMMA CompleteReadEntrySafe ==
    ASSUME IInv, Typed', NEW w \in Workers, CompleteReadEntry(w)
    PROVE  IInv'
<1>0. req[w] \in Request /\ req[w].op = "complete" /\ Undisturbed
      BY TypedParts, RequestOf, QuietIsUndisturbed
         DEF IInv, CompleteReadEntry, At, tables, bucket, Local
<1>1. CASE Finish(w)
      BY <1>0, <1>1, FinishSafe
<1>2. ASSUME NEW pc, NEW hash, pc = IF req[w].numbers = {} THEN "publish" ELSE "list",
             req' = [req EXCEPT ![w].pc = pc, ![w].hash = hash]
      PROVE  IInv'
      <2> DEFINE r == [req[w] EXCEPT !.pc = pc, !.hash = hash]
      <2>1. req' = [req EXCEPT ![w] = r]
            BY <1>2
      <2>2. /\ r.op = "complete" /\ r.pc = pc /\ r.file = req[w].file
            /\ r.doomed = req[w].doomed /\ r.numbers = req[w].numbers
            BY <1>0 DEF Request
      <2> HIDE DEF r
      <2>3. Calm(w, r)
            BY <1>0, <1>2, <2>2 DEF Calm, KindKnown, IInv, KindIsKnown
      <2> QED BY <1>0, <2>1, <2>3, CalmStep
<1>3. \/ Finish(w)
      \/ \E f : req' = [req EXCEPT ![w].pc = IF req[w].numbers = {} THEN "publish" ELSE "list",
                                    ![w].hash = entries[f].hash]
      BY DEF CompleteReadEntry
<1> QED BY <1>1, <1>2, <1>3

LEMMA CollectCompletedPartsSafe ==
    ASSUME IInv, Typed', NEW w \in Workers, CollectCompletedParts(w)
    PROVE  IInv'
<1>1. Undisturbed
      BY QuietIsUndisturbed DEF CollectCompletedParts, tables, bucket, Local
<1> QED BY <1>1, FinishSafe, GotoSafe DEF CollectCompletedParts

LEMMA CombinePartsSafe ==
    ASSUME IInv, Typed', NEW w \in Workers, CombineParts(w)
    PROVE  IInv'
<1>0. req[w] \in Request /\ req[w].op = "complete"
      BY TypedParts, RequestOf DEF IInv, CombineParts, At
<1>1. Undisturbed
      BY DEF CombineParts, CompleteMultipartUpload, Put, Undisturbed, tables, bucket, Local
<1>2. CASE Finish(w)
      BY <1>1, <1>2, FinishSafe
<1>3. CASE CompleteMultipartUpload(req[w].file, req[w].numbers) /\ Goto(w, "publish")
      <2> DEFINE r == [req[w] EXCEPT !.pc = "publish"]
      <2>1. req' = [req EXCEPT ![w] = r]
            BY <1>3 DEF Goto
      <2>2. /\ r.op = "complete" /\ r.pc = "publish" /\ r.file = req[w].file
            /\ r.doomed = req[w].doomed /\ r.numbers = req[w].numbers
            BY <1>0 DEF Request
      <2>3. req[w].file \in DOMAIN objects'
            BY <1>3 DEF CompleteMultipartUpload, Put
      <2> HIDE DEF r
      <2>4. Calm(w, r)
            BY <1>0, <2>2, <2>3 DEF Calm, KindKnown, IInv, KindIsKnown
      <2> QED BY <1>1, <2>1, <2>4, CalmStep
<1> QED BY <1>2, <1>3 DEF CombineParts

(* A file that is published as a multipart upload has its object, and one  *)
(* that is published without was a single PUT and still is.                *)
LEMMA PublishFileSafe ==
    ASSUME IInv, Typed', NEW w \in Workers, PublishFile(w)
    PROVE  IInv'
<1>a. PICK f : f = req[w].file
      OBVIOUS
<1>0. /\ UNCHANGED <<entries, minted, deletions, objects>>
      /\ req'[w] = Idle /\ \A v \in Workers : v # w => req'[v] = req[v]
      BY DEF PublishFile, SetUploadSessionStatus, Local, bucket, Finish, IInv, Typed, RequestsFilled
<1>1. Idle.op = "none" /\ Idle.pc = "idle" /\ Idle.doomed = {}
      BY DEF Idle
<1>2. HasSession(f) => IsSinglePut(f) \/ f \in DOMAIN objects
      BY <1>a DEF PublishFile, At, IInv, KindIsKnown, PublishHasObject
<1>3. \/ sessions' = sessions
      \/ HasSession(f) /\ sessions' = [sessions EXCEPT ![f].status = "completed"]
      BY <1>a DEF PublishFile, SetUploadSessionStatus
<1>4. /\ DOMAIN sessions' = DOMAIN sessions
      /\ \A u \in DOMAIN sessions :
            /\ u # f => sessions'[u] = sessions[u]
            /\ IsSinglePut(u)' <=> IsSinglePut(u)
      <2>1. CASE sessions' = sessions
            BY <2>1 DEF IsSinglePut
      <2>2. CASE HasSession(f) /\ sessions' = [sessions EXCEPT ![f].status = "completed"]
            <3>1. sessions[f] \in Session
                  BY <2>2, TypedParts DEF IInv, RepositoryTypeOK, HasSession
            <3>2. /\ sessions'[f].partCount = sessions[f].partCount
                  /\ sessions'[f].chunked = sessions[f].chunked
                  BY <2>2, <3>1 DEF HasSession, Session
            <3> QED BY <2>2, <3>2 DEF IsSinglePut
      <2> QED BY <1>3, <2>1, <2>2
<1>5. MintedOnly'
      BY <1>0, <1>1, <1>4 DEF IInv, MintedOnly, Pending
<1>6. PendingIsFresh'
      BY <1>0, <1>1, <1>4 DEF IInv, PendingIsFresh, Pending
<1>7. KindIsKnown'
      BY <1>0, <1>1, <1>4 DEF IInv, KindIsKnown, HasSession
<1>8. PublishHasObject'
      BY <1>0, <1>1, <1>4 DEF IInv, PublishHasObject, HasSession, At
<1>9. DeletionsAreDead'
      BY <1>0, <1>4 DEF IInv, DeletionsAreDead, HasSession
<1>10. ObjectBehindFile'
      BY <1>0, <1>2, <1>4 DEF IInv, ObjectBehindFile, Completed, HasSession
<1> QED BY <1>5, <1>6, <1>7, <1>8, <1>9, <1>10 DEF IInv
-----------------------------------------------------------------------------
(***************************************************************************)
(* The steps of manage.go and recycle.go touch neither session nor object. *)
(***************************************************************************)
LEMMA DeleteFileSafe ==
    ASSUME IInv, Typed', NEW w \in Workers, DeleteFile(w)
    PROVE  IInv'
<1>0. req[w] \in Request /\ Undisturbed
      BY TypedParts, RequestOf, QuietIsUndisturbed DEF IInv, DeleteFile, tables, bucket, Local
<1>1. PICK f : req' = [req EXCEPT ![w].op = "delete", ![w].pc = "select",
                                  ![w].file = f, ![w].victim = f]
      BY DEF DeleteFile
<1> DEFINE r == [req[w] EXCEPT !.op = "delete", !.pc = "select", !.file = f, !.victim = f]
<1>2. /\ req' = [req EXCEPT ![w] = r]
      /\ r.op = "delete" /\ r.pc = "select" /\ r.doomed = req[w].doomed
      BY <1>0, <1>1 DEF Request
<1> HIDE DEF r
<1> QED BY <1>0, <1>2, ArrivalSafe

LEMMA UpdateSafe ==
    ASSUME IInv, Typed', NEW w \in Workers, Update(w)
    PROVE  IInv'
<1>0. req[w] \in Request /\ Undisturbed
      BY TypedParts, RequestOf, QuietIsUndisturbed DEF IInv, Update, tables, bucket, Local
<1>1. PICK f, p, name, was :
        req' = [req EXCEPT ![w].op = "rename", ![w].pc = "lookup", ![w].file = f,
                           ![w].parent = p, ![w].name = name, ![w].was = was]
      <2>1. PICK f \in DOMAIN entries, b \in Names :
            req' = [req EXCEPT ![w].op = "rename", ![w].pc = "lookup", ![w].file = f,
                               ![w].parent = entries[f].parent,
                               ![w].name = [base |-> b, tags |-> << >>],
                               ![w].was = entries[f].name]
            BY DEF Update
      <2> DEFINE p == entries[f].parent
                 name == [base |-> b, tags |-> << >>]
                 was == entries[f].name
      <2> HIDE DEF p, name, was
      <2>2. req' = [req EXCEPT ![w].op = "rename", ![w].pc = "lookup", ![w].file = f,
                               ![w].parent = p, ![w].name = name, ![w].was = was]
            BY <2>1 DEF p, name, was
      <2> QED BY <2>2
<1> DEFINE r == [req[w] EXCEPT !.op = "rename", !.pc = "lookup", !.file = f, !.parent = p,
                               !.name = name, !.was = was]
<1>2. /\ req' = [req EXCEPT ![w] = r]
      /\ r.op = "rename" /\ r.pc = "lookup" /\ r.doomed = req[w].doomed
      BY <1>0, <1>1 DEF Request
<1> HIDE DEF r
<1> QED BY <1>0, <1>2, ArrivalSafe

LEMMA MoveFileSafe ==
    ASSUME IInv, Typed', NEW w \in Workers, MoveFile(w)
    PROVE  IInv'
<1>0. req[w] \in Request /\ Undisturbed
      BY TypedParts, RequestOf, QuietIsUndisturbed DEF IInv, MoveFile, tables, bucket, Local
<1>1. PICK f, p : req' = [req EXCEPT ![w].op = "moveFile", ![w].pc = "entry",
                                     ![w].file = f, ![w].parent = p]
      BY DEF MoveFile
<1> DEFINE r == [req[w] EXCEPT !.op = "moveFile", !.pc = "entry", !.file = f, !.parent = p]
<1>2. /\ req' = [req EXCEPT ![w] = r]
      /\ r.op = "moveFile" /\ r.pc = "entry" /\ r.doomed = req[w].doomed
      BY <1>0, <1>1 DEF Request
<1> HIDE DEF r
<1> QED BY <1>0, <1>2, ArrivalSafe

LEMMA MoveFolderSafe ==
    ASSUME IInv, Typed', NEW w \in Workers, MoveFolder(w)
    PROVE  IInv'
<1>0. req[w] \in Request /\ Undisturbed
      BY TypedParts, RequestOf, QuietIsUndisturbed DEF IInv, MoveFolder, tables, bucket, Local
<1>1. PICK f, p : req' = [req EXCEPT ![w].op = "moveFolder", ![w].pc = "parent",
                                     ![w].file = f, ![w].parent = p]
      BY DEF MoveFolder
<1> DEFINE r == [req[w] EXCEPT !.op = "moveFolder", !.pc = "parent", !.file = f, !.parent = p]
<1>2. /\ req' = [req EXCEPT ![w] = r]
      /\ r.op = "moveFolder" /\ r.pc = "parent" /\ r.doomed = req[w].doomed
      BY <1>0, <1>1 DEF Request
<1> HIDE DEF r
<1> QED BY <1>0, <1>2, ArrivalSafe

LEMMA MoveReadsSafe ==
    ASSUME IInv, Typed', NEW w \in Workers,
           MoveFileReadEntry(w) \/ MoveFolderReadParent(w) \/ MoveFolderCheck(w)
    PROVE  IInv'
<1>1. Undisturbed
      BY QuietIsUndisturbed DEF MoveFileReadEntry, MoveFolderReadParent, MoveFolderCheck,
                                tables, bucket, Local
<1> QED BY <1>1, FinishSafe, GotoSafe
        DEF MoveFileReadEntry, MoveFolderReadParent, MoveFolderCheck

(* The writes of rename, move, trash and restore.                          *)
LEMMA ApplySafe ==
    ASSUME IInv, Typed', NEW w \in Workers,
           UpdateApply(w) \/ MoveApply(w) \/ TrashApply(w) \/ RestoreApply(w)
    PROVE  IInv'
<1>1. /\ DOMAIN entries' = DOMAIN entries
      /\ UNCHANGED <<sessions, minted, deletions, objects>>
      /\ Finish(w)
      BY DEF UpdateApply, MoveApply, TrashApply, RestoreApply, RenameEntry, MoveEntry,
             TrashEntry, RestoreEntry, tables, bucket, Local
<1> QED BY <1>1, QuietIsUndisturbed, FinishSafe

LEMMA RecycleBinTrashSafe ==
    ASSUME IInv, Typed', NEW w \in Workers, RecycleBinTrash(w)
    PROVE  IInv'
<1>0. req[w] \in Request /\ Undisturbed
      BY TypedParts, RequestOf, QuietIsUndisturbed
         DEF IInv, RecycleBinTrash, tables, bucket, Local
<1>1. PICK f, name, from :
        req' = [req EXCEPT ![w].op = "trash", ![w].pc = "lookup", ![w].file = f,
                           ![w].parent = Bin, ![w].name = name, ![w].from = from]
      BY DEF RecycleBinTrash
<1> DEFINE r == [req[w] EXCEPT !.op = "trash", !.pc = "lookup", !.file = f, !.parent = Bin,
                               !.name = name, !.from = from]
<1>2. /\ req' = [req EXCEPT ![w] = r]
      /\ r.op = "trash" /\ r.pc = "lookup" /\ r.doomed = req[w].doomed
      BY <1>0, <1>1 DEF Request
<1> HIDE DEF r
<1> QED BY <1>0, <1>2, ArrivalSafe

LEMMA RecycleBinRestoreSafe ==
    ASSUME IInv, Typed', NEW w \in Workers, RecycleBinRestore(w)
    PROVE  IInv'
<1>0. req[w] \in Request /\ Undisturbed
      BY TypedParts, RequestOf, QuietIsUndisturbed
         DEF IInv, RecycleBinRestore, tables, bucket, Local
<1>1. PICK f : req' = [req EXCEPT ![w].op = "restore", ![w].file = f,
                        ![w].pc = IF RestoreTarget(f) = Root THEN "lookup" ELSE "folder",
                        ![w].parent = RestoreTarget(f), ![w].name = entries[f].name]
      BY DEF RecycleBinRestore
<1> DEFINE name == entries[f].name
           p == RestoreTarget(f)
           pc == IF p = Root THEN "lookup" ELSE "folder"
           r == [req[w] EXCEPT !.op = "restore", !.file = f, !.pc = pc, !.parent = p,
                               !.name = name]
<1>2. req' = [req EXCEPT ![w] = r]
      BY <1>1
<1>3. pc # "persist"
      OBVIOUS
<1> HIDE DEF name, p, pc
<1>4. r.op = "restore" /\ r.pc = pc /\ r.doomed = req[w].doomed
      BY <1>0 DEF Request
<1> HIDE DEF r
<1> QED BY <1>0, <1>2, <1>3, <1>4, ArrivalSafe

LEMMA RestoreReadParentSafe ==
    ASSUME IInv, Typed', NEW w \in Workers, RestoreReadParent(w)
    PROVE  IInv'
<1>0. req[w] \in Request /\ req[w].op = "restore" /\ Undisturbed
      BY TypedParts, RequestOf, QuietIsUndisturbed
         DEF IInv, RestoreReadParent, At, tables, bucket, Local
<1>1. PICK p : req' = [req EXCEPT ![w].pc = "lookup", ![w].parent = p]
      BY DEF RestoreReadParent
<1> DEFINE r == [req[w] EXCEPT !.pc = "lookup", !.parent = p]
<1>2. /\ req' = [req EXCEPT ![w] = r]
      /\ r.op = "restore" /\ r.pc = "lookup" /\ r.doomed = req[w].doomed
      BY <1>0, <1>1 DEF Request
<1> HIDE DEF r
<1> QED BY <1>0, <1>2, ArrivalSafe

LEMMA RecycleBinClearSafe ==
    ASSUME IInv, Typed', NEW w \in Workers, RecycleBinClear(w)
    PROVE  IInv'
<1>0. req[w] \in Request /\ Undisturbed
      BY TypedParts, RequestOf, QuietIsUndisturbed
         DEF IInv, RecycleBinClear, tables, bucket, Local
<1>1. PICK binned, first :
        req' = [req EXCEPT ![w].op = "clear", ![w].pc = "select",
                           ![w].todo = binned, ![w].victim = first]
      BY DEF RecycleBinClear
<1> DEFINE r == [req[w] EXCEPT !.op = "clear", !.pc = "select", !.todo = binned,
                               !.victim = first]
<1>2. /\ req' = [req EXCEPT ![w] = r]
      /\ r.op = "clear" /\ r.pc = "select" /\ r.doomed = req[w].doomed
      BY <1>0, <1>1 DEF Request
<1> HIDE DEF r
<1> QED BY <1>0, <1>2, ArrivalSafe

-----------------------------------------------------------------------------
(***************************************************************************)
(* The goroutines, the clients and the failures.                           *)
(***************************************************************************)

(* The object that goes has no session.                                    *)
LEMMA BackgroundDeleteSafe ==
    ASSUME IInv, Typed', NEW f \in FileIDs, BackgroundDelete(f)
    PROVE  IInv'
<1>0. /\ UNCHANGED <<entries, sessions, req, minted>>
      /\ deletions' \subseteq deletions
      /\ ~HasSession(f)
      /\ \A u \in DOMAIN objects : u # f => u \in DOMAIN objects'
      BY DEF BackgroundDelete, DeleteObject, Drop, tables, bucket, IInv, DeletionsAreDead
<1>1. MintedOnly'
      BY <1>0 DEF IInv, MintedOnly, Pending
<1>2. PendingIsFresh'
      BY <1>0 DEF IInv, PendingIsFresh, Pending
<1>3. KindIsKnown'
      BY <1>0 DEF IInv, KindIsKnown, HasSession, IsSinglePut
<1>4. PublishHasObject'
      BY <1>0 DEF IInv, PublishHasObject, HasSession, At
<1>5. DeletionsAreDead'
      BY <1>0 DEF IInv, DeletionsAreDead, HasSession
<1>6. ObjectBehindFile'
      BY <1>0 DEF IInv, ObjectBehindFile, Completed, HasSession, IsSinglePut
<1> QED BY <1>1, <1>2, <1>3, <1>4, <1>5, <1>6 DEF IInv

LEMMA PostCompleteSafe ==
    ASSUME IInv, Typed', NEW p \in postings, PostComplete(p)
    PROVE  IInv'
<1>1. UNCHANGED req /\ Undisturbed
      BY QuietIsUndisturbed
         DEF PostComplete, PostCompleteMarkPart, PostCompleteHash, PostCompleteUpdate,
             MarkUploadPartUploaded, UpdateEntryHash, tables, bucket
<1> QED BY <1>1, UndisturbedStep

LEMMA ClientSafe ==
    ASSUME IInv, Typed', Client
    PROVE  IInv'
<1>1. UNCHANGED req /\ Undisturbed
      BY DEF Client, ClientPutObject, ClientUploadPart, Put, Undisturbed, tables
<1> QED BY <1>1, UndisturbedStep

LEMMA CallFailsSafe ==
    ASSUME IInv, Typed', NEW w \in Workers, CallFails(w)
    PROVE  IInv'
<1>1. Undisturbed
      BY QuietIsUndisturbed DEF CallFails, tables, bucket, Local
<1> QED BY <1>1, FinishSafe, GotoSafe DEF CallFails

LEMMA CrashSafe ==
    ASSUME IInv, Typed', Crash
    PROVE  IInv'
<1>0. /\ UNCHANGED <<entries, sessions, objects, minted>> /\ deletions' = {}
      /\ \A w \in Workers : req'[w].op = "none" /\ req'[w].pc = "idle" /\ req'[w].doomed = {}
      BY DEF Crash, tables, bucket, Idle
<1>1. MintedOnly' /\ PendingIsFresh'
      BY <1>0 DEF IInv, MintedOnly, PendingIsFresh, Pending
<1>2. KindIsKnown' /\ PublishHasObject'
      BY <1>0 DEF KindIsKnown, PublishHasObject, At
<1>3. DeletionsAreDead' /\ ObjectBehindFile'
      BY <1>0 DEF IInv, DeletionsAreDead, ObjectBehindFile, Completed, HasSession, IsSinglePut
<1> QED BY <1>1, <1>2, <1>3 DEF IInv

-----------------------------------------------------------------------------
(***************************************************************************)
(* The theorems.                                                           *)
(***************************************************************************)
LEMMA InitSafe ==
    ASSUME Init
    PROVE  IInv
<1>1. /\ DOMAIN entries = DOMAIN Seed /\ minted = DOMAIN Seed
      /\ DOMAIN sessions = {} /\ deletions = {}
      /\ \A w \in Workers : req[w].op = "none" /\ req[w].pc = "idle" /\ req[w].doomed = {}
      BY DEF Init, ServiceInit, RepositoryInit, Empty, Idle
<1>2. MintedOnly /\ PendingIsFresh
      BY <1>1 DEF MintedOnly, PendingIsFresh, Pending
<1>3. KindIsKnown /\ PublishHasObject /\ DeletionsAreDead /\ ObjectBehindFile
      BY <1>1 DEF KindIsKnown, PublishHasObject, DeletionsAreDead, ObjectBehindFile, HasSession, At
<1> QED BY <1>2, <1>3, InitTyped DEF IInv

LEMMA StepSafe ==
    ASSUME IInv, [Next]_vars
    PROVE  IInv'
<1>0. Typed'
      BY StepTyped DEF IInv
<1>1. CASE UNCHANGED vars
      <2>1. UNCHANGED req /\ Undisturbed
            BY <1>1, QuietIsUndisturbed DEF vars, Local, tables, bucket
      <2> QED BY <1>0, <2>1, UndisturbedStep
<1>2. ASSUME NEW w \in Workers, Shared(w)
      PROVE  IInv'
      BY <1>0, <1>2, LookupNameSafe, CleanupStaleUploadEntrySafe, SelectTreeSafe, PurgeTreeSafe
         DEF Shared
<1>3. ASSUME NEW w \in Workers, UploadNext(w)
      PROVE  IInv'
      BY <1>0, <1>3, CreateWithFoldersSafe, CreateFolderEntrySafe, PrepareUploadSafe,
         PersistUploadSafe, AbortUploadSafe, GetUploadURLSafe, UrlReadSessionSafe,
         UrlEnsurePartsSafe, UrlRaisePartCountSafe, CompleteFileSafe, CompleteReadEntrySafe,
         CollectCompletedPartsSafe, CombinePartsSafe, PublishFileSafe
         DEF UploadNext
<1>4. ASSUME NEW w \in Workers, ManageNext(w)
      PROVE  IInv'
      BY <1>0, <1>4, DeleteFileSafe, UpdateSafe, MoveFileSafe, MoveFolderSafe, MoveReadsSafe,
         ApplySafe
         DEF ManageNext
<1>5. ASSUME NEW w \in Workers, RecycleNext(w)
      PROVE  IInv'
      BY <1>0, <1>5, RecycleBinTrashSafe, RecycleBinRestoreSafe, RestoreReadParentSafe,
         RecycleBinClearSafe, ApplySafe
         DEF RecycleNext
<1> QED BY <1>0, <1>1, <1>2, <1>3, <1>4, <1>5, CallFailsSafe, BackgroundDeleteSafe,
           PostCompleteSafe, ClientSafe, CrashSafe
        DEF Next

LEMMA Invariance == Spec => []IInv
<1>1. Init => IInv
      BY InitSafe
<1>2. IInv /\ [Next]_vars => IInv'
      BY StepSafe
<1> QED BY <1>1, <1>2, PTL DEF Spec

(* Whatever the requests and crashes, a key that scheduleObjectDeletion    *)
(* holds belongs to a file whose session is gone: a deletion that comes    *)
(* late can never take the object of a file that is still listed.          *)
THEOREM DeletionsStayDead == Spec => []DeletionsAreDead
<1>1. IInv => DeletionsAreDead
      BY DEF IInv
<1> QED BY <1>1, Invariance, PTL

(* A multipart file that CompleteFile has published has its object in the  *)
(* bucket from then on, for every number of concurrent requests, parts and *)
(* identifiers, through failed calls and crashes.                          *)
THEOREM PublishedHasObject == Spec => []ObjectBehindFile
<1>1. IInv => ObjectBehindFile
      BY DEF IInv
<1> QED BY <1>1, Invariance, PTL
-----------------------------------------------------------------------------
(***************************************************************************)
(* What a step does to its request.                                        *)
(***************************************************************************)
(* What a step of w keeps of the upload it is about, unless it takes one   *)
(* up: the declared chunks, and what it completes.                         *)
KeepsUpload(w) ==
    /\ req'[w].chunked =>
        /\ req[w].chunked /\ req'[w].pc # "idle"
        /\ req[w].pc = "idle" \/ req[w].numbers = {} \/ req'[w].numbers # {}
    /\ req'[w].op = "complete" =>
        \/ CompleteFile(w)
        \/ /\ req[w].op = "complete"
           /\ req'[w].file = req[w].file /\ req'[w].numbers = req[w].numbers

(* What a step of w does to its request: only SelectTree leads to a purge, *)
(* and the operation is one of Ops until the request is done.              *)
Advances(w) ==
    /\ \A v \in Workers \ {w} : req'[v] = req[v]
    /\ req'[w].pc = "purge" => SelectTree(w)
    /\ req'[w].op \in {"none", req[w].op} \cup Ops

(* A step of w that neither reserves an identifier nor lets one go.        *)
Away(w) == Advances(w) /\ KeepsUpload(w) /\ ~Pending(w) /\ req'[w].pc # "persist"

LEMMA RequestsAre ==
    ASSUME IInv, NEW w \in Workers
    PROVE  /\ req \in [Workers -> Request]
           /\ req[w] \in Request
           /\ Pending(w) => req[w].op = "create"
BY TypedParts, RequestOf DEF IInv, Typed, TypeOK, ServiceTypeOK, Filled, Pending

(* The steps that stay away from pending creations.                        *)
LEMMA FinishAway ==
    ASSUME IInv, NEW w \in Workers, ~Pending(w), Finish(w)
    PROVE  Away(w)
BY RequestsAre DEF Away, Advances, KeepsUpload, Finish, Idle

LEMMA GotoAway ==
    ASSUME IInv, NEW w \in Workers, ~Pending(w), NEW pc,
           pc \notin {"idle", "persist", "purge"}, Goto(w, pc)
    PROVE  Away(w)
BY RequestsAre DEF Away, Advances, KeepsUpload, Goto, Request

LEMMA NameTakenAway ==
    ASSUME IInv, NEW w \in Workers, ~Pending(w), NEW e, NameTaken(w, e)
    PROVE  Away(w)
<1>1. CASE Finish(w)
      BY <1>1, FinishAway
<1>2. CASE Destroy(w, e, "overwrite")
      BY <1>2, RequestsAre DEF Away, Advances, KeepsUpload, Destroy, Request
<1>3. CASE NextCandidate(w)
      <2>1. CASE req' = [req EXCEPT ![w].pc = "lookup", ![w].n = @ + 1, ![w].victim = NULL]
            BY <2>1, RequestsAre DEF Away, Advances, KeepsUpload, Request
      <2> QED BY <1>3, <2>1, FinishAway DEF NextCandidate
<1> QED BY <1>1, <1>2, <1>3 DEF NameTaken

LEMMA AfterDeleteAway ==
    ASSUME IInv, NEW w \in Workers, ~Pending(w), AfterDelete(w)
    PROVE  Away(w)
<1>1. ASSUME NEW next, NEW left,
             req' = [req EXCEPT ![w].pc = "select", ![w].victim = next,
                                ![w].todo = left, ![w].doomed = {}]
      PROVE  Away(w)
      BY <1>1, RequestsAre DEF Away, Advances, KeepsUpload, Request
<1>2. CASE req' = [req EXCEPT ![w].pc = "apply", ![w].victim = NULL,
                              ![w].why = NULL, ![w].doomed = {}]
      BY <1>2, RequestsAre DEF Away, Advances, KeepsUpload, Request
<1>3. \/ Finish(w)
      \/ \E next, left : req' = [req EXCEPT ![w].pc = "select", ![w].victim = next,
                                            ![w].todo = left, ![w].doomed = {}]
      \/ req' = [req EXCEPT ![w].pc = "apply", ![w].victim = NULL,
                            ![w].why = NULL, ![w].doomed = {}]
      BY DEF AfterDelete
<1> QED BY <1>1, <1>2, <1>3, FinishAway

LEMMA SharedAway ==
    ASSUME IInv, NEW w \in Workers, Shared(w)
    PROVE  Away(w)
<1>0. ~Pending(w)
      BY DEF Shared, LookupName, CleanupStaleUploadEntry, SelectTree, PurgeTree, Pending
<1>1. CASE LookupName(w)
      <2>1. ASSUME NEW e, req' = [req EXCEPT ![w].pc = "stale", ![w].victim = e]
            PROVE  Away(w)
            BY <1>0, <2>1, RequestsAre DEF Away, Advances, KeepsUpload, Request
      <2> QED BY <1>0, <1>1, <2>1, GotoAway, NameTakenAway DEF LookupName
<1>2. CASE CleanupStaleUploadEntry(w)
      <2>1. CASE Destroy(w, req[w].victim, "stale")
            BY <1>0, <2>1, RequestsAre DEF Away, Advances, KeepsUpload, Destroy, Request
      <2> QED BY <1>0, <1>2, <2>1, NameTakenAway DEF CleanupStaleUploadEntry
<1>3. CASE SelectTree(w)
      <2>1. ASSUME NEW D, req' = [req EXCEPT ![w].pc = "purge", ![w].doomed = D]
            PROVE  Away(w)
            BY <1>0, <1>3, <2>1, RequestsAre DEF Away, Advances, KeepsUpload, Request
      <2> QED BY <1>0, <1>3, <2>1, AfterDeleteAway DEF SelectTree
<1>4. CASE PurgeTree(w)
      BY <1>0, <1>4, AfterDeleteAway, FinishAway DEF PurgeTree
<1> QED BY <1>1, <1>2, <1>3, <1>4 DEF Shared

LEMMA UploadReadsAway ==
    ASSUME IInv, NEW w \in Workers,
           CreateWithFolders(w) \/ AbortUpload(w) \/ GetUploadURL(w) \/ UrlReadSession(w) \/
           UrlEnsureParts(w) \/ CompleteFile(w) \/ CompleteReadEntry(w) \/
           CollectCompletedParts(w) \/ CombineParts(w)
    PROVE  Away(w) /\ UNCHANGED <<minted, entries, sessions>>
<1>0. /\ ~Pending(w)
      /\ CreateWithFolders(w) => "create" \in Ops
      /\ GetUploadURL(w) => "url" \in Ops
      /\ CompleteFile(w) => "complete" \in Ops
      BY DEF CreateWithFolders, AbortUpload, GetUploadURL, UrlReadSession, UrlEnsureParts,
             CompleteFile, CompleteReadEntry, CollectCompletedParts, CombineParts, At, Pending
<1>1. CASE CreateWithFolders(w)
      <2>1. ASSUME NEW p, NEW name,
                   req' = [req EXCEPT ![w].op = "create", ![w].pc = "lookup", ![w].parent = p,
                                      ![w].name = name]
            PROVE  Away(w)
            BY <1>0, <1>1, <2>1, RequestsAre DEF Away, Advances, KeepsUpload, Request
      <2>2. PICK p, b :
              req' = [req EXCEPT ![w].op = "create", ![w].pc = "lookup", ![w].parent = p,
                                 ![w].name = [base |-> b, tags |-> << >>]]
            BY <1>1 DEF CreateWithFolders
      <2> QED BY <1>1, <2>1, <2>2 DEF CreateWithFolders, tables, Local
<1>2. CASE AbortUpload(w)
      BY <1>0, <1>2, FinishAway DEF AbortUpload, tables, Local
<1>3. CASE GetUploadURL(w)
      <2>1. PICK f : req' = [req EXCEPT ![w].op = "url", ![w].pc = "session", ![w].file = f]
            BY <1>3 DEF GetUploadURL
      <2>2. Away(w)
            BY <1>0, <1>3, <2>1, RequestsAre DEF Away, Advances, KeepsUpload, Request
      <2> QED BY <1>3, <2>2 DEF GetUploadURL, tables, Local
<1>4. CASE UrlReadSession(w)
      <2>1. ASSUME NEW list, list # {},
                   req' = [req EXCEPT ![w].pc = "rows", ![w].numbers = list]
            PROVE  Away(w)
            BY <1>0, <2>1, RequestsAre DEF Away, Advances, KeepsUpload, Request
      <2> QED BY <1>0, <1>4, <2>1, FinishAway DEF UrlReadSession, tables, Local
<1>5. CASE UrlEnsureParts(w)
      BY <1>0, <1>5, GotoAway DEF UrlEnsureParts, EnsurePartRows, Local
<1>6. CASE CompleteFile(w)
      <2>1. ASSUME NEW u, NEW numbers,
                   req' = [req EXCEPT ![w].op = "complete", ![w].pc = "entry", ![w].file = u,
                                      ![w].numbers = numbers]
            PROVE  Away(w)
            BY <1>0, <1>6, <2>1, RequestsAre DEF Away, Advances, KeepsUpload, Request
      <2>2. PICK u :
              req' = [req EXCEPT ![w].op = "complete", ![w].pc = "entry", ![w].file = u,
                        ![w].numbers = IF IsSinglePut(u) THEN {} ELSE 1..sessions[u].partCount]
            BY <1>6 DEF CompleteFile
      <2> QED BY <1>6, <2>1, <2>2 DEF CompleteFile, tables, Local
<1>7. CASE CompleteReadEntry(w)
      <2>1. ASSUME NEW pc \in {"publish", "list"}, NEW h,
                   req' = [req EXCEPT ![w].pc = pc, ![w].hash = h]
            PROVE  Away(w)
            BY <1>0, <2>1, RequestsAre DEF Away, Advances, KeepsUpload, Request
      <2>2. \/ Finish(w)
            \/ \E pc \in {"publish", "list"} : \E h :
                req' = [req EXCEPT ![w].pc = pc, ![w].hash = h]
            <3>1. PICK f \in FileIDs :
                    IF IsFile(f) /\ f = req[w].file
                    THEN req' = [req EXCEPT ![w].pc = IF req[w].numbers = {} THEN "publish"
                                                                            ELSE "list",
                                            ![w].hash = entries[f].hash]
                    ELSE Finish(w)
                  BY <1>7 DEF CompleteReadEntry
            <3> DEFINE pc == IF req[w].numbers = {} THEN "publish" ELSE "list"
                       h == entries[f].hash
            <3>2. pc \in {"publish", "list"}
                  OBVIOUS
            <3>3. Finish(w) \/ req' = [req EXCEPT ![w].pc = pc, ![w].hash = h]
                  BY <3>1
            <3> HIDE DEF pc, h
            <3> QED BY <3>2, <3>3
      <2> QED BY <1>0, <1>7, <2>1, <2>2, FinishAway DEF CompleteReadEntry, tables, Local
<1>8. CASE CollectCompletedParts(w)
      BY <1>0, <1>8, FinishAway, GotoAway DEF CollectCompletedParts, tables, Local
<1>9. CASE CombineParts(w)
      BY <1>0, <1>9, FinishAway, GotoAway DEF CombineParts, tables, Local
<1> QED BY <1>1, <1>2, <1>3, <1>4, <1>5, <1>6, <1>7, <1>8, <1>9

LEMMA ManageReadsAway ==
    ASSUME IInv, NEW w \in Workers,
           DeleteFile(w) \/ Update(w) \/ MoveFile(w) \/ MoveFileReadEntry(w) \/ MoveFolder(w) \/
           MoveFolderReadParent(w) \/ MoveFolderCheck(w)
    PROVE  Away(w) /\ UNCHANGED <<minted, entries, sessions>>
<1>0. /\ ~Pending(w)
      /\ DeleteFile(w) => "delete" \in Ops
      /\ Update(w) => "rename" \in Ops
      /\ MoveFile(w) => "moveFile" \in Ops
      /\ MoveFolder(w) => "moveFolder" \in Ops
      /\ UNCHANGED <<minted, entries, sessions>>
      BY DEF DeleteFile, Update, MoveFile, MoveFileReadEntry, MoveFolder, MoveFolderReadParent,
             MoveFolderCheck, At, Pending, tables, Local
<1>1. CASE DeleteFile(w)
      <2>1. PICK f : req' = [req EXCEPT ![w].op = "delete", ![w].pc = "select",
                                        ![w].file = f, ![w].victim = f]
            BY <1>1 DEF DeleteFile
      <2> QED BY <1>0, <1>1, <2>1, RequestsAre DEF Away, Advances, KeepsUpload, Request
<1>2. CASE Update(w)
      <2>1. ASSUME NEW f, NEW p, NEW name, NEW was,
                   req' = [req EXCEPT ![w].op = "rename", ![w].pc = "lookup", ![w].file = f,
                              ![w].parent = p, ![w].name = name, ![w].was = was]
            PROVE  Away(w)
            BY <1>0, <1>2, <2>1, RequestsAre DEF Away, Advances, KeepsUpload, Request
      <2>2. PICK f, b :
              req' = [req EXCEPT ![w].op = "rename", ![w].pc = "lookup", ![w].file = f,
                              ![w].parent = entries[f].parent,
                              ![w].name = [base |-> b, tags |-> << >>],
                              ![w].was = entries[f].name]
            BY <1>2 DEF Update
      <2> QED BY <1>0, <2>1, <2>2
<1>3. CASE MoveFile(w)
      <2>1. PICK f, p : req' = [req EXCEPT ![w].op = "moveFile", ![w].pc = "entry",
                                           ![w].file = f, ![w].parent = p]
            BY <1>3 DEF MoveFile
      <2> QED BY <1>0, <1>3, <2>1, RequestsAre DEF Away, Advances, KeepsUpload, Request
<1>4. CASE MoveFolder(w)
      <2>1. PICK f, p : req' = [req EXCEPT ![w].op = "moveFolder", ![w].pc = "parent",
                                           ![w].file = f, ![w].parent = p]
            BY <1>4 DEF MoveFolder
      <2> QED BY <1>0, <1>4, <2>1, RequestsAre DEF Away, Advances, KeepsUpload, Request
<1>5. CASE MoveFileReadEntry(w) \/ MoveFolderReadParent(w) \/ MoveFolderCheck(w)
      BY <1>0, <1>5, FinishAway, GotoAway
         DEF MoveFileReadEntry, MoveFolderReadParent, MoveFolderCheck
<1> QED BY <1>0, <1>1, <1>2, <1>3, <1>4, <1>5

LEMMA RecycleReadsAway ==
    ASSUME IInv, NEW w \in Workers,
           RecycleBinTrash(w) \/ RecycleBinRestore(w) \/ RestoreReadParent(w) \/ RecycleBinClear(w)
    PROVE  Away(w) /\ UNCHANGED <<minted, entries, sessions>>
<1>0. /\ ~Pending(w)
      /\ RecycleBinTrash(w) => "trash" \in Ops
      /\ RecycleBinRestore(w) => "restore" \in Ops
      /\ RecycleBinClear(w) => "clear" \in Ops
      /\ UNCHANGED <<minted, entries, sessions>>
      BY DEF RecycleBinTrash, RecycleBinRestore, RestoreReadParent, RecycleBinClear, At,
             Pending, tables, Local
<1>1. CASE RecycleBinTrash(w)
      <2>1. ASSUME NEW f, NEW name, NEW from,
                   req' = [req EXCEPT ![w].op = "trash", ![w].pc = "lookup", ![w].file = f,
                              ![w].parent = Bin, ![w].name = name, ![w].from = from]
            PROVE  Away(w)
            BY <1>0, <1>1, <2>1, RequestsAre DEF Away, Advances, KeepsUpload, Request
      <2>2. PICK f :
              req' = [req EXCEPT ![w].op = "trash", ![w].pc = "lookup", ![w].file = f,
                              ![w].parent = Bin, ![w].name = entries[f].name,
                              ![w].from = entries[f].parent]
            BY <1>1 DEF RecycleBinTrash
      <2> QED BY <1>0, <2>1, <2>2
<1>2. CASE RecycleBinRestore(w)
      <2>1. ASSUME NEW f, NEW pc \in {"lookup", "folder"}, NEW p, NEW name,
                   req' = [req EXCEPT ![w].op = "restore", ![w].file = f, ![w].pc = pc,
                                      ![w].parent = p, ![w].name = name]
            PROVE  Away(w)
            BY <1>0, <1>2, <2>1, RequestsAre DEF Away, Advances, KeepsUpload, Request
      <2>2. PICK f :
              req' = [req EXCEPT ![w].op = "restore", ![w].file = f,
                              ![w].pc = IF RestoreTarget(f) = Root THEN "lookup" ELSE "folder",
                              ![w].parent = RestoreTarget(f), ![w].name = entries[f].name]
            BY <1>2 DEF RecycleBinRestore
      <2> DEFINE pc == IF RestoreTarget(f) = Root THEN "lookup" ELSE "folder"
      <2>3. pc \in {"lookup", "folder"}
            OBVIOUS
      <2> HIDE DEF pc
      <2> QED BY <1>0, <2>1, <2>2, <2>3 DEF pc
<1>3. CASE RestoreReadParent(w)
      <2>1. PICK p : req' = [req EXCEPT ![w].pc = "lookup", ![w].parent = p]
            BY <1>3 DEF RestoreReadParent
      <2> QED BY <1>0, <2>1, RequestsAre DEF Away, Advances, KeepsUpload, Request
<1>4. CASE RecycleBinClear(w)
      <2>1. PICK binned, first :
              req' = [req EXCEPT ![w].op = "clear", ![w].pc = "select",
                                 ![w].todo = binned, ![w].victim = first]
            BY <1>4 DEF RecycleBinClear
      <2> QED BY <1>0, <1>4, <2>1, RequestsAre DEF Away, Advances, KeepsUpload, Request
<1> QED BY <1>0, <1>1, <1>2, <1>3, <1>4

-----------------------------------------------------------------------------
(***************************************************************************)
(* What an object is made of.                                              *)
(***************************************************************************)
KeysMinted ==
    \A f \in FileIDs : f \in DOMAIN objects \/ <<f, 0>> \in urls => f \in minted

(* There is nothing in the bucket yet for a pending creation.              *)
KeyIsFresh ==
    \A w \in Workers : Pending(w) =>
        req[w].file \notin DOMAIN objects /\ <<req[w].file, 0>> \notin urls

(* An object can be PUT as a whole in a single PUT upload only.            *)
PutIsSingle == \A u \in DOMAIN sessions : <<u, 0>> \in urls => IsSinglePut(u)

(* Chunks are declared together with the parts of a multipart upload.      *)
ChunksHaveParts == \A w \in Workers : req[w].chunked => req[w].pc # "idle" /\ req[w].numbers # {}

UpTo(numbers, count) == \E k \in 1..count : numbers = 1..k

(* A request completes what the session counted then, and counts since.    *)
CountedParts ==
    \A w \in Workers :
        req[w].op = "complete" /\ req[w].numbers # {} /\ HasSession(req[w].file)
            => UpTo(req[w].numbers, sessions[req[w].file].partCount)

(* NoGapInObject for a file that is not published as well.                 *)
WholeObjects ==
    \A u \in DOMAIN sessions \cap DOMAIN objects :
        ~IsSinglePut(u) => UpTo(objects[u], sessions[u].partCount)

Gapless ==
    /\ KeysMinted
    /\ KeyIsFresh
    /\ PutIsSingle
    /\ ChunksHaveParts
    /\ CountedParts
    /\ WholeObjects

GapInv == IInv /\ Gapless

(* What most steps keep.                                                   *)
RequestsKept ==
    \A v \in Workers :
        /\ Pending(v)' => Pending(v) /\ req'[v].file = req[v].file
        /\ req'[v].chunked => req'[v].pc # "idle" /\ req'[v].numbers # {}
        /\ req'[v].op = "complete" =>
            /\ req[v].op = "complete"
            /\ req'[v].file = req[v].file /\ req'[v].numbers = req[v].numbers

SessionsKept ==
    \A u \in DOMAIN sessions' :
        /\ u \in DOMAIN sessions
        /\ sessions[u].partCount <= sessions'[u].partCount
        /\ IsSinglePut(u)' <=> IsSinglePut(u)

BucketKept ==
    \A f \in FileIDs :
        /\ f \in DOMAIN objects' => f \in DOMAIN objects /\ objects'[f] = objects[f]
        /\ <<f, 0>> \in urls' => <<f, 0>> \in urls

LEMMA GapTypes ==
    ASSUME Typed
    PROVE  /\ DOMAIN objects \subseteq FileIDs
           /\ DOMAIN sessions \subseteq FileIDs
           /\ \A u \in DOMAIN sessions : sessions[u] \in Session /\ sessions[u].partCount \in Nat
           /\ \A w \in Workers : req[w] \in Request /\ Filled(req[w])
           /\ MaxPart \in Nat
BY TypedParts, RequestOf, RepositoryAssumption
   DEF RepositoryTypeOK, StorageTypeOK, Session, PartNo

LEMMA UpToMore ==
    ASSUME NEW numbers, NEW m \in Nat, NEW n \in Nat, m <= n, UpTo(numbers, m)
    PROVE  UpTo(numbers, n)
BY DEF UpTo

LEMMA CountedKept ==
    ASSUME GapInv, Typed', RequestsKept, SessionsKept
    PROVE  CountedParts'
<1> SUFFICES ASSUME NEW w \in Workers, NEW u, u = req'[w].file,
                    req'[w].op = "complete", req'[w].numbers # {}, u \in DOMAIN sessions'
             PROVE  UpTo(req'[w].numbers, sessions'[u].partCount)
    BY DEF CountedParts, HasSession
<1>1. /\ req[w].op = "complete" /\ req[w].file = u /\ req[w].numbers = req'[w].numbers
      /\ u \in DOMAIN sessions /\ sessions[u].partCount <= sessions'[u].partCount
      BY DEF RequestsKept, SessionsKept
<1>2. UpTo(req[w].numbers, sessions[u].partCount)
      BY <1>1 DEF GapInv, Gapless, CountedParts, HasSession
<1>3. sessions[u].partCount \in Nat /\ sessions'[u].partCount \in Nat
      BY <1>1, GapTypes
         DEF GapInv, IInv, Typed, TypeOK, ServiceTypeOK, RepositoryTypeOK, Session, PartNo
<1> QED BY <1>1, <1>2, <1>3, UpToMore

LEMMA GapKept ==
    ASSUME GapInv, Typed', minted \subseteq minted', RequestsKept, SessionsKept, BucketKept
    PROVE  Gapless'
<1>0. /\ DOMAIN objects' \subseteq FileIDs
      /\ \A u \in DOMAIN sessions' : u \in FileIDs /\ sessions'[u].partCount \in Nat
      /\ \A u \in DOMAIN sessions : sessions[u].partCount \in Nat
      BY GapTypes DEF GapInv, IInv, Typed, TypeOK, ServiceTypeOK, RepositoryTypeOK, StorageTypeOK,
                      Session, PartNo
<1>1. KeysMinted'
      BY DEF GapInv, Gapless, KeysMinted, BucketKept
<1>2. KeyIsFresh'
      <2>1. \A v \in Workers : Pending(v) => req[v].file \in FileIDs
            BY GapTypes DEF GapInv, IInv, MintedOnly, Typed, TypeOK, ServiceTypeOK
      <2> QED BY <2>1 DEF GapInv, Gapless, KeyIsFresh, RequestsKept, BucketKept
<1>3. PutIsSingle'
      BY <1>0 DEF GapInv, Gapless, PutIsSingle, SessionsKept, BucketKept
<1>4. ChunksHaveParts'
      BY DEF RequestsKept, ChunksHaveParts
<1>5. CountedParts'
      BY CountedKept
<1>6. WholeObjects'
      <2> SUFFICES ASSUME NEW u \in DOMAIN sessions' \cap DOMAIN objects', ~IsSinglePut(u)'
                   PROVE  UpTo(objects'[u], sessions'[u].partCount)
          BY DEF WholeObjects
      <2>1. /\ u \in DOMAIN sessions \cap DOMAIN objects /\ ~IsSinglePut(u)
            /\ objects'[u] = objects[u] /\ sessions[u].partCount <= sessions'[u].partCount
            BY <1>0 DEF SessionsKept, BucketKept
      <2>2. UpTo(objects[u], sessions[u].partCount)
            BY <2>1 DEF GapInv, Gapless, WholeObjects
      <2> QED BY <1>0, <2>1, <2>2, UpToMore
<1> QED BY <1>1, <1>2, <1>3, <1>4, <1>5, <1>6 DEF Gapless

(* The steps that leave sessions and bucket as they are.                   *)
LEMMA SameSessions ==
    ASSUME Typed, UNCHANGED sessions
    PROVE  SessionsKept
BY GapTypes DEF SessionsKept, IsSinglePut

LEMMA SameBucket ==
    ASSUME UNCHANGED <<objects, urls>>
    PROVE  BucketKept
BY DEF BucketKept

LEMMA AwayKeepsRequests ==
    ASSUME GapInv, NEW w \in Workers, Away(w), ~CompleteFile(w)
    PROVE  RequestsKept
BY DEF RequestsKept, GapInv, Gapless, ChunksHaveParts, Away, Advances, KeepsUpload, Pending

LEMMA EndKeepsRequests ==
    ASSUME GapInv, NEW w \in Workers, Finish(w) \/ Goto(w, "abort"),
           Goto(w, "abort") => req[w].op = "create" /\ req[w].pc = "persist"
    PROVE  RequestsKept
<1>1. req \in [Workers -> Request]
      BY RequestsAre DEF GapInv
<1> QED BY <1>1 DEF RequestsKept, GapInv, Gapless, ChunksHaveParts, Finish, Goto, Idle, Pending,
                    Request

LEMMA SameRequestsKept ==
    ASSUME GapInv, UNCHANGED req
    PROVE  RequestsKept
BY DEF RequestsKept, GapInv, Gapless, ChunksHaveParts, Pending

LEMMA SharedGapless ==
    ASSUME GapInv, Typed', NEW w \in Workers, Shared(w)
    PROVE  Gapless'
<1>1. Away(w) /\ ~CompleteFile(w)
      BY SharedAway DEF GapInv, Shared, LookupName, CleanupStaleUploadEntry, SelectTree, PurgeTree,
                        CompleteFile
<1>2. RequestsKept
      BY <1>1, AwayKeepsRequests
<1>3. UNCHANGED <<minted, objects, urls>>
      BY DEF Shared, LookupName, CleanupStaleUploadEntry, SelectTree, PurgeTree, bucket, Local
<1>4. CASE PurgeTree(w)
      <2>1. sessions' = Drop(sessions, req[w].doomed)
            BY <1>4 DEF PurgeTree, DeleteEntryTree
      <2>2. SessionsKept
            BY <2>1, GapTypes DEF GapInv, IInv, SessionsKept, IsSinglePut, Drop
      <2> QED BY <1>2, <1>3, <2>2, SameBucket, GapKept
<1>5. CASE UNCHANGED sessions
      BY <1>2, <1>3, <1>5, SameSessions, SameBucket, GapKept DEF GapInv, IInv
<1> QED BY <1>4, <1>5 DEF Shared, LookupName, CleanupStaleUploadEntry, SelectTree, tables

(* The steps that start or end a request, or only read.                    *)
LEMMA QuietGapless ==
    ASSUME GapInv, Typed', NEW w \in Workers, Away(w), ~CompleteFile(w),
           UNCHANGED <<sessions, objects, urls>>, minted \subseteq minted'
    PROVE  Gapless'
BY AwayKeepsRequests, SameSessions, SameBucket, GapKept DEF GapInv, IInv

(* What arrives as another request is not a completion.                    *)
LEMMA OthersArrive ==
    ASSUME GapInv, NEW w \in Workers,
           CreateWithFolders(w) \/ GetUploadURL(w) \/ DeleteFile(w) \/ Update(w) \/ MoveFile(w) \/
           MoveFolder(w) \/ RecycleBinTrash(w) \/ RecycleBinRestore(w) \/ RecycleBinClear(w)
    PROVE  ~CompleteFile(w)
<1>0. req \in [Workers -> Request] /\ req[w] \in Request
      BY RequestsAre DEF GapInv
<1>1. CompleteFile(w) => req'[w].op = "complete"
      <2>1. ASSUME NEW u, NEW n, req' = [req EXCEPT ![w].op = "complete", ![w].pc = "entry",
                                                    ![w].file = u, ![w].numbers = n]
            PROVE  req'[w].op = "complete"
            BY <1>0, <2>1 DEF Request
      <2> QED BY <2>1 DEF CompleteFile
<1>2. CreateWithFolders(w) => req'[w].op # "complete"
      <2>1. ASSUME NEW p, NEW n,
                   req' = [req EXCEPT ![w].op = "create", ![w].pc = "lookup", ![w].parent = p,
                                      ![w].name = n]
            PROVE  req'[w].op # "complete"
            BY <1>0, <2>1 DEF Request
      <2> QED BY <2>1 DEF CreateWithFolders
<1>3. GetUploadURL(w) => req'[w].op # "complete"
      <2>1. ASSUME NEW f,
                   req' = [req EXCEPT ![w].op = "url", ![w].pc = "session", ![w].file = f]
            PROVE  req'[w].op # "complete"
            BY <1>0, <2>1 DEF Request
      <2> QED BY <2>1 DEF GetUploadURL
<1>4. DeleteFile(w) => req'[w].op # "complete"
      <2>1. ASSUME NEW f,
                   req' = [req EXCEPT ![w].op = "delete", ![w].pc = "select", ![w].file = f,
                                      ![w].victim = f]
            PROVE  req'[w].op # "complete"
            BY <1>0, <2>1 DEF Request
      <2> QED BY <2>1 DEF DeleteFile
<1>5. ASSUME Update(w)
      PROVE  req'[w].op # "complete"
      <2>1. ASSUME NEW f, NEW p, NEW n, NEW m,
                   req' = [req EXCEPT ![w].op = "rename", ![w].pc = "lookup", ![w].file = f,
                                      ![w].parent = p, ![w].name = n, ![w].was = m]
            PROVE  req'[w].op # "complete"
            BY <1>0, <2>1 DEF Request
      <2>2. PICK f, b :
              req' = [req EXCEPT ![w].op = "rename", ![w].pc = "lookup", ![w].file = f,
                              ![w].parent = entries[f].parent,
                              ![w].name = [base |-> b, tags |-> << >>],
                              ![w].was = entries[f].name]
            BY <1>5 DEF Update
      <2> DEFINE p == entries[f].parent
                 n == [base |-> b, tags |-> << >>]
                 m == entries[f].name
      <2>3. req' = [req EXCEPT ![w].op = "rename", ![w].pc = "lookup", ![w].file = f,
                               ![w].parent = p, ![w].name = n, ![w].was = m]
            BY <2>2
      <2> HIDE DEF p, n, m
      <2> QED BY <2>1, <2>3
<1>6. MoveFile(w) => req'[w].op # "complete"
      <2>1. ASSUME NEW f, NEW p,
                   req' = [req EXCEPT ![w].op = "moveFile", ![w].pc = "entry", ![w].file = f,
                                      ![w].parent = p]
            PROVE  req'[w].op # "complete"
            BY <1>0, <2>1 DEF Request
      <2> QED BY <2>1 DEF MoveFile
<1>7. MoveFolder(w) => req'[w].op # "complete"
      <2>1. ASSUME NEW f, NEW p,
                   req' = [req EXCEPT ![w].op = "moveFolder", ![w].pc = "parent", ![w].file = f,
                                      ![w].parent = p]
            PROVE  req'[w].op # "complete"
            BY <1>0, <2>1 DEF Request
      <2> QED BY <2>1 DEF MoveFolder
<1>8. ASSUME RecycleBinTrash(w)
      PROVE  req'[w].op # "complete"
      <2>1. ASSUME NEW f, NEW n, NEW p,
                   req' = [req EXCEPT ![w].op = "trash", ![w].pc = "lookup", ![w].file = f,
                                      ![w].parent = Bin, ![w].name = n, ![w].from = p]
            PROVE  req'[w].op # "complete"
            BY <1>0, <2>1 DEF Request
      <2>2. PICK f :
              req' = [req EXCEPT ![w].op = "trash", ![w].pc = "lookup", ![w].file = f,
                              ![w].parent = Bin, ![w].name = entries[f].name,
                              ![w].from = entries[f].parent]
            BY <1>8 DEF RecycleBinTrash
      <2> DEFINE n == entries[f].name
                 p == entries[f].parent
      <2>3. req' = [req EXCEPT ![w].op = "trash", ![w].pc = "lookup", ![w].file = f,
                               ![w].parent = Bin, ![w].name = n, ![w].from = p]
            BY <2>2
      <2> HIDE DEF n, p
      <2> QED BY <2>1, <2>3
<1>9. ASSUME RecycleBinRestore(w)
      PROVE  req'[w].op # "complete"
      <2>1. ASSUME NEW f, NEW s, NEW p, NEW n,
                   req' = [req EXCEPT ![w].op = "restore", ![w].file = f, ![w].pc = s,
                                      ![w].parent = p, ![w].name = n]
            PROVE  req'[w].op # "complete"
            BY <1>0, <2>1 DEF Request
      <2>2. PICK f :
              req' = [req EXCEPT ![w].op = "restore", ![w].file = f,
                              ![w].pc = IF RestoreTarget(f) = Root THEN "lookup" ELSE "folder",
                              ![w].parent = RestoreTarget(f), ![w].name = entries[f].name]
            BY <1>9 DEF RecycleBinRestore
      <2> DEFINE step == IF RestoreTarget(f) = Root THEN "lookup" ELSE "folder"
                 p == RestoreTarget(f)
                 n == entries[f].name
      <2>3. req' = [req EXCEPT ![w].op = "restore", ![w].file = f, ![w].pc = step,
                               ![w].parent = p, ![w].name = n]
            BY <2>2
      <2> HIDE DEF step, p, n
      <2> QED BY <2>1, <2>3
<1>10. RecycleBinClear(w) => req'[w].op # "complete"
      <2>1. ASSUME NEW b, NEW f,
                   req' = [req EXCEPT ![w].op = "clear", ![w].pc = "select", ![w].todo = b,
                                      ![w].victim = f]
            PROVE  req'[w].op # "complete"
            BY <1>0, <2>1 DEF Request
      <2> QED BY <2>1 DEF RecycleBinClear
<1> QED BY <1>1, <1>2, <1>3, <1>4, <1>5, <1>6, <1>7, <1>8, <1>9, <1>10

LEMMA EntryStepsGapless ==
    ASSUME GapInv, Typed', NEW w \in Workers,
           ManageNext(w) \/ RecycleNext(w) \/ CreateFolderEntry(w)
    PROVE  Gapless'
<1>1. UNCHANGED <<sessions, objects, urls>> /\ minted \subseteq minted'
      BY DEF ManageNext, DeleteFile, Update, UpdateApply, MoveFile, MoveFileReadEntry, MoveFolder,
             MoveFolderReadParent, MoveFolderCheck, MoveApply, RecycleNext, RecycleBinTrash,
             TrashApply, RecycleBinRestore, RestoreReadParent, RestoreApply, RecycleBinClear,
             RenameEntry, MoveEntry, TrashEntry, RestoreEntry, CreateFolderEntry, CreateFolder,
             tables, bucket, Local
<1>2. ~CompleteFile(w)
      <2>1. req[w].pc # "idle" => ~CompleteFile(w)
            BY DEF CompleteFile
      <2>2. \/ req[w].pc # "idle"
            \/ DeleteFile(w) \/ Update(w) \/ MoveFile(w) \/ MoveFolder(w)
            \/ RecycleBinTrash(w) \/ RecycleBinRestore(w) \/ RecycleBinClear(w)
            BY DEF ManageNext, UpdateApply, MoveFileReadEntry, MoveFolderReadParent,
                   MoveFolderCheck, MoveApply, RecycleNext, TrashApply, RestoreReadParent,
                   RestoreApply, CreateFolderEntry, At
      <2> QED BY <2>1, <2>2, OthersArrive
<1>3. Away(w)
      <2>1. CASE UpdateApply(w) \/ MoveApply(w) \/ TrashApply(w) \/ RestoreApply(w) \/
                 CreateFolderEntry(w)
            BY <2>1, FinishAway DEF GapInv, UpdateApply, MoveApply, TrashApply, RestoreApply,
                                    CreateFolderEntry, At, Pending
      <2> QED BY <2>1, ManageReadsAway, RecycleReadsAway DEF GapInv, ManageNext, RecycleNext
<1> QED BY <1>1, <1>2, <1>3, QuietGapless

LEMMA UploadReadsGapless ==
    ASSUME GapInv, Typed', NEW w \in Workers,
           CreateWithFolders(w) \/ AbortUpload(w) \/ GetUploadURL(w) \/ UrlEnsureParts(w) \/
           CompleteReadEntry(w) \/ CollectCompletedParts(w)
    PROVE  Gapless'
<1>1. Away(w) /\ UNCHANGED <<minted, sessions>>
      BY UploadReadsAway DEF GapInv
<1>2. UNCHANGED <<objects, urls>>
      BY DEF CreateWithFolders, AbortUpload, AbortMultipartUpload, GetUploadURL, UrlEnsureParts,
             CompleteReadEntry, CollectCompletedParts, bucket
<1>3. ~CompleteFile(w)
      <2>1. CASE CreateWithFolders(w) \/ GetUploadURL(w)
            BY <2>1, OthersArrive
      <2> QED BY <2>1 DEF AbortUpload, UrlEnsureParts, CompleteReadEntry, CollectCompletedParts,
                          CompleteFile, At
<1> QED BY <1>1, <1>2, <1>3, QuietGapless

(* Only the session of a single PUT upload gives a URL for the object.     *)
LEMMA UrlReadSessionGapless ==
    ASSUME GapInv, Typed', NEW w \in Workers, UrlReadSession(w)
    PROVE  Gapless'
<1> DEFINE u == req[w].file
<1>0. Away(w) /\ UNCHANGED <<minted, entries, sessions>> /\ ~CompleteFile(w)
      BY UploadReadsAway DEF GapInv, UrlReadSession, CompleteFile, At
<1>1. RequestsKept
      BY <1>0, AwayKeepsRequests
<1>2. CASE UNCHANGED bucket
      BY <1>0, <1>2, QuietGapless DEF bucket
<1>3. CASE HasSession(u) /\ IsSinglePut(u) /\ PresignPutObject(u)
      <2>1. urls' = urls \cup {<<u, 0>>} /\ UNCHANGED objects
            BY <1>3 DEF PresignPutObject
      <2>2. u \in minted
            BY <1>3 DEF GapInv, IInv, MintedOnly, HasSession
      <2>3. KeysMinted'
            BY <1>0, <2>1, <2>2 DEF GapInv, Gapless, KeysMinted
      <2>4. KeyIsFresh'
            <3>1. \A v \in Workers : Pending(v) => req[v].file # u
                  BY <1>3 DEF GapInv, IInv, PendingIsFresh, HasSession
            <3> HIDE DEF u
            <3> QED BY <1>1, <2>1, <3>1 DEF GapInv, Gapless, KeyIsFresh, RequestsKept
      <2>5. PutIsSingle'
            <3> HIDE DEF u
            <3> QED BY <1>0, <1>3, <2>1 DEF GapInv, Gapless, PutIsSingle, IsSinglePut
      <2>6. CountedParts'
            BY <1>0, <1>1, SameSessions, CountedKept DEF GapInv, IInv
      <2>7. WholeObjects'
            BY <1>0, <2>1 DEF GapInv, Gapless, WholeObjects, IsSinglePut
      <2> QED BY <1>1, <2>3, <2>4, <2>5, <2>6, <2>7 DEF Gapless, ChunksHaveParts, RequestsKept
<1> QED BY <1>2, <1>3 DEF UrlReadSession

(* The count of parts only grows, on a multipart upload.                   *)
LEMMA RaiseKeepsSessions ==
    ASSUME IInv, NEW w \in Workers, UrlRaisePartCount(w)
    PROVE  SessionsKept
<1>a. PICK f : f = req[w].file
      OBVIOUS
<1>1. HasSession(f) => ~IsSinglePut(f)
      BY <1>a DEF UrlRaisePartCount, At, IInv, KindIsKnown
<1>2. CASE UNCHANGED sessions
      BY <1>2, SameSessions DEF IInv
<1>3. ASSUME NEW count \in Nat, HasSession(f), sessions[f].partCount < count,
             sessions' = [sessions EXCEPT ![f].partCount = count]
      PROVE  SessionsKept
      <2>1. /\ DOMAIN sessions' = DOMAIN sessions
            /\ \A u \in DOMAIN sessions : u # f => sessions'[u] = sessions[u]
            BY <1>3
      <2>2. sessions[f] \in Session /\ sessions[f].partCount \in Nat
            BY <1>3, GapTypes DEF IInv, HasSession
      <2>3. /\ sessions'[f].chunked = sessions[f].chunked
            /\ sessions'[f].partCount = count
            BY <1>3, <2>2 DEF HasSession, Session
      <2>4. ~IsSinglePut(f) /\ ~IsSinglePut(f)'
            BY <1>1, <1>3, <2>2, <2>3 DEF IsSinglePut
      <2>5. \A u \in DOMAIN sessions : sessions[u].partCount \in Nat
            BY GapTypes DEF IInv
      <2>6. ASSUME NEW u \in DOMAIN sessions, u # f
            PROVE  /\ sessions[u].partCount <= sessions'[u].partCount
                   /\ IsSinglePut(u)' <=> IsSinglePut(u)
            BY <2>1, <2>5, <2>6 DEF IsSinglePut
      <2> QED BY <1>3, <2>1, <2>2, <2>3, <2>4, <2>6 DEF SessionsKept
<1>4. \/ UNCHANGED sessions
      \/ \E count \in Nat :
            /\ HasSession(f) /\ sessions[f].partCount < count
            /\ sessions' = [sessions EXCEPT ![f].partCount = count]
      <2>1. req[w].numbers \subseteq Nat
            BY TypedParts, RequestOf DEF IInv, Request, PartNo
      <2> QED BY <1>a, <2>1 DEF UrlRaisePartCount, RaisePartCount
<1> QED BY <1>2, <1>3, <1>4

LEMMA UrlRaisePartCountGapless ==
    ASSUME GapInv, Typed', NEW w \in Workers, UrlRaisePartCount(w)
    PROVE  Gapless'
<1>1. RequestsKept
      <2>1. Away(w) /\ ~CompleteFile(w)
            BY FinishAway DEF GapInv, UrlRaisePartCount, CompleteFile, At, Pending
      <2> QED BY <2>1, AwayKeepsRequests
<1>2. SessionsKept /\ UNCHANGED minted
      BY RaiseKeepsSessions DEF GapInv, UrlRaisePartCount, Local
<1>3. BucketKept
      <2>1. req[w].numbers \subseteq PartNo /\ 0 \notin PartNo
            BY RequestsAre DEF GapInv, Request, PartNo
      <2>2. UNCHANGED objects /\ urls' = urls \cup ({req[w].file} \X req[w].numbers)
            BY DEF UrlRaisePartCount, PresignUploadPart
      <2> QED BY <2>1, <2>2 DEF BucketKept
<1> QED BY <1>1, <1>2, <1>3, GapKept

LEMMA PublishFileGapless ==
    ASSUME GapInv, Typed', NEW w \in Workers, PublishFile(w)
    PROVE  Gapless'
<1>1. RequestsKept
      <2>1. Away(w) /\ ~CompleteFile(w)
            BY FinishAway DEF GapInv, PublishFile, CompleteFile, At, Pending
      <2> QED BY <2>1, AwayKeepsRequests
<1>2. UNCHANGED <<minted, objects, urls>>
      BY DEF PublishFile, bucket
<1>3. SessionsKept
      <2>1. PICK f : \/ UNCHANGED sessions
                     \/ sessions' = [sessions EXCEPT ![f].status = "completed"]
            BY DEF PublishFile, SetUploadSessionStatus
      <2>2. \A u \in DOMAIN sessions : sessions[u] \in Session /\ sessions[u].partCount \in Nat
            BY GapTypes DEF GapInv, IInv
      <2>3. /\ DOMAIN sessions' = DOMAIN sessions
            /\ \A u \in DOMAIN sessions :
                /\ sessions'[u].partCount = sessions[u].partCount
                /\ sessions'[u].chunked = sessions[u].chunked
            BY <2>1, <2>2 DEF Session
      <2> QED BY <2>2, <2>3 DEF SessionsKept, IsSinglePut
<1> QED BY <1>1, <1>2, <1>3, SameBucket, GapKept

LEMMA CompleteFileGapless ==
    ASSUME GapInv, Typed', NEW w \in Workers, CompleteFile(w)
    PROVE  Gapless'
<1>0. Away(w) /\ UNCHANGED <<minted, sessions, objects, urls>>
      BY UploadReadsAway DEF GapInv, CompleteFile, bucket
<1>1. PICK u \in FileIDs :
        /\ HasSession(u)
        /\ req' = [req EXCEPT ![w].op = "complete", ![w].pc = "entry", ![w].file = u,
                        ![w].numbers = IF IsSinglePut(u) THEN {} ELSE 1..sessions[u].partCount]
      BY DEF CompleteFile
<1> DEFINE numbers == IF IsSinglePut(u) THEN {} ELSE 1..sessions[u].partCount
<1>2. /\ req'[w].file = u /\ req'[w].numbers = numbers
      /\ \A v \in Workers : v # w => req'[v] = req[v]
      <2> HIDE DEF numbers
      <2>1. req' = [req EXCEPT ![w].op = "complete", ![w].pc = "entry", ![w].file = u,
                               ![w].numbers = numbers]
            BY <1>1 DEF numbers
      <2> QED BY <2>1, RequestsAre DEF GapInv, Request
<1>3. UpTo(numbers, sessions[u].partCount) \/ numbers = {}
      <2>1. sessions[u].partCount \in Nat \ {0}
            BY <1>1, GapTypes DEF GapInv, IInv, HasSession, Session, PartNo
      <2> QED BY <2>1 DEF UpTo
<1> HIDE DEF numbers
<1>4. CountedParts'
      <2> SUFFICES ASSUME NEW v \in Workers, NEW x, x = req'[v].file,
                          req'[v].op = "complete", req'[v].numbers # {}, x \in DOMAIN sessions
                   PROVE  UpTo(req'[v].numbers, sessions[x].partCount)
          BY <1>0 DEF CountedParts, HasSession
      <2>1. CASE v = w
            BY <1>2, <1>3, <2>1
      <2>2. CASE v # w
            BY <1>2, <2>2 DEF GapInv, Gapless, CountedParts, HasSession
      <2> QED BY <2>1, <2>2
<1>5. KeysMinted' /\ PutIsSingle' /\ WholeObjects'
      BY <1>0 DEF GapInv, Gapless, KeysMinted, PutIsSingle, WholeObjects, IsSinglePut
<1>6. KeyIsFresh'
      BY <1>0 DEF GapInv, Gapless, KeyIsFresh, Away, Advances, Pending
<1>7. ChunksHaveParts'
      BY <1>0 DEF GapInv, Gapless, ChunksHaveParts, Away, Advances, KeepsUpload
<1> QED BY <1>4, <1>5, <1>6, <1>7 DEF Gapless

(* The parts the request counted become the object.                        *)
LEMMA CombinePartsGapless ==
    ASSUME GapInv, Typed', NEW w \in Workers, CombineParts(w)
    PROVE  Gapless'
<1>a. PICK u : u = req[w].file
      OBVIOUS
<1>0. /\ Away(w) /\ UNCHANGED <<minted, sessions>> /\ ~CompleteFile(w)
      /\ req[w].op = "complete"
      BY UploadReadsAway DEF GapInv, CombineParts, CompleteFile, At
<1>1. RequestsKept
      BY <1>0, AwayKeepsRequests
<1>2. CASE UNCHANGED bucket
      BY <1>0, <1>2, QuietGapless DEF bucket
<1>3. CASE CompleteMultipartUpload(u, req[w].numbers)
      <2>1. /\ UNCHANGED urls
            /\ DOMAIN objects' = DOMAIN objects \cup {u}
            /\ objects'[u] = req[w].numbers
            /\ \A f \in DOMAIN objects : f # u => objects'[f] = objects[f]
            BY <1>3 DEF CompleteMultipartUpload, Put
      <2>2. u \in minted
            BY <1>a, <1>0 DEF GapInv, IInv, MintedOnly
      <2>3. KeysMinted'
            BY <1>0, <2>1, <2>2 DEF GapInv, Gapless, KeysMinted
      <2>4. KeyIsFresh'
            <3>1. \A v \in Workers : Pending(v) => req[v].file # u
                  BY <1>a, <1>0 DEF GapInv, IInv, PendingIsFresh, Pending, CombineParts, At
            <3> QED BY <1>1, <2>1, <3>1 DEF GapInv, Gapless, KeyIsFresh, RequestsKept
      <2>5. PutIsSingle'
            BY <1>0, <2>1 DEF GapInv, Gapless, PutIsSingle, IsSinglePut
      <2>6. CountedParts'
            BY <1>0, <1>1, SameSessions, CountedKept DEF GapInv, IInv
      <2>7. WholeObjects'
            <3>1. u \in DOMAIN sessions /\ ~IsSinglePut(u) => UpTo(req[w].numbers, sessions[u].partCount)
                  BY <1>a, <1>0 DEF GapInv, IInv, KindIsKnown, Gapless, CountedParts, HasSession
            <3> QED BY <1>0, <2>1, <3>1 DEF GapInv, Gapless, WholeObjects, IsSinglePut
      <2> QED BY <1>1, <2>3, <2>4, <2>5, <2>6, <2>7 DEF Gapless, ChunksHaveParts, RequestsKept
<1> QED BY <1>a, <1>2, <1>3 DEF CombineParts

LEMMA PrepareUploadGapless ==
    ASSUME GapInv, Typed', NEW w \in Workers, PrepareUpload(w)
    PROVE  Gapless'
<1>0. /\ req \in [Workers -> Request] /\ req[w] \in Request
      /\ UNCHANGED <<sessions, objects, urls>> /\ ~Pending(w) /\ ~CompleteFile(w)
      BY RequestsAre DEF GapInv, PrepareUpload, CreateMultipartUpload, Pending, CompleteFile, At,
                         tables, bucket
<1>1. CASE Finish(w) /\ UNCHANGED minted
      BY <1>0, <1>1, FinishAway, QuietGapless DEF GapInv
<1>2. ASSUME NEW f \in FileIDs \ minted, minted' = minted \cup {f},
             \A v \in Workers : v # w => req'[v] = req[v],
             req'[w].op = "create", req'[w].pc = "persist", req'[w].file = f,
             req'[w].chunked => req'[w].numbers # {}
      PROVE  Gapless'
      <2>1. KeysMinted'
            BY <1>0, <1>2 DEF GapInv, Gapless, KeysMinted
      <2>2. KeyIsFresh'
            BY <1>0, <1>2 DEF GapInv, Gapless, KeysMinted, KeyIsFresh, Pending
      <2>3. PutIsSingle' /\ WholeObjects'
            BY <1>0 DEF GapInv, Gapless, PutIsSingle, WholeObjects, IsSinglePut
      <2>4. ChunksHaveParts'
            BY <1>2 DEF GapInv, Gapless, ChunksHaveParts
      <2>5. CountedParts'
            BY <1>0, <1>2 DEF GapInv, Gapless, CountedParts, HasSession
      <2> QED BY <2>1, <2>2, <2>3, <2>4, <2>5 DEF Gapless
<1>3. \/ Finish(w) /\ UNCHANGED minted
      \/ \E f \in FileIDs \ minted :
            /\ minted' = minted \cup {f}
            /\ \/ req' = [req EXCEPT ![w].pc = "persist", ![w].file = f]
               \/ \E numbers, chunked :
                    /\ numbers # {}
                    /\ req' = [req EXCEPT ![w].pc = "persist", ![w].file = f,
                                          ![w].numbers = numbers, ![w].chunked = chunked]
      <2>1. PICK size \in Sizes, list \in PartLists :
                LET numbers == IF list = {} THEN {1} ELSE list IN
                IF size < 0 \/ 0 \in list
                THEN Finish(w) /\ UNCHANGED <<bucket, minted>>
                ELSE \E f \in FileIDs \ minted :
                    /\ minted' = minted \cup {f}
                    /\ IF ShouldUseSinglePut(size, numbers)
                       THEN /\ req' = [req EXCEPT ![w].pc = "persist", ![w].file = f]
                            /\ UNCHANGED bucket
                       ELSE /\ req' = [req EXCEPT ![w].pc = "persist", ![w].file = f,
                                                  ![w].numbers = numbers,
                                                  ![w].chunked = NormalizeChunkSize(size)]
                            /\ CreateMultipartUpload(f)
            BY DEF PrepareUpload
      <2> DEFINE numbers == IF list = {} THEN {1} ELSE list
                 chunked == NormalizeChunkSize(size)
      <2>2. numbers # {}
            OBVIOUS
      <2>3. \/ Finish(w) /\ UNCHANGED minted
            \/ \E f \in FileIDs \ minted :
                  /\ minted' = minted \cup {f}
                  /\ \/ req' = [req EXCEPT ![w].pc = "persist", ![w].file = f]
                     \/ req' = [req EXCEPT ![w].pc = "persist", ![w].file = f,
                                           ![w].numbers = numbers, ![w].chunked = chunked]
            BY <2>1
      <2> HIDE DEF numbers, chunked
      <2> QED BY <2>2, <2>3
<1>4. ASSUME NEW f \in FileIDs \ minted, minted' = minted \cup {f},
             req' = [req EXCEPT ![w].pc = "persist", ![w].file = f]
      PROVE  Gapless'
      <2>1. /\ \A v \in Workers : v # w => req'[v] = req[v]
            /\ req'[w].op = req[w].op /\ req'[w].pc = "persist" /\ req'[w].file = f
            /\ req'[w].chunked = req[w].chunked /\ req'[w].numbers = req[w].numbers
            BY <1>0, <1>4 DEF Request
      <2> QED BY <1>2, <1>4, <2>1 DEF GapInv, Gapless, ChunksHaveParts, PrepareUpload, At
<1>5. ASSUME NEW f \in FileIDs \ minted, minted' = minted \cup {f}, NEW numbers, numbers # {},
             NEW chunked, req' = [req EXCEPT ![w].pc = "persist", ![w].file = f,
                                             ![w].numbers = numbers, ![w].chunked = chunked]
      PROVE  Gapless'
      <2>1. /\ \A v \in Workers : v # w => req'[v] = req[v]
            /\ req'[w].op = req[w].op /\ req'[w].pc = "persist" /\ req'[w].file = f
            /\ req'[w].numbers = numbers
            BY <1>0, <1>5 DEF Request
      <2> QED BY <1>2, <1>5, <2>1 DEF PrepareUpload, At
<1> QED BY <1>1, <1>3, <1>4, <1>5

(* A new session: nothing is in the bucket for it, and a URL for its       *)
(* object is signed for a single PUT only.                                 *)
LEMMA PersistUploadGapless ==
    ASSUME GapInv, Typed', NEW w \in Workers, PersistUpload(w)
    PROVE  Gapless'
<1>a. PICK f : f = req[w].file
      OBVIOUS
<1>b. PICK numbers : numbers = req[w].numbers
      OBVIOUS
<1>c. PICK chunked : chunked = req[w].chunked
      OBVIOUS
<1>0. /\ req \in [Workers -> Request] /\ req[w] \in Request
      /\ Pending(w) /\ req[w].op = "create" /\ (Finish(w) \/ Goto(w, "abort"))
      /\ UNCHANGED <<minted, objects>>
      BY RequestsAre DEF GapInv, PersistUpload, At, Pending, GiveUpUpload, PresignPutObject,
                         PresignUploadPart, bucket, Local
<1>1. RequestsKept /\ ~Pending(w)'
      <2>1. RequestsKept
            BY <1>0, EndKeepsRequests DEF PersistUpload, At
      <2> QED BY <1>0, <2>1 DEF Pending, Finish, Goto, Idle, Request
<1>2. CASE UNCHANGED <<tables, bucket>>
      BY <1>0, <1>1, <1>2, SameSessions, SameBucket, GapKept DEF GapInv, IInv, tables, bucket
<1>3. CASE ~UNCHANGED <<tables, bucket>>
      <2>1. /\ sessions' = Put(sessions, f,
                    [status |-> "init", partCount |-> Cardinality(IF numbers = {} THEN {1} ELSE numbers),
                     chunked |-> chunked])
            /\ \/ numbers = {} /\ urls' = urls \cup {<<f, 0>>}
               \/ urls' = urls \cup ({f} \X numbers)
               \/ urls' = urls
            BY <1>a, <1>b, <1>c, <1>3
               DEF PersistUpload, CreateFileWithUpload, PresignPutObject, PresignUploadPart, bucket
      <2>2. /\ f \notin DOMAIN sessions /\ f \notin DOMAIN objects /\ <<f, 0>> \notin urls
            /\ f \in minted /\ f \in FileIDs
            /\ \A v \in Workers : v # w /\ (Pending(v) \/ req[v].op \in {"url", "complete"})
                => req[v].file # f
            BY <1>a, <1>0, TypedParts
               DEF GapInv, IInv, PendingIsFresh, MintedOnly, Gapless, KeyIsFresh
      <2>3. /\ DOMAIN sessions' = DOMAIN sessions \cup {f}
            /\ \A u \in DOMAIN sessions : sessions'[u] = sessions[u]
            /\ sessions'[f].chunked = chunked
            /\ sessions'[f].partCount = Cardinality(IF numbers = {} THEN {1} ELSE numbers)
            BY <2>1, <2>2 DEF Put
      <2>4. <<f, 0>> \in urls' => IsSinglePut(f)'
            <3>1. 0 \notin numbers
                  BY <1>b, <1>0 DEF Request, PartNo
            <3>2. CASE numbers = {}
                  <4>1. ~chunked
                        BY <1>b, <1>c, <3>2 DEF GapInv, Gapless, ChunksHaveParts
                  <4>2. sessions'[f].partCount = 1
                        BY <2>3, <3>2, FS_Singleton
                  <4> QED BY <2>3, <4>1, <4>2 DEF IsSinglePut
            <3>3. CASE numbers # {}
                  BY <2>1, <2>2, <3>1, <3>3
            <3> QED BY <3>2, <3>3
      <2>5. \A x \in FileIDs : x # f /\ <<x, 0>> \in urls' => <<x, 0>> \in urls
            BY <2>1
      <2>6. DOMAIN sessions \subseteq FileIDs
            BY GapTypes DEF GapInv, IInv
      <2>7. KeysMinted'
            BY <1>0, <2>2, <2>5 DEF GapInv, Gapless, KeysMinted
      <2>8. KeyIsFresh'
            <3> SUFFICES ASSUME NEW v \in Workers, Pending(v)'
                         PROVE  req'[v].file \notin DOMAIN objects /\ <<req'[v].file, 0>> \notin urls'
                BY <1>0 DEF KeyIsFresh
            <3>1. v # w /\ Pending(v) /\ req'[v].file = req[v].file
                  BY <1>1 DEF RequestsKept
            <3>2. req[v].file \in FileIDs /\ req[v].file # f
                  BY <2>2, <3>1, TypedParts DEF GapInv, IInv, MintedOnly
            <3> QED BY <2>5, <3>1, <3>2 DEF GapInv, Gapless, KeyIsFresh
      <2>9. PutIsSingle'
            <3> SUFFICES ASSUME NEW u \in DOMAIN sessions', <<u, 0>> \in urls'
                         PROVE  IsSinglePut(u)'
                BY DEF PutIsSingle
            <3>1. CASE u = f
                  BY <2>4, <3>1
            <3>2. CASE u # f
                  BY <2>3, <2>5, <2>6, <3>2 DEF GapInv, Gapless, PutIsSingle, IsSinglePut
            <3> QED BY <3>1, <3>2
      <2>10. CountedParts'
            <3> SUFFICES ASSUME NEW v \in Workers, NEW u, u = req'[v].file,
                                req'[v].op = "complete", req'[v].numbers # {}, u \in DOMAIN sessions'
                         PROVE  UpTo(req'[v].numbers, sessions'[u].partCount)
                BY DEF CountedParts, HasSession
            <3>1. /\ req[v].op = "complete" /\ req[v].file = u
                  /\ req[v].numbers = req'[v].numbers
                  BY <1>1 DEF RequestsKept
            <3>2. v # w /\ u # f
                  BY <1>0, <2>2, <3>1
            <3> QED BY <2>3, <3>1, <3>2 DEF GapInv, Gapless, CountedParts, HasSession
      <2>11. WholeObjects'
            BY <1>0, <2>2, <2>3 DEF GapInv, Gapless, WholeObjects, IsSinglePut
      <2> QED BY <1>1, <2>7, <2>8, <2>9, <2>10, <2>11 DEF Gapless, ChunksHaveParts, RequestsKept
<1> QED BY <1>2, <1>3

LEMMA CallFailsGapless ==
    ASSUME GapInv, Typed', NEW w \in Workers, CallFails(w)
    PROVE  Gapless'
<1>1. UNCHANGED <<minted, sessions, objects, urls>>
      BY DEF CallFails, tables, bucket, Local
<1>2. RequestsKept
      <2>1. CASE Goto(w, "abort") /\ req[w].pc = "persist"
            BY <2>1, RequestsAre, EndKeepsRequests DEF GapInv, Pending
      <2>2. CASE Finish(w)
            <3>1. req \in [Workers -> Request]
                  BY RequestsAre DEF GapInv
            <3> QED BY <2>2, <3>1 DEF RequestsKept, GapInv, Gapless, ChunksHaveParts, Finish, Idle,
                                      Pending
      <2> QED BY <2>1, <2>2 DEF CallFails
<1> QED BY <1>1, <1>2, SameSessions, SameBucket, GapKept DEF GapInv, IInv

LEMMA CrashGapless ==
    ASSUME GapInv, Typed', Crash
    PROVE  Gapless'
<1>1. UNCHANGED <<minted, sessions, objects, urls>>
      BY DEF Crash, tables, bucket
<1>2. RequestsKept
      BY DEF Crash, RequestsKept, Idle, Pending
<1> QED BY <1>1, <1>2, SameSessions, SameBucket, GapKept DEF GapInv, IInv

LEMMA GoroutinesGapless ==
    ASSUME GapInv, Typed',
           \/ \E f \in FileIDs : BackgroundDelete(f)
           \/ \E p \in postings : PostComplete(p)
    PROVE  Gapless'
<1>1. UNCHANGED <<minted, req, sessions, urls>>
      BY DEF BackgroundDelete, DeleteObject, PostComplete, PostCompleteMarkPart, PostCompleteHash,
             PostCompleteUpdate, MarkUploadPartUploaded, UpdateEntryHash, tables, bucket
<1>2. BucketKept
      BY DEF BackgroundDelete, DeleteObject, Drop, PostComplete, PostCompleteMarkPart,
             PostCompleteHash, PostCompleteUpdate, bucket, BucketKept
<1> QED BY <1>1, <1>2, SameRequestsKept, SameSessions, GapKept DEF GapInv, IInv

(* A client that holds a URL for an object writes what it likes, but only  *)
(* over a single PUT, or over what is deleted.                             *)
LEMMA ClientGapless ==
    ASSUME GapInv, Typed', Client
    PROVE  Gapless'
<1>1. UNCHANGED <<minted, req, sessions, urls>>
      BY DEF Client, ClientPutObject, ClientUploadPart, tables
<1>2. CASE UNCHANGED objects
      BY <1>1, <1>2, SameRequestsKept, SameSessions, SameBucket, GapKept DEF GapInv, IInv
<1>3. ASSUME NEW f \in FileIDs, NEW c, ClientPutObject(f, c)
      PROVE  Gapless'
      <2>1. /\ <<f, 0>> \in urls
            /\ DOMAIN objects' = DOMAIN objects \cup {f}
            /\ \A u \in DOMAIN objects : u # f => objects'[u] = objects[u]
            BY <1>3 DEF ClientPutObject, Put
      <2>2. KeysMinted' /\ KeyIsFresh' /\ PutIsSingle'
            BY <1>1, <2>1
               DEF GapInv, Gapless, KeysMinted, KeyIsFresh, PutIsSingle, IsSinglePut, Pending
      <2>3. ChunksHaveParts' /\ CountedParts'
            BY <1>1 DEF GapInv, Gapless, ChunksHaveParts, CountedParts, HasSession
      <2>4. WholeObjects'
            BY <1>1, <2>1 DEF GapInv, Gapless, PutIsSingle, WholeObjects, IsSinglePut
      <2> QED BY <2>2, <2>3, <2>4 DEF Gapless
<1> QED BY <1>2, <1>3 DEF Client, ClientUploadPart

LEMMA StepGapless ==
    ASSUME GapInv, [Next]_vars
    PROVE  GapInv'
<1>0. Typed' /\ IInv'
      BY StepTyped, StepSafe DEF GapInv, IInv
<1>1. CASE UNCHANGED vars
      <2>1. UNCHANGED <<minted, req, sessions, objects, urls>>
            BY <1>1 DEF vars, tables, bucket
      <2> QED BY <1>0, <2>1, SameRequestsKept, SameSessions, SameBucket, GapKept DEF GapInv, IInv
<1>2. ASSUME NEW w \in Workers, UploadNext(w)
      PROVE  Gapless'
      <2>1. CASE CreateWithFolders(w) \/ AbortUpload(w) \/ GetUploadURL(w) \/ UrlEnsureParts(w) \/
                 CompleteReadEntry(w) \/ CollectCompletedParts(w)
            BY <1>0, <2>1, UploadReadsGapless
      <2> QED BY <1>0, <1>2, <2>1, EntryStepsGapless, PrepareUploadGapless, PersistUploadGapless,
                 UrlReadSessionGapless, UrlRaisePartCountGapless, CompleteFileGapless,
                 CombinePartsGapless, PublishFileGapless
              DEF UploadNext
<1>3. ASSUME NEW w \in Workers, Shared(w) \/ ManageNext(w) \/ RecycleNext(w) \/ CallFails(w)
      PROVE  Gapless'
      BY <1>0, <1>3, SharedGapless, EntryStepsGapless, CallFailsGapless
<1>4. CASE \/ \E f \in FileIDs : BackgroundDelete(f)
           \/ \E p \in postings : PostComplete(p)
      BY <1>0, <1>4, GoroutinesGapless DEF GapInv
<1>5. Gapless'
      BY <1>0, <1>1, <1>2, <1>3, <1>4, ClientGapless, CrashGapless DEF Next, GapInv
<1> QED BY <1>0, <1>5 DEF GapInv

LEMMA InitGapless ==
    ASSUME Init
    PROVE  GapInv
<1>1. /\ DOMAIN sessions = {} /\ DOMAIN objects = {} /\ urls = {}
      /\ \A w \in Workers : req[w] = Idle
      BY DEF Init, ServiceInit, RepositoryInit, StorageInit, Empty
<1>2. Idle.op = "none" /\ Idle.pc = "idle" /\ ~Idle.chunked
      BY DEF Idle
<1>3. KeysMinted /\ KeyIsFresh /\ PutIsSingle /\ ChunksHaveParts /\ CountedParts /\ WholeObjects
      BY <1>1, <1>2 DEF KeysMinted, KeyIsFresh, PutIsSingle, ChunksHaveParts, CountedParts,
                        WholeObjects, Pending
<1> QED BY <1>3, InitSafe DEF GapInv, Gapless

-----------------------------------------------------------------------------
(* Whatever part numbers clients list, sign and upload, and however many   *)
(* requests raise the count while others complete: a published multipart   *)
(* object consists of part 1 up to some part that its session counts.      *)
THEOREM PublishedHasNoGap == Spec => []NoGapInObject
<1>1. Init => GapInv
      BY InitGapless
<1>2. GapInv /\ [Next]_vars => GapInv'
      BY StepGapless
<1>3. GapInv => NoGapInObject
      BY DEF GapInv, IInv, Gapless, ObjectBehindFile, WholeObjects, UpTo, NoGapInObject
<1> QED BY <1>1, <1>2, <1>3, PTL DEF Spec
=============================================================================
