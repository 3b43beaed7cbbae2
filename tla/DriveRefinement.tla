--------------------------- MODULE DriveRefinement ---------------------------
(***************************************************************************)
(* The drive implements Library.  A step can only break the promise in one *)
(* way: DeleteEntryTree takes the session of a file that has left the tree *)
(* since it was selected.  So the refinement is proved from Selected,      *)
(* which excludes that, and Selected for one request at a time, and for    *)
(* any number of requests as long as no entry is moved, or nothing but     *)
(* stale uploads is deleted.  The second part proves what else holds of    *)
(* one request at a time, the last what holds of any number of requests    *)
(* that delete nothing but stale uploads.                                  *)
(***************************************************************************)
EXTENDS DriveProofs

-----------------------------------------------------------------------------
(***************************************************************************)
(* The steps of Library, in terms of the drive.                            *)
(***************************************************************************)
InView(f) == IsFolder(f) \/ Completed(f)

Lives(S, state) ==
    \A f \in FileIDs : LifeOf(f)' = IF f \in S THEN state ELSE LifeOf(f)

SamePlaces ==
    /\ DOMAIN entries' = DOMAIN entries
    /\ \A f \in DOMAIN entries : PlaceOf(entries'[f]) = PlaceOf(entries[f])

SameView ==
    /\ DOMAIN entries' = DOMAIN entries
    /\ \A f \in DOMAIN entries : InView(f)' <=> InView(f)

(* Entry f gets a place that the unique index leaves it.                   *)
Placed(f) ==
    /\ PlaceOf(entries'[f]) \in Folder \X Name
    /\ \A x \in DOMAIN entries \ {f} :
        /\ PlaceOf(entries[x]) # PlaceOf(entries'[f])
        /\ PlaceOf(entries'[x]) = PlaceOf(entries[x])

LibNext == [Lib!Next]_Lib!libVars

LEMMA StutterStep ==
    ASSUME Lives({}, "gone"), SamePlaces, SameView
    PROVE  LibNext
<1>1. [f \in FileIDs |-> LifeOf(f)]' = [f \in FileIDs |-> LifeOf(f)]
      BY DEF Lives
<1>2. [f \in DOMAIN entries |-> PlaceOf(entries[f])]'
        = [f \in DOMAIN entries |-> PlaceOf(entries[f])]
      BY DEF SamePlaces
<1>3. {f \in DOMAIN entries : IsFolder(f) \/ Completed(f)}'
        = {f \in DOMAIN entries : IsFolder(f) \/ Completed(f)}
      BY DEF SameView, InView
<1> QED BY <1>1, <1>2, <1>3 DEF Lib!libVars, LibNext

LEMMA ReserveStep ==
    ASSUME NEW f \in FileIDs, LifeOf(f) = "fresh", Lives({f}, "reserved"), SamePlaces, SameView
    PROVE  LibNext
<1>1. Lib!SetLife({f}, "reserved")
      BY DEF Lives, Lib!SetLife
<1>2. [x \in DOMAIN entries |-> PlaceOf(entries[x])]'
        = [x \in DOMAIN entries |-> PlaceOf(entries[x])]
      BY DEF SamePlaces
<1>3. {x \in DOMAIN entries : IsFolder(x) \/ Completed(x)}'
        = {x \in DOMAIN entries : IsFolder(x) \/ Completed(x)}
      BY DEF SameView, InView
<1> QED BY <1>1, <1>2, <1>3 DEF LibNext, Lib!Next, Lib!Reserve

LEMMA ForgetStep ==
    ASSUME NEW S \in SUBSET FileIDs, \A f \in S : LifeOf(f) \in {"fresh", "reserved"},
           Lives(S, "gone"), SamePlaces, SameView
    PROVE  LibNext
<1>1. Lib!SetLife(S, "gone")
      BY DEF Lives, Lib!SetLife
<1>2. [x \in DOMAIN entries |-> PlaceOf(entries[x])]'
        = [x \in DOMAIN entries |-> PlaceOf(entries[x])]
      BY DEF SamePlaces
<1>3. {x \in DOMAIN entries : IsFolder(x) \/ Completed(x)}'
        = {x \in DOMAIN entries : IsFolder(x) \/ Completed(x)}
      BY DEF SameView, InView
<1> QED BY <1>1, <1>2, <1>3 DEF LibNext, Lib!Next, Lib!Forget

LEMMA TakePlaceStep ==
    ASSUME NEW f, DOMAIN entries' = DOMAIN entries \cup {f}, Placed(f)
    PROVE  Lib!TakePlace(f)
<1> DEFINE place == [x \in DOMAIN entries |-> PlaceOf(entries[x])]
           p == PlaceOf(entries'[f])
<1>1. /\ place' = [x \in DOMAIN entries' |-> PlaceOf(entries'[x])]
      /\ place'[f] = p
      BY DEF PlaceOf
<1>2. \A x \in DOMAIN place \ {f} : place[x] # p
      BY DEF Placed
<1>3. place' = [x \in DOMAIN place \cup {f} |-> IF x = f THEN p ELSE place[x]]
      BY <1>1 DEF Placed
<1>4. p \in {place'[f]} \cap (Folder \X Name)
      BY <1>1 DEF Placed
<1> HIDE DEF p
<1> QED BY <1>2, <1>3, <1>4 DEF Lib!TakePlace, Lib!Free

LEMMA FileStep ==
    ASSUME NEW f \in FileIDs, LifeOf(f) \in {"fresh", "reserved"}, Lives({f}, "filed"),
           f \notin DOMAIN entries, DOMAIN entries' = DOMAIN entries \cup {f}, Placed(f),
           \A x \in DOMAIN entries : InView(x)' <=> InView(x)
    PROVE  LibNext
<1>1. Lib!SetLife({f}, "filed")
      BY DEF Lives, Lib!SetLife
<1>2. Lib!TakePlace(f)
      BY TakePlaceStep
<1> DEFINE visible == {x \in DOMAIN entries : IsFolder(x) \/ Completed(x)}
<1>3. visible' = {x \in DOMAIN entries' : InView(x)'}
      BY DEF InView
<1>4. visible = {x \in DOMAIN entries : InView(x)}
      BY DEF InView
<1>5. visible' \in {visible, visible \cup {f}}
      BY <1>3, <1>4
<1> QED BY <1>1, <1>2, <1>5 DEF LibNext, Lib!Next, Lib!File

LEMMA PublishStep ==
    ASSUME NEW f \in DOMAIN entries \cap FileIDs, LifeOf(f) = "filed", Lives({}, "gone"),
           SamePlaces, InView(f)', \A x \in DOMAIN entries \ {f} : InView(x)' <=> InView(x)
    PROVE  LibNext
<1>1. [x \in FileIDs |-> LifeOf(x)]' = [x \in FileIDs |-> LifeOf(x)]
      BY DEF Lives
<1>2. [x \in DOMAIN entries |-> PlaceOf(entries[x])]'
        = [x \in DOMAIN entries |-> PlaceOf(entries[x])]
      BY DEF SamePlaces
<1> DEFINE visible == {x \in DOMAIN entries : IsFolder(x) \/ Completed(x)}
<1>3. visible' = visible \cup {f}
      BY DEF InView, SamePlaces
<1> QED BY <1>1, <1>2, <1>3 DEF LibNext, Lib!Next, Lib!Publish

LEMMA RefileStep ==
    ASSUME NEW f \in DOMAIN entries \cap FileIDs, LifeOf(f) = "filed", Lives({}, "gone"),
           SameView, Placed(f)
    PROVE  LibNext
<1>1. [x \in FileIDs |-> LifeOf(x)]' = [x \in FileIDs |-> LifeOf(x)]
      BY DEF Lives
<1>2. {x \in DOMAIN entries : IsFolder(x) \/ Completed(x)}'
        = {x \in DOMAIN entries : IsFolder(x) \/ Completed(x)}
      BY DEF SameView, InView
<1>3. Lib!TakePlace(f)
      BY TakePlaceStep DEF SameView
<1> QED BY <1>1, <1>2, <1>3 DEF LibNext, Lib!Next, Lib!Refile

LEMMA RemoveStep ==
    ASSUME NEW S \in SUBSET FileIDs, \A f \in S : LifeOf(f) = "filed", Lives(S, "gone"),
           DOMAIN entries' = DOMAIN entries \ S,
           \A f \in DOMAIN entries' :
            /\ PlaceOf(entries'[f]) = PlaceOf(entries[f])
            /\ InView(f)' <=> InView(f)
    PROVE  LibNext
<1>1. Lib!SetLife(S, "gone")
      BY DEF Lives, Lib!SetLife
<1> DEFINE place == [x \in DOMAIN entries |-> PlaceOf(entries[x])]
           visible == {x \in DOMAIN entries : IsFolder(x) \/ Completed(x)}
<1>2. place' = [x \in DOMAIN place \ S |-> place[x]]
      OBVIOUS
<1>3. visible' = visible \ S
      BY DEF InView
<1> QED BY <1>1, <1>2, <1>3 DEF LibNext, Lib!Next, Lib!Remove

-----------------------------------------------------------------------------
(***************************************************************************)
(* Who is reserved.                                                        *)
(***************************************************************************)

LEMMA LifeOfEntry ==
    ASSUME IInv, NEW f \in DOMAIN entries
    PROVE  LifeOf(f) = "filed" /\ f \in FileIDs /\ f \in minted
<1>1. f \in FileIDs /\ f \in minted
      BY TypedParts DEF IInv, MintedOnly, RepositoryTypeOK
<1> QED BY <1>1 DEF LifeOf, Exists

LEMMA LifeOfFresh ==
    ASSUME IInv, NEW f, f \notin minted
    PROVE  LifeOf(f) = "fresh" /\ f \notin DOMAIN entries /\ f \notin Reserved
<1>1. f \notin DOMAIN entries
      BY DEF IInv, MintedOnly
<1>2. \A v \in Workers : Pending(v) => req[v].file \in minted
      BY DEF IInv, MintedOnly
<1>3. f \notin Reserved
      BY <1>2 DEF Reserved, Pending, At
<1> QED BY <1>1, <1>3 DEF LifeOf, Exists

LEMMA LifeOfPending ==
    ASSUME IInv, NEW w \in Workers, Pending(w)
    PROVE  /\ req[w].file \in FileIDs /\ req[w].file \notin DOMAIN entries
           /\ LifeOf(req[w].file) = "reserved"
<1>1. req[w].file \in Reserved
      BY RequestsAre DEF Reserved, At, Pending
<1>2. req[w].file \in minted /\ req[w].file \notin DOMAIN entries
      BY DEF IInv, MintedOnly, PendingIsFresh
<1>3. minted \subseteq FileIDs
      BY TypedParts DEF IInv
<1> QED BY <1>1, <1>2, <1>3 DEF LifeOf, Exists

LEMMA AwayReserves ==
    ASSUME NEW w \in Workers, Away(w)
    PROVE  Reserved' = Reserved
BY DEF Away, Advances, Reserved, At, Pending

LEMMA AwayLives ==
    ASSUME NEW w \in Workers, Away(w), minted' = minted, DOMAIN entries' = DOMAIN entries
    PROVE  Lives({}, "gone")
BY AwayReserves DEF Lives, LifeOf, Exists

(* A step that changes neither entries nor sessions.                       *)
LEMMA ReadStep ==
    ASSUME NEW w \in Workers, Away(w), UNCHANGED <<minted, entries, sessions>>
    PROVE  LibNext
<1>1. Lives({}, "gone")
      BY AwayLives
<1>2. SamePlaces /\ SameView
      BY DEF SamePlaces, SameView, InView, IsFolder, Exists, Completed, HasSession
<1> QED BY <1>1, <1>2, StutterStep

-----------------------------------------------------------------------------
(***************************************************************************)
(* Steps that write.                                                       *)
(***************************************************************************)
LEMMA EntriesTyped ==
    ASSUME Typed, NEW f \in DOMAIN entries
    PROVE  f \in FileIDs /\ entries[f] \in Entry /\ PlaceOf(entries[f]) \in Folder \X Name
<1>1. f \in FileIDs /\ entries[f] \in Entry
      BY TypedParts DEF RepositoryTypeOK
<1> QED BY <1>1 DEF Entry, PlaceOf

LEMMA RefileEntryStep ==
    ASSUME IInv, Typed', NEW w \in Workers, Away(w), UNCHANGED <<sessions, minted>>,
           NEW f \in DOMAIN entries, DOMAIN entries' = DOMAIN entries,
           \A x \in DOMAIN entries \ {f} : entries'[x] = entries[x],
           entries'[f].type = entries[f].type,
           ~Conflict(f, entries'[f].parent, entries'[f].name)
    PROVE  LibNext
<1>1. LifeOf(f) = "filed" /\ f \in FileIDs
      BY LifeOfEntry
<1>2. Lives({}, "gone")
      BY AwayLives
<1>3. SameView
      BY DEF SameView, InView, IsFolder, Exists, Completed, HasSession
<1>4. PlaceOf(entries'[f]) \in Folder \X Name
      <2>1. entries'[f] \in Entry
            BY TypedParts DEF Typed, TypeOK, ServiceTypeOK, RepositoryTypeOK
      <2> QED BY <2>1 DEF Entry, PlaceOf
<1>5. Placed(f)
      BY <1>4 DEF Placed, PlaceOf, Conflict, EntryAt
<1> QED BY <1>1, <1>2, <1>3, <1>5, RefileStep

LEMMA ApplyImplements ==
    ASSUME IInv, Typed', NEW w \in Workers,
           UpdateApply(w) \/ MoveApply(w) \/ TrashApply(w) \/ RestoreApply(w)
    PROVE  LibNext
<1> DEFINE f == req[w].file
<1>0. ~Pending(w) /\ Finish(w) /\ UNCHANGED minted
      BY DEF UpdateApply, MoveApply, TrashApply, RestoreApply, At, Pending, Local
<1>1. Away(w)
      BY <1>0, FinishAway
<1>2. CASE UNCHANGED tables
      BY <1>0, <1>1, <1>2, ReadStep DEF tables
<1>3. ASSUME NEW row, f \in DOMAIN entries, entries' = [entries EXCEPT ![f] = row],
             row.type = entries[f].type, ~Conflict(f, row.parent, row.name),
             UNCHANGED sessions
      PROVE  LibNext
      <2> HIDE DEF f
      <2> QED BY <1>0, <1>1, <1>3, RefileEntryStep
<1>4. f \in DOMAIN entries => entries[f] \in Entry
      BY TypedParts DEF IInv, RepositoryTypeOK
<1>5. CASE ~UNCHANGED tables /\ UpdateApply(w)
      <2>1. /\ f \in DOMAIN entries /\ ~Conflict(f, entries[f].parent, Target(w))
            /\ RenameEntry(f, Target(w))
            BY <1>5 DEF UpdateApply, Exists
      <2> DEFINE row == [entries[f] EXCEPT !.name = Target(w)]
      <2>2. /\ row.type = entries[f].type /\ row.parent = entries[f].parent
            /\ row.name = Target(w)
            BY <2>1, <1>4 DEF Entry
      <2>3. entries' = [entries EXCEPT ![f] = row] /\ UNCHANGED sessions
            BY <2>1 DEF RenameEntry
      <2> HIDE DEF row, f
      <2> QED BY <2>1, <2>2, <2>3, <1>3
<1>6. CASE ~UNCHANGED tables /\ MoveApply(w)
      <2>1. /\ f \in DOMAIN entries /\ ~Conflict(f, req[w].parent, entries[f].name)
            /\ MoveEntry(f, req[w].parent)
            BY <1>6 DEF MoveApply, Exists
      <2> DEFINE row == [entries[f] EXCEPT !.parent = req[w].parent]
      <2>2. /\ row.type = entries[f].type /\ row.parent = req[w].parent
            /\ row.name = entries[f].name
            BY <2>1, <1>4 DEF Entry
      <2>3. entries' = [entries EXCEPT ![f] = row] /\ UNCHANGED sessions
            BY <2>1 DEF MoveEntry
      <2> HIDE DEF row, f
      <2> QED BY <2>1, <2>2, <2>3, <1>3
<1>7. ASSUME NEW p, NEW origin, f \in DOMAIN entries, ~Conflict(f, p, Target(w)),
             entries' = [entries EXCEPT ![f].name = Target(w), ![f].parent = p,
                                        ![f].origin = origin],
             UNCHANGED sessions
      PROVE  LibNext
      <2> DEFINE row == [entries[f] EXCEPT !.name = Target(w), !.parent = p, !.origin = origin]
      <2>2. row.type = entries[f].type /\ row.parent = p /\ row.name = Target(w)
            BY <1>7, <1>4 DEF Entry
      <2>3. entries' = [entries EXCEPT ![f] = row]
            BY <1>7
      <2> HIDE DEF row, f
      <2> QED BY <1>7, <2>2, <2>3, <1>3
<1>8. CASE ~UNCHANGED tables /\ TrashApply(w)
      BY <1>7, <1>8 DEF TrashApply, TrashEntry, Exists
<1>9. CASE ~UNCHANGED tables /\ RestoreApply(w)
      BY <1>7, <1>9 DEF RestoreApply, RestoreEntry, Exists
<1> QED BY <1>2, <1>5, <1>6, <1>8, <1>9

(* A folder goes from fresh to filed at once; when its name is taken, the  *)
(* identifier drawn is lost.                                               *)
LEMMA CreateFolderEntryImplements ==
    ASSUME IInv, Typed', NEW w \in Workers, CreateFolderEntry(w)
    PROVE  LibNext
<1>0. ~Pending(w) /\ Finish(w)
      BY DEF CreateFolderEntry, At, Pending
<1>1. Reserved' = Reserved
      BY <1>0, FinishAway, AwayReserves
<1>2. PICK f \in FileIDs \ minted :
        /\ minted' = minted \cup {f}
        /\ IF Conflict(f, req[w].parent, Target(w))
           THEN UNCHANGED tables
           ELSE CreateFolder(f, req[w].parent, Target(w))
      BY DEF CreateFolderEntry
<1>3. f \notin DOMAIN entries /\ f \notin Reserved /\ LifeOf(f) = "fresh"
      BY <1>2, LifeOfFresh
<1>4. CASE UNCHANGED tables
      <2>1. SamePlaces /\ SameView
            BY <1>4 DEF SamePlaces, SameView, InView, IsFolder, Exists, Completed,
                         HasSession, tables
      <2>2. Lives({f}, "gone")
            BY <1>1, <1>2, <1>3, <1>4 DEF Lives, LifeOf, Exists, tables
      <2> QED BY <1>2, <1>3, <2>1, <2>2, ForgetStep
<1>5. CASE ~Conflict(f, req[w].parent, Target(w)) /\ CreateFolder(f, req[w].parent, Target(w))
      <2>1. /\ DOMAIN entries' = DOMAIN entries \cup {f}
            /\ entries'[f].parent = req[w].parent /\ entries'[f].name = Target(w)
            /\ \A x \in DOMAIN entries : entries'[x] = entries[x]
            /\ UNCHANGED sessions
            BY <1>3, <1>5 DEF CreateFolder, Put, FolderRow
      <2>2. PlaceOf(entries'[f]) \in Folder \X Name
            <3>1. entries'[f] \in Entry
                  BY <2>1, TypedParts DEF Typed, TypeOK, ServiceTypeOK, RepositoryTypeOK
            <3> QED BY <3>1 DEF Entry, PlaceOf
      <2>3. Placed(f)
            BY <1>5, <2>1, <2>2 DEF Placed, PlaceOf, Conflict, EntryAt
      <2>4. Lives({f}, "filed")
            BY <1>1, <1>2, <1>3, <2>1 DEF Lives, LifeOf, Exists
      <2>5. \A x \in DOMAIN entries : InView(x)' <=> InView(x)
            BY <2>1 DEF InView, IsFolder, Exists, Completed, HasSession
      <2> QED BY <1>2, <1>3, <2>1, <2>3, <2>4, <2>5, FileStep
<1> QED BY <1>2, <1>4, <1>5

LEMMA PrepareUploadImplements ==
    ASSUME IInv, NEW w \in Workers, PrepareUpload(w)
    PROVE  LibNext
<1>0. ~Pending(w)
      BY DEF PrepareUpload, At, Pending
<1>1. CASE Finish(w) /\ UNCHANGED <<tables, bucket, Local>>
      BY <1>0, <1>1, FinishAway, ReadStep DEF tables, Local
<1>2. ASSUME NEW f \in FileIDs \ minted, minted' = minted \cup {f},
             \A v \in Workers : v # w => req'[v] = req[v],
             req'[w].pc = "persist", req'[w].op = "create", req'[w].file = f
      PROVE  LibNext
      <2>1. UNCHANGED tables
            BY DEF PrepareUpload
      <2>2. f \notin DOMAIN entries /\ LifeOf(f) = "fresh"
            BY <1>2, LifeOfFresh
      <2>3. Reserved' = Reserved \cup {f}
            BY <1>0, <1>2 DEF Reserved, At, Pending
      <2>4. Lives({f}, "reserved")
            BY <1>2, <2>1, <2>2, <2>3 DEF Lives, LifeOf, Exists, tables
      <2>5. SamePlaces /\ SameView
            BY <2>1 DEF SamePlaces, SameView, InView, IsFolder, Exists, Completed, HasSession,
                        tables
      <2> QED BY <2>2, <2>4, <2>5, ReserveStep
<1>3. Typed
      BY DEF IInv
<1> QED BY <1>1, <1>2, <1>3, PrepareUploadIs

(* A pending creation ends: its identifier is its own, so nobody else      *)
(* keeps it reserved.                                                      *)
LEMMA PendingEnds ==
    ASSUME IInv, NEW w \in Workers, Pending(w), req'[w].pc # "persist",
           \A v \in Workers \ {w} : req'[v] = req[v]
    PROVE  Reserved' = Reserved \ {req[w].file}
<1>1. req[w].file \in Reserved
      BY RequestsAre DEF Reserved, At, Pending
<1>2. \A v \in Workers \ {w} : Pending(v) => req[v].file # req[w].file
      BY DEF IInv, PendingIsFresh
<1> QED BY <1>1, <1>2 DEF Reserved, At, Pending

LEMMA PendingForgotten ==
    ASSUME IInv, NEW w \in Workers, Pending(w), req'[w].pc # "persist",
           \A v \in Workers \ {w} : req'[v] = req[v],
           UNCHANGED <<tables, minted>>
    PROVE  LibNext
<1> DEFINE f == req[w].file
<1>1. /\ f \in FileIDs /\ f \notin DOMAIN entries /\ LifeOf(f) = "reserved" /\ f \in minted
      BY LifeOfPending DEF IInv, MintedOnly
<1>2. Reserved' = Reserved \ {f}
      BY PendingEnds
<1> HIDE DEF f
<1>3. Lives({f}, "gone")
      BY <1>1, <1>2 DEF Lives, LifeOf, Exists, tables
<1>4. SamePlaces /\ SameView
      BY DEF SamePlaces, SameView, InView, IsFolder, Exists, Completed, HasSession, tables
<1> QED BY <1>1, <1>3, <1>4, ForgetStep

LEMMA PersistUploadImplements ==
    ASSUME IInv, Typed', NEW w \in Workers, PersistUpload(w)
    PROVE  LibNext
<1> DEFINE f == req[w].file
<1>0. /\ Pending(w) /\ UNCHANGED minted
      /\ Finish(w) \/ Goto(w, "abort")
      BY DEF PersistUpload, At, Pending, GiveUpUpload, Local
<1>1. /\ req'[w].pc # "persist" /\ \A v \in Workers \ {w} : req'[v] = req[v]
      BY <1>0, RequestsAre DEF Finish, Goto, Idle, Request
<1>2. CASE UNCHANGED tables
      BY <1>0, <1>1, <1>2, PendingForgotten
<1>3. CASE ~UNCHANGED tables
      <2>1. /\ f \in FileIDs /\ f \notin DOMAIN entries /\ LifeOf(f) = "reserved" /\ f \in minted
            BY <1>0, LifeOfPending DEF IInv, MintedOnly
      <2>2. Reserved' = Reserved \ {f}
            BY <1>0, <1>1, PendingEnds
      <2>3. PICK row :
              /\ ~Conflict(f, req[w].parent, Target(w))
              /\ entries' = Put(entries, f, FileRow(req[w].parent, Target(w)))
              /\ sessions' = Put(sessions, f, row)
            BY <1>3 DEF PersistUpload, CreateFileWithUpload
      <2> HIDE DEF f
      <2>4. /\ DOMAIN entries' = DOMAIN entries \cup {f}
            /\ entries'[f].parent = req[w].parent /\ entries'[f].name = Target(w)
            /\ \A x \in DOMAIN entries : entries'[x] = entries[x]
            /\ DOMAIN sessions' = DOMAIN sessions \cup {f}
            /\ \A x \in DOMAIN sessions \ {f} : sessions'[x] = sessions[x]
            BY <2>1, <2>3 DEF Put, FileRow
      <2>5. PlaceOf(entries'[f]) \in Folder \X Name
            <3>1. entries'[f] \in Entry
                  BY <2>4, TypedParts DEF Typed, TypeOK, ServiceTypeOK, RepositoryTypeOK
            <3> QED BY <3>1 DEF Entry, PlaceOf
      <2>6. Placed(f)
            BY <2>3, <2>4, <2>5 DEF Placed, PlaceOf, Conflict, EntryAt
      <2>7. Lives({f}, "filed")
            BY <1>0, <2>1, <2>2, <2>4 DEF Lives, LifeOf, Exists
      <2>8. \A x \in DOMAIN entries : InView(x)' <=> InView(x)
            BY <2>1, <2>4 DEF InView, IsFolder, Exists, Completed, HasSession
      <2> QED BY <2>1, <2>4, <2>6, <2>7, <2>8, FileStep
<1> QED BY <1>2, <1>3

(* Raising the part count publishes nothing.                               *)
LEMMA UrlRaisePartCountImplements ==
    ASSUME IInv, NEW w \in Workers, UrlRaisePartCount(w)
    PROVE  LibNext
<1>1. Away(w) /\ UNCHANGED <<minted, entries>>
      BY FinishAway DEF UrlRaisePartCount, RaisePartCount, At, Pending, Local
<1>2. \A u : Completed(u)' <=> Completed(u)
      <2>1. \A u \in DOMAIN sessions : sessions[u] \in Session
            BY TypedParts DEF IInv, RepositoryTypeOK
      <2>2. \/ sessions' = sessions
            \/ \E f, count : sessions' = [sessions EXCEPT ![f].partCount = count]
            BY DEF UrlRaisePartCount, RaisePartCount
      <2>3. ASSUME NEW f, NEW count, sessions' = [sessions EXCEPT ![f].partCount = count]
            PROVE  /\ DOMAIN sessions' = DOMAIN sessions
                   /\ \A u \in DOMAIN sessions : sessions'[u].status = sessions[u].status
            BY <2>1, <2>3 DEF Session
      <2> QED BY <2>2, <2>3 DEF Completed, HasSession
<1>3. SamePlaces /\ SameView
      BY <1>1, <1>2 DEF SamePlaces, SameView, InView, IsFolder, Exists
<1> QED BY <1>1, <1>3, AwayLives, StutterStep

LEMMA PublishFileImplements ==
    ASSUME IInv, NEW w \in Workers, PublishFile(w)
    PROVE  LibNext
<1>a. PICK u : u = req[w].file
      OBVIOUS
<1>1. Away(w) /\ UNCHANGED <<minted, entries>>
      BY FinishAway DEF PublishFile, SetUploadSessionStatus, At, Pending
<1>2. SetUploadSessionStatus(u, "completed")
      BY <1>a DEF PublishFile
<1>3. CASE ~HasSession(u)
      BY <1>1, <1>2, <1>3, ReadStep DEF SetUploadSessionStatus
<1>4. CASE HasSession(u)
      <2>1. sessions[u] \in Session
            BY <1>4, TypedParts DEF IInv, RepositoryTypeOK, HasSession
      <2>2. /\ DOMAIN sessions' = DOMAIN sessions
            /\ sessions'[u].status = "completed"
            /\ \A x \in DOMAIN sessions \ {u} : sessions'[x] = sessions[x]
            BY <1>2, <1>4, <2>1 DEF SetUploadSessionStatus, HasSession, Session
      <2>3. Completed(u)'
            BY <1>4, <2>2 DEF Completed, HasSession
      <2>4. ASSUME NEW x \in DOMAIN entries \ {u}
            PROVE  InView(x)' <=> InView(x)
            <3>1. IsFolder(x)' <=> IsFolder(x)
                  BY <1>1 DEF IsFolder, Exists
            <3>2. Completed(x)' <=> Completed(x)
                  BY <2>2 DEF Completed, HasSession
            <3> QED BY <3>1, <3>2 DEF InView
      <2>5. SamePlaces /\ InView(u)' /\ Lives({}, "gone")
            BY <1>1, <2>3, AwayLives DEF SamePlaces, InView
      <2>6. CASE u \in DOMAIN entries
            <3>1. u \in DOMAIN entries \cap FileIDs /\ LifeOf(u) = "filed"
                  BY <2>6, LifeOfEntry
            <3> QED BY <2>4, <2>5, <3>1, PublishStep
      <2>7. CASE u \notin DOMAIN entries
            BY <1>1, <2>4, <2>5, <2>7, StutterStep DEF SameView
      <2> QED BY <2>6, <2>7
<1> QED BY <1>3, <1>4

(* The hash that a goroutine records belongs neither to place nor view.    *)
LEMMA NoRequestStep ==
    ASSUME UNCHANGED <<minted, req, sessions>>, DOMAIN entries' = DOMAIN entries,
           \A x \in DOMAIN entries :
            /\ entries'[x].parent = entries[x].parent
            /\ entries'[x].name = entries[x].name
            /\ entries'[x].type = entries[x].type
    PROVE  LibNext
<1>1. Lives({}, "gone")
      BY DEF Lives, LifeOf, Exists, Reserved, At
<1>2. SamePlaces /\ SameView
      BY DEF SamePlaces, SameView, PlaceOf, InView, IsFolder, Exists, Completed, HasSession
<1> QED BY <1>1, <1>2, StutterStep

LEMMA PostCompleteImplements ==
    ASSUME IInv, NEW p \in postings, PostComplete(p)
    PROVE  LibNext
<1>1. UNCHANGED <<minted, req, sessions>>
      BY DEF PostComplete, PostCompleteMarkPart, PostCompleteHash, PostCompleteUpdate,
             MarkUploadPartUploaded, UpdateEntryHash, tables
<1>2. \A x \in DOMAIN entries : entries[x] \in Entry
      BY TypedParts DEF IInv, RepositoryTypeOK
<1>3. \/ entries' = entries
      \/ \E f, h : entries' = [entries EXCEPT ![f].hash = h]
      BY DEF PostComplete, PostCompleteMarkPart, PostCompleteHash, PostCompleteUpdate,
             MarkUploadPartUploaded, UpdateEntryHash, tables
<1>4. ASSUME NEW f, NEW h, entries' = [entries EXCEPT ![f].hash = h]
      PROVE  LibNext
      <2>1. /\ DOMAIN entries' = DOMAIN entries
            /\ \A x \in DOMAIN entries :
                /\ entries'[x].parent = entries[x].parent
                /\ entries'[x].name = entries[x].name
                /\ entries'[x].type = entries[x].type
            BY <1>2, <1>4 DEF Entry
      <2> QED BY <1>1, <2>1, NoRequestStep
<1> QED BY <1>1, <1>3, <1>4, NoRequestStep

LEMMA CallFailsImplements ==
    ASSUME IInv, NEW w \in Workers, CallFails(w)
    PROVE  LibNext
<1>0. /\ UNCHANGED <<tables, minted, entries, sessions>>
      /\ Finish(w) \/ Goto(w, "abort")
      BY DEF CallFails, Local, tables
<1>1. CASE Pending(w)
      <2>1. /\ req'[w].pc # "persist" /\ \A v \in Workers \ {w} : req'[v] = req[v]
            BY <1>0, RequestsAre DEF Finish, Goto, Idle, Request
      <2> QED BY <1>0, <1>1, <2>1, PendingForgotten
<1>2. CASE ~Pending(w)
      BY <1>0, <1>2, FinishAway, GotoAway, ReadStep
<1> QED BY <1>1, <1>2

LEMMA CrashImplements ==
    ASSUME IInv, Crash
    PROVE  LibNext
<1>1. /\ UNCHANGED <<tables, minted, entries, sessions>> /\ Reserved' = {}
      BY DEF Crash, tables, Reserved, At, Idle
<1>2. /\ Reserved \subseteq FileIDs
      /\ \A f \in Reserved : LifeOf(f) = "reserved" /\ f \in minted /\ f \notin DOMAIN entries
      <2>1. ASSUME NEW w \in Workers, Pending(w)
            PROVE  /\ req[w].file \in FileIDs /\ LifeOf(req[w].file) = "reserved"
                   /\ req[w].file \in minted /\ req[w].file \notin DOMAIN entries
            BY <2>1, LifeOfPending DEF IInv, MintedOnly
      <2> QED BY <2>1 DEF Reserved, At, Pending
<1>3. Lives(Reserved, "gone")
      <2>1. \A f \in FileIDs : f \notin Reserved => LifeOf(f)' = LifeOf(f)
            BY <1>1 DEF LifeOf, Exists
      <2>2. \A f \in Reserved : LifeOf(f)' = "gone"
            BY <1>1, <1>2 DEF LifeOf, Exists
      <2> QED BY <2>1, <2>2 DEF Lives
<1>4. SamePlaces /\ SameView
      BY <1>1 DEF SamePlaces, SameView, InView, IsFolder, Exists, Completed, HasSession
<1> QED BY <1>2, <1>3, <1>4, ForgetStep

-----------------------------------------------------------------------------
(***************************************************************************)
(* The deletion of a tree.                                                 *)
(***************************************************************************)

(* What DeleteEntryTree selected and still exists is still in the tree.    *)
StillInTree(w) ==
    req[w].pc = "purge" => req[w].doomed \cap DOMAIN entries \subseteq Subtree(req[w].victim)

Selected == \A w \in Workers : StillInTree(w)

LEMMA PurgeTreeImplements ==
    ASSUME IInv, NEW w \in Workers, PurgeTree(w), StillInTree(w)
    PROVE  LibNext
<1>a. PICK S, D : S = Subtree(req[w].victim) /\ D = req[w].doomed
      OBVIOUS
<1>1. Away(w)
      BY SharedAway DEF Shared
<1>2. /\ DOMAIN entries' = DOMAIN entries \ S
      /\ \A f \in DOMAIN entries' : entries'[f] = entries[f]
      /\ DOMAIN sessions' = DOMAIN sessions \ D
      /\ \A f \in DOMAIN sessions' : sessions'[f] = sessions[f]
      /\ UNCHANGED minted
      BY <1>a DEF PurgeTree, DeleteEntryTree, Drop
<1>3. D \cap DOMAIN entries \subseteq S
      BY <1>a DEF StillInTree, PurgeTree
<1>4. S \subseteq DOMAIN entries
      BY <1>a DEF Subtree, Below, Exists
<1>5. \A f \in DOMAIN entries : LifeOf(f) = "filed" /\ f \in FileIDs /\ f \in minted
      BY LifeOfEntry
<1>6. Reserved \cap DOMAIN entries = {}
      BY LifeOfPending DEF Reserved, At, Pending
<1>7. Lives(S, "gone")
      <2>1. Reserved' = Reserved
            BY <1>1, AwayReserves
      <2>2. \A f \in S : LifeOf(f)' = "gone"
            BY <1>2, <1>4, <1>5, <1>6, <2>1 DEF LifeOf, Exists
      <2>3. \A f \in FileIDs \ S : LifeOf(f)' = LifeOf(f)
            BY <1>2, <2>1 DEF LifeOf, Exists
      <2> QED BY <2>2, <2>3 DEF Lives
<1>8. ASSUME NEW f \in DOMAIN entries'
      PROVE  PlaceOf(entries'[f]) = PlaceOf(entries[f]) /\ (InView(f)' <=> InView(f))
      <2>1. IsFolder(f)' <=> IsFolder(f)
            BY <1>2 DEF IsFolder, Exists
      <2>2. f \notin D
            BY <1>2, <1>3
      <2>3. Completed(f)' <=> Completed(f)
            BY <1>2, <2>2 DEF Completed, HasSession
      <2> QED BY <1>2, <2>1, <2>3 DEF InView
<1>9. S \in SUBSET FileIDs /\ \A f \in S : LifeOf(f) = "filed"
      BY <1>4, <1>5
<1> QED BY <1>2, <1>7, <1>8, <1>9, RemoveStep

-----------------------------------------------------------------------------
(***************************************************************************)
(* Every step, and the refinement as long as what was selected stays.      *)
(***************************************************************************)
LEMMA StepImplements ==
    ASSUME IInv, Selected, [Next]_vars
    PROVE  LibNext
<1>0. IInv' /\ Typed'
      BY StepSafe DEF IInv
<1>1. CASE UNCHANGED vars
      BY <1>1, NoRequestStep DEF vars, tables, Local
<1>2. ASSUME NEW w \in Workers, Shared(w)
      PROVE  LibNext
      <2>1. CASE PurgeTree(w)
            BY <2>1, PurgeTreeImplements DEF Selected
      <2>2. CASE LookupName(w) \/ CleanupStaleUploadEntry(w) \/ SelectTree(w)
            <3>1. UNCHANGED <<minted, entries, sessions>>
                  BY <2>2 DEF LookupName, CleanupStaleUploadEntry, SelectTree, tables, Local
            <3> QED BY <1>2, <3>1, SharedAway, ReadStep
      <2> QED BY <1>2, <2>1, <2>2 DEF Shared
<1>3. ASSUME NEW w \in Workers, UploadNext(w)
      PROVE  LibNext
      BY <1>0, <1>3, UploadReadsAway, ReadStep, CreateFolderEntryImplements,
         PrepareUploadImplements, PersistUploadImplements, UrlRaisePartCountImplements,
         PublishFileImplements
         DEF UploadNext
<1>4. ASSUME NEW w \in Workers, ManageNext(w)
      PROVE  LibNext
      BY <1>0, <1>4, ManageReadsAway, ReadStep, ApplyImplements DEF ManageNext
<1>5. ASSUME NEW w \in Workers, RecycleNext(w)
      PROVE  LibNext
      BY <1>0, <1>5, RecycleReadsAway, ReadStep, ApplyImplements DEF RecycleNext
<1>6. ASSUME NEW f \in FileIDs, BackgroundDelete(f)
      PROVE  LibNext
      BY <1>6, NoRequestStep DEF BackgroundDelete, tables
<1>7. CASE Client
      BY <1>7, NoRequestStep DEF Client, tables
<1> QED BY <1>1, <1>2, <1>3, <1>4, <1>5, <1>6, <1>7, CallFailsImplements,
           PostCompleteImplements, CrashImplements
        DEF Next

LEMMA InitImplements ==
    ASSUME Init
    PROVE  Lib!Init
<1>1. /\ entries = Seed /\ minted = DOMAIN Seed /\ Reserved = {}
      BY DEF Init, ServiceInit, RepositoryInit, Reserved, At, Idle
<1>2. \A f \in DOMAIN entries : IsFolder(f) /\ f \in FileIDs
      BY <1>1, RepositoryAssumption DEF IsFolder, Exists
<1>3. [f \in DOMAIN entries |-> PlaceOf(entries[f])] = [f \in DOMAIN Seed |-> PlaceOf(Seed[f])]
      BY <1>1
<1>4. {f \in DOMAIN entries : IsFolder(f) \/ Completed(f)} = DOMAIN Seed
      BY <1>1, <1>2
<1>5. \A f \in FileIDs : LifeOf(f) = IF f \in DOMAIN Seed THEN "filed" ELSE "fresh"
      BY <1>1 DEF LifeOf, Exists
<1> QED BY <1>3, <1>4, <1>5 DEF Lib!Init

LEMMA Refinement == Spec /\ []Selected => ImplementsLibrary
<1>1. Init => Lib!Init
      BY InitImplements
<1>2. IInv /\ Selected /\ [Next]_vars => [Lib!Next]_Lib!libVars
      BY StepImplements DEF LibNext
<1> QED BY <1>1, <1>2, Invariance, PTL DEF Spec, ImplementsLibrary, Lib!Spec

-----------------------------------------------------------------------------
(***************************************************************************)
(* Trees whose entries keep their folders.                                 *)
(***************************************************************************)
Closed(S, p) == \A c \in DOMAIN entries : entries[c].parent \in S \cup {p} => c \in S

LEMMA BelowIs ==
    ASSUME NEW p
    PROVE  Below(p) = {e \in DOMAIN entries : \A S \in SUBSET DOMAIN entries :
                                                Closed(S, p) => e \in S}
BY DEF Below, Closed

(* Below(p) is closed itself, and holds what is below its members.         *)
LEMMA BelowClosed ==
    ASSUME NEW p
    PROVE  Closed(Below(p), p)
BY DEF Below, Closed

LEMMA BelowTransitive ==
    ASSUME NEW p, NEW q \in Below(p)
    PROVE  Below(q) \subseteq Below(p)
<1> SUFFICES ASSUME NEW e \in Below(q), NEW S \in SUBSET DOMAIN entries, Closed(S, p)
             PROVE  e \in S
    BY BelowIs
<1>1. q \in S
      BY BelowIs
<1>2. Closed(S, q)
      BY <1>1 DEF Closed
<1> QED BY <1>2, BelowIs

(* No entry leaves a tree without being deleted.                           *)
TreesKept == \A p : Subtree(p) \cap DOMAIN entries' \subseteq Subtree(p)'

(* New entries, other names and hashes.                                    *)
LEMMA GrowthKeepsTrees ==
    ASSUME DOMAIN entries \subseteq DOMAIN entries',
           \A c \in DOMAIN entries : entries'[c].parent = entries[c].parent
    PROVE  TreesKept
<1>1. ASSUME NEW p, NEW e \in Below(p)
      PROVE  e \in Below(p)'
      <2>1. e \in DOMAIN entries'
            BY DEF Below
      <2>2. ASSUME NEW S \in SUBSET DOMAIN entries',
                   \A c \in DOMAIN entries' : entries'[c].parent \in S \cup {p} => c \in S
            PROVE  e \in S
            <3>1. Closed(S \cap DOMAIN entries, p)
                  BY <2>2 DEF Closed
            <3> QED BY <3>1, BelowIs
      <2> QED BY <2>1, <2>2 DEF Below
<1> QED BY <1>1 DEF TreesKept, Subtree, Exists

(* What stays of a tree when another tree goes.                            *)
LEMMA DropKeepsTrees ==
    ASSUME NEW x, entries' = Drop(entries, Subtree(x))
    PROVE  TreesKept
<1>a. PICK D : D = Subtree(x)
      OBVIOUS
<1>0. /\ DOMAIN entries' = DOMAIN entries \ D
      /\ \A c \in DOMAIN entries' : entries'[c] = entries[c]
      BY <1>a DEF Drop
<1>1. \A c \in DOMAIN entries : entries[c].parent \in D => c \in D
      BY <1>a, BelowClosed DEF Subtree, Closed
<1>2. \A p \in D : Below(p) \subseteq D
      BY <1>a, BelowTransitive DEF Subtree
<1>3. ASSUME NEW p, p \notin D, NEW e \in Below(p) \ D
      PROVE  e \in Below(p)'
      <2>1. e \in DOMAIN entries'
            BY <1>0 DEF Below
      <2>2. ASSUME NEW S \in SUBSET DOMAIN entries',
                   \A c \in DOMAIN entries' : entries'[c].parent \in S \cup {p} => c \in S
            PROVE  e \in S
            <3>1. Closed(S \cup (D \cap DOMAIN entries), p)
                  BY <1>0, <1>1, <1>3, <2>2 DEF Closed
            <3>2. S \cup (D \cap DOMAIN entries) \in SUBSET DOMAIN entries
                  BY <1>0
            <3> QED BY <1>3, <3>1, <3>2, BelowIs
      <2> QED BY <2>1, <2>2 DEF Below
<1>4. ASSUME NEW p, NEW e \in Subtree(p) \cap DOMAIN entries'
      PROVE  e \in Subtree(p)'
      <2>1. p \in DOMAIN entries /\ (e = p \/ e \in Below(p)) /\ e \notin D
            BY <1>0 DEF Subtree, Exists
      <2>2. p \notin D
            BY <1>2, <2>1
      <2>3. p \in DOMAIN entries'
            BY <1>0, <2>1, <2>2
      <2> QED BY <1>3, <2>1, <2>2, <2>3 DEF Subtree, Exists
<1> QED BY <1>4 DEF TreesKept

-----------------------------------------------------------------------------
(***************************************************************************)
(* What was selected stays selected: of one request at a time, and of any  *)
(* number of requests when no entry changes its folder.                    *)
(***************************************************************************)
OneWorker == \A v, w \in Workers : v = w

NothingMoves == Ops \cap {"moveFile", "moveFolder", "trash", "restore"} = {}

OpsOnly == \A w \in Workers : req[w].op \in Ops \cup {"none"}

SelectedInv == IInv /\ OpsOnly /\ Selected

(* A step after which the selections of others are as good as before.      *)
Harmless ==
    /\ TreesKept
    /\ \A v \in Workers : req[v].doomed \cap DOMAIN entries' \subseteq DOMAIN entries

LEMMA SameFoldersHarmless ==
    ASSUME DOMAIN entries' = DOMAIN entries,
           \A c \in DOMAIN entries : entries'[c].parent = entries[c].parent
    PROVE  Harmless
BY GrowthKeepsTrees DEF Harmless

LEMMA SelectionKept ==
    ASSUME NEW v \in Workers, StillInTree(v), req'[v] = req[v], Harmless
    PROVE  StillInTree(v)'
<1>1. PICK p : p = req[v].victim
      OBVIOUS
<1>2. Subtree(p) \cap DOMAIN entries' \subseteq Subtree(p)'
      BY DEF Harmless, TreesKept
<1>3. ASSUME req[v].pc = "purge"
      PROVE  req[v].doomed \cap DOMAIN entries' \subseteq Subtree(p)'
      BY <1>1, <1>2, <1>3 DEF Harmless, StillInTree
<1>4. Subtree(req[v].victim)' = Subtree(p)'
      BY <1>1
<1> QED BY <1>3, <1>4 DEF StillInTree

LEMMA SelectTreeIs ==
    ASSUME IInv, NEW w \in Workers, Advances(w), req'[w].pc = "purge"
    PROVE  /\ req'[w].doomed = {e \in Subtree(req[w].victim) : IsFile(e)}
           /\ req'[w].victim = req[w].victim
           /\ UNCHANGED entries
<1>1. SelectTree(w)
      BY DEF Advances
<1>2. ~AfterDelete(w)
      BY AfterDeleteIs, TypedParts, RequestsAre DEF IInv
<1>3. req' = [req EXCEPT ![w].pc = "purge",
                         ![w].doomed = {e \in Subtree(req[w].victim) : IsFile(e)}]
      BY <1>1, <1>2 DEF SelectTree
<1> QED BY <1>1, <1>3, RequestsAre DEF Request, SelectTree, tables

LEMMA SelectionMade ==
    ASSUME IInv, NEW w \in Workers, Advances(w)
    PROVE  StillInTree(w)'
<1>1. PICK p : p = req[w].victim
      OBVIOUS
<1>2. CASE req'[w].pc = "purge"
      <2>1. req'[w].doomed \subseteq Subtree(p) /\ req'[w].victim = p /\ UNCHANGED entries
            BY <1>1, <1>2, SelectTreeIs
      <2>2. Subtree(p)' = Subtree(p)
            BY <2>1 DEF Subtree, Below, Exists
      <2>3. Subtree(req[w].victim)' = Subtree(p)'
            BY <2>1
      <2> QED BY <2>1, <2>2, <2>3 DEF StillInTree
<1> QED BY <1>2 DEF StillInTree

LEMMA RequestStepSelected ==
    ASSUME SelectedInv, NEW w \in Workers, Advances(w), OneWorker \/ Harmless
    PROVE  OpsOnly' /\ Selected'
<1>1. OpsOnly'
      BY DEF SelectedInv, OpsOnly, Advances
<1>2. StillInTree(w)'
      BY SelectionMade DEF SelectedInv
<1>3. ASSUME NEW v \in Workers, v # w
      PROVE  StillInTree(v)'
      BY <1>3, SelectionKept DEF OneWorker, Advances, SelectedInv, Selected
<1> QED BY <1>1, <1>2, <1>3 DEF Selected

LEMMA NoRequestSelected ==
    ASSUME SelectedInv, UNCHANGED req, DOMAIN entries' = DOMAIN entries,
           \A c \in DOMAIN entries : entries'[c].parent = entries[c].parent
    PROVE  OpsOnly' /\ Selected'
<1>1. OpsOnly'
      BY DEF SelectedInv, OpsOnly
<1>2. Selected'
      BY SameFoldersHarmless, SelectionKept DEF SelectedInv, Selected
<1> QED BY <1>1, <1>2

(* The steps of the operations, one by one.                                *)
LEMMA ReadSelected ==
    ASSUME SelectedInv, NEW w \in Workers, Away(w), UNCHANGED entries
    PROVE  OpsOnly' /\ Selected'
BY SameFoldersHarmless, RequestStepSelected DEF Away

LEMMA PurgeTreeSelected ==
    ASSUME SelectedInv, NEW w \in Workers, PurgeTree(w)
    PROVE  OpsOnly' /\ Selected'
<1>1. Advances(w)
      BY SharedAway DEF SelectedInv, Shared, Away
<1>2. entries' = Drop(entries, Subtree(req[w].victim))
      BY DEF PurgeTree, DeleteEntryTree
<1>3. DOMAIN entries' \subseteq DOMAIN entries
      BY <1>2 DEF Drop
<1>4. Harmless
      BY <1>2, <1>3, DropKeepsTrees DEF Harmless
<1> QED BY <1>1, <1>4, RequestStepSelected

LEMMA CreateFolderEntrySelected ==
    ASSUME SelectedInv, NEW w \in Workers, CreateFolderEntry(w)
    PROVE  OpsOnly' /\ Selected'
<1>1. Advances(w)
      BY FinishAway DEF SelectedInv, CreateFolderEntry, At, Pending, Away
<1>2. PICK f \in FileIDs \ minted :
        \/ UNCHANGED entries
        \/ entries' = Put(entries, f, FolderRow(req[w].parent, Target(w)))
      BY DEF CreateFolderEntry, CreateFolder, tables
<1>3. /\ f \notin DOMAIN entries
      /\ \A v \in Workers : f \notin req[v].doomed
      BY <1>2 DEF SelectedInv, IInv, MintedOnly
<1>4. CASE UNCHANGED entries
      BY <1>1, <1>4, SameFoldersHarmless, RequestStepSelected
<1>5. CASE entries' = Put(entries, f, FolderRow(req[w].parent, Target(w)))
      <2>1. /\ DOMAIN entries' = DOMAIN entries \cup {f}
            /\ \A c \in DOMAIN entries : entries'[c] = entries[c]
            BY <1>3, <1>5 DEF Put
      <2>2. Harmless
            BY <1>3, <2>1, GrowthKeepsTrees DEF Harmless
      <2> QED BY <1>1, <2>2, RequestStepSelected
<1> QED BY <1>2, <1>4, <1>5

LEMMA PersistUploadSelected ==
    ASSUME SelectedInv, NEW w \in Workers, PersistUpload(w)
    PROVE  OpsOnly' /\ Selected'
<1> DEFINE f == req[w].file
<1>0. /\ Pending(w) /\ (Finish(w) \/ Goto(w, "abort"))
      /\ IInv
      BY DEF SelectedInv, PersistUpload, At, Pending, GiveUpUpload
<1>1. Advances(w)
      BY <1>0, RequestsAre DEF Advances, Finish, Goto, Idle, Request
<1>2. \/ UNCHANGED entries
      \/ entries' = Put(entries, f, FileRow(req[w].parent, Target(w)))
      BY DEF PersistUpload, CreateFileWithUpload, tables
<1>3. /\ f \notin DOMAIN entries
      /\ \A v \in Workers : f \notin req[v].doomed
      BY DEF SelectedInv, IInv, PendingIsFresh, PersistUpload, At, Pending
<1> HIDE DEF f
<1>4. CASE UNCHANGED entries
      BY <1>1, <1>4, SameFoldersHarmless, RequestStepSelected
<1>5. CASE entries' = Put(entries, f, FileRow(req[w].parent, Target(w)))
      <2>1. /\ DOMAIN entries' = DOMAIN entries \cup {f}
            /\ \A c \in DOMAIN entries : entries'[c] = entries[c]
            BY <1>3, <1>5 DEF Put
      <2>2. Harmless
            BY <1>3, <2>1, GrowthKeepsTrees DEF Harmless
      <2> QED BY <1>1, <2>2, RequestStepSelected
<1> QED BY <1>2, <1>4, <1>5

LEMMA PrepareUploadSelected ==
    ASSUME SelectedInv, NEW w \in Workers, PrepareUpload(w)
    PROVE  OpsOnly' /\ Selected'
<1>1. IInv /\ Typed
      BY DEF SelectedInv, IInv
<1>2. ~Pending(w) /\ req[w].op = "create" /\ UNCHANGED entries
      BY DEF PrepareUpload, At, Pending, tables
<1>3. Advances(w)
      <2>1. CASE Finish(w)
            BY <1>1, <1>2, <2>1, FinishAway DEF Away
      <2>2. ASSUME \A v \in Workers : v # w => req'[v] = req[v],
                   req'[w].pc = "persist", req'[w].op = "create"
            PROVE  Advances(w)
            BY <1>2, <2>2 DEF Advances
      <2> QED BY <1>1, <2>1, <2>2, PrepareUploadIs
<1> QED BY <1>2, <1>3, SameFoldersHarmless, RequestStepSelected

LEMMA CallFailsSelected ==
    ASSUME SelectedInv, NEW w \in Workers, CallFails(w)
    PROVE  OpsOnly' /\ Selected'
<1>1. /\ Finish(w) \/ Goto(w, "abort")
      /\ UNCHANGED entries /\ IInv
      BY DEF SelectedInv, CallFails, tables
<1>2. Advances(w)
      BY <1>1, RequestsAre DEF Advances, Finish, Goto, Idle, Request
<1> QED BY <1>1, <1>2, SameFoldersHarmless, RequestStepSelected

(* Rename changes no folder; the others do, and need a worker of their own. *)
LEMMA ApplySelected ==
    ASSUME SelectedInv, OneWorker \/ NothingMoves, NEW w \in Workers,
           UpdateApply(w) \/ MoveApply(w) \/ TrashApply(w) \/ RestoreApply(w)
    PROVE  OpsOnly' /\ Selected'
<1>1. Advances(w)
      BY FinishAway DEF SelectedInv, UpdateApply, MoveApply, TrashApply, RestoreApply, At,
                        Pending, Away
<1>2. CASE OneWorker
      BY <1>1, <1>2, RequestStepSelected
<1>3. CASE NothingMoves
      <2>1. UpdateApply(w)
            BY <1>3 DEF NothingMoves, SelectedInv, OpsOnly, MoveApply, TrashApply, RestoreApply, At
      <2>2. \A c \in DOMAIN entries : entries[c] \in Entry
            BY TypedParts DEF SelectedInv, IInv, RepositoryTypeOK
      <2>3. UNCHANGED entries \/ RenameEntry(req[w].file, Target(w))
            BY <2>1 DEF UpdateApply, tables
      <2>4. /\ DOMAIN entries' = DOMAIN entries
            /\ \A c \in DOMAIN entries : entries'[c].parent = entries[c].parent
            BY <2>2, <2>3 DEF RenameEntry, Entry
      <2> QED BY <1>1, <2>4, SameFoldersHarmless, RequestStepSelected
<1> QED BY <1>2, <1>3

LEMMA PostCompleteSelected ==
    ASSUME SelectedInv, NEW p \in postings, PostComplete(p)
    PROVE  OpsOnly' /\ Selected'
<1>1. \A c \in DOMAIN entries : entries[c] \in Entry
      BY TypedParts DEF SelectedInv, IInv, RepositoryTypeOK
<1>2. /\ UNCHANGED req
      /\ \/ entries' = entries
         \/ \E f, h : entries' = [entries EXCEPT ![f].hash = h]
      BY DEF PostComplete, PostCompleteMarkPart, PostCompleteHash, PostCompleteUpdate,
             MarkUploadPartUploaded, UpdateEntryHash, tables
<1>3. /\ DOMAIN entries' = DOMAIN entries
      /\ \A c \in DOMAIN entries : entries'[c].parent = entries[c].parent
      BY <1>1, <1>2 DEF Entry
<1> QED BY <1>2, <1>3, NoRequestSelected

LEMMA StepSelected ==
    ASSUME SelectedInv, OneWorker \/ NothingMoves, [Next]_vars
    PROVE  SelectedInv'
<1> SUFFICES OpsOnly' /\ Selected'
    BY StepSafe DEF SelectedInv
<1>0. IInv
      BY DEF SelectedInv
<1>1. CASE UNCHANGED vars
      BY <1>1, NoRequestSelected DEF vars, tables
<1>2. ASSUME NEW w \in Workers, Shared(w)
      PROVE  OpsOnly' /\ Selected'
      <2>1. CASE PurgeTree(w)
            BY <2>1, PurgeTreeSelected
      <2>2. CASE LookupName(w) \/ CleanupStaleUploadEntry(w) \/ SelectTree(w)
            <3>1. UNCHANGED entries
                  BY <2>2 DEF LookupName, CleanupStaleUploadEntry, SelectTree, tables
            <3> QED BY <1>0, <1>2, <3>1, SharedAway, ReadSelected
      <2> QED BY <1>2, <2>1, <2>2 DEF Shared
<1>3. ASSUME NEW w \in Workers, UploadNext(w)
      PROVE  OpsOnly' /\ Selected'
      <2>1. CASE UrlRaisePartCount(w) \/ PublishFile(w)
            <3>1. Away(w) /\ UNCHANGED entries
                  BY <1>0, <2>1, FinishAway
                     DEF UrlRaisePartCount, PublishFile, RaisePartCount, SetUploadSessionStatus,
                         At, Pending
            <3> QED BY <3>1, ReadSelected
      <2> QED BY <1>0, <1>3, <2>1, UploadReadsAway, ReadSelected, CreateFolderEntrySelected,
                 PrepareUploadSelected, PersistUploadSelected
              DEF UploadNext
<1>4. ASSUME NEW w \in Workers, ManageNext(w)
      PROVE  OpsOnly' /\ Selected'
      BY <1>0, <1>4, ManageReadsAway, ReadSelected, ApplySelected DEF ManageNext
<1>5. ASSUME NEW w \in Workers, RecycleNext(w)
      PROVE  OpsOnly' /\ Selected'
      BY <1>0, <1>5, RecycleReadsAway, ReadSelected, ApplySelected DEF RecycleNext
<1>6. ASSUME NEW f \in FileIDs, BackgroundDelete(f)
      PROVE  OpsOnly' /\ Selected'
      BY <1>6, NoRequestSelected DEF BackgroundDelete, tables
<1>7. CASE Client
      BY <1>7, NoRequestSelected DEF Client, tables
<1>8. CASE Crash
      BY <1>8 DEF Crash, OpsOnly, Selected, StillInTree, Idle
<1> QED BY <1>0, <1>1, <1>2, <1>3, <1>4, <1>5, <1>6, <1>7, <1>8, CallFailsSelected,
           PostCompleteSelected
        DEF Next, SelectedInv

LEMMA SelectedHolds ==
    ASSUME OneWorker \/ NothingMoves
    PROVE  Spec => []Selected
<1>1. Init => SelectedInv
      BY InitSafe DEF SelectedInv, OpsOnly, Selected, StillInTree, Init, ServiceInit, Idle
<1>2. SelectedInv /\ [Next]_vars => SelectedInv'
      BY StepSelected
<1>3. SelectedInv => Selected
      BY DEF SelectedInv
<1> QED BY <1>1, <1>2, <1>3, PTL DEF Spec

-----------------------------------------------------------------------------
(* One request at a time beside all goroutines, every operation, failing   *)
(* calls and crashes: the drive does what Library promises.                *)
THEOREM OneAtATimeImplements ==
    ASSUME OneWorker
    PROVE  Spec => ImplementsLibrary
BY SelectedHolds, Refinement, PTL

(* However many requests create, sign, complete, rename and delete at the  *)
(* same time: as long as nothing is moved, trashed or restored, the drive  *)
(* does what Library promises.                                             *)
THEOREM NothingMovedImplements ==
    ASSUME NothingMoves
    PROVE  Spec => ImplementsLibrary
BY SelectedHolds, Refinement, PTL
-----------------------------------------------------------------------------
(***************************************************************************)
(* What every step does to the tables.                                     *)
(***************************************************************************)
SameFiles ==
    /\ DOMAIN entries' = DOMAIN entries
    /\ \A c \in DOMAIN entries : entries'[c].type = entries[c].type
    /\ DOMAIN sessions' = DOMAIN sessions

(* What goroutines and clients leave as it is.                             *)
SameShape ==
    /\ SameFiles
    /\ \A c \in DOMAIN entries : entries'[c].parent = entries[c].parent
    /\ \A u \in DOMAIN sessions : Completed(u)' <=> Completed(u)

(* A new entry, in the folder its request named.  The identifier of a      *)
(* folder was drawn in the same step.                                      *)
NewEntry(f, p) ==
    /\ f \in FileIDs /\ f \notin DOMAIN entries /\ f \notin DOMAIN sessions
    /\ DOMAIN entries' = DOMAIN entries \cup {f}
    /\ \A c \in DOMAIN entries : entries'[c] = entries[c]
    /\ entries'[f].parent = p
    /\ \/ entries'[f].type = "folder" /\ f \notin minted /\ DOMAIN sessions' = DOMAIN sessions
       \/ entries'[f].type = "file" /\ DOMAIN sessions' = DOMAIN sessions \cup {f}

(* An entry gets another folder, or name.                                  *)
Refiled(f, p) ==
    /\ SameFiles
    /\ \A c \in DOMAIN entries \ {f} : entries'[c].parent = entries[c].parent
    /\ f \in DOMAIN entries => entries'[f].parent = p

LEMMA UnchangedShape ==
    ASSUME UNCHANGED <<entries, sessions>>
    PROVE  SameShape
BY DEF SameShape, SameFiles, Completed, HasSession

LEMMA PostCompleteShape ==
    ASSUME IInv, NEW p \in postings, PostComplete(p)
    PROVE  SameShape /\ UNCHANGED req
<1>1. \A c \in DOMAIN entries : entries[c] \in Entry
      BY TypedParts DEF IInv, RepositoryTypeOK
<1>2. /\ UNCHANGED <<req, sessions>>
      /\ \/ entries' = entries
         \/ \E f, h : entries' = [entries EXCEPT ![f].hash = h]
      BY DEF PostComplete, PostCompleteMarkPart, PostCompleteHash, PostCompleteUpdate,
             MarkUploadPartUploaded, UpdateEntryHash, tables
<1>3. /\ DOMAIN entries' = DOMAIN entries
      /\ \A c \in DOMAIN entries :
            entries'[c].parent = entries[c].parent /\ entries'[c].type = entries[c].type
      BY <1>1, <1>2 DEF Entry
<1> QED BY <1>2, <1>3 DEF SameShape, SameFiles, Completed, HasSession

LEMMA ApplyTables ==
    ASSUME IInv, NEW w \in Workers,
           UpdateApply(w) \/ MoveApply(w) \/ TrashApply(w) \/ RestoreApply(w)
    PROVE  \/ SameShape
           \/ \E p :
                /\ req[w].pc = "apply" /\ Refiled(req[w].file, p)
                /\ \/ p = Bin /\ req[w].op = "trash"
                   \/ p = req[w].parent /\ req[w].op \in {"moveFile", "moveFolder", "restore"}
<1>0. \A c \in DOMAIN entries : entries[c] \in Entry
      BY TypedParts DEF IInv, RepositoryTypeOK
<1>1. CASE UNCHANGED tables
      BY <1>1, UnchangedShape DEF tables
<1>2. CASE UpdateApply(w) /\ ~UNCHANGED tables
      <2>1. PICK f, n : RenameEntry(f, n)
            BY <1>2 DEF UpdateApply
      <2> QED BY <1>0, <2>1 DEF RenameEntry, Entry, SameShape, SameFiles, Completed, HasSession
<1>3. CASE MoveApply(w) /\ ~UNCHANGED tables
      <2>1. PICK f : f = req[w].file
            OBVIOUS
      <2>2. /\ f \in DOMAIN entries /\ MoveEntry(f, req[w].parent)
            /\ req[w].pc = "apply" /\ req[w].op \in {"moveFile", "moveFolder"}
            BY <1>3, <2>1 DEF MoveApply, Exists
      <2>3. Refiled(f, req[w].parent)
            BY <1>0, <2>2 DEF MoveEntry, Entry, Refiled, SameFiles
      <2> QED BY <2>1, <2>2, <2>3
<1>4. ASSUME NEW f \in DOMAIN entries, NEW n, NEW p, NEW origin,
             entries' = [entries EXCEPT ![f].name = n, ![f].parent = p, ![f].origin = origin],
             UNCHANGED sessions
      PROVE  Refiled(f, p)
      <2> DEFINE row == [entries[f] EXCEPT !.name = n, !.parent = p, !.origin = origin]
      <2>1. row.type = entries[f].type /\ row.parent = p
            BY <1>0 DEF Entry
      <2>2. entries' = [entries EXCEPT ![f] = row]
            BY <1>4
      <2> HIDE DEF row
      <2> QED BY <1>4, <2>1, <2>2 DEF Refiled, SameFiles
<1>5. CASE RestoreApply(w) /\ ~UNCHANGED tables
      <2>1. PICK f : f = req[w].file
            OBVIOUS
      <2>2. /\ f \in DOMAIN entries /\ RestoreEntry(f, Target(w), req[w].parent)
            /\ req[w].pc = "apply" /\ req[w].op = "restore"
            BY <1>5, <2>1 DEF RestoreApply, At, Exists
      <2> QED BY <1>4, <2>1, <2>2 DEF RestoreEntry
<1>6. CASE TrashApply(w) /\ ~UNCHANGED tables
      <2>1. PICK f : f = req[w].file
            OBVIOUS
      <2>2. /\ f \in DOMAIN entries /\ TrashEntry(f, Target(w), req[w].from)
            /\ req[w].pc = "apply" /\ req[w].op = "trash"
            BY <1>6, <2>1 DEF TrashApply, At, Exists
      <2> QED BY <1>4, <2>1, <2>2 DEF TrashEntry
<1> QED BY <1>1, <1>2, <1>3, <1>5, <1>6

(* What a new row of a creation is.                                        *)
LEMMA CreateFolderTables ==
    ASSUME IInv, NEW w \in Workers, CreateFolderEntry(w)
    PROVE  SameShape \/ \E f : NewEntry(f, req[w].parent)
<1>1. PICK f \in FileIDs \ minted :
        IF Conflict(f, req[w].parent, Target(w))
        THEN UNCHANGED tables
        ELSE CreateFolder(f, req[w].parent, Target(w))
      BY DEF CreateFolderEntry
<1>2. f \notin DOMAIN entries /\ f \notin DOMAIN sessions
      BY DEF IInv, MintedOnly
<1>3. CASE UNCHANGED tables
      BY <1>3, UnchangedShape DEF tables
<1>4. CASE CreateFolder(f, req[w].parent, Target(w))
      <2>1. /\ DOMAIN entries' = DOMAIN entries \cup {f} /\ UNCHANGED sessions
            /\ \A c \in DOMAIN entries : entries'[c] = entries[c]
            /\ entries'[f] = FolderRow(req[w].parent, Target(w))
            BY <1>2, <1>4 DEF CreateFolder, Put
      <2>2. entries'[f].parent = req[w].parent /\ entries'[f].type = "folder"
            BY <2>1 DEF FolderRow
      <2> QED BY <1>2, <2>1, <2>2 DEF NewEntry
<1> QED BY <1>1, <1>3, <1>4

LEMMA PersistUploadTables ==
    ASSUME IInv, NEW w \in Workers, PersistUpload(w)
    PROVE  SameShape \/ \E f : NewEntry(f, req[w].parent)
<1>a. PICK f : f = req[w].file
      OBVIOUS
<1>1. f \in FileIDs /\ f \notin DOMAIN entries /\ f \notin DOMAIN sessions
      BY <1>a, TypedParts DEF IInv, MintedOnly, PendingIsFresh, Pending, PersistUpload, At
<1>2. CASE UNCHANGED tables
      BY <1>2, UnchangedShape DEF tables
<1>3. CASE ~UNCHANGED tables
      <2>1. PICK row :
              /\ entries' = Put(entries, f, FileRow(req[w].parent, Target(w)))
              /\ sessions' = Put(sessions, f, row)
            BY <1>a, <1>3 DEF PersistUpload, CreateFileWithUpload
      <2>2. /\ DOMAIN entries' = DOMAIN entries \cup {f}
            /\ DOMAIN sessions' = DOMAIN sessions \cup {f}
            /\ \A c \in DOMAIN entries : entries'[c] = entries[c]
            /\ entries'[f] = FileRow(req[w].parent, Target(w))
            BY <1>1, <2>1 DEF Put
      <2>3. entries'[f].parent = req[w].parent /\ entries'[f].type = "file"
            BY <2>2 DEF FileRow
      <2> QED BY <1>1, <2>2, <2>3 DEF NewEntry
<1> QED BY <1>2, <1>3

(* UrlRaisePartCount and PublishFile change fields of a session.           *)
LEMMA SessionFieldTables ==
    ASSUME IInv, NEW w \in Workers, UrlRaisePartCount(w) \/ PublishFile(w)
    PROVE  UNCHANGED entries /\ SameFiles
BY DEF UrlRaisePartCount, PublishFile, RaisePartCount, SetUploadSessionStatus, SameFiles

(* A step of a request, and what it does to the tables.                    *)
RequestTables(w) ==
    \/ SameFiles /\ UNCHANGED entries
    \/ SameShape
    \/ \E f :
        /\ NewEntry(f, req[w].parent)
        /\ req[w].op = "create" /\ req[w].pc \in {"apply", "persist"}
    \/ \E p :
        /\ req[w].pc = "apply" /\ Refiled(req[w].file, p)
        /\ \/ p = Bin /\ req[w].op = "trash"
           \/ p = req[w].parent /\ req[w].op \in {"moveFile", "moveFolder", "restore"}
    \/ PurgeTree(w)

LEMMA StepTables ==
    ASSUME IInv, [Next]_vars
    PROVE  \/ \E w \in Workers : Advances(w) /\ RequestTables(w)
           \/ UNCHANGED req /\ SameShape
           \/ (\A w \in Workers : req'[w] = Idle) /\ SameShape
<1> DEFINE Goal == \/ \E w \in Workers : Advances(w) /\ RequestTables(w)
                   \/ UNCHANGED req /\ SameShape
                   \/ (\A w \in Workers : req'[w] = Idle) /\ SameShape
<1>1. CASE UNCHANGED vars
      BY <1>1, UnchangedShape DEF vars, tables
<1>2. ASSUME NEW w \in Workers, Away(w), UNCHANGED <<entries, sessions>>
      PROVE  Goal
      BY <1>2, UnchangedShape DEF Away, RequestTables
<1>3. ASSUME NEW w \in Workers, Shared(w)
      PROVE  Goal
      <2>1. Away(w)
            BY <1>3, SharedAway
      <2>2. CASE PurgeTree(w)
            BY <2>1, <2>2 DEF Away, RequestTables
      <2>3. CASE LookupName(w) \/ CleanupStaleUploadEntry(w) \/ SelectTree(w)
            BY <1>2, <2>1, <2>3 DEF LookupName, CleanupStaleUploadEntry, SelectTree, tables
      <2> QED BY <1>3, <2>2, <2>3 DEF Shared
<1>4. ASSUME NEW w \in Workers, UploadNext(w)
      PROVE  Goal
      <2>1. CASE UrlRaisePartCount(w) \/ PublishFile(w)
            <3>1. Away(w)
                  BY <2>1, FinishAway DEF UrlRaisePartCount, PublishFile, At, Pending
            <3> QED BY <2>1, <3>1, SessionFieldTables DEF Away, RequestTables
      <2>2. CASE CreateFolderEntry(w)
            <3>1. Away(w) /\ req[w].op = "create" /\ req[w].pc = "apply"
                  BY <2>2, FinishAway DEF CreateFolderEntry, At, Pending
            <3> QED BY <2>2, <3>1, CreateFolderTables DEF Away, RequestTables
      <2>3. CASE PersistUpload(w)
            <3>1. /\ Finish(w) \/ Goto(w, "abort")
                  /\ req[w].op = "create" /\ req[w].pc = "persist"
                  BY <2>3 DEF PersistUpload, GiveUpUpload, At
            <3>2. Advances(w)
                  BY <3>1, RequestsAre DEF Advances, Finish, Goto, Idle, Request
            <3> QED BY <2>3, <3>1, <3>2, PersistUploadTables DEF RequestTables
      <2>4. CASE PrepareUpload(w)
            <3>1. Advances(w)
                  <4>1. Typed /\ ~Pending(w) /\ req[w].op = "create"
                        BY <2>4 DEF IInv, PrepareUpload, At, Pending
                  <4>2. CASE Finish(w)
                        BY <4>1, <4>2, FinishAway DEF Away
                  <4>3. ASSUME \A v \in Workers : v # w => req'[v] = req[v],
                               req'[w].pc = "persist", req'[w].op = "create"
                        PROVE  Advances(w)
                        BY <4>1, <4>3 DEF Advances
                  <4> QED BY <2>4, <4>1, <4>2, <4>3, PrepareUploadIs
            <3> QED BY <2>4, <3>1, UnchangedShape DEF PrepareUpload, tables, RequestTables
      <2> QED BY <1>2, <1>4, <2>1, <2>2, <2>3, <2>4, UploadReadsAway DEF UploadNext
<1>5. ASSUME NEW w \in Workers,
             UpdateApply(w) \/ MoveApply(w) \/ TrashApply(w) \/ RestoreApply(w)
      PROVE  Goal
      <2>1. Away(w)
            BY <1>5, FinishAway DEF UpdateApply, MoveApply, TrashApply, RestoreApply, At, Pending
      <2> QED BY <1>5, <2>1, ApplyTables DEF Away, RequestTables
<1>6. ASSUME NEW w \in Workers, ManageNext(w) \/ RecycleNext(w)
      PROVE  Goal
      BY <1>2, <1>5, <1>6, ManageReadsAway, RecycleReadsAway DEF ManageNext, RecycleNext
<1>7. ASSUME NEW w \in Workers, CallFails(w)
      PROVE  Goal
      <2>1. Finish(w) \/ Goto(w, "abort")
            BY <1>7 DEF CallFails
      <2>2. Advances(w)
            BY <2>1, RequestsAre DEF Advances, Finish, Goto, Idle, Request
      <2> QED BY <1>7, <2>2, UnchangedShape DEF CallFails, tables, RequestTables
<1>8. ASSUME NEW f \in FileIDs, BackgroundDelete(f)
      PROVE  Goal
      BY <1>8, UnchangedShape DEF BackgroundDelete, tables
<1>9. CASE Client
      BY <1>9, UnchangedShape DEF Client, tables
<1>10. CASE Crash
      BY <1>10, UnchangedShape DEF Crash, tables
<1> HIDE DEF Goal
<1>11. Goal
      <2>1. \A p \in postings : PostComplete(p) => Goal
            BY PostCompleteShape DEF Goal
      <2>2. UNCHANGED vars \/ Client \/ Crash => Goal
            BY <1>1, <1>9, <1>10 DEF Goal
      <2> QED BY <1>3, <1>4, <1>6, <1>7, <1>8, <2>1, <2>2 DEF Next
<1> QED BY <1>11 DEF Goal


-----------------------------------------------------------------------------
(***************************************************************************)
(* What a request relies on when no other runs beside it.                  *)
(***************************************************************************)

(* A place that can hold entries.                                          *)
Filed(p) == p \in {Root, Bin} \/ IsFolder(p)

Deletes(w) == req[w].op \in {"delete", "clear"}

(* The folder a request is going to write into is there.                   *)
NamesFolder(w) ==
    req[w].op \in {"create", "moveFile", "moveFolder", "restore"}
        /\ req[w].pc \notin {"folder", "parent"} => Filed(req[w].parent)

(* What DeleteFile and RecycleBinClear are about to delete is in the bin.  *)
DeletesBinned(w) ==
    Deletes(w) =>
        /\ req[w].pc \in {"select", "purge"} /\ req[w].why = NULL
        /\ \A f \in req[w].todo \cup {req[w].victim} : Exists(f) => InRecycleBin(f)

(* What name resolution is about to delete stands where the request wants  *)
(* to put its entry, and is no completed file unless it overwrites.        *)
ClearsTheWay(w) ==
    ~Deletes(w) /\ req[w].pc \in {"stale", "select", "purge"} =>
        /\ Exists(req[w].victim) => entries[req[w].victim].parent = req[w].parent
        /\ req[w].pc = "stale" \/ req[w].why = "stale"
            => (Exists(req[w].victim) => IsFile(req[w].victim))
        /\ req[w].pc # "stale" =>
            \/ req[w].why = "overwrite"
            \/ req[w].why = "stale" /\ ~Completed(req[w].victim)

Sound(w) ==
    /\ req[w].pc = "idle" => req[w] = Idle
    /\ req[w].op = "none" => req[w].pc = "idle"
    /\ NamesFolder(w)
    /\ DeletesBinned(w)
    /\ ClearsTheWay(w)

LEMMA IdleSound ==
    ASSUME NEW w \in Workers, req'[w] = Idle
    PROVE  Sound(w)'
BY DEF Sound, NamesFolder, DeletesBinned, Deletes, ClearsTheWay, Idle

LEMMA FinishSound ==
    ASSUME IInv, NEW w \in Workers, Finish(w)
    PROVE  Sound(w)'
BY RequestsAre, IdleSound DEF Finish

(* A request that has nothing to delete, and a folder if it needs one.     *)
LEMMA ElsewhereSound ==
    ASSUME NEW w \in Workers,
           req'[w].pc \notin {"idle", "stale", "select", "purge"},
           req'[w].op \notin {"none", "delete", "clear"},
           req'[w].op \in {"create", "moveFile", "moveFolder", "restore"}
               /\ req'[w].pc \notin {"folder", "parent"}
                   => \E p : p = req'[w].parent /\ Filed(p)'
    PROVE  Sound(w)'
BY DEF Sound, NamesFolder, DeletesBinned, Deletes, ClearsTheWay

(* From one call of a handler to its next, with nothing to delete.         *)
LEMMA OnwardSound ==
    ASSUME NEW w \in Workers, Sound(w),
           req[w].pc \notin {"idle", "folder", "parent", "select", "purge"},
           req'[w].pc \notin {"idle", "stale", "select", "purge"},
           req'[w].op = req[w].op, req'[w].parent = req[w].parent,
           \A p : Filed(p) => Filed(p)'
    PROVE  Sound(w)'
<1>1. req[w].op \notin {"none", "delete", "clear"}
      BY DEF Sound, DeletesBinned, Deletes
<1>2. req[w].op \in {"create", "moveFile", "moveFolder", "restore"} => Filed(req[w].parent)
      BY DEF Sound, NamesFolder
<1>3. PICK p : p = req[w].parent
      OBVIOUS
<1>4. Filed(p) => Filed(p)'
      OBVIOUS
<1> QED BY <1>1, <1>2, <1>3, <1>4, ElsewhereSound

LEMMA SameEntriesFiled ==
    ASSUME UNCHANGED entries
    PROVE  \A p : Filed(p) <=> Filed(p)'
BY DEF Filed, IsFolder, Exists

(* A request that stays where it is, while goroutines and clients go on.   *)
LEMMA ShapeSound ==
    ASSUME SameShape, NEW w \in Workers, Sound(w), req'[w] = req[w]
    PROVE  Sound(w)'
<1>1. PICK r : r = req[w]
      OBVIOUS
<1>2. /\ \A f : Exists(f)' <=> Exists(f)
      /\ \A f : IsFile(f)' <=> IsFile(f)
      /\ \A f : IsFolder(f)' <=> IsFolder(f)
      /\ \A f : InRecycleBin(f)' <=> InRecycleBin(f)
      /\ \A f : Completed(f)' <=> Completed(f)
      BY DEF SameShape, SameFiles, Exists, IsFile, IsFolder, InRecycleBin, Completed, HasSession
<1>3. Exists(r.victim) => entries'[r.victim].parent = entries[r.victim].parent
      BY DEF SameShape, Exists
<1>4. NamesFolder(w)'
      BY <1>2 DEF Sound, NamesFolder, Filed
<1>5. DeletesBinned(w)'
      BY <1>2 DEF Sound, DeletesBinned, Deletes
<1>6. ClearsTheWay(w)'
      BY <1>1, <1>2, <1>3 DEF Sound, ClearsTheWay, Deletes
<1> QED BY <1>4, <1>5, <1>6 DEF Sound

(* Name resolution and the deletion of a tree.                             *)
LEMMA NameTakenSound ==
    ASSUME IInv, NEW w \in Workers, Sound(w), UNCHANGED <<entries, sessions>>,
           req[w].pc \in {"lookup", "stale"}, NEW e,
           Exists(e) => entries[e].parent = req[w].parent, NameTaken(w, e)
    PROVE  Sound(w)'
<1>1. ~Deletes(w)
      BY DEF Sound, DeletesBinned
<1>2. CASE Destroy(w, e, "overwrite")
      <2>1. /\ req'[w].pc = "select" /\ req'[w].op = req[w].op /\ req'[w].why = "overwrite"
            /\ req'[w].parent = req[w].parent /\ req'[w].victim = e
            BY <1>2, RequestsAre DEF Destroy, Request
      <2>2. NamesFolder(w)'
            BY <2>1 DEF Sound, NamesFolder, Filed, IsFolder, Exists
      <2>3. ClearsTheWay(w)'
            BY <2>1 DEF ClearsTheWay, Exists
      <2> QED BY <1>1, <2>1, <2>2, <2>3 DEF Sound, DeletesBinned, Deletes
<1>3. CASE req' = [req EXCEPT ![w].pc = "lookup", ![w].n = @ + 1, ![w].victim = NULL]
      <2>1. req'[w].pc = "lookup" /\ req'[w].op = req[w].op /\ req'[w].parent = req[w].parent
            BY <1>3, RequestsAre DEF Request
      <2> QED BY <2>1, OnwardSound, SameEntriesFiled
<1> QED BY <1>2, <1>3, FinishSound DEF NameTaken, NextCandidate

LEMMA LookupNameSound ==
    ASSUME IInv, NEW w \in Workers, Sound(w), LookupName(w)
    PROVE  Sound(w)'
<1>0. UNCHANGED <<entries, sessions>> /\ req[w].pc = "lookup"
      BY DEF LookupName, tables
<1>1. CASE Goto(w, "apply")
      <2>1. req'[w].pc = "apply" /\ req'[w].op = req[w].op /\ req'[w].parent = req[w].parent
            BY <1>1, RequestsAre DEF Goto, Request
      <2> QED BY <1>0, <2>1, OnwardSound, SameEntriesFiled
<1>2. ASSUME NEW e \in EntryAt(req[w].parent, Target(w)), IsFile(e),
             req' = [req EXCEPT ![w].pc = "stale", ![w].victim = e]
      PROVE  Sound(w)'
      <2>1. /\ req'[w].pc = "stale" /\ req'[w].op = req[w].op
            /\ req'[w].parent = req[w].parent /\ req'[w].victim = e
            BY <1>2, RequestsAre DEF Request
      <2>2. NamesFolder(w)'
            BY <1>0, <2>1 DEF Sound, NamesFolder, Filed, IsFolder, Exists
      <2>3. ~Deletes(w)
            BY <1>0 DEF Sound, DeletesBinned
      <2>4. ClearsTheWay(w)'
            BY <1>0, <1>2, <2>1 DEF ClearsTheWay, EntryAt, IsFile, Exists
      <2> QED BY <1>0, <2>1, <2>2, <2>3, <2>4 DEF Sound, DeletesBinned, Deletes
<1>3. ASSUME NEW e \in EntryAt(req[w].parent, Target(w)), NameTaken(w, e)
      PROVE  Sound(w)'
      BY <1>0, <1>3, NameTakenSound DEF EntryAt
<1> QED BY <1>1, <1>2, <1>3 DEF LookupName

LEMMA CleanupStaleUploadEntrySound ==
    ASSUME IInv, NEW w \in Workers, Sound(w), CleanupStaleUploadEntry(w)
    PROVE  Sound(w)'
<1>a. PICK e : e = req[w].victim
      OBVIOUS
<1>0. UNCHANGED <<entries, sessions>> /\ req[w].pc = "stale" /\ ~Deletes(w)
      BY DEF CleanupStaleUploadEntry, tables, Sound, DeletesBinned
<1>1. /\ Exists(e) => entries[e].parent = req[w].parent /\ IsFile(e)
      BY <1>a, <1>0 DEF Sound, ClearsTheWay
<1>2. CASE NameTaken(w, e)
      BY <1>0, <1>1, <1>2, NameTakenSound
<1>3. CASE ~Completed(e) /\ Destroy(w, e, "stale")
      <2>1. /\ req'[w].pc = "select" /\ req'[w].op = req[w].op /\ req'[w].why = "stale"
            /\ req'[w].parent = req[w].parent /\ req'[w].victim = e
            BY <1>3, RequestsAre DEF Destroy, Request
      <2>2. NamesFolder(w)'
            BY <1>0, <2>1 DEF Sound, NamesFolder, Filed, IsFolder, Exists
      <2>3. ClearsTheWay(w)'
            BY <1>0, <1>1, <1>3, <2>1
               DEF ClearsTheWay, IsFile, Exists, Completed, HasSession
      <2> QED BY <1>0, <2>1, <2>2, <2>3 DEF Sound, DeletesBinned, Deletes
<1> QED BY <1>a, <1>2, <1>3 DEF CleanupStaleUploadEntry

(* The entry deleted stands in the request's folder, which is therefore    *)
(* not part of the tree: else the tree would loop.                         *)
LEMMA AfterDeleteSound ==
    ASSUME IInv, NEW w \in Workers, Sound(w), AfterDelete(w), req[w].pc \in {"select", "purge"},
           DOMAIN entries' \subseteq DOMAIN entries,
           \A c \in DOMAIN entries' : entries'[c] = entries[c],
           ~Deletes(w) => \A p : p = req[w].parent /\ Filed(p) => Filed(p)'
    PROVE  Sound(w)'
<1>1. ASSUME Deletes(w), NEW left, left \subseteq req[w].todo, NEW next \in left,
             req' = [req EXCEPT ![w].pc = "select", ![w].victim = next,
                                ![w].todo = left, ![w].doomed = {}]
      PROVE  Sound(w)'
      <2>1. /\ req'[w].pc = "select" /\ req'[w].op = req[w].op /\ req'[w].why = req[w].why
            /\ req'[w].victim = next /\ req'[w].todo = left
            BY <1>1, RequestsAre DEF Request
      <2>2. \A f \in left : f \in DOMAIN entries' => entries'[f].parent = Bin
            BY <1>1 DEF Sound, DeletesBinned, InRecycleBin, Exists
      <2>3. DeletesBinned(w)'
            BY <1>1, <2>1, <2>2 DEF Sound, DeletesBinned, InRecycleBin, Exists, Deletes
      <2> QED BY <1>1, <2>1, <2>3 DEF Sound, NamesFolder, ClearsTheWay, Deletes
<1>2. CASE /\ ~Deletes(w)
           /\ req' = [req EXCEPT ![w].pc = "apply", ![w].victim = NULL,
                                 ![w].why = NULL, ![w].doomed = {}]
      <2>1. req'[w].pc = "apply" /\ req'[w].op = req[w].op /\ req'[w].parent = req[w].parent
            BY <1>2, RequestsAre DEF Request
      <2>2. PICK p : p = req[w].parent
            OBVIOUS
      <2>3. req[w].op \in {"create", "moveFile", "moveFolder", "restore"} => Filed(p)'
            BY <1>2, <2>2 DEF Sound, NamesFolder
      <2>4. req[w].op # "none"
            BY DEF Sound
      <2> QED BY <1>2, <2>1, <2>2, <2>3, <2>4, ElsewhereSound DEF Deletes
<1>3. req[w].todo \ {req[w].victim} \subseteq req[w].todo
      OBVIOUS
<1> QED BY <1>1, <1>2, <1>3, FinishSound DEF AfterDelete, Deletes

LEMMA SelectTreeSound ==
    ASSUME IInv, NEW w \in Workers, Sound(w), SelectTree(w)
    PROVE  Sound(w)'
<1>0. UNCHANGED <<entries, sessions>> /\ req[w].pc = "select"
      BY DEF SelectTree, tables
<1>1. CASE AfterDelete(w)
      BY <1>0, <1>1, AfterDeleteSound, SameEntriesFiled
<1>2. ASSUME NEW D, req' = [req EXCEPT ![w].pc = "purge", ![w].doomed = D]
      PROVE  Sound(w)'
      <2>1. /\ req'[w].pc = "purge" /\ req'[w].op = req[w].op /\ req'[w].why = req[w].why
            /\ req'[w].parent = req[w].parent /\ req'[w].victim = req[w].victim
            /\ req'[w].todo = req[w].todo
            BY <1>2, RequestsAre DEF Request
      <2>2. NamesFolder(w)'
            BY <1>0, <2>1 DEF Sound, NamesFolder, Filed, IsFolder, Exists
      <2>3. DeletesBinned(w)'
            BY <1>0, <2>1 DEF Sound, DeletesBinned, Deletes, InRecycleBin, Exists
      <2>4. ClearsTheWay(w)'
            BY <1>0, <2>1
               DEF Sound, ClearsTheWay, Deletes, IsFile, Exists, Completed, HasSession
      <2> QED BY <1>0, <2>1, <2>2, <2>3, <2>4 DEF Sound
<1> QED BY <1>1, <1>2 DEF SelectTree

LEMMA PurgeTreeSound ==
    ASSUME IInv, NEW w \in Workers, Sound(w), PurgeTree(w)
    PROVE  Sound(w)'
<1>a. PICK v, S : v = req[w].victim /\ S = Subtree(v)
      OBVIOUS
<1>1. /\ DOMAIN entries' = DOMAIN entries \ S
      /\ \A c \in DOMAIN entries' : entries'[c] = entries[c]
      /\ req[w].pc = "purge" /\ ~Looping(v) /\ (AfterDelete(w) \/ Finish(w))
      BY <1>a DEF PurgeTree, DeleteEntryTree, Drop
<1>2. ASSUME ~Deletes(w), NEW p, p = req[w].parent, Filed(p)
      PROVE  Filed(p)'
      <2>1. v \in DOMAIN entries => entries[v].parent = p
            BY <1>a, <1>1, <1>2 DEF Sound, ClearsTheWay, Exists
      <2>2. p \notin S
            <3>1. SUFFICES ASSUME p \in S
                           PROVE  FALSE
                  OBVIOUS
            <3>2. v \in DOMAIN entries /\ p \in Below(v) \cup {v}
                  BY <1>a, <3>1 DEF Subtree, Exists
            <3>3. v \in Below(v)
                  BY <2>1, <3>2, BelowClosed DEF Closed
            <3> QED BY <1>1, <3>2, <3>3 DEF Looping, Exists
      <2> QED BY <1>1, <1>2, <2>2 DEF Filed, IsFolder, Exists
<1> QED BY <1>1, <1>2, AfterDeleteSound, FinishSound

(* The handlers of upload.go.                                              *)
LEMMA UploadReadsSound ==
    ASSUME IInv, NEW w \in Workers, Sound(w),
           CreateWithFolders(w) \/ AbortUpload(w) \/ GetUploadURL(w) \/ UrlReadSession(w) \/
           UrlEnsureParts(w) \/ CompleteFile(w) \/ CompleteReadEntry(w) \/
           CollectCompletedParts(w) \/ CombineParts(w)
    PROVE  Sound(w)'
<1>0. UNCHANGED entries
      BY UploadReadsAway
<1>1. ASSUME NEW pc, pc \notin {"idle", "stale", "select", "purge"}, Goto(w, pc),
             req[w].pc \notin {"idle", "folder", "parent", "select", "purge"}
      PROVE  Sound(w)'
      <2>1. req'[w].pc = pc /\ req'[w].op = req[w].op /\ req'[w].parent = req[w].parent
            BY <1>1, RequestsAre DEF Goto, Request
      <2> QED BY <1>0, <1>1, <2>1, OnwardSound, SameEntriesFiled
<1>2. CASE CreateWithFolders(w)
      <2>1. PICK p, b :
              /\ EnsureFolderExists(p)
              /\ req' = [req EXCEPT ![w].op = "create", ![w].pc = "lookup", ![w].parent = p,
                                    ![w].name = [base |-> b, tags |-> << >>]]
            BY <1>2 DEF CreateWithFolders
      <2>2. req'[w].op = "create" /\ req'[w].pc = "lookup" /\ req'[w].parent = p
            BY <2>1, RequestsAre DEF Request
      <2>3. Filed(p)'
            BY <1>0, <2>1 DEF EnsureFolderExists, Filed, IsFolder, Exists
      <2> QED BY <2>2, <2>3, ElsewhereSound
<1>3. CASE GetUploadURL(w)
      <2>1. PICK f : req' = [req EXCEPT ![w].op = "url", ![w].pc = "session", ![w].file = f]
            BY <1>3 DEF GetUploadURL
      <2>2. req'[w].op = "url" /\ req'[w].pc = "session"
            BY <2>1, RequestsAre DEF Request
      <2> QED BY <2>2, ElsewhereSound
<1>4. CASE UrlReadSession(w)
      <2>1. ASSUME NEW list, req' = [req EXCEPT ![w].pc = "rows", ![w].numbers = list]
            PROVE  Sound(w)'
            <3>1. /\ req'[w].pc = "rows" /\ req'[w].op = "url"
                  BY <1>4, <2>1, RequestsAre DEF UrlReadSession, At, Request
            <3> QED BY <3>1, ElsewhereSound
      <2> QED BY <1>4, <2>1, FinishSound DEF UrlReadSession
<1>5. CASE CompleteFile(w)
      <2>1. PICK u, numbers :
              req' = [req EXCEPT ![w].op = "complete", ![w].pc = "entry", ![w].file = u,
                                 ![w].numbers = numbers]
            BY <1>5 DEF CompleteFile
      <2>2. req'[w].op = "complete" /\ req'[w].pc = "entry"
            BY <2>1, RequestsAre DEF Request
      <2> QED BY <2>2, ElsewhereSound
<1>6. CASE CompleteReadEntry(w)
      <2>1. ASSUME NEW h, NEW pc \in {"publish", "list"},
                   req' = [req EXCEPT ![w].pc = pc, ![w].hash = h]
            PROVE  Sound(w)'
            <3>1. req'[w].pc \in {"publish", "list"} /\ req'[w].op = "complete"
                  BY <1>6, <2>1, RequestsAre DEF CompleteReadEntry, At, Request
            <3> QED BY <3>1, ElsewhereSound
      <2>2. PICK f : \/ Finish(w)
                     \/ req' = [req EXCEPT ![w].pc = IF req[w].numbers = {} THEN "publish"
                                                                            ELSE "list",
                                           ![w].hash = entries[f].hash]
            BY <1>6 DEF CompleteReadEntry
      <2>3. CASE req[w].numbers = {}
            BY <2>1, <2>2, <2>3, FinishSound
      <2>4. CASE req[w].numbers # {}
            BY <2>1, <2>2, <2>4, FinishSound
      <2> QED BY <2>3, <2>4
<1>7. CASE AbortUpload(w) \/ UrlEnsureParts(w) \/ CollectCompletedParts(w) \/ CombineParts(w)
      BY <1>1, <1>7, FinishSound
         DEF AbortUpload, UrlEnsureParts, CollectCompletedParts, CombineParts, At
<1> QED BY <1>2, <1>3, <1>4, <1>5, <1>6, <1>7

LEMMA PrepareUploadSound ==
    ASSUME IInv, NEW w \in Workers, Sound(w), PrepareUpload(w)
    PROVE  Sound(w)'
<1>0. UNCHANGED entries /\ Typed /\ req[w].pc = "apply" /\ req[w].op = "create"
      BY DEF PrepareUpload, tables, IInv, At
<1>1. PICK p : p = req[w].parent
      OBVIOUS
<1>2. \/ Finish(w)
      \/ req'[w].pc = "persist" /\ req'[w].op = "create" /\ req'[w].parent = p
      <2>1. PICK f, numbers, chunked :
              \/ Finish(w)
              \/ req' = [req EXCEPT ![w].pc = "persist", ![w].file = f]
              \/ req' = [req EXCEPT ![w].pc = "persist", ![w].file = f,
                                    ![w].numbers = numbers, ![w].chunked = chunked]
            BY DEF PrepareUpload
      <2>2. CASE req' = [req EXCEPT ![w].pc = "persist", ![w].file = f]
            BY <1>0, <1>1, <2>2, RequestsAre DEF Request
      <2>3. CASE req' = [req EXCEPT ![w].pc = "persist", ![w].file = f,
                                    ![w].numbers = numbers, ![w].chunked = chunked]
            BY <1>0, <1>1, <2>3, RequestsAre DEF Request
      <2> QED BY <2>1, <2>2, <2>3
<1>3. Filed(p)'
      BY <1>0, <1>1, SameEntriesFiled DEF Sound, NamesFolder
<1> QED BY <1>2, <1>3, FinishSound, ElsewhereSound

LEMMA PersistUploadSound ==
    ASSUME IInv, NEW w \in Workers, Sound(w), PersistUpload(w)
    PROVE  Sound(w)'
<1>1. CASE Goto(w, "abort")
      <2>1. /\ req[w].pc = "persist"
            /\ req'[w].pc = "abort" /\ req'[w].op = req[w].op /\ req'[w].parent = req[w].parent
            BY <1>1, RequestsAre DEF Goto, Request, PersistUpload, At
      <2>2. \A p : Filed(p) => Filed(p)'
            BY PersistUploadTables
               DEF SameShape, SameFiles, NewEntry, Filed, IsFolder, Exists
      <2> QED BY <2>1, <2>2, OnwardSound
<1> QED BY <1>1, FinishSound DEF PersistUpload, GiveUpUpload

LEMMA CallFailsSound ==
    ASSUME IInv, NEW w \in Workers, Sound(w), CallFails(w)
    PROVE  Sound(w)'
<1>1. CASE req[w].pc = "persist" /\ Goto(w, "abort")
      <2>1. req'[w].pc = "abort" /\ req'[w].op = req[w].op /\ req'[w].parent = req[w].parent
            BY <1>1, RequestsAre DEF Goto, Request
      <2>2. UNCHANGED entries
            BY DEF CallFails, tables
      <2> QED BY <1>1, <2>1, <2>2, OnwardSound, SameEntriesFiled
<1> QED BY <1>1, FinishSound DEF CallFails

LEMMA IdleRequest ==
    ASSUME NEW w \in Workers, Sound(w), req[w].pc = "idle"
    PROVE  req[w].why = NULL /\ req[w].todo = {}
<1>1. req[w] = Idle
      BY DEF Sound
<1>2. Idle.why = NULL /\ Idle.todo = {}
      BY DEF Idle
<1> QED BY <1>1, <1>2

(* The handlers of manage.go and recycle.go.                               *)
LEMMA ManageReadsSound ==
    ASSUME IInv, NEW w \in Workers, Sound(w),
           DeleteFile(w) \/ Update(w) \/ MoveFile(w) \/ MoveFileReadEntry(w) \/ MoveFolder(w) \/
           MoveFolderReadParent(w) \/ MoveFolderCheck(w)
    PROVE  Sound(w)'
<1>0. UNCHANGED entries
      BY ManageReadsAway
<1>1. CASE DeleteFile(w)
      <2>1. PICK f : /\ InRecycleBin(f)
                     /\ req' = [req EXCEPT ![w].op = "delete", ![w].pc = "select",
                                           ![w].file = f, ![w].victim = f]
            BY <1>1 DEF DeleteFile
      <2>2. req[w].why = NULL /\ req[w].todo = {}
            BY <1>1, IdleRequest DEF DeleteFile
      <2>3. /\ req'[w].op = "delete" /\ req'[w].pc = "select" /\ req'[w].victim = f
            /\ req'[w].why = NULL /\ req'[w].todo = {}
            BY <2>1, <2>2, RequestsAre DEF Request
      <2>4. DeletesBinned(w)'
            BY <1>0, <2>1, <2>3 DEF DeletesBinned, Deletes, InRecycleBin, Exists
      <2> QED BY <2>3, <2>4 DEF Sound, NamesFolder, ClearsTheWay, Deletes
<1>2. CASE Update(w)
      <2>1. PICK f, b :
              req' = [req EXCEPT ![w].op = "rename", ![w].pc = "lookup", ![w].file = f,
                              ![w].parent = entries[f].parent,
                              ![w].name = [base |-> b, tags |-> << >>],
                              ![w].was = entries[f].name]
            BY <1>2 DEF Update
      <2>2. req'[w].op = "rename" /\ req'[w].pc = "lookup"
            BY <2>1, RequestsAre DEF Request
      <2> QED BY <2>2, ElsewhereSound
<1>3. CASE MoveFile(w)
      <2>1. PICK f, p : /\ EnsureFolderExists(p)
                        /\ req' = [req EXCEPT ![w].op = "moveFile", ![w].pc = "entry",
                                              ![w].file = f, ![w].parent = p]
            BY <1>3 DEF MoveFile
      <2>2. req'[w].op = "moveFile" /\ req'[w].pc = "entry" /\ req'[w].parent = p
            BY <2>1, RequestsAre DEF Request
      <2>3. Filed(p)'
            BY <1>0, <2>1 DEF EnsureFolderExists, Filed, IsFolder, Exists
      <2> QED BY <2>2, <2>3, ElsewhereSound
<1>4. CASE MoveFolder(w)
      <2>1. PICK f, p : req' = [req EXCEPT ![w].op = "moveFolder", ![w].pc = "parent",
                                           ![w].file = f, ![w].parent = p]
            BY <1>4 DEF MoveFolder
      <2>2. req'[w].op = "moveFolder" /\ req'[w].pc = "parent"
            BY <2>1, RequestsAre DEF Request
      <2> QED BY <2>2, ElsewhereSound
<1>5. CASE MoveFolderReadParent(w)
      <2>1. PICK p : p = req[w].parent
            OBVIOUS
      <2>2. CASE EnsureFolderExists(p) /\ Goto(w, "check")
            <3>1. req'[w].op = "moveFolder" /\ req'[w].pc = "check" /\ req'[w].parent = p
                  BY <1>5, <2>1, <2>2, RequestsAre DEF MoveFolderReadParent, At, Goto, Request
            <3>2. Filed(p)'
                  BY <1>0, <2>2 DEF EnsureFolderExists, Filed, IsFolder, Exists
            <3> QED BY <3>1, <3>2, ElsewhereSound
      <2> QED BY <1>5, <2>1, <2>2, FinishSound DEF MoveFolderReadParent
<1>6. CASE MoveFileReadEntry(w) \/ MoveFolderCheck(w)
      <2>1. CASE Goto(w, "apply")
            <3>1. /\ req[w].pc \in {"entry", "check"}
                  /\ req'[w].pc = "apply" /\ req'[w].op = req[w].op
                  /\ req'[w].parent = req[w].parent
                  BY <1>6, <2>1, RequestsAre
                     DEF MoveFileReadEntry, MoveFolderCheck, At, Goto, Request
            <3> QED BY <1>0, <3>1, OnwardSound, SameEntriesFiled
      <2> QED BY <1>6, <2>1, FinishSound DEF MoveFileReadEntry, MoveFolderCheck
<1> QED BY <1>1, <1>2, <1>3, <1>4, <1>5, <1>6

LEMMA RecycleReadsSound ==
    ASSUME IInv, NEW w \in Workers, Sound(w),
           RecycleBinTrash(w) \/ RecycleBinRestore(w) \/ RestoreReadParent(w) \/ RecycleBinClear(w)
    PROVE  Sound(w)'
<1>0. UNCHANGED entries
      BY RecycleReadsAway
<1>1. CASE RecycleBinTrash(w)
      <2>1. PICK f, name, from :
              req' = [req EXCEPT ![w].op = "trash", ![w].pc = "lookup", ![w].file = f,
                              ![w].parent = Bin, ![w].name = name, ![w].from = from]
            BY <1>1 DEF RecycleBinTrash
      <2>2. req'[w].op = "trash" /\ req'[w].pc = "lookup"
            BY <2>1, RequestsAre DEF Request
      <2> QED BY <2>2, ElsewhereSound
<1>2. CASE RecycleBinRestore(w)
      <2>1. PICK f, p, name :
              req' = [req EXCEPT ![w].op = "restore", ![w].file = f,
                                 ![w].pc = IF p = Root THEN "lookup" ELSE "folder",
                                 ![w].parent = p, ![w].name = name]
            BY <1>2 DEF RecycleBinRestore
      <2>2. PICK pc : pc = IF p = Root THEN "lookup" ELSE "folder"
            OBVIOUS
      <2>3. req'[w].op = "restore" /\ req'[w].pc = pc /\ req'[w].parent = p
            BY <2>1, <2>2, RequestsAre DEF Request
      <2> QED BY <2>2, <2>3, ElsewhereSound DEF Filed
<1>3. CASE RestoreReadParent(w)
      <2>1. PICK p : /\ p = Root \/ IsFolder(p)
                     /\ req' = [req EXCEPT ![w].pc = "lookup", ![w].parent = p]
            <3>1. PICK q : q = IF IsFolder(req[w].parent) /\ ~InRecycleBin(req[w].parent)
                               THEN req[w].parent ELSE Root
                  OBVIOUS
            <3>2. req' = [req EXCEPT ![w].pc = "lookup", ![w].parent = q]
                  BY <1>3, <3>1 DEF RestoreReadParent
            <3>3. q = Root \/ IsFolder(q)
                  BY <3>1
            <3> QED BY <3>2, <3>3
      <2>2. req'[w].op = "restore" /\ req'[w].pc = "lookup" /\ req'[w].parent = p
            BY <1>3, <2>1, RequestsAre DEF RestoreReadParent, At, Request
      <2>3. Filed(p)'
            BY <1>0, <2>1 DEF Filed, IsFolder, Exists
      <2> QED BY <2>2, <2>3, ElsewhereSound
<1>4. CASE RecycleBinClear(w)
      <2>1. PICK binned, first :
              /\ \A f \in binned : InRecycleBin(f)
              /\ first \in binned
              /\ req' = [req EXCEPT ![w].op = "clear", ![w].pc = "select",
                                    ![w].todo = binned, ![w].victim = first]
            BY <1>4 DEF RecycleBinClear
      <2>2. req[w].why = NULL
            BY <1>4, IdleRequest DEF RecycleBinClear
      <2>3. /\ req'[w].op = "clear" /\ req'[w].pc = "select" /\ req'[w].victim = first
            /\ req'[w].why = NULL /\ req'[w].todo = binned
            BY <2>1, <2>2, RequestsAre DEF Request
      <2>4. DeletesBinned(w)'
            BY <1>0, <2>1, <2>3 DEF DeletesBinned, Deletes, InRecycleBin, Exists
      <2> QED BY <2>3, <2>4 DEF Sound, NamesFolder, ClearsTheWay, Deletes
<1> QED BY <1>1, <1>2, <1>3, <1>4

LEMMA StepSound ==
    ASSUME IInv, OneWorker, \A w \in Workers : Sound(w), [Next]_vars
    PROVE  \A w \in Workers : Sound(w)'
<1> DEFINE Goal == \A w \in Workers : Sound(w)'
<1>1. ASSUME UNCHANGED req, SameShape
      PROVE  Goal
      BY <1>1, ShapeSound
<1>2. ASSUME NEW w \in Workers, Sound(w)'
      PROVE  Goal
      BY <1>2 DEF OneWorker
<1>3. CASE UNCHANGED vars
      BY <1>1, <1>3, UnchangedShape DEF vars, tables
<1>4. ASSUME NEW w \in Workers, Shared(w)
      PROVE  Goal
      BY <1>2, <1>4, LookupNameSound, CleanupStaleUploadEntrySound, SelectTreeSound,
         PurgeTreeSound DEF Shared
<1>5. ASSUME NEW w \in Workers, UploadNext(w)
      PROVE  Goal
      <2>1. CASE CreateFolderEntry(w) \/ UrlRaisePartCount(w) \/ PublishFile(w)
            BY <1>2, <2>1, FinishSound DEF CreateFolderEntry, UrlRaisePartCount, PublishFile
      <2> QED BY <1>2, <1>5, <2>1, UploadReadsSound, PrepareUploadSound, PersistUploadSound
              DEF UploadNext
<1>6. ASSUME NEW w \in Workers, ManageNext(w)
      PROVE  Goal
      <2>1. CASE UpdateApply(w) \/ MoveApply(w)
            BY <1>2, <2>1, FinishSound DEF UpdateApply, MoveApply
      <2> QED BY <1>2, <1>6, <2>1, ManageReadsSound DEF ManageNext
<1>7. ASSUME NEW w \in Workers, RecycleNext(w)
      PROVE  Goal
      <2>1. CASE TrashApply(w) \/ RestoreApply(w)
            BY <1>2, <2>1, FinishSound DEF TrashApply, RestoreApply
      <2> QED BY <1>2, <1>7, <2>1, RecycleReadsSound DEF RecycleNext
<1>8. ASSUME NEW w \in Workers, CallFails(w)
      PROVE  Goal
      BY <1>2, <1>8, CallFailsSound
<1>9. ASSUME NEW f \in FileIDs, BackgroundDelete(f)
      PROVE  Goal
      BY <1>1, <1>9, UnchangedShape DEF BackgroundDelete, tables
<1>10. CASE Client
      BY <1>1, <1>10, UnchangedShape DEF Client, tables
<1>11. CASE Crash
      BY <1>11, IdleSound DEF Crash
<1>12. ASSUME NEW p \in postings, PostComplete(p)
      PROVE  Goal
      BY <1>1, <1>12, PostCompleteShape
<1> HIDE DEF Goal
<1>13. Goal
      <2>1. UNCHANGED vars \/ Client \/ Crash => Goal
            BY <1>3, <1>10, <1>11 DEF Goal
      <2> QED BY <1>4, <1>5, <1>6, <1>7, <1>8, <1>9, <1>12, <2>1 DEF Next
<1> QED BY <1>13 DEF Goal

-----------------------------------------------------------------------------
(***************************************************************************)
(* The tables when no two requests run at the same time.                   *)
(***************************************************************************)

(* What a tree is selected from is what it is when it is deleted.          *)
Exact(w) ==
    req[w].pc = "purge" => req[w].doomed = {e \in Subtree(req[w].victim) : IsFile(e)}

SingleInv ==
    /\ IInv
    /\ \A w \in Workers : Sound(w) /\ Exact(w)
    /\ FileHasSession
    /\ NoOrphan

LEMMA ShapeKeepsBelow ==
    ASSUME SameShape, NEW p
    PROVE  Below(p)' = Below(p)
<1>1. /\ DOMAIN entries' = DOMAIN entries
      /\ \A c \in DOMAIN entries : entries'[c].parent = entries[c].parent
      BY DEF SameShape, SameFiles
<1>2. \A S : Closed(S, p)' <=> Closed(S, p)
      BY <1>1 DEF Closed
<1>3. Below(p)' = {e \in DOMAIN entries' : \A S \in SUBSET DOMAIN entries' :
                                              Closed(S, p)' => e \in S}
      BY DEF Below, Closed
<1> QED BY <1>1, <1>2, <1>3, BelowIs

LEMMA ShapeKeepsTrees ==
    ASSUME SameShape, NEW p
    PROVE  Subtree(p)' = Subtree(p)
BY ShapeKeepsBelow DEF Subtree, Exists, SameShape, SameFiles

LEMMA ShapeExact ==
    ASSUME SameShape, NEW w \in Workers, Exact(w), req'[w] = req[w]
    PROVE  Exact(w)'
<1>1. PICK p : p = req[w].victim
      OBVIOUS
<1>2. Subtree(p)' = Subtree(p) /\ \A e : IsFile(e)' <=> IsFile(e)
      BY ShapeKeepsTrees DEF SameShape, SameFiles, IsFile, Exists
<1>3. Subtree(req[w].victim)' = Subtree(p)'
      BY <1>1
<1> QED BY <1>1, <1>2, <1>3 DEF Exact

LEMMA RequestStepExact ==
    ASSUME IInv, NEW w \in Workers, Advances(w)
    PROVE  Exact(w)'
<1> SUFFICES ASSUME req'[w].pc = "purge"
             PROVE  Exact(w)'
    BY DEF Exact
<1>1. PICK p : p = req[w].victim
      OBVIOUS
<1>2. /\ req'[w].doomed = {e \in Subtree(p) : IsFile(e)} /\ req'[w].victim = p
      /\ UNCHANGED entries
      BY <1>1, SelectTreeIs
<1>3. Subtree(p)' = Subtree(p) /\ \A e : IsFile(e)' <=> IsFile(e)
      BY <1>2 DEF Subtree, Below, Exists, IsFile
<1>4. Subtree(req[w].victim)' = Subtree(p)'
      BY <1>2
<1> QED BY <1>2, <1>3, <1>4 DEF Exact

(* A tree that is deleted takes its sessions along, and all that lies in   *)
(* its folders.                                                            *)
LEMMA PurgeTreeSingle ==
    ASSUME SingleInv, NEW w \in Workers, PurgeTree(w)
    PROVE  FileHasSession' /\ NoOrphan'
<1>a. PICK v, S, D : v = req[w].victim /\ S = Subtree(v) /\ D = req[w].doomed
      OBVIOUS
<1>1. /\ DOMAIN entries' = DOMAIN entries \ S
      /\ \A c \in DOMAIN entries' : entries'[c] = entries[c]
      /\ DOMAIN sessions' = DOMAIN sessions \ D
      BY <1>a DEF PurgeTree, DeleteEntryTree, Drop
<1>2. D = {e \in S : IsFile(e)}
      BY <1>a DEF SingleInv, Exact, PurgeTree
<1>3. FileHasSession'
      BY <1>1, <1>2 DEF SingleInv, FileHasSession, IsFile, Exists, HasSession
<1>4. \A c \in DOMAIN entries : entries[c].parent \in S => c \in S
      BY <1>a, BelowClosed DEF Subtree, Closed
<1>5. NoOrphan'
      BY <1>1, <1>4 DEF SingleInv, NoOrphan, IsFolder, Exists
<1> QED BY <1>3, <1>5

LEMMA SameFilesSingle ==
    ASSUME FileHasSession, NoOrphan, SameFiles,
           \A c \in DOMAIN entries :
                \/ entries'[c].parent = entries[c].parent
                \/ \E p : p = entries'[c].parent /\ Filed(p)
    PROVE  FileHasSession' /\ NoOrphan'
<1>1. /\ \A f : IsFile(f)' <=> IsFile(f)
      /\ \A f : IsFolder(f)' <=> IsFolder(f)
      /\ \A f : HasSession(f)' <=> HasSession(f)
      BY DEF SameFiles, IsFile, IsFolder, Exists, HasSession
<1>2. FileHasSession'
      BY <1>1 DEF FileHasSession
<1>3. ASSUME NEW c \in DOMAIN entries'
      PROVE  \E p : p = entries'[c].parent /\ Filed(p)
      BY <1>3 DEF NoOrphan, Filed, SameFiles
<1>4. NoOrphan'
      BY <1>1, <1>3 DEF NoOrphan, Filed
<1> QED BY <1>2, <1>4

LEMMA NewEntrySingle ==
    ASSUME FileHasSession, NoOrphan, NEW f, NEW p, NewEntry(f, p), Filed(p)
    PROVE  FileHasSession' /\ NoOrphan'
<1>1. /\ \A x \in FileIDs \ {f} : IsFile(x)' <=> IsFile(x)
      /\ \A x \in FileIDs \ {f} : HasSession(x)' <=> HasSession(x)
      /\ IsFile(f)' <=> HasSession(f)'
      BY DEF NewEntry, IsFile, Exists, HasSession
<1>2. FileHasSession'
      BY <1>1 DEF FileHasSession
<1>3. \A x : Filed(x) => Filed(x)'
      BY DEF NewEntry, Filed, IsFolder, Exists
<1>4. ASSUME NEW c \in DOMAIN entries'
      PROVE  \E q : q = entries'[c].parent /\ Filed(q)
      BY <1>4 DEF NoOrphan, Filed, NewEntry
<1>5. NoOrphan'
      BY <1>3, <1>4 DEF NoOrphan, Filed
<1> QED BY <1>2, <1>5

LEMMA WritesKeepSessions ==
    ASSUME FileHasSession, NoOrphan, NEW w \in Workers, RequestTables(w), ~PurgeTree(w),
           NamesFolder(w)
    PROVE  FileHasSession' /\ NoOrphan'
<1>1. CASE SameFiles /\ UNCHANGED entries
      BY <1>1, SameFilesSingle
<1>2. CASE SameShape
      BY <1>2, SameFilesSingle DEF SameShape
<1>3. ASSUME NEW f, NewEntry(f, req[w].parent), req[w].op = "create",
             req[w].pc \in {"apply", "persist"}
      PROVE  FileHasSession' /\ NoOrphan'
      <2>1. Filed(req[w].parent)
            BY <1>3 DEF NamesFolder
      <2>2. PICK p : p = req[w].parent
            OBVIOUS
      <2> QED BY <1>3, <2>1, <2>2, NewEntrySingle
<1>4. ASSUME NEW f, NEW p, Refiled(f, p), Filed(p)
      PROVE  FileHasSession' /\ NoOrphan'
      <2>1. \A c \in DOMAIN entries :
                \/ entries'[c].parent = entries[c].parent
                \/ \E q : q = entries'[c].parent /\ Filed(q)
            BY <1>4 DEF Refiled
      <2> QED BY <1>4, <2>1, SameFilesSingle DEF Refiled
<1>5. ASSUME NEW p, p = req[w].parent, req[w].pc = "apply",
             req[w].op \in {"moveFile", "moveFolder", "restore"}
      PROVE  Filed(p)
      BY <1>5 DEF NamesFolder
<1> QED BY <1>1, <1>2, <1>3, <1>4, <1>5 DEF RequestTables, Filed

LEMMA RequestTablesSingle ==
    ASSUME SingleInv, NEW w \in Workers, RequestTables(w)
    PROVE  FileHasSession' /\ NoOrphan'
BY PurgeTreeSingle, WritesKeepSessions DEF SingleInv, Sound

LEMMA StepSingle ==
    ASSUME OneWorker, SingleInv, [Next]_vars
    PROVE  SingleInv'
<1>0. IInv /\ IInv' /\ \A w \in Workers : Sound(w)'
      BY StepSafe, StepSound DEF SingleInv
<1>1. ASSUME NEW w \in Workers, Advances(w), RequestTables(w)
      PROVE  SingleInv'
      <2>1. \A v \in Workers : Exact(v)'
            BY <1>0, <1>1, RequestStepExact DEF OneWorker
      <2> QED BY <1>0, <1>1, <2>1, RequestTablesSingle DEF SingleInv
<1>2. CASE SameShape
      <2>1. FileHasSession' /\ NoOrphan'
            BY <1>2, SameFilesSingle DEF SameShape, SingleInv
      <2>2. ASSUME NEW w \in Workers, req'[w] \in {req[w], Idle}
            PROVE  Exact(w)'
            BY <1>2, <2>2, ShapeExact DEF SingleInv, Exact, Idle
      <2>3. CASE UNCHANGED req
            BY <1>0, <2>1, <2>2, <2>3 DEF SingleInv
      <2>4. CASE \A w \in Workers : req'[w] = Idle
            BY <1>0, <2>1, <2>2, <2>4 DEF SingleInv
      <2>5. ASSUME NEW w \in Workers, Advances(w)
            PROVE  SingleInv'
            <3>1. \A v \in Workers : Exact(v)'
                  BY <1>0, <2>5, RequestStepExact DEF OneWorker
            <3> QED BY <1>0, <2>1, <3>1 DEF SingleInv
      <2> QED BY <1>0, <2>3, <2>4, <2>5, StepTables
<1> QED BY <1>0, <1>1, <1>2, StepTables

LEMMA InitSingle ==
    ASSUME Init
    PROVE  SingleInv
<1>1. /\ entries = Seed /\ DOMAIN sessions = {}
      /\ \A w \in Workers : req[w] = Idle
      BY DEF Init, ServiceInit, RepositoryInit, Empty
<1>2. \A f \in DOMAIN entries : IsFolder(f) /\ entries[f].parent \in {Root, Bin} \cup DOMAIN entries
      BY <1>1, RepositoryAssumption DEF IsFolder, Exists
<1>3. FileHasSession
      <2>1. \A f \in FileIDs : ~IsFile(f)
            BY <1>2 DEF IsFile, IsFolder, Exists
      <2> QED BY <1>1, <2>1 DEF FileHasSession, HasSession
<1>4. NoOrphan
      BY <1>2 DEF NoOrphan
<1>5. \A w \in Workers : Sound(w) /\ Exact(w)
      <2>1. /\ Idle.pc = "idle" /\ Idle.op = "none"
            BY DEF Idle
      <2> QED BY <1>1, <2>1
              DEF Sound, Exact, NamesFolder, DeletesBinned, Deletes, ClearsTheWay
<1> QED BY <1>3, <1>4, <1>5, InitSafe DEF SingleInv

LEMMA SingleHolds ==
    ASSUME OneWorker
    PROVE  Spec => []SingleInv
BY InitSingle, StepSingle, PTL DEF Spec

(* Entries are lost to DeleteEntryTree only.                               *)
LEMMA LostIsPurged ==
    ASSUME IInv, [Next]_vars, NEW f \in DOMAIN entries, f \notin DOMAIN entries'
    PROVE  \E w \in Workers : PurgeTree(w) /\ f \in Subtree(req[w].victim)
<1>1. ASSUME SameFiles
      PROVE  FALSE
      BY <1>1 DEF SameFiles
<1>2. PICK w \in Workers : RequestTables(w)
      BY <1>1, StepTables DEF SameShape
<1>3. PurgeTree(w)
      BY <1>1, <1>2 DEF RequestTables, SameShape, NewEntry, Refiled
<1> QED BY <1>3 DEF PurgeTree, DeleteEntryTree, Drop

(* A stale upload has nothing below it.                                    *)
LEMMA FileIsLeaf ==
    ASSUME IInv, NoOrphan, NEW v, IsFile(v)
    PROVE  Subtree(v) = {v}
<1>1. v \in FileIDs
      BY TypedParts DEF IInv, RepositoryTypeOK, IsFile, Exists
<1>2. v \notin {Root, Bin} /\ ~IsFolder(v)
      BY <1>1, RepositoryAssumption DEF IsFile, IsFolder
<1>3. Closed({}, v)
      BY <1>2 DEF NoOrphan, Closed
<1>4. Below(v) = {}
      BY <1>3, BelowIs
<1> QED BY <1>4 DEF Subtree, IsFile

LEMMA KeepsCompleted ==
    ASSUME SingleInv, [Next]_vars, NEW f \in FileIDs, IsFile(f), Completed(f),
           f \notin DOMAIN entries'
    PROVE  \E w \in Workers :
                \/ Purging(w, {"delete", "clear"}, {NULL})
                \/ Purging(w, Operations, {"overwrite"})
<1>1. PICK w \in Workers : PurgeTree(w) /\ f \in Subtree(req[w].victim)
      BY LostIsPurged DEF IsFile, Exists, SingleInv
<1>2. req[w].pc = "purge" /\ Sound(w)
      BY <1>1 DEF PurgeTree, SingleInv
<1>3. CASE Deletes(w)
      BY <1>2, <1>3 DEF Sound, DeletesBinned, Deletes, Purging
<1>4. CASE ~Deletes(w)
      <2>1. ~(req[w].why = "stale" /\ ~Completed(req[w].victim))
            <3>1. Exists(req[w].victim)
                  BY <1>1 DEF Subtree
            <3> QED BY <1>1, <1>2, <1>4, <3>1, FileIsLeaf DEF Sound, ClearsTheWay, SingleInv
      <2>2. req[w].why = "overwrite"
            BY <1>2, <1>4, <2>1 DEF Sound, ClearsTheWay
      <2>3. req[w].op \in Operations
            BY <1>2, RequestsAre DEF SingleInv, Sound, Request
      <2> QED BY <1>2, <2>2, <2>3 DEF Purging
<1> QED BY <1>3, <1>4

LEMMA DestroysBinned ==
    ASSUME OneWorker, SingleInv, [Next]_vars, NEW w \in Workers, NEW f \in DOMAIN entries,
           Purging(w, {"delete", "clear"}, {NULL}), f \notin DOMAIN entries'
    PROVE  f \in Below(Bin)
<1>1. f \in Subtree(req[w].victim)
      BY LostIsPurged DEF OneWorker, SingleInv
<1>2. PICK v : v = req[w].victim
      OBVIOUS
<1>3. v \in DOMAIN entries /\ entries[v].parent = Bin
      BY <1>1, <1>2 DEF SingleInv, Sound, DeletesBinned, Deletes, Purging, Subtree, Exists,
                        InRecycleBin
<1>4. v \in Below(Bin)
      BY <1>3, BelowClosed DEF Closed
<1> QED BY <1>1, <1>2, <1>4, BelowTransitive DEF Subtree

LEMMA SchedulesDeletion ==
    ASSUME ~Faults, SingleInv, [Next]_vars,
           NEW f \in FileIDs, IsFile(f), f \notin DOMAIN entries'
    PROVE  f \in deletions'
<1>1. PICK w \in Workers : PurgeTree(w) /\ f \in Subtree(req[w].victim)
      BY LostIsPurged DEF IsFile, Exists, SingleInv
<1>2. f \in req[w].doomed
      BY <1>1 DEF SingleInv, Exact, PurgeTree
<1> QED BY <1>1, <1>2 DEF PurgeTree

-----------------------------------------------------------------------------
(* With one request at a time, beside every goroutine, failing call and    *)
(* crash: the row of a file and its upload session come and go together.   *)
THEOREM FilesHaveSessions ==
    ASSUME OneWorker
    PROVE  Spec => []FileHasSession
<1>1. SingleInv => FileHasSession
      BY DEF SingleInv
<1> QED BY <1>1, SingleHolds, PTL

(* With one request at a time, no operation leaves an entry in a folder    *)
(* that is not there: not the name resolution that deletes what is in its  *)
(* way before it writes, nor a restore to a folder that is gone.           *)
THEOREM NoEntryIsOrphaned ==
    ASSUME OneWorker
    PROVE  Spec => []NoOrphan
<1>1. SingleInv => NoOrphan
      BY DEF SingleInv
<1> QED BY <1>1, SingleHolds, PTL

(* With one request at a time, the cleanup of stale uploads, which deletes *)
(* a tree, takes no completed file: only a client's wish does.             *)
THEOREM CompletedFilesAreKept ==
    ASSUME OneWorker
    PROVE  Spec => CompletedFileIsKept
<1>1. SingleInv /\ [Next]_vars =>
        (\A f \in FileIDs :
            IsFile(f) /\ Completed(f) /\ f \notin DOMAIN entries' =>
                \E w \in Workers :
                    \/ Purging(w, {"delete", "clear"}, {NULL})
                    \/ Purging(w, Operations, {"overwrite"}))
      BY KeepsCompleted
<1> QED BY <1>1, SingleHolds, PTL DEF Spec, CompletedFileIsKept

(* With one request at a time, DeleteFile and RecycleBinClear, which goes  *)
(* on for as long as the bin it listed, destroy nothing outside the bin.   *)
THEOREM OnlyTheBinIsEmptied ==
    ASSUME OneWorker
    PROVE  Spec => OnlyBinnedIsDestroyed
<1>1. SingleInv /\ [Next]_vars =>
        (\A w \in Workers, f \in DOMAIN entries :
            Purging(w, {"delete", "clear"}, {NULL}) /\ req'[w] # req[w] /\ f \notin DOMAIN entries'
                => f \in Below(Bin))
      BY DestroysBinned
<1> QED BY <1>1, SingleHolds, PTL DEF Spec, OnlyBinnedIsDestroyed

(* With one request at a time, and as long as no call fails, whatever tree *)
(* goes, the object of each of its files is handed to                      *)
(* scheduleObjectDeletion.  A commit of DeleteEntryTree that took effect   *)
(* and reports an error keeps the objects in the bucket for good.          *)
THEOREM DeletionsAreScheduled ==
    ASSUME OneWorker, ~Faults
    PROVE  Spec => DeletionIsScheduled
<1>1. SingleInv /\ [Next]_vars =>
        (\A f \in FileIDs : IsFile(f) /\ f \notin DOMAIN entries' => f \in deletions')
      BY SchedulesDeletion
<1> QED BY <1>1, SingleHolds, PTL DEF Spec, DeletionIsScheduled

-----------------------------------------------------------------------------
(***************************************************************************)
(* Loops of folders.                                                       *)
(***************************************************************************)
LEMMA NotBelow ==
    ASSUME NEW x, NEW S \in SUBSET DOMAIN entries', x \notin S,
           \A c \in DOMAIN entries' : entries'[c].parent \in S \cup {x} => c \in S
    PROVE  ~Looping(x)'
BY DEF Looping, Below

LEMMA SameParentsAcyclic ==
    ASSUME Acyclic, DOMAIN entries' \subseteq DOMAIN entries,
           \A c \in DOMAIN entries' : entries'[c].parent = entries[c].parent
    PROVE  Acyclic'
<1>1. ASSUME NEW x \in DOMAIN entries'
      PROVE  ~Looping(x)'
      <2>1. x \notin Below(x)
            BY <1>1 DEF Acyclic, Looping, Exists
      <2>2. PICK S : S = Below(x) \cap DOMAIN entries'
            OBVIOUS
      <2>3. \A c \in DOMAIN entries' : entries'[c].parent \in S \cup {x} => c \in S
            BY <2>2, BelowClosed DEF Closed
      <2> QED BY <2>1, <2>2, <2>3, NotBelow
<1> QED BY <1>1 DEF Acyclic

(* A new entry has nothing below it.                                       *)
LEMMA NewEntryAcyclic ==
    ASSUME SingleInv, Acyclic, NEW f, NEW p, NewEntry(f, p), Filed(p)
    PROVE  Acyclic'
<1>1. /\ DOMAIN entries' = DOMAIN entries \cup {f} /\ f \notin DOMAIN entries
      /\ \A c \in DOMAIN entries : entries'[c] = entries[c]
      /\ entries'[f].parent = p
      BY DEF NewEntry
<1>2. f \notin {Root, Bin}
      BY RepositoryAssumption DEF NewEntry
<1>3. p # f /\ \A c \in DOMAIN entries : entries[c].parent # f
      BY <1>1, <1>2 DEF SingleInv, NoOrphan, Filed, IsFolder, Exists
<1>4. ~Looping(f)'
      <2>1. \A c \in DOMAIN entries' : entries'[c].parent \in {} \cup {f} => c \in {}
            BY <1>1, <1>3
      <2> QED BY <2>1, NotBelow
<1>5. ASSUME NEW x \in DOMAIN entries
      PROVE  ~Looping(x)'
      <2>1. x \notin Below(x) /\ Below(x) \subseteq DOMAIN entries
            BY <1>5, BelowIs DEF Acyclic, Looping, Exists
      <2>2. PICK S : S = Below(x) \cup {f}
            OBVIOUS
      <2>3. \A c \in DOMAIN entries' : entries'[c].parent \in S \cup {x} => c \in S
            BY <1>1, <1>3, <2>2, BelowClosed DEF Closed
      <2> QED BY <1>1, <1>5, <2>1, <2>2, <2>3, NotBelow
<1> QED BY <1>1, <1>4, <1>5 DEF Acyclic

(* What is below f lies in a folder below f, or in f.                      *)
LEMMA ParentIsBelow ==
    ASSUME NEW f, NEW c \in Below(f)
    PROVE  entries[c].parent \in Below(f) \cup {f}
<1>1. PICK S : S = Below(f) \ {c}
      OBVIOUS
<1>2. S \in SUBSET DOMAIN entries
      BY <1>1, BelowIs
<1>3. ~Closed(S, f)
      BY <1>1, <1>2, BelowIs
<1>4. PICK d \in DOMAIN entries : entries[d].parent \in S \cup {f} /\ d \notin S
      BY <1>3 DEF Closed
<1>5. d \in Below(f)
      BY <1>1, <1>4, BelowClosed DEF Closed
<1> QED BY <1>1, <1>4, <1>5

(* Of two that lie above the same entry, one lies above the other.         *)
LEMMA BelowBoth ==
    ASSUME NEW f, f # Bin, Bin \notin DOMAIN entries, NEW p \in Below(f), p \in Below(Bin)
    PROVE  f \in Below(Bin)
<1> SUFFICES ASSUME f \notin Below(Bin)
             PROVE  FALSE
    OBVIOUS
<1>1. PICK S : S = Below(Bin) \ Below(f)
      OBVIOUS
<1>2. S \in SUBSET DOMAIN entries
      BY <1>1, BelowIs
<1>3. ASSUME NEW c \in DOMAIN entries, entries[c].parent \in S \cup {Bin}
      PROVE  c \in S
      <2>1. c \in Below(Bin)
            BY <1>1, <1>3, BelowClosed DEF Closed
      <2>2. Bin \notin Below(f)
            BY BelowIs
      <2>3. entries[c].parent \notin Below(f) \cup {f}
            BY <1>1, <1>3, <2>2
      <2> QED BY <1>1, <2>1, <2>3, ParentIsBelow
<1>4. Closed(S, Bin)
      BY <1>3 DEF Closed
<1> QED BY <1>1, <1>2, <1>4, BelowIs

(* An entry that goes to a folder outside its own tree closes no loop.     *)
LEMMA RefiledAcyclic ==
    ASSUME Acyclic, NEW f \in DOMAIN entries, NEW p, Refiled(f, p), p \notin Subtree(f)
    PROVE  Acyclic'
<1>1. /\ DOMAIN entries' = DOMAIN entries
      /\ \A c \in DOMAIN entries \ {f} : entries'[c].parent = entries[c].parent
      /\ entries'[f].parent = p
      BY DEF Refiled, SameFiles
<1>2. ASSUME NEW x \in DOMAIN entries
      PROVE  ~Looping(x)'
      <2>1. x \notin Below(x) /\ Below(x) \subseteq DOMAIN entries
            BY <1>2, BelowIs DEF Acyclic, Looping, Exists
      <2>2. \A c \in DOMAIN entries : entries[c].parent \in Below(x) \cup {x} => c \in Below(x)
            BY BelowClosed DEF Closed
      <2>3. CASE p \notin Below(x) \cup {x}
            <3>1. \A c \in DOMAIN entries' :
                    entries'[c].parent \in Below(x) \cup {x} => c \in Below(x)
                  BY <1>1, <2>2, <2>3
            <3> QED BY <1>1, <2>1, <3>1, NotBelow
      <2>4. CASE p \in Below(x) \cup {x}
            <3>1. PICK S : S = Below(x) \cup Subtree(f)
                  OBVIOUS
            <3>2. \A c \in DOMAIN entries : entries[c].parent \in Subtree(f) => c \in Subtree(f)
                  BY BelowClosed DEF Subtree, Closed, Exists
            <3>3. f \in S /\ S \subseteq DOMAIN entries
                  BY <2>1, <3>1, BelowIs DEF Subtree, Exists
            <3>4. x \notin Subtree(f)
                  BY <2>4, BelowTransitive DEF Subtree
            <3>5. \A c \in DOMAIN entries' : entries'[c].parent \in S \cup {x} => c \in S
                  BY <1>1, <2>2, <3>1, <3>2, <3>3
            <3> QED BY <1>1, <2>1, <3>1, <3>3, <3>4, <3>5, NotBelow
      <2> QED BY <2>3, <2>4
<1> QED BY <1>1, <1>2 DEF Acyclic

(* An entry of the bin that goes into its own tree takes that tree along,  *)
(* and nothing outside becomes a loop.                                     *)
LEMMA RefiledInside ==
    ASSUME Acyclic, NEW f \in DOMAIN entries, NEW p, Refiled(f, p), p \in Subtree(f),
           f \in Below(Bin), NEW x, Looping(x)'
    PROVE  x \in Below(Bin)
<1>1. /\ DOMAIN entries' = DOMAIN entries
      /\ \A c \in DOMAIN entries \ {f} : entries'[c].parent = entries[c].parent
      /\ entries'[f].parent = p
      BY DEF Refiled, SameFiles
<1>2. x \in DOMAIN entries
      BY <1>1 DEF Looping, Exists
<1>3. ASSUME x \notin Subtree(f)
      PROVE  FALSE
      <2>1. PICK S : S = Below(x) \ Subtree(f)
            OBVIOUS
      <2>2. x \notin S /\ S \in SUBSET DOMAIN entries'
            BY <1>1, <1>2, <2>1, BelowIs DEF Acyclic, Looping, Exists
      <2>3. ASSUME NEW c \in DOMAIN entries', entries'[c].parent \in S \cup {x}
            PROVE  c \in S
            <3>1. entries'[c].parent \notin Subtree(f)
                  BY <1>3, <2>1, <2>3
            <3>2. c # f /\ entries[c].parent = entries'[c].parent
                  BY <1>1, <2>3, <3>1
            <3>3. c \in Below(x)
                  BY <1>1, <2>1, <2>3, <3>2, BelowClosed DEF Closed
            <3>4. c \notin Below(f)
                  BY <3>1, <3>2, ParentIsBelow DEF Subtree, Exists
            <3> QED BY <2>1, <3>2, <3>3, <3>4 DEF Subtree
      <2> QED BY <2>2, <2>3, NotBelow
<1> QED BY <1>3, BelowTransitive DEF Subtree

(* What a request moves has been looked at since it began; what it         *)
(* restores is still in the bin.                                           *)
Moving(w) ==
    /\ req[w].op \in {"create", "moveFile", "moveFolder"} => req[w].parent # Bin
    /\ req[w].op \in {"moveFile", "moveFolder"}
        => req[w].pc \in {"entry", "parent", "check", "apply"}
    /\ At(w, "moveFile", "apply") => IsFile(req[w].file)
    /\ At(w, "moveFolder", "apply") /\ Acyclic /\ req[w].parent \in Subtree(req[w].file)
        => req[w].file \in Below(Bin)
    /\ req[w].op = "restore" /\ Exists(req[w].file) => InRecycleBin(req[w].file)

MovingInv ==
    /\ SingleInv
    /\ \A w \in Workers : Moving(w)

(* What the request does not delete stays where it is.                     *)
StaysPut ==
    /\ DOMAIN entries' \subseteq DOMAIN entries
    /\ \A c \in DOMAIN entries' : entries'[c].parent = entries[c].parent

LEMMA OtherMoving ==
    ASSUME NEW w \in Workers,
           req'[w].op \notin {"create", "moveFile", "moveFolder", "restore"}
    PROVE  Moving(w)'
BY DEF Moving, At

LEMMA FinishMoving ==
    ASSUME IInv, NEW w \in Workers, Finish(w)
    PROVE  Moving(w)'
BY RequestsAre, OtherMoving DEF Finish, Idle

(* A step of an operation that moves nothing yet.                          *)
LEMMA KeepsMoving ==
    ASSUME NEW w \in Workers, Moving(w), StaysPut,
           req[w].pc \notin {"entry", "parent", "check", "apply"},
           req'[w].op = req[w].op, req'[w].parent = req[w].parent, req'[w].file = req[w].file
    PROVE  Moving(w)'
<1>1. PICK f : f = req[w].file
      OBVIOUS
<1>2. f \in DOMAIN entries' => f \in DOMAIN entries /\ entries'[f].parent = entries[f].parent
      BY DEF StaysPut
<1>3. req[w].op = "restore" /\ Exists(f)' => InRecycleBin(f)'
      BY <1>1, <1>2 DEF Moving, Exists, InRecycleBin
<1>4. req'[w].file = f
      BY <1>1
<1>5. (Exists(req[w].file)' <=> Exists(f)') /\ (InRecycleBin(req[w].file)' <=> InRecycleBin(f)')
      BY <1>1, <1>4
<1> QED BY <1>3, <1>5 DEF Moving, At

LEMMA NameTakenMoving ==
    ASSUME IInv, NEW w \in Workers, Moving(w), StaysPut, req[w].pc \in {"lookup", "stale"},
           NEW e, NameTaken(w, e)
    PROVE  Moving(w)'
<1>1. CASE Destroy(w, e, "overwrite")
      BY <1>1, RequestsAre, KeepsMoving DEF Destroy, Request
<1>2. CASE req' = [req EXCEPT ![w].pc = "lookup", ![w].n = @ + 1, ![w].victim = NULL]
      BY <1>2, RequestsAre, KeepsMoving DEF Request
<1> QED BY <1>1, <1>2, FinishMoving DEF NameTaken, NextCandidate

LEMMA AfterDeleteMoving ==
    ASSUME IInv, NEW w \in Workers, Moving(w), StaysPut, req[w].pc \in {"select", "purge"},
           AfterDelete(w)
    PROVE  Moving(w)'
<1>1. ASSUME NEW next, NEW left,
             req' = [req EXCEPT ![w].pc = "select", ![w].victim = next,
                                ![w].todo = left, ![w].doomed = {}]
      PROVE  Moving(w)'
      BY <1>1, RequestsAre, KeepsMoving DEF Request
<1>2. CASE req' = [req EXCEPT ![w].pc = "apply", ![w].victim = NULL,
                              ![w].why = NULL, ![w].doomed = {}]
      BY <1>2, RequestsAre, KeepsMoving DEF Request
<1>3. \/ Finish(w)
      \/ \E next, left : req' = [req EXCEPT ![w].pc = "select", ![w].victim = next,
                                            ![w].todo = left, ![w].doomed = {}]
      \/ req' = [req EXCEPT ![w].pc = "apply", ![w].victim = NULL,
                            ![w].why = NULL, ![w].doomed = {}]
      BY DEF AfterDelete
<1> QED BY <1>1, <1>2, <1>3, FinishMoving

LEMMA SharedMoving ==
    ASSUME IInv, NEW w \in Workers, Moving(w), Shared(w)
    PROVE  Moving(w)'
<1>0. StaysPut
      <2>1. UNCHANGED entries => StaysPut
            BY DEF StaysPut
      <2> QED BY <2>1
              DEF Shared, LookupName, CleanupStaleUploadEntry, SelectTree, tables,
                  PurgeTree, DeleteEntryTree, Drop, StaysPut
<1>1. CASE LookupName(w)
      <2>1. CASE Goto(w, "apply")
            BY <1>0, <1>1, <2>1, RequestsAre, KeepsMoving DEF LookupName, Goto, Request
      <2>2. ASSUME NEW e, req' = [req EXCEPT ![w].pc = "stale", ![w].victim = e]
            PROVE  Moving(w)'
            BY <1>0, <1>1, <2>2, RequestsAre, KeepsMoving DEF LookupName, Request
      <2> QED BY <1>0, <1>1, <2>1, <2>2, NameTakenMoving DEF LookupName
<1>2. CASE CleanupStaleUploadEntry(w)
      <2>1. CASE Destroy(w, req[w].victim, "stale")
            BY <1>0, <1>2, <2>1, RequestsAre, KeepsMoving
               DEF CleanupStaleUploadEntry, Destroy, Request
      <2> QED BY <1>0, <1>2, <2>1, NameTakenMoving DEF CleanupStaleUploadEntry
<1>3. CASE SelectTree(w)
      <2>1. ASSUME NEW D, req' = [req EXCEPT ![w].pc = "purge", ![w].doomed = D]
            PROVE  Moving(w)'
            BY <1>0, <1>3, <2>1, RequestsAre, KeepsMoving DEF SelectTree, Request
      <2> QED BY <1>0, <1>3, <2>1, AfterDeleteMoving DEF SelectTree
<1>4. CASE PurgeTree(w)
      BY <1>0, <1>4, AfterDeleteMoving, FinishMoving DEF PurgeTree
<1> QED BY <1>1, <1>2, <1>3, <1>4 DEF Shared

LEMMA UploadMoving ==
    ASSUME IInv, NEW w \in Workers, Moving(w), UploadNext(w)
    PROVE  Moving(w)'
<1>1. CASE CreateWithFolders(w)
      <2>1. PICK p, b :
              /\ p \in FileIDs \cup {Root}
              /\ req' = [req EXCEPT ![w].op = "create", ![w].pc = "lookup", ![w].parent = p,
                                    ![w].name = [base |-> b, tags |-> << >>]]
            BY <1>1 DEF CreateWithFolders
      <2>2. req'[w].op = "create" /\ req'[w].parent = p
            BY <2>1, RequestsAre DEF Request
      <2>3. p # Bin
            BY <2>1, RepositoryAssumption DEF Root, Bin
      <2> QED BY <2>2, <2>3 DEF Moving, At
<1>2. CASE PrepareUpload(w)
      <2>0. req[w].op = "create"
            BY <1>2 DEF PrepareUpload, At
      <2>1. PICK f, numbers, chunked :
              \/ Finish(w)
              \/ req' = [req EXCEPT ![w].pc = "persist", ![w].file = f]
              \/ req' = [req EXCEPT ![w].pc = "persist", ![w].file = f,
                                    ![w].numbers = numbers, ![w].chunked = chunked]
            BY <1>2 DEF PrepareUpload
      <2>2. CASE req' = [req EXCEPT ![w].pc = "persist", ![w].file = f]
            <3>1. req'[w].op = "create" /\ req'[w].parent = req[w].parent
                  BY <2>0, <2>2, RequestsAre DEF Request
            <3> QED BY <2>0, <3>1 DEF Moving, At
      <2>3. CASE req' = [req EXCEPT ![w].pc = "persist", ![w].file = f,
                                    ![w].numbers = numbers, ![w].chunked = chunked]
            <3>1. req'[w].op = "create" /\ req'[w].parent = req[w].parent
                  BY <2>0, <2>3, RequestsAre DEF Request
            <3> QED BY <2>0, <3>1 DEF Moving, At
      <2> QED BY <2>1, <2>2, <2>3, FinishMoving
<1>3. CASE PersistUpload(w)
      <2>1. CASE Goto(w, "abort")
            <3>1. req[w].op = "create" /\ req'[w].op = "create" /\ req'[w].parent = req[w].parent
                  BY <1>3, <2>1, RequestsAre DEF PersistUpload, At, Goto, Request
            <3> QED BY <3>1 DEF Moving, At
      <2> QED BY <1>3, <2>1, FinishMoving DEF PersistUpload, GiveUpUpload
<1>4. CASE GetUploadURL(w)
      <2>1. PICK f : req' = [req EXCEPT ![w].op = "url", ![w].pc = "session", ![w].file = f]
            BY <1>4 DEF GetUploadURL
      <2> QED BY <2>1, RequestsAre, OtherMoving DEF Request
<1>5. CASE UrlReadSession(w)
      <2>1. ASSUME NEW list, req' = [req EXCEPT ![w].pc = "rows", ![w].numbers = list]
            PROVE  Moving(w)'
            BY <1>5, <2>1, RequestsAre, OtherMoving DEF UrlReadSession, At, Request
      <2> QED BY <1>5, <2>1, FinishMoving DEF UrlReadSession
<1>6. CASE CompleteFile(w)
      <2>1. PICK u, numbers :
              req' = [req EXCEPT ![w].op = "complete", ![w].pc = "entry", ![w].file = u,
                                 ![w].numbers = numbers]
            BY <1>6 DEF CompleteFile
      <2> QED BY <2>1, RequestsAre, OtherMoving DEF Request
<1>7. CASE CompleteReadEntry(w)
      <2>1. PICK pc, h : Finish(w) \/ req' = [req EXCEPT ![w].pc = pc, ![w].hash = h]
            BY <1>7 DEF CompleteReadEntry
      <2>2. CASE req' = [req EXCEPT ![w].pc = pc, ![w].hash = h]
            BY <1>7, <2>2, RequestsAre, OtherMoving DEF CompleteReadEntry, At, Request
      <2> QED BY <2>1, <2>2, FinishMoving
<1>8. ASSUME NEW pc, req[w].op \in {"url", "complete"}, Goto(w, pc)
      PROVE  Moving(w)'
      BY <1>8, RequestsAre, OtherMoving DEF Goto, Request
<1>9. CASE \/ CreateFolderEntry(w) \/ AbortUpload(w) \/ UrlEnsureParts(w)
           \/ UrlRaisePartCount(w) \/ CollectCompletedParts(w) \/ CombineParts(w)
           \/ PublishFile(w)
      BY <1>8, <1>9, FinishMoving
         DEF CreateFolderEntry, AbortUpload, UrlEnsureParts, UrlRaisePartCount,
             CollectCompletedParts, CombineParts, PublishFile, At
<1> QED BY <1>1, <1>2, <1>3, <1>4, <1>5, <1>6, <1>7, <1>9 DEF UploadNext

(* The checks of MoveFile and MoveFolder.  FolderNodes leaves out what is  *)
(* below the bin and nothing else, and without a loop the climb ends at    *)
(* the root.                                                               *)
LEMMA ManageMoving ==
    ASSUME MovingInv, NEW w \in Workers, ManageNext(w)
    PROVE  Moving(w)'
<1>0. IInv /\ Moving(w) /\ Sound(w)
      BY DEF MovingInv, SingleInv
<1>1. CASE DeleteFile(w)
      <2>1. PICK f : req' = [req EXCEPT ![w].op = "delete", ![w].pc = "select",
                                        ![w].file = f, ![w].victim = f]
            BY <1>1 DEF DeleteFile
      <2> QED BY <1>0, <2>1, RequestsAre, OtherMoving DEF Request
<1>2. CASE Update(w)
      <2>1. PICK f, b :
              req' = [req EXCEPT ![w].op = "rename", ![w].pc = "lookup", ![w].file = f,
                              ![w].parent = entries[f].parent,
                              ![w].name = [base |-> b, tags |-> << >>],
                              ![w].was = entries[f].name]
            BY <1>2 DEF Update
      <2> QED BY <1>0, <2>1, RequestsAre, OtherMoving DEF Request
<1>3. CASE MoveFile(w) \/ MoveFolder(w)
      <2>1. PICK f, p, op, pc :
              /\ p \in FileIDs \cup {Root}
              /\ req' = [req EXCEPT ![w].op = op, ![w].pc = pc, ![w].file = f, ![w].parent = p]
              /\ op \in {"moveFile", "moveFolder"} /\ pc \in {"entry", "parent"}
            BY <1>3 DEF MoveFile, MoveFolder
      <2>2. req'[w].op = op /\ req'[w].pc = pc /\ req'[w].parent = p
            BY <1>0, <2>1, RequestsAre DEF Request
      <2>3. p # Bin
            BY <2>1, RepositoryAssumption DEF Root, Bin
      <2> QED BY <2>1, <2>2, <2>3 DEF Moving, At
<1>4. CASE MoveFileReadEntry(w) /\ Goto(w, "apply")
      <2>1. PICK f : f = req[w].file
            OBVIOUS
      <2>2. /\ req'[w].op = "moveFile" /\ req'[w].pc = "apply"
            /\ req'[w].parent = req[w].parent /\ req'[w].file = f
            BY <1>0, <1>4, <2>1, RequestsAre DEF MoveFileReadEntry, At, Goto, Request
      <2>3. IsFile(f) \/ Finish(w)
            BY <1>4, <2>1 DEF MoveFileReadEntry
      <2>4. IsFile(f)'
            <3>1. UNCHANGED entries /\ ~Finish(w)
                  BY <1>0, <1>4, <2>2, RequestsAre DEF MoveFileReadEntry, tables, Finish, Idle
            <3> QED BY <2>3, <3>1 DEF IsFile, Exists
      <2>5. req[w].parent # Bin
            BY <1>0, <1>4 DEF MoveFileReadEntry, At, Moving
      <2> QED BY <2>2, <2>4, <2>5 DEF Moving, At
<1>5. CASE MoveFolderReadParent(w) /\ Goto(w, "check")
      <2>1. /\ req'[w].op = "moveFolder" /\ req'[w].pc = "check"
            /\ req'[w].parent = req[w].parent
            BY <1>0, <1>5, RequestsAre DEF MoveFolderReadParent, At, Goto, Request
      <2>2. req[w].parent # Bin
            BY <1>0, <1>5 DEF MoveFolderReadParent, At, Moving
      <2> QED BY <2>1, <2>2 DEF Moving, At
<1>6. CASE MoveFolderCheck(w) /\ ~Finish(w)
      <2>1. PICK f, p : f = req[w].file /\ p = req[w].parent
            OBVIOUS
      <2>2. /\ IsDescendantOrSelf(p, f) => p # f /\ Looping(f)
            /\ Goto(w, "apply") /\ UNCHANGED entries
            BY <1>6, <2>1 DEF MoveFolderCheck, tables
      <2>3. Acyclic => ~IsDescendantOrSelf(p, f)
            BY <2>2 DEF Acyclic, Looping, Exists
      <2>4. Filed(p) /\ p # Bin
            BY <1>0, <1>6, <2>1 DEF MoveFolderCheck, At, Sound, NamesFolder, Moving
      <2>5. Acyclic /\ p \in Subtree(f) => f \in Below(Bin)
            <3> SUFFICES ASSUME Acyclic, p \in Subtree(f)
                         PROVE  f \in Below(Bin)
                OBVIOUS
            <3>1. DOMAIN entries \subseteq FileIDs
                  BY <1>0, TypedParts DEF IInv, RepositoryTypeOK
            <3>2. f \in DOMAIN entries /\ p \in Below(f)
                  BY <2>3 DEF Subtree, IsDescendantOrSelf, Exists
            <3>3. p \in DOMAIN entries /\ IsFolder(p)
                  BY <2>4, <3>1, <3>2, BelowIs, RepositoryAssumption DEF Filed
            <3>4. p \in Below(Bin)
                  BY <2>3, <3>2, <3>3 DEF IsDescendantOrSelf, FolderNodes
            <3>5. Bin \notin DOMAIN entries
                  BY <3>1, RepositoryAssumption
            <3> QED BY <3>2, <3>4, <3>5, BelowBoth
      <2>6. /\ req'[w].op = "moveFolder" /\ req'[w].pc = "apply"
            /\ req'[w].parent = p /\ req'[w].file = f
            BY <1>0, <1>6, <2>1, <2>2, RequestsAre DEF MoveFolderCheck, At, Goto, Request
      <2>7. /\ Subtree(f)' = Subtree(f) /\ Below(Bin)' = Below(Bin)
            /\ Acyclic' => Acyclic
            BY <2>2 DEF Subtree, Below, Exists, Acyclic, Looping
      <2>8. Subtree(req[w].file)' = Subtree(f)'
            BY <2>6
      <2> QED BY <2>4, <2>5, <2>6, <2>7, <2>8 DEF Moving, At
<1>7. CASE Finish(w)
      BY <1>0, <1>7, FinishMoving
<1> QED BY <1>1, <1>2, <1>3, <1>4, <1>5, <1>6, <1>7
        DEF ManageNext, UpdateApply, MoveFileReadEntry, MoveFolderReadParent, MoveApply

LEMMA RecycleMoving ==
    ASSUME MovingInv, NEW w \in Workers, RecycleNext(w)
    PROVE  Moving(w)'
<1>0. IInv /\ Moving(w)
      BY DEF MovingInv, SingleInv
<1>1. CASE RecycleBinTrash(w)
      <2>1. PICK f, n, from :
              req' = [req EXCEPT ![w].op = "trash", ![w].pc = "lookup", ![w].file = f,
                                 ![w].parent = Bin, ![w].name = n, ![w].from = from]
            BY <1>1 DEF RecycleBinTrash
      <2> QED BY <1>0, <2>1, RequestsAre, OtherMoving DEF Request
<1>2. CASE RecycleBinRestore(w)
      <2>1. PICK f :
              /\ InRecycleBin(f)
              /\ req' = [req EXCEPT ![w].op = "restore", ![w].file = f,
                                    ![w].pc = IF RestoreTarget(f) = Root THEN "lookup" ELSE "folder",
                                    ![w].parent = RestoreTarget(f), ![w].name = entries[f].name]
            BY <1>2 DEF RecycleBinRestore
      <2>2. req'[w].op = "restore" /\ req'[w].file = f /\ UNCHANGED entries
            BY <1>0, <1>2, <2>1, RequestsAre DEF Request, RecycleBinRestore, tables
      <2>3. InRecycleBin(f)'
            BY <2>1, <2>2 DEF InRecycleBin, Exists
      <2> QED BY <2>2, <2>3 DEF Moving, At
<1>3. CASE RestoreReadParent(w)
      <2>1. PICK p : req' = [req EXCEPT ![w].pc = "lookup", ![w].parent = p]
            BY <1>3 DEF RestoreReadParent
      <2>2. /\ req[w].op = "restore" /\ req'[w].op = "restore"
            /\ req'[w].file = req[w].file /\ UNCHANGED entries
            BY <1>0, <1>3, <2>1, RequestsAre DEF Request, RestoreReadParent, At, tables
      <2> QED BY <1>0, <2>2 DEF Moving, At, InRecycleBin, Exists
<1>4. CASE RecycleBinClear(w)
      <2>1. PICK binned, first :
              req' = [req EXCEPT ![w].op = "clear", ![w].pc = "select",
                                 ![w].todo = binned, ![w].victim = first]
            BY <1>4 DEF RecycleBinClear
      <2> QED BY <1>0, <2>1, RequestsAre, OtherMoving DEF Request
<1>5. CASE Finish(w)
      BY <1>0, <1>5, FinishMoving
<1> QED BY <1>1, <1>2, <1>3, <1>4, <1>5 DEF RecycleNext, TrashApply, RestoreApply

LEMMA CallFailsMoving ==
    ASSUME IInv, NEW w \in Workers, Moving(w), CallFails(w)
    PROVE  Moving(w)'
<1>1. StaysPut
      BY DEF CallFails, tables, StaysPut
<1>2. CASE req[w].pc = "persist" /\ Goto(w, "abort")
      BY <1>1, <1>2, RequestsAre, KeepsMoving DEF Goto, Request
<1> QED BY <1>2, FinishMoving DEF CallFails

LEMMA SameParentsAcyclicBack ==
    ASSUME SameShape, Acyclic'
    PROVE  Acyclic
<1>1. ASSUME NEW x \in DOMAIN entries
      PROVE  x \notin Below(x)
      <2>1. x \in DOMAIN entries' /\ x \notin Below(x)'
            BY <1>1 DEF SameShape, SameFiles, Acyclic, Looping, Exists
      <2> QED BY <2>1, ShapeKeepsBelow
<1> QED BY <1>1 DEF Acyclic, Looping

LEMMA ShapeMoving ==
    ASSUME SameShape, NEW w \in Workers, Moving(w), req'[w] = req[w]
    PROVE  Moving(w)'
<1>1. PICK f : f = req[w].file
      OBVIOUS
<1>2. /\ Subtree(f)' = Subtree(f) /\ Below(Bin)' = Below(Bin)
      /\ (IsFile(f)' <=> IsFile(f)) /\ (Exists(f)' <=> Exists(f))
      /\ InRecycleBin(f)' <=> InRecycleBin(f)
      BY ShapeKeepsTrees, ShapeKeepsBelow DEF SameShape, SameFiles, IsFile, Exists, InRecycleBin
<1>3. /\ (IsFile(req[w].file)' <=> IsFile(f)') /\ Subtree(req[w].file)' = Subtree(f)'
      /\ (Exists(req[w].file)' <=> Exists(f)')
      /\ InRecycleBin(req[w].file)' <=> InRecycleBin(f)'
      BY <1>1
<1> QED BY <1>1, <1>2, <1>3, SameParentsAcyclicBack DEF Moving, At

LEMMA StepMoving ==
    ASSUME OneWorker, MovingInv, [Next]_vars
    PROVE  \A w \in Workers : Moving(w)'
<1> DEFINE Goal == \A w \in Workers : Moving(w)'
<1>0. IInv
      BY DEF MovingInv, SingleInv
<1>1. ASSUME UNCHANGED req, SameShape
      PROVE  Goal
      BY <1>1, ShapeMoving DEF MovingInv
<1>2. ASSUME NEW w \in Workers, Moving(w)'
      PROVE  Goal
      BY <1>2 DEF OneWorker
<1>3. CASE UNCHANGED vars
      BY <1>1, <1>3, UnchangedShape DEF vars, tables
<1>4. ASSUME NEW w \in Workers,
             Shared(w) \/ UploadNext(w) \/ ManageNext(w) \/ RecycleNext(w) \/ CallFails(w)
      PROVE  Goal
      BY <1>0, <1>2, <1>4, SharedMoving, UploadMoving, ManageMoving, RecycleMoving,
         CallFailsMoving DEF MovingInv
<1>5. ASSUME NEW f \in FileIDs, BackgroundDelete(f)
      PROVE  Goal
      BY <1>1, <1>5, UnchangedShape DEF BackgroundDelete, tables
<1>6. CASE Client
      BY <1>1, <1>6, UnchangedShape DEF Client, tables
<1>7. CASE Crash
      BY <1>7, OtherMoving DEF Crash, Idle
<1>8. ASSUME NEW p \in postings, PostComplete(p)
      PROVE  Goal
      BY <1>0, <1>1, <1>8, PostCompleteShape
<1> HIDE DEF Goal
<1>9. Goal
      <2>1. UNCHANGED vars \/ Client \/ Crash => Goal
            BY <1>3, <1>6, <1>7 DEF Goal
      <2> QED BY <1>4, <1>5, <1>8, <2>1 DEF Next
<1> QED BY <1>9 DEF Goal

LEMMA MovingHolds ==
    ASSUME OneWorker
    PROVE  Spec => []MovingInv
<1>1. Init => MovingInv
      <2>1. Idle.op = "none"
            BY DEF Idle
      <2> QED BY <2>1, InitSingle DEF Init, ServiceInit, MovingInv, Moving, At
<1>2. MovingInv /\ [Next]_vars => MovingInv'
      BY StepSingle, StepMoving DEF MovingInv
<1> QED BY <1>1, <1>2, PTL DEF Spec

(* A request that changes where entries lie makes no loop but from the     *)
(* bin.                                                                    *)
LEMMA RequestTablesLoops ==
    ASSUME MovingInv, NEW w \in Workers, RequestTables(w), Acyclic, NEW x, Looping(x)'
    PROVE  x \in Below(Bin)
<1>0. SingleInv /\ Sound(w) /\ Moving(w)
      BY DEF MovingInv, SingleInv
<1>1. Acyclic' => FALSE
      BY DEF Acyclic, Looping, Exists
<1>2. CASE (SameFiles /\ UNCHANGED entries) \/ SameShape
      BY <1>1, <1>2, SameParentsAcyclic DEF SameShape, SameFiles
<1>3. CASE PurgeTree(w)
      <2>1. /\ DOMAIN entries' \subseteq DOMAIN entries
            /\ \A c \in DOMAIN entries' : entries'[c] = entries[c]
            BY <1>3 DEF PurgeTree, DeleteEntryTree, Drop
      <2> QED BY <1>1, <2>1, SameParentsAcyclic
<1>4. ASSUME NEW f, NewEntry(f, req[w].parent), req[w].op = "create",
             req[w].pc \in {"apply", "persist"}
      PROVE  FALSE
      <2>1. PICK p : p = req[w].parent
            OBVIOUS
      <2>2. Filed(p)
            BY <1>0, <1>4, <2>1 DEF Sound, NamesFolder
      <2> QED BY <1>0, <1>1, <1>4, <2>1, <2>2, NewEntryAcyclic
<1>5. ASSUME NEW p, Refiled(req[w].file, p), req[w].pc = "apply",
             \/ p = Bin /\ req[w].op = "trash"
             \/ p = req[w].parent /\ req[w].op \in {"moveFile", "moveFolder", "restore"}
      PROVE  x \in Below(Bin)
      <2>1. PICK f : f = req[w].file
            OBVIOUS
      <2>2. CASE f \notin DOMAIN entries
            BY <1>1, <1>5, <2>1, <2>2, SameParentsAcyclic DEF Refiled, SameFiles
      <2>3. CASE f \in DOMAIN entries /\ p \notin Subtree(f)
            BY <1>1, <1>5, <2>1, <2>3, RefiledAcyclic
      <2>4. ASSUME f \in DOMAIN entries, p \in Subtree(f)
            PROVE  f \in Below(Bin)
            <3>1. DOMAIN entries \subseteq FileIDs
                  BY <1>0, TypedParts DEF SingleInv, IInv, RepositoryTypeOK
            <3>2. p \in DOMAIN entries
                  BY <2>4, BelowIs DEF Subtree
            <3>3. p # Bin
                  BY <3>1, <3>2, RepositoryAssumption
            <3>4. CASE req[w].op = "moveFolder"
                  BY <1>0, <1>5, <2>1, <2>4, <3>3, <3>4 DEF Moving, At
            <3>5. CASE req[w].op = "moveFile"
                  <4>1. IsFile(f)
                        BY <1>0, <1>5, <2>1, <3>5 DEF Moving, At
                  <4>2. Filed(p)
                        BY <1>0, <1>5, <3>3, <3>5 DEF Sound, NamesFolder
                  <4>3. p # f
                        BY <3>1, <3>2, <4>1, <4>2, RepositoryAssumption
                           DEF Filed, IsFile, IsFolder
                  <4> QED BY <1>0, <2>4, <4>1, <4>3, FileIsLeaf DEF SingleInv
            <3>6. CASE req[w].op = "restore"
                  <4>1. entries[f].parent = Bin
                        BY <1>0, <2>1, <2>4, <3>6 DEF Moving, InRecycleBin, Exists
                  <4> QED BY <2>4, <4>1, BelowClosed DEF Closed
            <3> QED BY <1>5, <3>3, <3>4, <3>5, <3>6
      <2>5. CASE f \in DOMAIN entries /\ p \in Subtree(f)
            BY <1>5, <2>1, <2>4, <2>5, RefiledInside
      <2> QED BY <2>2, <2>3, <2>5
<1> QED BY <1>2, <1>3, <1>4, <1>5 DEF RequestTables

LEMMA StepLoops ==
    ASSUME MovingInv, [Next]_vars, Acyclic, NEW x, Looping(x)'
    PROVE  x \in Below(Bin)
<1>1. CASE SameShape
      BY <1>1, SameParentsAcyclic DEF SameShape, SameFiles, Acyclic, Looping, Exists
<1>2. CASE \E w \in Workers : RequestTables(w)
      BY <1>2, RequestTablesLoops
<1> QED BY <1>1, <1>2, StepTables DEF MovingInv, SingleInv

(* With one request at a time, and whatever fails, the first loop of       *)
(* folders is one of folders that lay in the recycle bin, or below it:     *)
(* what MoveFolder looked at it still finds, RecycleBinRestore puts back   *)
(* what is in the bin, and no other operation puts a folder below another. *)
THEOREM OnlyTheBinLoops ==
    ASSUME OneWorker
    PROVE  Spec => LoopsComeFromTheBin
<1>1. MovingInv /\ [Next]_vars =>
        (Acyclic => \A f \in FileIDs : Looping(f)' => f \in Below(Bin))
      BY StepLoops
<1> QED BY <1>1, MovingHolds, PTL DEF Spec, LoopsComeFromTheBin

-----------------------------------------------------------------------------
(***************************************************************************)
(* No loops, when nothing is ever in the recycle bin.                      *)
(***************************************************************************)
BinEmpty == \A c \in DOMAIN entries : entries[c].parent # Bin

TreeInv ==
    /\ MovingInv
    /\ OpsOnly
    /\ Acyclic
    /\ BinEmpty

LEMMA StepBinEmpty ==
    ASSUME "trash" \notin Ops, TreeInv, [Next]_vars
    PROVE  BinEmpty'
<1>1. CASE SameShape
      BY <1>1 DEF TreeInv, BinEmpty, SameShape, SameFiles
<1>2. ASSUME NEW w \in Workers, RequestTables(w)
      PROVE  BinEmpty'
      <2>0. Moving(w) /\ BinEmpty
            BY DEF TreeInv, MovingInv
      <2>1. CASE (SameFiles /\ UNCHANGED entries) \/ SameShape
            BY <1>1, <2>0, <2>1 DEF BinEmpty
      <2>2. CASE PurgeTree(w)
            BY <2>0, <2>2 DEF BinEmpty, PurgeTree, DeleteEntryTree, Drop
      <2>3. ASSUME NEW f, NewEntry(f, req[w].parent), req[w].op = "create"
            PROVE  BinEmpty'
            BY <2>0, <2>3 DEF Moving, BinEmpty, NewEntry
      <2>4. ASSUME NEW p, Refiled(req[w].file, p), p = req[w].parent,
                   req[w].op \in {"moveFile", "moveFolder", "restore"}
            PROVE  BinEmpty'
            <3>1. req[w].op # "restore" => p # Bin
                  BY <2>0, <2>4 DEF Moving
            <3>2. req[w].op = "restore" => req[w].file \notin DOMAIN entries
                  BY <2>0 DEF Moving, BinEmpty, InRecycleBin, Exists
            <3> QED BY <2>0, <2>4, <3>1, <3>2 DEF BinEmpty, Refiled, SameFiles
      <2>5. req[w].op # "trash"
            BY DEF TreeInv, OpsOnly
      <2> QED BY <1>2, <2>1, <2>2, <2>3, <2>4, <2>5 DEF RequestTables
<1> QED BY <1>1, <1>2, StepTables DEF TreeInv, MovingInv, SingleInv

LEMMA StepTree ==
    ASSUME OneWorker, "trash" \notin Ops, TreeInv, [Next]_vars
    PROVE  TreeInv'
<1>1. MovingInv'
      BY StepSingle, StepMoving DEF TreeInv, MovingInv
<1>2. OpsOnly'
      <2>1. CASE \E w \in Workers : Advances(w)
            BY <2>1 DEF TreeInv, OpsOnly, Advances
      <2>2. CASE UNCHANGED req \/ \A w \in Workers : req'[w] = Idle
            BY <2>2 DEF TreeInv, OpsOnly, Idle
      <2> QED BY <2>1, <2>2, StepTables DEF TreeInv, MovingInv, SingleInv
<1>3. Below(Bin) = {}
      <2>1. Closed({}, Bin)
            BY DEF TreeInv, BinEmpty, Closed
      <2> QED BY <2>1, BelowIs
<1>4. Acyclic'
      BY <1>3, StepLoops DEF TreeInv, Acyclic
<1> QED BY <1>1, <1>2, <1>4, StepBinEmpty DEF TreeInv

(* The drive starts with an empty bin and without a loop: for each folder  *)
(* there is a set that holds what is below it, but not the folder.         *)
SeedHasNoLoop ==
    \A x \in DOMAIN Seed : \E S \in SUBSET DOMAIN Seed :
        /\ x \notin S
        /\ \A c \in DOMAIN Seed : Seed[c].parent \in S \cup {x} => c \in S

NothingTrashed == "trash" \notin Ops /\ \A f \in DOMAIN Seed : Seed[f].parent # Bin

LEMMA InitTree ==
    ASSUME SeedHasNoLoop, NothingTrashed, Init
    PROVE  TreeInv
<1>1. entries = Seed /\ \A w \in Workers : req[w] = Idle
      BY DEF Init, ServiceInit, RepositoryInit
<1>2. Idle.op = "none"
      BY DEF Idle
<1>3. Acyclic
      BY <1>1 DEF SeedHasNoLoop, Acyclic, Looping, Below
<1> QED BY <1>1, <1>2, <1>3, InitSingle
        DEF TreeInv, MovingInv, OpsOnly, BinEmpty, Moving, At, NothingTrashed

(* With one request at a time no folder becomes its own descendant, as     *)
(* long as nothing is trashed: MoveFolder's check looks at every folder    *)
(* then.  It leaves out those in the recycle bin, which is how a loop is   *)
(* made with RecycleBinTrash.                                              *)
THEOREM NoFolderLoops ==
    ASSUME OneWorker, SeedHasNoLoop, NothingTrashed
    PROVE  Spec => []Acyclic
<1>1. Init => TreeInv
      BY InitTree
<1>2. TreeInv /\ [Next]_vars => TreeInv'
      BY StepTree DEF NothingTrashed
<1>3. TreeInv => Acyclic
      BY DEF TreeInv
<1> QED BY <1>1, <1>2, <1>3, PTL DEF Spec

-----------------------------------------------------------------------------
(***************************************************************************)
(* Any number of requests, when nothing but stale uploads is deleted.      *)
(* Name resolution then takes single files away from below others that     *)
(* move, trash and restore entries, and no folder ever goes.               *)
(***************************************************************************)
OnlyStaleGo == Ops \cap {"delete", "clear"} = {} /\ "overwrite" \notin CheckNameModes

(* What a request may rely on, whatever the others do.                     *)
Standing(w) ==
    /\ req[w].pc = "idle" => req[w] = Idle
    /\ req[w].op = "none" => req[w].pc = "idle"
    /\ NamesFolder(w)

(* The victim of name resolution is a file, or was one.  Its session goes  *)
(* with it, completed meanwhile or not.                                    *)
TakesUpload(w) ==
    /\ req[w].pc \in {"stale", "select", "purge"} =>
            req[w].victim \in minted /\ ~IsFolder(req[w].victim)
    /\ req[w].pc = "purge" => req[w].doomed = {req[w].victim}

StaleInv ==
    /\ IInv /\ OpsOnly /\ FileHasSession /\ NoOrphan
    /\ \A w \in Workers : Standing(w) /\ TakesUpload(w)

(* Folders stay, identifiers are not drawn again, files stay files.        *)
Kept ==
    /\ minted \subseteq minted'
    /\ \A p : Filed(p) => Filed(p)'
    /\ \A v \in minted : IsFolder(v)' => IsFolder(v)

LEMMA NoneDeletes ==
    ASSUME OnlyStaleGo, OpsOnly, NEW w \in Workers
    PROVE  ~Deletes(w)
BY DEF OnlyStaleGo, OpsOnly, Deletes

LEMMA StandingSound ==
    ASSUME OnlyStaleGo, OpsOnly, NEW w \in Workers, Standing(w),
           req[w].pc \notin {"stale", "select", "purge"}
    PROVE  Sound(w)
BY NoneDeletes DEF Standing, Sound, DeletesBinned, ClearsTheWay

LEMMA MintedGrows ==
    ASSUME [Next]_vars
    PROVE  minted \subseteq minted'
<1>1. ASSUME NEW w \in Workers, Shared(w) \/ CallFails(w)
      PROVE  minted \subseteq minted'
      BY <1>1 DEF Shared, LookupName, CleanupStaleUploadEntry, SelectTree, PurgeTree, CallFails,
                  Local
<1>2. ASSUME NEW w \in Workers, UploadNext(w)
      PROVE  minted \subseteq minted'
      BY <1>2 DEF UploadNext, CreateWithFolders, CreateFolderEntry, PrepareUpload, PersistUpload,
                  AbortUpload, GetUploadURL, UrlReadSession, UrlEnsureParts, UrlRaisePartCount,
                  CompleteFile, CompleteReadEntry, CollectCompletedParts, CombineParts,
                  PublishFile, Local
<1>3. ASSUME NEW w \in Workers, ManageNext(w) \/ RecycleNext(w)
      PROVE  minted \subseteq minted'
      BY <1>3 DEF ManageNext, DeleteFile, Update, UpdateApply, MoveFile, MoveFileReadEntry,
                  MoveFolder, MoveFolderReadParent, MoveFolderCheck, MoveApply, RecycleNext,
                  RecycleBinTrash, TrashApply, RecycleBinRestore, RestoreReadParent,
                  RestoreApply, RecycleBinClear, Local
<1>4. ASSUME NEW f \in FileIDs, BackgroundDelete(f)
      PROVE  minted \subseteq minted'
      BY <1>4 DEF BackgroundDelete
<1>5. ASSUME NEW p \in postings, PostComplete(p)
      PROVE  minted \subseteq minted'
      BY <1>5 DEF PostComplete, PostCompleteMarkPart, PostCompleteHash, PostCompleteUpdate
<1>6. CASE Client \/ Crash \/ UNCHANGED vars
      BY <1>6 DEF Client, Crash, vars, Local
<1> QED BY <1>1, <1>2, <1>3, <1>4, <1>5, <1>6 DEF Next

(* A victim has nothing below it, so it goes alone.                        *)
LEMMA PurgeTakesUpload ==
    ASSUME StaleInv, NEW w \in Workers, PurgeTree(w)
    PROVE  \E v \in minted :
            /\ ~IsFolder(v) /\ v = req[w].victim
            /\ Subtree(v) \subseteq {v}
            /\ DOMAIN entries' = DOMAIN entries \ {v}
            /\ \A c \in DOMAIN entries' : entries'[c] = entries[c]
            /\ DOMAIN sessions' = DOMAIN sessions \ {v}
<1>a. PICK v, S : v = req[w].victim /\ S = Subtree(v)
      OBVIOUS
<1>1. v \in minted /\ ~IsFolder(v) /\ req[w].doomed = {v}
      BY <1>a DEF StaleInv, TakesUpload, PurgeTree
<1>2. Exists(v) => IsFile(v)
      BY <1>1, EntriesTyped DEF StaleInv, IInv, Exists, IsFile, IsFolder, Entry
<1>3. S \subseteq {v} /\ (v \in DOMAIN entries => v \in S)
      BY <1>a, <1>2, FileIsLeaf DEF StaleInv, Subtree, Exists
<1>4. /\ DOMAIN entries' = DOMAIN entries \ S
      /\ \A c \in DOMAIN entries' : entries'[c] = entries[c]
      /\ DOMAIN sessions' = DOMAIN sessions \ {v}
      BY <1>a, <1>1 DEF PurgeTree, DeleteEntryTree, Drop
<1> QED BY <1>a, <1>1, <1>3, <1>4

LEMMA StepKeeps ==
    ASSUME StaleInv, [Next]_vars
    PROVE  Kept
<1>0. minted \subseteq minted'
      BY MintedGrows
<1>1. CASE SameFiles
      BY <1>0, <1>1 DEF SameFiles, Kept, Filed, IsFolder, Exists
<1>2. ASSUME NEW f, NEW p, NewEntry(f, p)
      PROVE  Kept
      BY <1>0, <1>2 DEF NewEntry, Kept, Filed, IsFolder, Exists
<1>3. ASSUME NEW w \in Workers, PurgeTree(w)
      PROVE  Kept
      <2>1. PICK v \in minted :
              /\ ~IsFolder(v)
              /\ DOMAIN entries' = DOMAIN entries \ {v}
              /\ \A c \in DOMAIN entries' : entries'[c] = entries[c]
            BY <1>3, PurgeTakesUpload
      <2> QED BY <1>0, <2>1 DEF Kept, Filed, IsFolder, Exists
<1>4. ASSUME NEW w \in Workers, RequestTables(w)
      PROVE  Kept
      BY <1>1, <1>2, <1>3, <1>4 DEF RequestTables, SameShape, Refiled
<1> QED BY <1>1, <1>4, StepTables DEF StaleInv, SameShape

LEMMA TablesStand ==
    ASSUME StaleInv, [Next]_vars
    PROVE  FileHasSession' /\ NoOrphan'
<1>1. CASE SameShape
      BY <1>1, SameFilesSingle DEF StaleInv, SameShape
<1>2. ASSUME NEW w \in Workers, PurgeTree(w)
      PROVE  FileHasSession' /\ NoOrphan'
      <2>1. PICK v :
              /\ ~IsFolder(v)
              /\ DOMAIN entries' = DOMAIN entries \ {v}
              /\ \A c \in DOMAIN entries' : entries'[c] = entries[c]
              /\ DOMAIN sessions' = DOMAIN sessions \ {v}
            BY <1>2, PurgeTakesUpload
      <2>2. FileHasSession'
            BY <2>1 DEF StaleInv, FileHasSession, IsFile, Exists, HasSession
      <2>3. NoOrphan'
            BY <2>1 DEF StaleInv, NoOrphan, IsFolder, Exists
      <2> QED BY <2>2, <2>3
<1>3. ASSUME NEW w \in Workers, RequestTables(w), ~PurgeTree(w)
      PROVE  FileHasSession' /\ NoOrphan'
      BY <1>3, WritesKeepSessions DEF StaleInv, Standing
<1> QED BY <1>1, <1>2, <1>3, StepTables DEF StaleInv

LEMMA IdleStanding ==
    ASSUME NEW w \in Workers, req'[w] = Idle
    PROVE  Standing(w)' /\ TakesUpload(w)'
BY DEF Standing, NamesFolder, TakesUpload, Idle

LEMMA FinishStanding ==
    ASSUME IInv, NEW w \in Workers, Finish(w)
    PROVE  Standing(w)' /\ TakesUpload(w)'
BY RequestsAre, IdleStanding DEF Finish

LEMMA OnwardStanding ==
    ASSUME Kept, NEW w \in Workers, Standing(w),
           req[w].pc \notin {"idle", "folder", "parent"}, req'[w].pc # "idle",
           req'[w].op = req[w].op, req'[w].parent = req[w].parent
    PROVE  Standing(w)'
<1>1. req[w].op # "none"
      BY DEF Standing
<1>2. PICK p : p = req[w].parent
      OBVIOUS
<1>3. req[w].op \in {"create", "moveFile", "moveFolder", "restore"} => Filed(p)'
      BY <1>2 DEF Standing, NamesFolder, Kept
<1> QED BY <1>1, <1>2, <1>3 DEF Standing, NamesFolder

(* A request that waits while another steps.                               *)
LEMMA OthersStanding ==
    ASSUME Kept, NEW w \in Workers, Standing(w), TakesUpload(w), req'[w] = req[w]
    PROVE  Standing(w)' /\ TakesUpload(w)'
<1>1. PICK p, v : p = req[w].parent /\ v = req[w].victim
      OBVIOUS
<1>2. /\ Filed(p) => Filed(p)'
      /\ v \in minted /\ ~IsFolder(v) => v \in minted' /\ ~IsFolder(v)'
      BY DEF Kept
<1>3. Standing(w)'
      BY <1>1, <1>2 DEF Standing, NamesFolder
<1>4. TakesUpload(w)'
      BY <1>1, <1>2 DEF TakesUpload
<1> QED BY <1>3, <1>4

LEMMA NameTakenStanding ==
    ASSUME OnlyStaleGo, IInv, Kept, NEW w \in Workers, Standing(w),
           req[w].pc \in {"lookup", "stale"}, NEW e, NameTaken(w, e)
    PROVE  Standing(w)' /\ TakesUpload(w)'
<1>1. Finish(w) \/ NextCandidate(w)
      BY DEF NameTaken, ModesOf, OnlyStaleGo
<1>2. CASE req' = [req EXCEPT ![w].pc = "lookup", ![w].n = @ + 1, ![w].victim = NULL]
      <2>1. req'[w].pc = "lookup" /\ req'[w].op = req[w].op /\ req'[w].parent = req[w].parent
            BY <1>2, RequestsAre DEF Request
      <2> QED BY <2>1, OnwardStanding DEF TakesUpload
<1> QED BY <1>1, <1>2, FinishStanding DEF NextCandidate

LEMMA AfterDeleteStanding ==
    ASSUME OnlyStaleGo, OpsOnly, IInv, Kept, NEW w \in Workers, Standing(w),
           req[w].pc \in {"select", "purge"}, AfterDelete(w)
    PROVE  Standing(w)' /\ TakesUpload(w)'
<1>1. ~Deletes(w)
      BY NoneDeletes
<1>2. req' = [req EXCEPT ![w].pc = "apply", ![w].victim = NULL,
                         ![w].why = NULL, ![w].doomed = {}]
      BY <1>1 DEF AfterDelete, Deletes
<1>3. req'[w].pc = "apply" /\ req'[w].op = req[w].op /\ req'[w].parent = req[w].parent
      BY <1>2, RequestsAre DEF Request
<1> QED BY <1>3, OnwardStanding DEF TakesUpload

(* A victim is chosen, and kept up to its deletion.                        *)
LEMMA VictimStanding ==
    ASSUME Kept, NEW w \in Workers, Standing(w), req[w].pc \in {"lookup", "stale", "select"},
           req'[w].pc \in {"stale", "select", "purge"}, req'[w].op = req[w].op,
           req'[w].parent = req[w].parent, NEW v \in minted, ~IsFolder(v),
           req'[w].victim = v, req'[w].pc = "purge" => req'[w].doomed = {v}
    PROVE  Standing(w)' /\ TakesUpload(w)'
<1>1. v \in minted' /\ ~IsFolder(v)'
      BY DEF Kept
<1>2. TakesUpload(w)'
      BY <1>1 DEF TakesUpload
<1> QED BY <1>2, OnwardStanding

LEMMA SharedStanding ==
    ASSUME OnlyStaleGo, StaleInv, Kept, NEW w \in Workers, Shared(w)
    PROVE  Standing(w)' /\ TakesUpload(w)'
<1>0. IInv /\ OpsOnly /\ Standing(w) /\ TakesUpload(w)
      BY DEF StaleInv
<1>a. PICK v : v = req[w].victim
      OBVIOUS
<1>1. CASE LookupName(w)
      <2>0. req[w].pc = "lookup"
            BY <1>1 DEF LookupName
      <2>1. CASE Goto(w, "apply")
            <3>1. req'[w].pc = "apply" /\ req'[w].op = req[w].op /\ req'[w].parent = req[w].parent
                  BY <1>0, <2>1, RequestsAre DEF Goto, Request
            <3> QED BY <1>0, <2>0, <3>1, OnwardStanding DEF TakesUpload
      <2>2. ASSUME NEW e, IsFile(e), req' = [req EXCEPT ![w].pc = "stale", ![w].victim = e]
            PROVE  Standing(w)' /\ TakesUpload(w)'
            <3>1. /\ req'[w].pc = "stale" /\ req'[w].op = req[w].op
                  /\ req'[w].parent = req[w].parent /\ req'[w].victim = e
                  BY <1>0, <2>2, RequestsAre DEF Request
            <3>2. e \in minted /\ ~IsFolder(e)
                  BY <1>0, <2>2 DEF IInv, MintedOnly, IsFile, IsFolder, Exists
            <3> QED BY <1>0, <2>0, <3>1, <3>2, VictimStanding
      <2> QED BY <1>0, <1>1, <2>0, <2>1, <2>2, NameTakenStanding DEF LookupName
<1>2. CASE CleanupStaleUploadEntry(w)
      <2>0. req[w].pc = "stale" /\ (NameTaken(w, v) \/ Destroy(w, v, "stale"))
            BY <1>a, <1>2 DEF CleanupStaleUploadEntry
      <2>1. CASE Destroy(w, v, "stale")
            <3>1. /\ req'[w].pc = "select" /\ req'[w].op = req[w].op
                  /\ req'[w].parent = req[w].parent /\ req'[w].victim = v
                  BY <1>0, <2>1, RequestsAre DEF Destroy, Request
            <3>2. v \in minted /\ ~IsFolder(v)
                  BY <1>0, <1>a, <2>0 DEF TakesUpload
            <3> QED BY <1>0, <2>0, <3>1, <3>2, VictimStanding
      <2> QED BY <1>0, <2>0, <2>1, NameTakenStanding
<1>3. CASE SelectTree(w)
      <2>0. req[w].pc = "select"
            BY <1>3 DEF SelectTree
      <2>1. PICK D : D = {e \in Subtree(v) : IsFile(e)}
            OBVIOUS
      <2>2. CASE Exists(v) /\ req' = [req EXCEPT ![w].pc = "purge", ![w].doomed = D]
            <3>1. v \in minted /\ ~IsFolder(v)
                  BY <1>0, <1>a, <2>0 DEF TakesUpload
            <3>2. IsFile(v)
                  BY <1>0, <2>2, <3>1, EntriesTyped DEF IInv, Exists, IsFile, IsFolder, Entry
            <3>3. D = {v}
                  BY <1>0, <2>1, <3>2, FileIsLeaf DEF StaleInv
            <3>4. /\ req'[w].pc = "purge" /\ req'[w].op = req[w].op /\ req'[w].doomed = D
                  /\ req'[w].parent = req[w].parent /\ req'[w].victim = v
                  BY <1>0, <1>a, <2>2, RequestsAre DEF Request
            <3> QED BY <1>0, <2>0, <3>1, <3>3, <3>4, VictimStanding
      <2> QED BY <1>0, <1>a, <1>3, <2>0, <2>1, <2>2, AfterDeleteStanding DEF SelectTree
<1>4. CASE PurgeTree(w)
      BY <1>0, <1>4, AfterDeleteStanding, FinishStanding DEF PurgeTree
<1> QED BY <1>1, <1>2, <1>3, <1>4 DEF Shared

(* Only name resolution has something to delete.                           *)
LEMMA OthersDeleteNothing ==
    ASSUME OnlyStaleGo, IInv, NEW w \in Workers,
           UploadNext(w) \/ ManageNext(w) \/ RecycleNext(w) \/ CallFails(w)
    PROVE  req'[w].pc \notin {"stale", "select", "purge"}
<1>0. req \in [Workers -> Request] /\ req[w] \in Request /\ Typed
      BY RequestsAre DEF IInv
<1>1. CASE Finish(w)
      BY <1>0, <1>1 DEF Finish, Idle
<1>2. ASSUME NEW pc, pc \notin {"stale", "select", "purge"}, Goto(w, pc)
      PROVE  req'[w].pc \notin {"stale", "select", "purge"}
      BY <1>0, <1>2 DEF Goto, Request
<1>3. CASE CallFails(w)
      BY <1>1, <1>2, <1>3 DEF CallFails
<1>4. CASE UploadNext(w)
      <2>1. CASE CreateWithFolders(w)
            <3>1. PICK p, name :
                    req' = [req EXCEPT ![w].op = "create", ![w].pc = "lookup", ![w].parent = p,
                                       ![w].name = name]
                  BY <2>1 DEF CreateWithFolders
            <3> QED BY <1>0, <3>1 DEF Request
      <2>2. CASE GetUploadURL(w)
            <3>1. PICK f : req' = [req EXCEPT ![w].op = "url", ![w].pc = "session", ![w].file = f]
                  BY <2>2 DEF GetUploadURL
            <3> QED BY <1>0, <3>1 DEF Request
      <2>4. CASE CompleteFile(w)
            <3>1. PICK u, numbers :
                    req' = [req EXCEPT ![w].op = "complete", ![w].pc = "entry", ![w].file = u,
                                       ![w].numbers = numbers]
                  BY <2>4 DEF CompleteFile
            <3> QED BY <1>0, <3>1 DEF Request
      <2>5. CASE UrlReadSession(w)
            <3>1. PICK list :
                    Finish(w) \/ req' = [req EXCEPT ![w].pc = "rows", ![w].numbers = list]
                  BY <2>5 DEF UrlReadSession
            <3> QED BY <1>0, <1>1, <3>1 DEF Request
      <2>6. CASE PrepareUpload(w)
            BY <1>0, <1>1, <2>6, PrepareUploadIs
      <2>3. CASE CompleteReadEntry(w)
            BY <1>0, <1>1, <2>3 DEF CompleteReadEntry, Request
      <2> QED BY <1>1, <1>2, <1>4, <2>1, <2>2, <2>3, <2>4, <2>5, <2>6
              DEF UploadNext, CreateFolderEntry, PersistUpload, GiveUpUpload, AbortUpload,
                  UrlEnsureParts, UrlRaisePartCount, CollectCompletedParts, CombineParts,
                  PublishFile
<1>5. CASE ManageNext(w)
      <2>1. CASE Update(w)
            <3>1. PICK f, b :
                    req' = [req EXCEPT ![w].op = "rename", ![w].pc = "lookup", ![w].file = f,
                                       ![w].parent = entries[f].parent,
                                       ![w].name = [base |-> b, tags |-> << >>],
                                       ![w].was = entries[f].name]
                  BY <2>1 DEF Update
            <3> QED BY <1>0, <3>1 DEF Request
      <2>2. CASE MoveFile(w)
            <3>1. PICK f, p :
                    req' = [req EXCEPT ![w].op = "moveFile", ![w].pc = "entry",
                                       ![w].file = f, ![w].parent = p]
                  BY <2>2 DEF MoveFile
            <3> QED BY <1>0, <3>1 DEF Request
      <2>3. CASE MoveFolder(w)
            <3>1. PICK f, p :
                    req' = [req EXCEPT ![w].op = "moveFolder", ![w].pc = "parent",
                                       ![w].file = f, ![w].parent = p]
                  BY <2>3 DEF MoveFolder
            <3> QED BY <1>0, <3>1 DEF Request
      <2> QED BY <1>1, <1>2, <1>5, <2>1, <2>2, <2>3
              DEF ManageNext, DeleteFile, OnlyStaleGo, UpdateApply, MoveFileReadEntry,
                  MoveFolderReadParent, MoveFolderCheck, MoveApply
<1>6. CASE RecycleNext(w)
      <2>1. CASE RecycleBinTrash(w)
            BY <1>0, <2>1 DEF RecycleBinTrash, Request
      <2>2. CASE RestoreReadParent(w)
            BY <1>0, <2>2 DEF RestoreReadParent, Request
      <2>3. CASE RecycleBinRestore(w)
            BY <1>0, <2>3 DEF RecycleBinRestore, Request
      <2> QED BY <1>1, <1>6, <2>1, <2>2, <2>3
              DEF RecycleNext, TrashApply, RestoreApply, RecycleBinClear, OnlyStaleGo
<1> QED BY <1>3, <1>4, <1>5, <1>6

LEMMA OperationsStanding ==
    ASSUME OnlyStaleGo, StaleInv, NEW w \in Workers,
           UploadNext(w) \/ ManageNext(w) \/ RecycleNext(w) \/ CallFails(w)
    PROVE  Standing(w)' /\ TakesUpload(w)'
<1>0. IInv
      BY DEF StaleInv
<1>1. CASE Finish(w)
      BY <1>0, <1>1, FinishStanding
<1>2. CASE Sound(w)'
      BY <1>0, <1>2, OthersDeleteNothing DEF Sound, Standing, TakesUpload
<1>3. req[w].pc \notin {"stale", "select", "purge"} => Sound(w)
      BY StandingSound DEF StaleInv
<1>4. CASE CallFails(w)
      BY <1>0, <1>1, <1>2, <1>3, <1>4, CallFailsSound DEF CallFails
<1>5. CASE UploadNext(w)
      <2>1. req[w].pc \notin {"stale", "select", "purge"}
            BY <1>5 DEF UploadNext, CreateWithFolders, CreateFolderEntry, PrepareUpload,
                        PersistUpload, AbortUpload, GetUploadURL, UrlReadSession,
                        UrlEnsureParts, UrlRaisePartCount, CompleteFile, CompleteReadEntry,
                        CollectCompletedParts, CombineParts, PublishFile, At
      <2>2. CASE CreateFolderEntry(w) \/ UrlRaisePartCount(w) \/ PublishFile(w)
            BY <1>1, <2>2 DEF CreateFolderEntry, UrlRaisePartCount, PublishFile
      <2> QED BY <1>0, <1>2, <1>3, <1>5, <2>1, <2>2, UploadReadsSound, PrepareUploadSound,
                 PersistUploadSound
              DEF UploadNext
<1>6. CASE ManageNext(w)
      <2>1. req[w].pc \notin {"stale", "select", "purge"}
            BY <1>6 DEF ManageNext, DeleteFile, Update, UpdateApply, MoveFile,
                        MoveFileReadEntry, MoveFolder, MoveFolderReadParent, MoveFolderCheck,
                        MoveApply, At
      <2>2. CASE UpdateApply(w) \/ MoveApply(w)
            BY <1>1, <2>2 DEF UpdateApply, MoveApply
      <2> QED BY <1>0, <1>2, <1>3, <1>6, <2>1, <2>2, ManageReadsSound DEF ManageNext
<1>7. CASE RecycleNext(w)
      <2>1. req[w].pc \notin {"stale", "select", "purge"}
            BY <1>7 DEF RecycleNext, RecycleBinTrash, TrashApply, RecycleBinRestore,
                        RestoreReadParent, RestoreApply, RecycleBinClear, At
      <2>2. CASE TrashApply(w) \/ RestoreApply(w)
            BY <1>1, <2>2 DEF TrashApply, RestoreApply
      <2> QED BY <1>0, <1>2, <1>3, <1>7, <2>1, <2>2, RecycleReadsSound DEF RecycleNext
<1> QED BY <1>4, <1>5, <1>6, <1>7

(* A step of a request leaves the others where they are.                   *)
LEMMA OthersWait ==
    ASSUME IInv, NEW w \in Workers,
           Shared(w) \/ UploadNext(w) \/ ManageNext(w) \/ RecycleNext(w) \/ CallFails(w)
    PROVE  \A v \in Workers \ {w} : req'[v] = req[v]
<1> DEFINE Goal == \A v \in Workers \ {w} : req'[v] = req[v]
<1>0. req \in [Workers -> Request] /\ Typed
      BY RequestsAre DEF IInv
<1>1. CASE Finish(w) \/ \E pc : Goto(w, pc)
      BY <1>0, <1>1 DEF Finish, Goto
<1>2. CASE Shared(w)
      BY <1>2, SharedAway DEF Away, Advances
<1>3. CASE CallFails(w)
      BY <1>1, <1>3 DEF CallFails
<1>4. CASE UploadNext(w)
      <2>1. CASE CreateFolderEntry(w) \/ PersistUpload(w) \/ UrlRaisePartCount(w) \/ PublishFile(w)
            BY <1>1, <2>1
               DEF CreateFolderEntry, PersistUpload, GiveUpUpload, UrlRaisePartCount, PublishFile
      <2>2. CASE PrepareUpload(w)
            BY <1>0, <1>1, <2>2, PrepareUploadIs
      <2> QED BY <1>4, <2>1, <2>2, UploadReadsAway DEF UploadNext, Away, Advances
<1>5. CASE ManageNext(w) \/ RecycleNext(w)
      <2>1. CASE UpdateApply(w) \/ MoveApply(w) \/ TrashApply(w) \/ RestoreApply(w)
            BY <1>1, <2>1 DEF UpdateApply, MoveApply, TrashApply, RestoreApply
      <2> QED BY <1>5, <2>1, ManageReadsAway, RecycleReadsAway
              DEF ManageNext, RecycleNext, Away, Advances
<1> QED BY <1>2, <1>3, <1>4, <1>5

(* Every step is one of a request, beside which the others wait, or leaves *)
(* the requests alone, or ends them all.                                   *)
LEMMA StepStale ==
    ASSUME OnlyStaleGo, StaleInv, [Next]_vars
    PROVE  StaleInv'
<1>0. IInv /\ IInv' /\ Kept /\ FileHasSession' /\ NoOrphan'
      BY StepSafe, StepKeeps, TablesStand DEF StaleInv
<1>1. OpsOnly'
      <2>1. CASE \E w \in Workers : Advances(w)
            BY <2>1 DEF StaleInv, OpsOnly, Advances
      <2>2. CASE UNCHANGED req \/ \A w \in Workers : req'[w] = Idle
            BY <2>2 DEF StaleInv, OpsOnly, Idle
      <2> QED BY <1>0, <2>1, <2>2, StepTables
<1>2. ASSUME NEW w \in Workers
      PROVE  Standing(w)' /\ TakesUpload(w)'
      <2>1. CASE req'[w] = req[w]
            BY <1>0, <2>1, OthersStanding DEF StaleInv
      <2>2. CASE req'[w] = Idle
            BY <2>2, IdleStanding
      <2>3. CASE Shared(w) \/ UploadNext(w) \/ ManageNext(w) \/ RecycleNext(w) \/ CallFails(w)
            BY <1>0, <2>3, SharedStanding, OperationsStanding
      <2>4. ASSUME NEW v \in Workers, v # w,
                   Shared(v) \/ UploadNext(v) \/ ManageNext(v) \/ RecycleNext(v) \/ CallFails(v)
            PROVE  req'[w] = req[w]
            BY <1>0, <2>4, OthersWait
      <2>5. ASSUME NEW p \in postings, PostComplete(p)
            PROVE  req'[w] = req[w]
            BY <1>0, <2>5, PostCompleteShape
      <2>6. CASE UNCHANGED vars \/ Client \/ Crash \/ \E f \in FileIDs : BackgroundDelete(f)
            BY <2>1, <2>2, <2>6 DEF vars, Client, Crash, BackgroundDelete
      <2> QED BY <2>1, <2>3, <2>4, <2>5, <2>6 DEF Next
<1> QED BY <1>0, <1>1, <1>2 DEF StaleInv

LEMMA InitStale ==
    ASSUME Init
    PROVE  StaleInv
<1>1. /\ IInv /\ FileHasSession /\ NoOrphan
      /\ \A w \in Workers : Sound(w) /\ req[w] = Idle
      BY InitSingle DEF SingleInv, Init, ServiceInit
<1>2. Idle.op = "none" /\ Idle.pc = "idle"
      BY DEF Idle
<1> QED BY <1>1, <1>2 DEF StaleInv, OpsOnly, Sound, Standing, TakesUpload

LEMMA StaleHolds ==
    ASSUME OnlyStaleGo
    PROVE  Spec => []StaleInv
BY InitStale, StepStale, PTL DEF Spec

-----------------------------------------------------------------------------
(* However many requests create, complete, rename, move, trash and restore *)
(* at the same time and delete each other's stale uploads on the way, with *)
(* failing calls and crashes: as long as no client deletes or overwrites,  *)
(* the row of a file and its session come and go together.                 *)
THEOREM StaleCleanupKeepsSessions ==
    ASSUME OnlyStaleGo
    PROVE  Spec => []FileHasSession
<1>1. StaleInv => FileHasSession
      BY DEF StaleInv
<1> QED BY <1>1, StaleHolds, PTL

(* Under the same condition no entry ends in a folder that is not there,   *)
(* although each request looked at its folder several calls before it      *)
(* writes.                                                                 *)
THEOREM StaleCleanupOrphansNothing ==
    ASSUME OnlyStaleGo
    PROVE  Spec => []NoOrphan
<1>1. StaleInv => NoOrphan
      BY DEF StaleInv
<1> QED BY <1>1, StaleHolds, PTL

(* Under the same condition, and as long as no call fails, the object of   *)
(* every file that goes is handed to scheduleObjectDeletion, also when two *)
(* requests clean up one upload.                                           *)
THEOREM StaleCleanupSchedules ==
    ASSUME OnlyStaleGo, ~Faults
    PROVE  Spec => DeletionIsScheduled
<1>1. ASSUME StaleInv, [Next]_vars, NEW f \in FileIDs, IsFile(f), f \notin DOMAIN entries'
      PROVE  f \in deletions'
      <2>1. PICK w \in Workers : PurgeTree(w) /\ f \in Subtree(req[w].victim)
            BY <1>1, LostIsPurged DEF IsFile, Exists, StaleInv
      <2>2. f = req[w].victim
            BY <1>1, <2>1, PurgeTakesUpload
      <2>3. f \in req[w].doomed
            BY <1>1, <2>1, <2>2 DEF StaleInv, TakesUpload, PurgeTree
      <2> QED BY <2>1, <2>3 DEF PurgeTree
<1>2. StaleInv /\ [Next]_vars =>
        [\A f \in FileIDs : IsFile(f) /\ f \notin DOMAIN entries' => f \in deletions']_vars
      BY <1>1
<1> QED BY <1>2, StaleHolds, PTL DEF Spec, DeletionIsScheduled

(* Under the same condition the drive does what Library promises.  With    *)
(* NothingMovedImplements: it takes a move and a deletion by clients at    *)
(* the same time to break that promise.                                    *)
THEOREM StaleCleanupImplements ==
    ASSUME OnlyStaleGo
    PROVE  Spec => ImplementsLibrary
<1>1. StaleInv => Selected
      BY DEF StaleInv, TakesUpload, Selected, StillInTree, Subtree, Exists
<1> QED BY <1>1, StaleHolds, Refinement, PTL
=============================================================================
