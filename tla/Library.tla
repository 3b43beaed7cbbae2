------------------------------- MODULE Library -------------------------------
(***************************************************************************)
(* What the upload service promises about the entries of a drive, without  *)
(* tables, sessions, objects or requests.  An entry lives once: it is      *)
(* fresh, then reserved by the request that creates it, then filed in a    *)
(* place of its own, then gone.  A filed entry may be invisible at first;  *)
(* once it is visible it stays so until it is gone.                        *)
(***************************************************************************)
CONSTANTS
    IDs,        \* entries there can ever be
    Places,     \* where an entry can be filed
    InitPlace   \* the visible entries of the initial state and their places

VARIABLES
    life,       \* entry -> fresh, reserved, filed or gone
    place,      \* filed entry -> its place
    visible     \* the filed entries that listings show

libVars == <<life, place, visible>>

Free(p, e) == \A x \in DOMAIN place \ {e} : place[x] # p

SetLife(S, state) == life' = [e \in IDs |-> IF e \in S THEN state ELSE life[e]]

(* The entry is put in a place that no other entry has.                    *)
TakePlace(e) ==
    \E p \in {place'[e]} \cap Places :
        /\ Free(p, e)
        /\ place' = [x \in DOMAIN place \cup {e} |-> IF x = e THEN p ELSE place[x]]

Init ==
    /\ place = InitPlace
    /\ visible = DOMAIN InitPlace
    /\ life = [e \in IDs |-> IF e \in DOMAIN InitPlace THEN "filed" ELSE "fresh"]

Reserve(e) ==
    /\ life[e] = "fresh"
    /\ SetLife({e}, "reserved")
    /\ UNCHANGED <<place, visible>>

(* A creation that fails, or several that a crash ends.                    *)
Forget(S) ==
    /\ \A e \in S : life[e] \in {"fresh", "reserved"}
    /\ SetLife(S, "gone")
    /\ UNCHANGED <<place, visible>>

(* A file is filed invisible, a folder visible.                            *)
File(e) ==
    /\ life[e] \in {"fresh", "reserved"}
    /\ SetLife({e}, "filed")
    /\ TakePlace(e)
    /\ visible' \in {visible, visible \cup {e}}

Publish(e) ==
    /\ life[e] = "filed"
    /\ visible' = visible \cup {e}
    /\ UNCHANGED <<life, place>>

Refile(e) ==
    /\ life[e] = "filed"
    /\ UNCHANGED <<life, visible>>
    /\ TakePlace(e)

Remove(S) ==
    /\ \A e \in S : life[e] = "filed"
    /\ SetLife(S, "gone")
    /\ place' = [e \in DOMAIN place \ S |-> place[e]]
    /\ visible' = visible \ S

Next ==
    \/ \E e \in IDs : Reserve(e) \/ File(e) \/ Publish(e) \/ Refile(e)
    \/ \E S \in SUBSET IDs : Forget(S) \/ Remove(S)

Spec == Init /\ [][Next]_libVars
=============================================================================
