-------------------------------- MODULE Shelf --------------------------------
(***************************************************************************)
(* What the file application promises about files and the links users have *)
(* to them, without requests, chunks, caches or records.  A file is kept   *)
(* once and removed once; the catalogue takes in only a file that is kept, *)
(* and never renames one.  A link is made once, hidden and shown again,    *)
(* and goes for good; it always leads to the same file.                    *)
(***************************************************************************)
CONSTANTS
    Files,      \* files there can ever be
    Links,      \* links there can ever be
    Labels      \* what the catalogue says of a file

VARIABLES
    files,      \* the files there have been
    kept,       \* those that are kept
    catalogue,  \* file -> its label
    links,      \* the links there have been
    target,     \* link there is -> its file
    shown       \* the links users see, the others being hidden

shelfVars == <<files, kept, catalogue, links, target, shown>>

Init ==
    /\ files = {} /\ kept = {} /\ DOMAIN catalogue = {}
    /\ links = {} /\ shown = {} /\ DOMAIN target = {}

Keep(f) ==
    /\ f \notin files
    /\ files' = files \cup {f}
    /\ kept' = kept \cup {f}
    /\ UNCHANGED <<catalogue, links, target, shown>>

Remove(f) ==
    /\ f \in kept
    /\ kept' = kept \ {f}
    /\ UNCHANGED <<files, catalogue, links, target, shown>>

Enter(f, label) ==
    /\ f \in kept \ DOMAIN catalogue
    /\ catalogue' = [g \in DOMAIN catalogue \cup {f} |-> IF g = f THEN label ELSE catalogue[g]]
    /\ UNCHANGED <<files, kept, links, target, shown>>

Strike(f) ==
    /\ f \in DOMAIN catalogue
    /\ catalogue' = [g \in DOMAIN catalogue \ {f} |-> catalogue[g]]
    /\ UNCHANGED <<files, kept, links, target, shown>>

Link(l, f) ==
    /\ l \notin links
    /\ f \in files
    /\ links' = links \cup {l}
    /\ target' = [k \in DOMAIN target \cup {l} |-> IF k = l THEN f ELSE target[k]]
    /\ shown' = shown \cup {l}
    /\ UNCHANGED <<files, kept, catalogue>>

Hide(l) ==
    /\ l \in shown
    /\ shown' = shown \ {l}
    /\ UNCHANGED <<files, kept, catalogue, links, target>>

Show(l) ==
    /\ l \in DOMAIN target \ shown
    /\ shown' = shown \cup {l}
    /\ UNCHANGED <<files, kept, catalogue, links, target>>

Erase(l) ==
    /\ l \in DOMAIN target
    /\ target' = [k \in DOMAIN target \ {l} |-> target[k]]
    /\ shown' = shown \ {l}
    /\ UNCHANGED <<files, kept, catalogue, links>>

Next ==
    \/ \E f \in Files : Keep(f) \/ Remove(f) \/ Strike(f) \/ \E c \in Labels : Enter(f, c)
    \/ \E l \in Links : Hide(l) \/ Show(l) \/ Erase(l) \/ \E f \in Files : Link(l, f)

Spec == Init /\ [][Next]_shelfVars

-----------------------------------------------------------------------------
(* What a careful shelf does besides: a new link leads to a file in the    *)
(* catalogue, and a file is removed only when no link to it is shown.      *)
Careful ==
    \/ \E f \in Files : Keep(f) \/ Strike(f) \/ \E c \in Labels : Enter(f, c)
    \/ \E f \in Files : Remove(f) /\ \A l \in shown : target[l] # f
    \/ \E l \in Links : Hide(l) \/ Show(l) \/ Erase(l)
    \/ \E l \in Links, f \in DOMAIN catalogue : Link(l, f)

CarefulSpec == Init /\ [][Careful]_shelfVars
=============================================================================
