------------------------------- MODULE MCDrive -------------------------------
(***************************************************************************)
(* Values of the constants of Drive for TLC.                               *)
(***************************************************************************)
EXTENDS Drive, TLC

CONSTANTS f1, f2, f3, a, b, w1, w2

MCNoSeed == Empty

(* Two folders next to each other in the root.                             *)
MCTwoFolders ==
    f1 :> FolderRow(Root, [base |-> a, tags |-> << >>]) @@
    f2 :> FolderRow(Root, [base |-> b, tags |-> << >>])

(* A size for each kind of upload, and one that is refused.                *)
MCSizes == {-1, 1, 2}
MCPartLists == {{}, {0}, {2}, {1, 2}}
MCMultipart == {2}
MCFirstOrSecond == {{}, {2}}
MCOnePart == {{}}
MCSinglePutMaxSize == 1

Symmetry == Permutations({f1, f2, f3}) \cup Permutations({a, b}) \cup Permutations({w1, w2})
=============================================================================
