------------------------------ MODULE MCFileApp ------------------------------
(***************************************************************************)
(* Values of the constants of FileApp for TLC.                             *)
(***************************************************************************)
EXTENDS FileApp, TLC

CONSTANTS w1, w2, user, content, MaxFile, MaxUserFile, MaxRecycled, MaxTask, MaxDir

MCLimit ==
    [file |-> MaxFile, userFile |-> MaxUserFile, recycled |-> MaxRecycled,
     task |-> MaxTask, dir |-> MaxDir]

Symmetry == Permutations({w1, w2})
=============================================================================
