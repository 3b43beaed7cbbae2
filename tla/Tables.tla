-------------------------------- MODULE Tables --------------------------------
(***************************************************************************)
(* Tables and maps: a partial function from a key to a row.                *)
(***************************************************************************)
Put(table, key, row) ==
    [k \in DOMAIN table \cup {key} |-> IF k = key THEN row ELSE table[k]]

Drop(table, keys) == [k \in DOMAIN table \ keys |-> table[k]]

Empty == [k \in {} |-> k]

IsTable(table, keys, rows) == DOMAIN table \subseteq keys /\ table \in [DOMAIN table -> rows]
=============================================================================
