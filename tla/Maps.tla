-------------------------------- MODULE Maps --------------------------------
(***************************************************************************)
(* Map (src/gen/map.hpp): a vector of entries.  insert appends, whether    *)
(* the key is there or not; exists, operator[] and rmkey take the first    *)
(* entry with the key.                                                     *)
(***************************************************************************)
EXTENDS Integers, Sequences, SequencesExt

Insert(map, k, v) == Append(map, [k |-> k, v |-> v])
IndexIn(map, k) == SelectInSeq(map, LAMBDA e : e.k = k)
Exists(map, k) == IndexIn(map, k) # 0
Rmkey(map, k) == LET i == IndexIn(map, k) IN IF i = 0 THEN map ELSE RemoveAt(map, i)
=============================================================================
