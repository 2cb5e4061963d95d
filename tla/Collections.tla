---------------------------- MODULE Collections ----------------------------
(***************************************************************************)
(* The maps and iterators the code keeps its graph with.  They are what    *)
(* the library's :>, @@ and SelectSeq would say, written out so that the   *)
(* proof modules can reason about them.                                    *)
(***************************************************************************)
EXTENDS Naturals, Sequences

(* HashMap::insert, which replaces what the key had before.                *)
Put(map, key, value) ==
    [k \in DOMAIN map \cup {key} |-> IF k = key THEN value ELSE map[k]]

(* The elements at some indices, in their order.                           *)
Kept(seq, indices) ==
    LET upto[i \in 0..Len(seq)] ==
          IF i = 0 THEN <<>>
          ELSE IF i \in indices THEN Append(upto[i - 1], seq[i]) ELSE upto[i - 1]
    IN  upto[Len(seq)]

(* Iterator::filter.                                                       *)
Filter(seq, Test(_)) == Kept(seq, {i \in DOMAIN seq : Test(seq[i])})
=============================================================================
