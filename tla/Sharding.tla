------------------------------ MODULE Sharding ------------------------------
(***************************************************************************)
(* How load_checkpoint(is_distributed=True) shares n trajectories out among  *)
(* w ranks: rank r takes the positions PartStart+1 .. PartEnd of the list.   *)
(***************************************************************************)
EXTENDS Integers, Sequences

MinOf(a, b) == IF a <= b THEN a ELSE b

\* start_idx
PartStart(n, r, w) == r * (n \div w) + MinOf(r, n % w)

\* end_idx: the first n % w ranks take one trajectory more
PartEnd(n, r, w) == PartStart(n, r, w) + (n \div w) + (IF r < n % w THEN 1 ELSE 0)

\* full_trajectory_id_list[start_idx:end_idx]
Part(s, r, w) == SubSeq(s, PartStart(Len(s), r, w) + 1, PartEnd(Len(s), r, w))
=============================================================================
