----------------------------- MODULE MCZoneLife -----------------------------
(* ZoneLife with two workers, the timer, a pinned thread and one or two     *)
(* content threads.                                                         *)
EXTENDS ZoneLife, TLC

Symmetry == Permutations(Workers) \cup Permutations(Users)
=============================================================================
