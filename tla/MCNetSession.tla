---------------------------- MODULE MCNetSession ----------------------------
(* NetSession with two workers, one content thread and the accept thread.   *)
EXTENDS NetSession, TLC

Symmetry == Permutations(Workers) \cup Permutations(Packets)
=============================================================================
