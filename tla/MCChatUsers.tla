----------------------------- MODULE MCChatUsers -----------------------------
(* ChatUsers with two workers, the accept thread and the timeout thread.    *)
EXTENDS ChatUsers, TLC

Symmetry == Permutations(Workers) \cup Permutations(Users) \cup Permutations(Accounts)
=============================================================================
