---------------------------- MODULE MCPermCache ----------------------------
(* Small instances of PermCache for TLC.                                   *)
EXTENDS PermCache, TLC

Symmetric == Permutations(Users) \union Permutations(Perms)
             \union Permutations(Requests) \union Permutations(Admins)
=============================================================================
