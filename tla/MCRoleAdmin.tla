---------------------------- MODULE MCRoleAdmin ----------------------------
(* Small instances of RoleAdmin for TLC.                                   *)
EXTENDS RoleAdmin, TLC

Symmetric == Permutations(Users) \union Permutations(Handlers)
=============================================================================
