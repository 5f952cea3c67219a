----------------------------- MODULE MCDomains -----------------------------
(* Small instances of Domains for TLC.                                     *)
EXTENDS Domains, TLC

Symmetric == Permutations(Users) \union Permutations(Handlers)
=============================================================================
