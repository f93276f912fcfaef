--------------------------- MODULE MCIdentities ---------------------------
(* Names, keys and connections are interchangeable. *)
EXTENDS Identities, TLC

Symmetry ==
  Permutations(Persons) \cup Permutations(Keys) \cup Permutations(Logins) \cup Permutations(Machines)
=============================================================================
