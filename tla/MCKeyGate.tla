---------------------------- MODULE MCKeyGate -----------------------------
(* KeyGate on two names, two keys, two command logins and one session. *)
EXTENDS KeyGate, TLC

Symmetry == Permutations(Commands) \cup Permutations(Names) \cup Permutations(Keys)
=============================================================================
