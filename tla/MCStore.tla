------------------------------ MODULE MCStore ------------------------------
(***************************************************************************)
(* The gateway's files under crashes: the state with its journal, backups  *)
(* and restores, or the recordings.  The two share no file, so a behaviour *)
(* is of one of them.                                                      *)
(***************************************************************************)
EXTENDS StateStore, Recordings, TLC

VARIABLE which  \* whose behaviour it is

storeVars == <<which, vars, recVars>>

MCInit == Init /\ RecordingsInit /\ which \in {"state", "recordings"}

MCNext ==
  \/ which = "state" /\ Next /\ UNCHANGED <<which, recVars>>
  \/ which = "recordings" /\ RecordingsNext /\ UNCHANGED <<which, vars>>

MCSpec == MCInit /\ [][MCNext]_storeVars

Symmetry == Permutations(Recs)
=============================================================================
