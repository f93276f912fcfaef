----------------------------- MODULE Register -----------------------------
(***************************************************************************)
(* What the gateway's state file promises: one durable register.  A value  *)
(* is a set of updates.  may holds the values that a restart could find,   *)
(* done the updates that were answered with success, restoring the value   *)
(* an operator's restore is about to install.                              *)
(*                                                                         *)
(* Whatever fails, a restart finds one whole value somebody wrote, and it  *)
(* holds every update in done.  Only an operator's restore takes updates   *)
(* back, and only a restore makes it possible that the file cannot be      *)
(* read: no other step adds Torn to may.                                   *)
(***************************************************************************)
CONSTANTS Updates, NoFile, Torn

VARIABLES may, done, restoring

Init == may = {NoFile} /\ done = {} /\ restoring = {}

\* A value with every acknowledged update in it is on its way to the disk.
Propose ==
  /\ restoring = {}
  /\ \E v \in SUBSET Updates : done \subseteq v /\ v \in may' /\ may' \subseteq may \cup {v}
  /\ UNCHANGED <<done, restoring>>

\* The write is answered: from here on there is nothing else to find.
Acknowledge ==
  /\ restoring = {}
  /\ \E v \in SUBSET Updates :
       v \in may /\ may' = {v} /\ done \subseteq done' /\ done' \subseteq v
  /\ UNCHANGED restoring

\* A power failure decides among the candidates.
Settle == (\E v \in may : may' = {v}) /\ restoring' = {} /\ UNCHANGED done

\* An operator's restore is ready to install a backup, or is given up.
Prepare ==
  /\ restoring' = {} \/ \E v \in SUBSET Updates : restoring' = {v}
  /\ UNCHANGED <<may, done>>

\* It installs it, without a sync.
Restore ==
  /\ \E v \in restoring :
       /\ v \in may' /\ may' \subseteq may \cup {v, Torn}
       /\ done' = done \cap v
  /\ restoring' = {}

Next == Propose \/ Acknowledge \/ Settle \/ Prepare \/ Restore

Spec == Init /\ [][Next]_<<may, done, restoring>>
=============================================================================
