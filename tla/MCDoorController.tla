-------------------------- MODULE MCDoorController --------------------------
(***************************************************************************)
(* Two registrations share one key file; the first has two connections     *)
(* over time, so that a controller whose teardown failed can meet its      *)
(* successor.                                                              *)
(***************************************************************************)
EXTENDS DoorController

\* The connections of registration "a", and the one of registration "b".
MCCtls == {"a1", "a2", "b1"}
MCOwners == {"a", "b"}
MCOwnerOf(c) == IF c = "b1" THEN "b" ELSE "a"
=============================================================================
