----------------------------- MODULE DoorProofs -----------------------------
(***************************************************************************)
(* Proofs about the door automaton, for every set of door ids and every    *)
(* bound on the counters, and about the connection that drives it: the     *)
(* signer callers are given is the open door's, and the machine never has  *)
(* two opens before it, for any number of callers, reconnects, retired     *)
(* opens and faults of the machine, whatever its answers are.  Then what   *)
(* needs a hypothesis: the file never has a line the machine forgot beside *)
(* the one it remembers (a hasty caller apart), and every reservation and  *)
(* session the automaton counts is somebody's (a fault apart).             *)
(***************************************************************************)
EXTENDS MachineConn, FiniteSetTheorems, TLAPS

-----------------------------------------------------------------------------
(* The automaton (DoorMachine). *)

(* Boolean flags and the rest of the state are typed separately: the former *)
(* are Zenon's business, the latter the SMT solver's.                       *)
FlagsOK == online \in BOOLEAN /\ reconcile \in BOOLEAN /\ err \in BOOLEAN
DataOK ==
  /\ state \in States
  /\ reservations \in Nat
  /\ sessions \in Nat
  /\ door \in Doors
  /\ closeTimeouts \in {0, 1}
  /\ closingOp \in {"close", "sanitize"}
  /\ closingReason \in Reasons
  /\ cmd \in Cmds
  /\ issued \subseteq DoorIDs

DoorSafe ==
  /\ KeyOnlyForOwnDoor
  /\ OpenDoorIsUsed
  /\ NoDoorWhileReconciling
  /\ ClosingIsAddressable

DoorParts == DataOK /\ DoorSafe

LEMMA Parts == DoorInv <=> FlagsOK /\ DoorParts
BY DEF DoorInv, FlagsOK, DoorParts, DoorSafe, DataOK, TypeOK

LEMMA DoorTypes ==
  /\ NoDoor \in Doors
  /\ \A d \in DoorIDs : OwnDoor(d) \in Doors /\ FoundDoor(d) \in Doors
BY DEF NoDoor, OwnDoor, FoundDoor, Doors

USE DEF NoCmd, Cmd, counters, flags, closingCtx, Quiet
USE IDAssumption

LEMMA InitEstablishes == Init => DoorInv
<1>1. Init => FlagsOK
  BY DEF Init, FlagsOK
<1>2. Init => DoorParts
  BY DoorTypes DEF NoDoor, Init, DoorParts, DoorSafe, DataOK, KeyOnlyForOwnDoor, OpenDoorIsUsed,
     NoDoorWhileReconciling, ClosingIsAddressable, States, Cmds, Ops, AnyID, Reasons
<1> QED BY <1>1, <1>2, Parts

LEMMA ClosedStatusStep ==
  ASSUME FlagsOK, DoorParts, Generated,
         state = "closed", NEW in \in Inputs, closedStatus(in)
  PROVE  FlagsOK' /\ DoorParts'
<1> USE DEF closedStatus, cleanUp, close, sanitize, validDoorID
<1>1. FlagsOK'
  BY DEF FlagsOK
<1>2. DataOK'
  BY DoorTypes DEF DoorParts, DataOK, States, Cmds, Ops, AnyID, Reasons,
     Generated, Inputs, Doors, DoorSafe, KeyOnlyForOwnDoor
<1>3. DoorSafe'
  BY DEF DoorParts, DataOK, DoorSafe, KeyOnlyForOwnDoor, OpenDoorIsUsed,
     NoDoorWhileReconciling, ClosingIsAddressable, Generated, NoDoor,
     FoundDoor
<1> QED BY <1>1, <1>2, <1>3 DEF DoorParts

LEMMA ClosedReserveStep ==
  ASSUME FlagsOK, DoorParts, Generated,
         state = "closed", NEW d \in DoorIDs, closedReserve(d)
  PROVE  FlagsOK' /\ DoorParts'
<1> USE DEF closedReserve, startOpen
<1>1. FlagsOK'
  BY DEF FlagsOK
<1>2. DataOK'
  BY DoorTypes DEF DoorParts, DataOK, States, Cmds, Ops, AnyID, Reasons,
     Generated
<1>3. DoorSafe'
  BY DEF DoorParts, DataOK, DoorSafe, KeyOnlyForOwnDoor, OpenDoorIsUsed,
     NoDoorWhileReconciling, ClosingIsAddressable, Generated, NoDoor,
     OwnDoor
<1> QED BY <1>1, <1>2, <1>3 DEF DoorParts

LEMMA WaitingCancelStep ==
  ASSUME FlagsOK, DoorParts, Generated,
         state # "open", waitingCancel
  PROVE  FlagsOK' /\ DoorParts'
<1> USE DEF waitingCancel, protocolErr, automaton
<1>1. FlagsOK'
  BY DEF FlagsOK
<1>2. DataOK'
  BY DoorTypes DEF DoorParts, DataOK, States, Cmds, Ops, AnyID, Reasons,
     Generated
<1>3. DoorSafe'
  BY DEF DoorParts, DataOK, DoorSafe, KeyOnlyForOwnDoor, OpenDoorIsUsed,
     NoDoorWhileReconciling, ClosingIsAddressable, Generated, NoDoor
<1> QED BY <1>1, <1>2, <1>3 DEF DoorParts

LEMMA ClosedTimeoutStep ==
  ASSUME FlagsOK, DoorParts, Generated,
         state = "closed", closedTimeout
  PROVE  FlagsOK' /\ DoorParts'
<1> USE DEF closedTimeout, status
<1>1. FlagsOK'
  BY DEF FlagsOK
<1>2. DataOK'
  BY DoorTypes DEF DoorParts, DataOK, States, Cmds, Ops, AnyID, Reasons,
     Generated
<1>3. DoorSafe'
  BY DEF DoorParts, DataOK, DoorSafe, KeyOnlyForOwnDoor, OpenDoorIsUsed,
     NoDoorWhileReconciling, ClosingIsAddressable, Generated, NoDoor
<1> QED BY <1>1, <1>2, <1>3 DEF DoorParts

LEMMA ClosedLateStep ==
  ASSUME FlagsOK, DoorParts, Generated,
         state = "closed", NEW in \in Inputs, closedLate(in)
  PROVE  FlagsOK' /\ DoorParts'
<1> USE DEF closedLate, cleanUp, close, sanitize, validDoorID, Ignore,
        automaton
<1>1. FlagsOK'
  BY DEF FlagsOK
<1>2. DataOK'
  BY DoorTypes DEF DoorParts, DataOK, States, Cmds, Ops, AnyID, Reasons,
     Generated, Inputs, Doors, DoorSafe, KeyOnlyForOwnDoor
<1>3. DoorSafe'
  BY DEF DoorParts, DataOK, DoorSafe, KeyOnlyForOwnDoor, OpenDoorIsUsed,
     NoDoorWhileReconciling, ClosingIsAddressable, Generated, NoDoor,
     FoundDoor
<1> QED BY <1>1, <1>2, <1>3 DEF DoorParts

LEMMA WaitingReserveStep ==
  ASSUME FlagsOK, DoorParts, Generated,
         state # "closed", waitingReserve
  PROVE  FlagsOK' /\ DoorParts'
<1> USE DEF waitingReserve
<1>1. FlagsOK'
  BY DEF FlagsOK
<1>2. DataOK'
  BY DoorTypes DEF DoorParts, DataOK, States, Cmds, Ops, AnyID, Reasons,
     Generated
<1>3. DoorSafe'
  BY DEF DoorParts, DataOK, DoorSafe, KeyOnlyForOwnDoor, OpenDoorIsUsed,
     NoDoorWhileReconciling, ClosingIsAddressable, Generated, NoDoor
<1> QED BY <1>1, <1>2, <1>3 DEF DoorParts

LEMMA OpeningSuccessStep ==
  ASSUME FlagsOK, DoorParts, Generated,
         state = "opening", NEW in \in Inputs, openingSuccess(in)
  PROVE  FlagsOK' /\ DoorParts'
<1> USE DEF openingSuccess, protocolErr, automaton, close
<1>1. FlagsOK'
  BY DEF FlagsOK
<1>2. DataOK'
  BY DoorTypes DEF DoorParts, DataOK, States, Cmds, Ops, AnyID, Reasons,
     Generated, Inputs, Doors, DoorSafe, KeyOnlyForOwnDoor
<1>3. DoorSafe'
  BY DEF DoorParts, DataOK, DoorSafe, KeyOnlyForOwnDoor, OpenDoorIsUsed,
     NoDoorWhileReconciling, ClosingIsAddressable, Generated, NoDoor, Doors
<1> QED BY <1>1, <1>2, <1>3 DEF DoorParts

LEMMA OpeningFailureStep ==
  ASSUME FlagsOK, DoorParts, Generated,
         state = "opening", openingFailure
  PROVE  FlagsOK' /\ DoorParts'
<1> USE DEF openingFailure, forgetDoor
<1>1. FlagsOK'
  BY DEF FlagsOK
<1>2. DataOK'
  BY DoorTypes DEF DoorParts, DataOK, States, Cmds, Ops, AnyID, Reasons,
     Generated
<1>3. DoorSafe'
  BY DEF DoorParts, DataOK, DoorSafe, KeyOnlyForOwnDoor, OpenDoorIsUsed,
     NoDoorWhileReconciling, ClosingIsAddressable, Generated, NoDoor
<1> QED BY <1>1, <1>2, <1>3 DEF DoorParts

LEMMA OpeningTimeoutStep ==
  ASSUME FlagsOK, DoorParts, Generated,
         state = "opening", openingTimeout
  PROVE  FlagsOK' /\ DoorParts'
<1> USE DEF openingTimeout, forgetDoor, status
<1>1. FlagsOK'
  BY DEF FlagsOK
<1>2. DataOK'
  BY DoorTypes DEF DoorParts, DataOK, States, Cmds, Ops, AnyID, Reasons,
     Generated
<1>3. DoorSafe'
  BY DEF DoorParts, DataOK, DoorSafe, KeyOnlyForOwnDoor, OpenDoorIsUsed,
     NoDoorWhileReconciling, ClosingIsAddressable, Generated, NoDoor
<1> QED BY <1>1, <1>2, <1>3 DEF DoorParts

LEMMA OpenStatusStep ==
  ASSUME FlagsOK, DoorParts, Generated,
         state = "open", NEW in \in Inputs, NEW d \in DoorIDs, openStatus(in, d)
  PROVE  FlagsOK' /\ DoorParts'
<1> USE DEF openStatus, cleanUp, close, sanitize, validDoorID, startOpen,
        Ignore, automaton
<1>1. FlagsOK'
  BY DEF FlagsOK
<1>2. DataOK'
  BY DoorTypes DEF DoorParts, DataOK, States, Cmds, Ops, AnyID, Reasons,
     Generated, Inputs, Doors, DoorSafe, KeyOnlyForOwnDoor
<1>3. DoorSafe'
  BY DEF DoorParts, DataOK, DoorSafe, KeyOnlyForOwnDoor, OpenDoorIsUsed,
     NoDoorWhileReconciling, ClosingIsAddressable, Generated, NoDoor,
     FoundDoor, OwnDoor
<1> QED BY <1>1, <1>2, <1>3 DEF DoorParts

LEMMA NestedSuccessStep ==
  ASSUME FlagsOK, DoorParts, Generated,
         state = "open", nestedSuccess
  PROVE  FlagsOK' /\ DoorParts'
<1> USE DEF nestedSuccess, protocolErr, automaton
<1>1. FlagsOK'
  BY DEF FlagsOK
<1>2. DataOK'
  BY DoorTypes DEF DoorParts, DataOK, States, Cmds, Ops, AnyID, Reasons,
     Generated
<1>3. DoorSafe'
  BY DEF DoorParts, DataOK, DoorSafe, KeyOnlyForOwnDoor, OpenDoorIsUsed,
     NoDoorWhileReconciling, ClosingIsAddressable, Generated, NoDoor
<1> QED BY <1>1, <1>2, <1>3 DEF DoorParts

LEMMA NestedFailureStep ==
  ASSUME FlagsOK, DoorParts, Generated,
         state = "open", nestedFailure
  PROVE  FlagsOK' /\ DoorParts'
<1> USE DEF nestedFailure, idleClose, close, protocolErr, automaton
<1>1. FlagsOK'
  BY DEF FlagsOK
<1>2. DataOK'
  BY DoorTypes DEF DoorParts, DataOK, States, Cmds, Ops, AnyID, Reasons,
     Generated, Doors, DoorSafe, KeyOnlyForOwnDoor
<1>3. DoorSafe'
  BY DEF DoorParts, DataOK, DoorSafe, KeyOnlyForOwnDoor, OpenDoorIsUsed,
     NoDoorWhileReconciling, ClosingIsAddressable, Generated, NoDoor
<1> QED BY <1>1, <1>2, <1>3 DEF DoorParts

LEMMA ClosingSuccessStep ==
  ASSUME FlagsOK, DoorParts, Generated,
         state = "closing", NEW in \in Inputs, NEW d \in DoorIDs, closingSuccess(in, d)
  PROVE  FlagsOK' /\ DoorParts'
<1> USE DEF closingSuccess, startOpen, status, protocolErr, automaton
<1>1. FlagsOK'
  BY DEF FlagsOK
<1>2. DataOK'
  BY DoorTypes DEF DoorParts, DataOK, States, Cmds, Ops, AnyID, Reasons,
     Generated, Inputs
<1>3. DoorSafe'
  BY DEF DoorParts, DataOK, DoorSafe, KeyOnlyForOwnDoor, OpenDoorIsUsed,
     NoDoorWhileReconciling, ClosingIsAddressable, Generated, NoDoor,
     OwnDoor
<1> QED BY <1>1, <1>2, <1>3 DEF DoorParts

LEMMA ClosingFailureStep ==
  ASSUME FlagsOK, DoorParts, Generated,
         closingFailure
  PROVE  FlagsOK' /\ DoorParts'
<1> USE DEF closingFailure, forgetDoor
<1>1. FlagsOK'
  BY DEF FlagsOK
<1>2. DataOK'
  BY DoorTypes DEF DoorParts, DataOK, States, Cmds, Ops, AnyID, Reasons,
     Generated
<1>3. DoorSafe'
  BY DEF DoorParts, DataOK, DoorSafe, KeyOnlyForOwnDoor, OpenDoorIsUsed,
     NoDoorWhileReconciling, ClosingIsAddressable, Generated, NoDoor
<1> QED BY <1>1, <1>2, <1>3 DEF DoorParts

LEMMA LostStep ==
  ASSUME FlagsOK, DoorParts, Generated,
         lost
  PROVE  FlagsOK' /\ DoorParts'
<1> USE DEF lost, forgetDoor
<1>1. FlagsOK'
  BY DEF FlagsOK
<1>2. DataOK'
  BY DoorTypes DEF DoorParts, DataOK, States, Cmds, Ops, AnyID, Reasons,
     Generated
<1>3. DoorSafe'
  BY DEF DoorParts, DataOK, DoorSafe, KeyOnlyForOwnDoor, OpenDoorIsUsed,
     NoDoorWhileReconciling, ClosingIsAddressable, Generated, NoDoor
<1> QED BY <1>1, <1>2, <1>3 DEF DoorParts

LEMMA UnchangedStep ==
  ASSUME FlagsOK, DoorParts, Generated,
         Ignore \/ protocolErr
  PROVE  FlagsOK' /\ DoorParts'
<1> USE DEF Ignore, protocolErr, automaton
<1>1. FlagsOK'
  BY DEF FlagsOK
<1>2. DataOK'
  BY DoorTypes DEF DoorParts, DataOK, States, Cmds, Ops, AnyID, Reasons,
     Generated
<1>3. DoorSafe'
  BY DEF DoorParts, DataOK, DoorSafe, KeyOnlyForOwnDoor, OpenDoorIsUsed,
     NoDoorWhileReconciling, ClosingIsAddressable, Generated, NoDoor
<1> QED BY <1>1, <1>2, <1>3 DEF DoorParts

LEMMA FinishSessionStep ==
  ASSUME FlagsOK, DoorParts, Generated,
         FinishSession
  PROVE  FlagsOK' /\ DoorParts'
<1> USE DEF FinishSession, idleClose, close, protocolErr, automaton
<1>1. FlagsOK'
  BY DEF FlagsOK
<1>2. DataOK'
  BY DoorTypes DEF DoorParts, DataOK, States, Cmds, Ops, AnyID, Reasons,
     Generated, Doors, DoorSafe, KeyOnlyForOwnDoor
<1>3. DoorSafe'
  BY DEF DoorParts, DataOK, DoorSafe, KeyOnlyForOwnDoor, OpenDoorIsUsed,
     NoDoorWhileReconciling, ClosingIsAddressable, Generated, NoDoor
<1> QED BY <1>1, <1>2, <1>3 DEF DoorParts

LEMMA RecheckStep ==
  ASSUME FlagsOK, DoorParts, Generated,
         NEW id \in AnyID, Recheck(id)
  PROVE  FlagsOK' /\ DoorParts'
<1> USE DEF Recheck, status
<1>1. FlagsOK'
  BY DEF FlagsOK
<1>2. DataOK'
  BY DoorTypes DEF DoorParts, DataOK, States, Cmds, Ops, AnyID, Reasons,
     Generated
<1>3. DoorSafe'
  BY DEF DoorParts, DataOK, DoorSafe, KeyOnlyForOwnDoor, OpenDoorIsUsed,
     NoDoorWhileReconciling, ClosingIsAddressable, Generated, NoDoor
<1> QED BY <1>1, <1>2, <1>3 DEF DoorParts

LEMMA HardDeadlineStep ==
  ASSUME FlagsOK, DoorParts, Generated,
         NEW due \in BOOLEAN, HardDeadline(due)
  PROVE  FlagsOK' /\ DoorParts'
<1> USE DEF HardDeadline, close, Ignore, automaton
<1>1. FlagsOK'
  BY DEF FlagsOK
<1>2. DataOK'
  BY DoorTypes DEF DoorParts, DataOK, States, Cmds, Ops, AnyID, Reasons,
     Generated, Doors, DoorSafe, KeyOnlyForOwnDoor
<1>3. DoorSafe'
  BY DEF DoorParts, DataOK, DoorSafe, KeyOnlyForOwnDoor, OpenDoorIsUsed,
     NoDoorWhileReconciling, ClosingIsAddressable, Generated, NoDoor
<1> QED BY <1>1, <1>2, <1>3 DEF DoorParts

LEMMA ForceCloseStep ==
  ASSUME FlagsOK, DoorParts, Generated,
         ForceClose
  PROVE  FlagsOK' /\ DoorParts'
<1> USE DEF ForceClose, close, Ignore, protocolErr, automaton
<1>1. FlagsOK'
  BY DEF FlagsOK
<1>2. DataOK'
  BY DoorTypes DEF DoorParts, DataOK, States, Cmds, Ops, AnyID, Reasons,
     Generated, Doors, DoorSafe, KeyOnlyForOwnDoor
<1>3. DoorSafe'
  BY DEF DoorParts, DataOK, DoorSafe, KeyOnlyForOwnDoor, OpenDoorIsUsed,
     NoDoorWhileReconciling, ClosingIsAddressable, Generated, NoDoor, States
<1> QED BY <1>1, <1>2, <1>3 DEF DoorParts

LEMMA ClosingTimeoutStep ==
  ASSUME FlagsOK, DoorParts, Generated,
         state = "closing", closingTimeout
  PROVE  FlagsOK' /\ DoorParts'
<1>1. CASE closeTimeouts = 0
  <2> USE <1>1 DEF closingTimeout, sanitize, close
  <2>1. FlagsOK'
    BY DEF FlagsOK
  <2>2. DataOK'
    BY DoorTypes DEF DoorParts, DataOK, States, Cmds, Ops, AnyID, Reasons,
       Generated, Doors
  <2>3. DoorSafe'
    BY DEF DoorParts, DataOK, DoorSafe, KeyOnlyForOwnDoor, OpenDoorIsUsed,
       NoDoorWhileReconciling, ClosingIsAddressable, Generated, NoDoor
  <2> QED BY <2>1, <2>2, <2>3 DEF DoorParts
<1>2. CASE closeTimeouts # 0
  BY <1>2, ClosingFailureStep DEF closingTimeout
<1> QED BY <1>1, <1>2

LEMMA ApplyStep ==
  ASSUME FlagsOK, DoorParts, NEW in \in Inputs, NEW d \in DoorIDs, ApplyInput(in, d)
  PROVE  FlagsOK' /\ DoorParts'
<1>a. Apply(in, d) /\ Generated
  BY DEF ApplyInput
<1>b. state \in States /\ in.event \in Events
  BY DEF DoorParts, DataOK, Inputs
<1> USE <1>a, <1>b DEF Apply
<1>1. CASE in.event = "lost"
  BY <1>1, LostStep
<1>2. CASE in.event = "status"
  BY <1>2, ClosedStatusStep, OpenStatusStep, UnchangedStep DEF States
<1>3. CASE in.event = "reservation"
  BY <1>3, ClosedReserveStep, WaitingReserveStep
<1>4. CASE in.event = "cancel"
  BY <1>4, NestedFailureStep, WaitingCancelStep
<1>5. CASE in.event = "success"
  BY <1>5, UnchangedStep, OpeningSuccessStep, NestedSuccessStep, ClosingSuccessStep
     DEF States
<1>6. CASE in.event = "failure"
  BY <1>6, UnchangedStep, OpeningFailureStep, NestedFailureStep, ClosingFailureStep
     DEF States
<1>7. CASE in.event = "timeout"
  BY <1>7, ClosedTimeoutStep, OpeningTimeoutStep, NestedFailureStep,
     ClosingTimeoutStep DEF States
<1>8. CASE in.event = "late"
  BY <1>8, ClosedLateStep, UnchangedStep
<1>9. CASE in.event = "nestedFailure"
  BY <1>9, UnchangedStep, NestedFailureStep DEF States
<1> QED BY <1>1, <1>2, <1>3, <1>4, <1>5, <1>6, <1>7, <1>8, <1>9 DEF Events

LEMMA NextStep == DoorInv /\ [Next]_vars => DoorInv'
<1> SUFFICES ASSUME FlagsOK, DoorParts, [Next]_vars
             PROVE  FlagsOK' /\ DoorParts'
  BY DEF DoorInv, FlagsOK, DoorParts, DataOK, DoorSafe, TypeOK
<1>1. CASE \E in \in Inputs, d \in DoorIDs : ApplyInput(in, d)
  BY <1>1, ApplyStep
<1>2. CASE FinishSession /\ Generated
  BY <1>2, FinishSessionStep
<1>3. CASE \E id \in AnyID : Recheck(id) /\ Generated
  BY <1>3, RecheckStep
<1>4. CASE \E due \in BOOLEAN : HardDeadline(due) /\ Generated
  BY <1>4, HardDeadlineStep
<1>5. CASE ForceClose /\ Generated
  BY <1>5, ForceCloseStep
<1>6. CASE UNCHANGED vars
  <2>1. FlagsOK'
    BY <1>6 DEF FlagsOK, vars, automaton, returned
  <2>2. DataOK'
    BY <1>6 DEF DoorParts, DataOK, vars, automaton, returned
  <2>3. DoorSafe'
    BY <1>6 DEF DoorParts, DataOK, DoorSafe, KeyOnlyForOwnDoor, OpenDoorIsUsed,
       NoDoorWhileReconciling, ClosingIsAddressable, vars, automaton, returned
  <2> QED BY <2>1, <2>2, <2>3 DEF DoorParts
<1> QED BY <1>1, <1>2, <1>3, <1>4, <1>5, <1>6 DEF Next

\* DoorInv holds throughout: the automaton of internal/gateway/core/door.go
\* keeps all its invariants whatever inputs it is fed.
THEOREM DoorInvariant == Spec => []DoorInv
<1>1. Init => DoorInv
  BY InitEstablishes
<1>2. DoorInv /\ [Next]_vars => DoorInv'
  BY NextStep
<1> QED BY <1>1, <1>2, PTL DEF Spec

\* Every variable keeps its type; in particular the counters never go below
\* zero, whoever releases what and in which order (decrement).
THEOREM TypeCorrect == Spec => []TypeOK
<1>1. DoorInv => TypeOK
  BY DEF DoorInv
<1> QED BY <1>1, DoorInvariant, PTL

\* A private key is held only for a door generated in this epoch and never
\* while the door is closed (forgetDoor, closedStatus, closedLate).
THEOREM KeySafety == Spec => []KeyOnlyForOwnDoor
<1>1. DoorInv => KeyOnlyForOwnDoor
  BY DEF DoorInv
<1> QED BY <1>1, DoorInvariant, PTL

\* An open door always has somebody on the way in or inside (idleClose).
THEOREM NoIdleDoor == Spec => []OpenDoorIsUsed
<1>1. DoorInv => OpenDoorIsUsed
  BY DEF DoorInv
<1> QED BY <1>1, DoorInvariant, PTL

\* No door is opening or open while a reconciliation is owed (closedReserve,
\* closingSuccess).
THEOREM ReconcileFirst == Spec => []NoDoorWhileReconciling
<1>1. DoorInv => NoDoorWhileReconciling
  BY DEF DoorInv
<1> QED BY <1>1, DoorInvariant, PTL

\* A closing operation in flight can always be repeated as it stands
\* (closingTimeout).
THEOREM CloseAddressable == Spec => []ClosingIsAddressable
<1>1. DoorInv => ClosingIsAddressable
  BY DEF DoorInv
<1> QED BY <1>1, DoorInvariant, PTL

-----------------------------------------------------------------------------
(* The two action properties follow cell by cell from the invariant. *)

RepeatedOnceAct ==
  /\ state = "closing" /\ closeTimeouts = 1 /\ state' = "closing"
       => cmd' = NoCmd /\ closeTimeouts' = 1
  /\ state # "closing" /\ state' = "closing" => closeTimeouts' = 0

ForgottenAct == door'.key /\ door' # door => door'.id \notin issued

\* The door changes only to none, to one the machine reported, or to the one
\* that the door.open just issued is for.
DoorChange(in, d) ==
  \/ door' \in {door, NoDoor, FoundDoor(in.id)}
  \/ door' = OwnDoor(d) /\ cmd'.op = "door.open" /\ cmd'.id = d

LEMMA ApplyRepeats ==
  ASSUME FlagsOK, DoorParts, NEW in \in Inputs, NEW d \in DoorIDs, ApplyInput(in, d)
  PROVE  RepeatedOnceAct /\ DoorChange(in, d)
<1>a. Apply(in, d)
  BY DEF ApplyInput
<1>b. state \in States /\ in.event \in Events
  BY DEF DoorParts, DataOK, Inputs
<1>c. state # "closing" => closeTimeouts = 0
  BY DEF DoorParts, DoorSafe, ClosingIsAddressable
<1>d. closeTimeouts \in {0, 1}
  BY DEF DoorParts, DataOK
<1> USE <1>a, <1>b, <1>c, <1>d
    DEF Apply, RepeatedOnceAct, DoorChange, Ignore, protocolErr, automaton
<1>1. CASE in.event = "lost"
  BY <1>1 DEF lost, forgetDoor
<1>2. CASE in.event = "status"
  <2>1. CASE state = "closed"
    <3>1. closedStatus(in)
      BY <1>2, <2>1
    <3>2. RepeatedOnceAct
      BY <2>1, <3>1 DEF closedStatus, cleanUp, close, sanitize
    <3>3. DoorChange(in, d)
      BY <2>1, <3>1 DEF closedStatus, cleanUp, close, sanitize
    <3> QED BY <3>2, <3>3
  <2>2. CASE state = "open"
    <3>1. openStatus(in, d)
      BY <1>2, <2>2
    <3>2. RepeatedOnceAct
      BY <2>2, <3>1 DEF openStatus, cleanUp, startOpen, close, sanitize
    <3>3. DoorChange(in, d)
      BY <2>2, <3>1 DEF openStatus, cleanUp, startOpen, close, sanitize
    <3> QED BY <3>2, <3>3
  <2>3. CASE state \in {"opening", "closing"}
    <3>1. protocolErr
      BY <1>2, <2>3
    <3>2. RepeatedOnceAct
      BY <2>3, <3>1 DEF protocolErr
    <3>3. DoorChange(in, d)
      BY <2>3, <3>1 DEF protocolErr
    <3> QED BY <3>2, <3>3
  <2> QED BY <2>1, <2>2, <2>3 DEF States
<1>3. CASE in.event = "reservation"
  <2>1. CASE state = "closed"
    <3>1. closedReserve(d)
      BY <1>3, <2>1
    <3>2. RepeatedOnceAct
      BY <2>1, <3>1 DEF closedReserve, startOpen
    <3>3. DoorChange(in, d)
      BY <2>1, <3>1 DEF closedReserve, startOpen
    <3> QED BY <3>2, <3>3
  <2>2. CASE state # "closed"
    <3>1. waitingReserve
      BY <1>3, <2>2
    <3>2. RepeatedOnceAct
      BY <2>2, <3>1 DEF waitingReserve
    <3>3. DoorChange(in, d)
      BY <2>2, <3>1 DEF waitingReserve
    <3> QED BY <3>2, <3>3
  <2> QED BY <2>1, <2>2 DEF States
<1>4. CASE in.event = "cancel"
  BY <1>4 DEF nestedFailure, waitingCancel, idleClose, close
<1>5. CASE in.event = "success"
  <2>1. CASE state = "closed"
    <3>1. protocolErr
      BY <1>5, <2>1
    <3>2. RepeatedOnceAct
      BY <2>1, <3>1 DEF protocolErr
    <3>3. DoorChange(in, d)
      BY <2>1, <3>1 DEF protocolErr
    <3> QED BY <3>2, <3>3
  <2>2. CASE state = "opening"
    <3>1. openingSuccess(in)
      BY <1>5, <2>2
    <3>2. RepeatedOnceAct
      BY <2>2, <3>1 DEF openingSuccess, close
    <3>3. DoorChange(in, d)
      BY <2>2, <3>1 DEF openingSuccess, close
    <3> QED BY <3>2, <3>3
  <2>3. CASE state = "open"
    <3>1. nestedSuccess
      BY <1>5, <2>3
    <3>2. RepeatedOnceAct
      BY <2>3, <3>1 DEF nestedSuccess
    <3>3. DoorChange(in, d)
      BY <2>3, <3>1 DEF nestedSuccess
    <3> QED BY <3>2, <3>3
  <2>4. CASE state = "closing"
    <3>1. closingSuccess(in, d)
      BY <1>5, <2>4
    <3>2. RepeatedOnceAct
      BY <2>4, <3>1 DEF closingSuccess, startOpen, status
    <3>3. DoorChange(in, d)
      BY <2>4, <3>1 DEF closingSuccess, startOpen, status
    <3> QED BY <3>2, <3>3
  <2> QED BY <2>1, <2>2, <2>3, <2>4 DEF States
<1>6. CASE in.event = "failure"
  BY <1>6 DEF States, openingFailure, nestedFailure, closingFailure, forgetDoor,
     idleClose, close
<1>7. CASE in.event = "timeout"
  <2>1. CASE state = "closed"
    <3>1. closedTimeout
      BY <1>7, <2>1
    <3>2. RepeatedOnceAct
      BY <2>1, <3>1 DEF closedTimeout, status
    <3>3. DoorChange(in, d)
      BY <2>1, <3>1 DEF closedTimeout, status
    <3> QED BY <3>2, <3>3
  <2>2. CASE state = "opening"
    <3>1. openingTimeout
      BY <1>7, <2>2
    <3>2. RepeatedOnceAct
      BY <2>2, <3>1 DEF openingTimeout, forgetDoor, status
    <3>3. DoorChange(in, d)
      BY <2>2, <3>1 DEF openingTimeout, forgetDoor, status
    <3> QED BY <3>2, <3>3
  <2>3. CASE state = "open"
    <3>1. nestedFailure
      BY <1>7, <2>3
    <3>2. RepeatedOnceAct
      BY <2>3, <3>1 DEF nestedFailure, idleClose, close
    <3>3. DoorChange(in, d)
      BY <2>3, <3>1 DEF nestedFailure, idleClose, close
    <3> QED BY <3>2, <3>3
  <2>4. CASE state = "closing"
    <3>1. closingTimeout
      BY <1>7, <2>4
    <3>2. RepeatedOnceAct
      BY <2>4, <3>1 DEF closingTimeout, closingFailure, forgetDoor, close, sanitize
    <3>3. DoorChange(in, d)
      BY <2>4, <3>1 DEF closingTimeout, closingFailure, forgetDoor, close, sanitize
    <3> QED BY <3>2, <3>3
  <2> QED BY <2>1, <2>2, <2>3, <2>4 DEF States
<1>8. CASE in.event = "late"
  BY <1>8 DEF closedLate, cleanUp, close, sanitize
<1>9. CASE in.event = "nestedFailure"
  BY <1>9 DEF States, nestedFailure, idleClose, close
<1> QED BY <1>1, <1>2, <1>3, <1>4, <1>5, <1>6, <1>7, <1>8, <1>9 DEF Events

LEMMA StepRepeats ==
  ASSUME DoorInv, Next
  PROVE  RepeatedOnceAct /\ ForgottenAct
<1>a. FlagsOK /\ DoorParts
  BY Parts
<1>b. state # "closing" => closeTimeouts = 0
  BY <1>a DEF DoorParts, DoorSafe, ClosingIsAddressable
<1>1. CASE \E in \in Inputs, d \in DoorIDs : ApplyInput(in, d)
  <2> PICK in \in Inputs, d \in DoorIDs : ApplyInput(in, d)
    BY <1>1
  <2>1. RepeatedOnceAct /\ DoorChange(in, d) /\ Generated
    BY <1>a, ApplyRepeats DEF ApplyInput
  <2>2. ForgottenAct
    BY <2>1 DEF ForgottenAct, DoorChange, Generated, NoDoor, FoundDoor, OwnDoor
  <2> QED BY <2>1, <2>2
<1> USE <1>b DEF RepeatedOnceAct, ForgottenAct, Ignore, protocolErr, automaton, close
<1>2. CASE FinishSession /\ Generated
  BY <1>2 DEF FinishSession, idleClose
<1>3. CASE \E id \in AnyID : Recheck(id) /\ Generated
  BY <1>3 DEF Recheck, status
<1>4. CASE \E due \in BOOLEAN : HardDeadline(due) /\ Generated
  BY <1>4 DEF HardDeadline
<1>5. CASE ForceClose /\ Generated
  BY <1>5, <1>a DEF ForceClose, DoorParts, DataOK, States
<1> QED BY <1>1, <1>2, <1>3, <1>4, <1>5 DEF Next

\* A closing operation is sent at most twice, and every close starts with its
\* own retry (closingTimeout, forgetDoor).
THEOREM RetryIsBounded == Spec => RepeatedOnce
<1>1. DoorInv /\ [Next]_vars => [RepeatedOnceAct]_vars
  BY StepRepeats
<1> QED BY <1>1, DoorInvariant, PTL DEF Spec, RepeatedOnce, RepeatedOnceAct

\* A key the gateway has forgotten never comes back: every key it takes up has
\* just been generated (startOpen, closedLate).
THEOREM NoKeyRestored == Spec => ForgottenKeyStaysForgotten
<1>1. DoorInv /\ [Next]_vars => [ForgottenAct]_vars
  BY StepRepeats
<1> QED BY <1>1, DoorInvariant, PTL DEF Spec, ForgottenKeyStaysForgotten, ForgottenAct

-----------------------------------------------------------------------------
(* The connection (MachineConn).                                           *)
(*                                                                         *)
(* Both results follow from what one holder of driveMu knows.  A command   *)
(* between two waits is followed by nothing but its own sending, and an    *)
(* answer handed over means that the machine has nothing else before it,   *)
(* because the request that is waited for is the last one sent.            *)

Opens(i) == toMachine[i].cmd.op = "door.open"

\* An open is to be sent.
OpenPending == cmd.op = "door.open" /\ flight = NoFlight /\ holder # Nobody

\* What is on the wire is a sequence of requests.
IsWire ==
  /\ Len(toMachine) \in Nat /\ DOMAIN toMachine = 1..Len(toMachine)
  /\ toMachine = [i \in 1..Len(toMachine) |-> toMachine[i]]
  /\ \A i \in 1..Len(toMachine) : toMachine[i] \in [cmd : {toMachine[i].cmd}, live : BOOLEAN]

\* One request is waited for at a time, by the holder of driveMu; it is the
\* last one sent, and what the machine still had before it is answered first.
OneWait ==
  /\ flight # NoFlight => holder # Nobody
  /\ flight = NoFlight => answer = NoAnswer /\ \A i \in 1..Len(toMachine) : ~toMachine[i].live
  /\ answer # NoAnswer => toMachine = <<>>
  /\ \A i \in 1..Len(toMachine) : toMachine[i].live => i = Len(toMachine) /\ toMachine[i].cmd = flight.cmd
  /\ conn \in {"none", "torn"} => toMachine = <<>>
  /\ flight.recheck => flight.cmd.op = "door.status"

\* An open nobody waits for any more is owed a reconciliation, and no open goes
\* out before that.
OpensApart ==
  /\ \A i \in 1..Len(toMachine) : Opens(i) /\ ~toMachine[i].live => reconcile
  /\ OpenPending => \A i \in 1..Len(toMachine) : ~Opens(i)
  /\ \A i, j \in 1..Len(toMachine) : Opens(i) /\ Opens(j) => i = j

\* The door that is opening is the one of the open that is sent or to be sent;
\* once it is sent, the signer is this door's.
OpenNamesDoor ==
  /\ state \in States /\ cmd.op \in Ops /\ flight.cmd.op \in Ops
  /\ cmd.op = "none" => cmd = NoCmd
  /\ flight # NoFlight => flight.cmd.op # "none"
  /\ OpenPending => state = "opening" /\ cmd.id = door.id
  /\ flight.cmd.op = "door.open" /\ conn # "torn" => state = "opening"
  /\ state \in {"opening", "open"} => doorKeyID = door.id \/ OpenPending

ConnInv == IsWire /\ OneWait /\ OpensApart /\ OpenNamesDoor

\* What the invariant speaks of.
invVars == <<conn, doorKeyID, holder, flight, answer, toMachine, state, door, cmd, reconcile>>

LEMMA ConnInvSuffices == ConnInv => KeyMatchesDoor /\ NoCompetingOpen
<1>1. ConnInv => KeyMatchesDoor
  BY DEF ConnInv, OpenNamesDoor, KeyMatchesDoor
<1>2. ConnInv => NoCompetingOpen
  BY DEF ConnInv, IsWire, OpensApart, Opens, NoCompetingOpen
<1>3. QED
  BY <1>1, <1>2

-----------------------------------------------------------------------------
(* What a step of the automaton may do, as far as the signer and the wire are *)
(* concerned.                                                                *)

Moved ==
  /\ state' \in States /\ cmd'.op \in Ops /\ (cmd'.op = "none" => cmd' = NoCmd)
  /\ cmd'.op = "door.open" => state' = "opening" /\ cmd'.id = door'.id
  /\ state' \in {"opening", "open"} /\ cmd'.op # "door.open"
       => state \in {"opening", "open"} /\ door' = door

\* No open is asked for unless nothing is owed, and what is owed stays owed.
Owing ==
  /\ cmd'.op = "door.open" => ~reconcile
  /\ reconcile => reconcile'

\* The cells one by one.
LEMMA StayingMoves ==
  ASSUME state \in States, Ignore \/ protocolErr
  PROVE  Moved /\ Owing
  BY DEF States, Ops, Moved, Owing, Ignore, Quiet, protocolErr, automaton, counters, flags, closingCtx, NoCmd, Cmd

LEMMA ClosedRowMoves ==
  ASSUME state = "closed", NEW in, NEW d
  PROVE  /\ closedStatus(in) => Moved
         /\ closedReserve(d) \/ closedTimeout \/ closedLate(in) => Moved /\ Owing
<1> USE DEF States, Ops, Moved, Owing, Quiet, Ignore, automaton, counters, flags, closingCtx, NoCmd, Cmd
<1>1. closedStatus(in) => Moved
  BY DEF closedStatus, cleanUp, close, sanitize
<1>2. closedReserve(d) => Moved /\ Owing
  BY DEF closedReserve, startOpen, OwnDoor
<1>3. closedTimeout => Moved /\ Owing
  BY DEF closedTimeout, status
<1>4. closedLate(in) => Moved /\ Owing
  BY DEF closedLate, cleanUp, close, sanitize
<1>5. QED
  BY <1>1, <1>2, <1>3, <1>4

LEMMA WaitingMoves ==
  ASSUME state \in States, waitingReserve \/ waitingCancel \/ nestedFailure
  PROVE  Moved /\ Owing
<1> USE DEF States, Ops, Moved, Owing, Quiet, flags, NoCmd, Cmd
<1>1. CASE waitingReserve
  BY <1>1 DEF waitingReserve
<1>2. CASE waitingCancel
  BY <1>2, StayingMoves DEF waitingCancel
<1>3. CASE nestedFailure
  BY <1>3, StayingMoves DEF nestedFailure, idleClose, close
<1>4. QED
  BY <1>1, <1>2, <1>3

LEMMA OpeningRowMoves ==
  ASSUME state = "opening", NEW in
  PROVE  /\ openingSuccess(in) \/ openingFailure => Moved /\ Owing
         /\ openingTimeout => Moved /\ Owing /\ state' = "closed" /\ reconcile' /\ cmd'.op # "door.open"
<1> USE DEF States, Ops, Moved, Owing, Quiet, flags, NoCmd, Cmd
<1>1. openingSuccess(in) => Moved /\ Owing
  BY StayingMoves DEF openingSuccess, close
<1>2. openingFailure => Moved /\ Owing
  BY DEF openingFailure
<1>3. openingTimeout => Moved /\ Owing /\ state' = "closed" /\ reconcile' /\ cmd'.op # "door.open"
  BY DEF openingTimeout, status
<1>4. QED
  BY <1>1, <1>2, <1>3

LEMMA OpenRowMoves ==
  ASSUME state = "open", NEW in, NEW d
  PROVE  /\ openStatus(in, d) => Moved
         /\ nestedSuccess => Moved /\ Owing
<1> USE DEF States, Ops, Moved, Owing, Quiet, flags, NoCmd, Cmd
<1>1. openStatus(in, d) => Moved
  BY StayingMoves DEF openStatus, cleanUp, close, sanitize, startOpen, OwnDoor
<1>2. nestedSuccess => Moved /\ Owing
  BY StayingMoves DEF nestedSuccess
<1>3. QED
  BY <1>1, <1>2

LEMMA ClosingRowMoves ==
  ASSUME state = "closing", NEW in, NEW d
  PROVE  /\ closingSuccess(in, d) => Moved
         /\ closingSuccess(in, d) /\ in.own = FALSE => Owing
         /\ closingFailure \/ closingTimeout => Moved /\ Owing
<1> USE DEF States, Ops, Moved, Owing, Quiet, flags, NoCmd, Cmd
<1>1. closingSuccess(in, d) => Moved
  BY StayingMoves DEF closingSuccess, startOpen, status, OwnDoor
<1>2. closingSuccess(in, d) /\ in.own = FALSE => Owing
  BY StayingMoves DEF closingSuccess, startOpen, status
<1>3. closingFailure => Moved /\ Owing
  BY DEF closingFailure
<1>4. closingTimeout => Moved /\ Owing
  BY <1>3 DEF closingTimeout, close, sanitize
<1>5. QED
  BY <1>1, <1>2, <1>3, <1>4

\* Every cell moves the automaton so; only an answer may ask for an open while
\* something is owed, or settle it.
LEMMA ApplyMoves ==
  ASSUME state \in States, NEW in, NEW d, in.event \in Events, Apply(in, d)
  PROVE  /\ Moved
         /\ in.event \notin {"lost", "status"} /\ (in.event = "success" => in.own = FALSE) => Owing
         /\ in.event = "timeout" /\ state = "opening"
              => state' = "closed" /\ reconcile' /\ cmd'.op # "door.open"
<1> USE DEF Apply, States
<1>1. CASE in.event = "lost"
  BY <1>1 DEF lost, Moved, Ops, Quiet, NoCmd, Cmd
<1>2. CASE in.event = "status"
  BY <1>2, ClosedRowMoves, OpenRowMoves, StayingMoves
<1>3. CASE in.event = "reservation"
  BY <1>3, ClosedRowMoves, WaitingMoves
<1>4. CASE in.event = "cancel"
  BY <1>4, WaitingMoves
<1>5. CASE in.event = "success"
  BY <1>5, StayingMoves, OpeningRowMoves, OpenRowMoves, ClosingRowMoves
<1>6. CASE in.event = "failure"
  BY <1>6, StayingMoves, OpeningRowMoves, WaitingMoves, ClosingRowMoves
<1>7. CASE in.event = "timeout"
  BY <1>7, ClosedRowMoves, OpeningRowMoves, WaitingMoves, ClosingRowMoves
<1>8. CASE in.event = "late"
  BY <1>8, ClosedRowMoves, StayingMoves
<1>9. CASE in.event = "nestedFailure"
  BY <1>9, StayingMoves, WaitingMoves
<1>10. QED
  BY <1>1, <1>2, <1>3, <1>4, <1>5, <1>6, <1>7, <1>8, <1>9 DEF Events

\* The entry points beside the table.
LEMMA EntryPointsMove ==
  ASSUME state \in States, FinishSession \/ HardDeadline(TRUE) \/ ForceClose
  PROVE  Moved /\ Owing
<1> USE DEF States, Ops, Moved, Owing, Quiet, flags, NoCmd, Cmd
<1>1. CASE FinishSession
  BY <1>1, StayingMoves DEF FinishSession, idleClose, close
<1>2. CASE HardDeadline(TRUE)
  BY <1>2, StayingMoves DEF HardDeadline, close
<1>3. CASE ForceClose
  BY <1>3, StayingMoves DEF ForceClose, close
<1>4. QED
  BY <1>1, <1>2, <1>3

-----------------------------------------------------------------------------
(* The wire. *)

\* A wire that is one is a sequence.
LEMMA WireIsSeq ==
  ASSUME IsWire
  PROVE  \E S : toMachine \in Seq(S)
<1> DEFINE n == Len(toMachine)
           S == {toMachine[i] : i \in 1..n}
<1>1. n \in Nat /\ toMachine = [i \in 1..n |-> toMachine[i]]
  BY DEF IsWire
<1>2. toMachine \in [1..n -> S]
  BY <1>1
<1>3. toMachine \in Seq(S)
  BY <1>1, <1>2
<1>4. QED
  BY <1>3

LEMMA EmptyWire == toMachine = <<>> => IsWire /\ Len(toMachine) = 0
  BY DEF IsWire

LEMMA EmptyWireAfter == toMachine' = <<>> => IsWire' /\ Len(toMachine)' = 0
  BY DEF IsWire

LEMMA RequestIs ==
  ASSUME NEW c
  PROVE  /\ Request(c) \in [cmd : {Request(c).cmd}, live : BOOLEAN]
         /\ Request(c).live = TRUE /\ Request(c).cmd = c
  BY DEF Request

\* A request that nobody waits for any more.
LEMMA DeadRequest ==
  ASSUME NEW r, r \in [cmd : {r.cmd}, live : BOOLEAN], NEW q, q = [r EXCEPT !.live = FALSE]
  PROVE  q.cmd = r.cmd /\ q.live = FALSE /\ q \in [cmd : {q.cmd}, live : BOOLEAN]
  OBVIOUS

LEMMA SeqIsWire ==
  ASSUME NEW S, NEW s \in Seq(S)
  PROVE  Len(s) \in Nat /\ DOMAIN s = 1..Len(s) /\ s = [i \in 1..Len(s) |-> s[i]]
  OBVIOUS

\* One request more.
LEMMA SendsOne ==
  ASSUME IsWire, NEW c, Sends(c)
  PROVE  /\ IsWire'
         /\ \/ toMachine' = toMachine
            \/ /\ Len(toMachine') = Len(toMachine) + 1
               /\ \A i \in 1..Len(toMachine) : toMachine'[i] = toMachine[i]
               /\ toMachine'[Len(toMachine')] = Request(c)
<1>1. CASE toMachine' = toMachine
  BY <1>1 DEF IsWire
<1>2. CASE toMachine' = Append(toMachine, Request(c))
  <2>1. PICK S : toMachine \in Seq(S)
    BY WireIsSeq
  <2>2. Request(c) \in [cmd : {Request(c).cmd}, live : BOOLEAN]
    BY RequestIs
  <2> DEFINE T == S \cup {Request(c)}
  <2>3. toMachine \in Seq(T) /\ Request(c) \in T
    BY <2>1
  <2>4. /\ Len(toMachine') = Len(toMachine) + 1 /\ toMachine' \in Seq(T)
        /\ \A i \in 1..Len(toMachine) : toMachine'[i] = toMachine[i]
        /\ toMachine'[Len(toMachine')] = Request(c)
    BY <1>2, <2>3
  <2>5. ASSUME NEW i \in 1..Len(toMachine')
        PROVE  toMachine'[i] \in [cmd : {toMachine'[i].cmd}, live : BOOLEAN]
    <3>1. CASE i \in 1..Len(toMachine)
      BY <2>4, <3>1 DEF IsWire
    <3>2. CASE i = Len(toMachine')
      BY <2>2, <2>4, <3>2
    <3>3. QED
      BY <2>4, <2>5, <3>1, <3>2 DEF IsWire
  <2>6. IsWire'
    BY <2>4, <2>5 DEF IsWire
  <2>7. QED
    BY <2>4, <2>6
<1>3. QED
  BY <1>1, <1>2 DEF Sends

\* Nobody waits any more.
LEMMA LandedLeaves ==
  ASSUME IsWire, Landed
  PROVE  /\ IsWire' /\ Len(toMachine') = Len(toMachine)
         /\ \A i \in 1..Len(toMachine) : toMachine'[i].cmd = toMachine[i].cmd /\ ~toMachine'[i].live
<1>1. toMachine' = [i \in 1..Len(toMachine) |-> [toMachine[i] EXCEPT !.live = FALSE]]
  BY DEF Landed, IsWire
<1>2. ASSUME NEW i \in 1..Len(toMachine)
      PROVE  /\ toMachine'[i] \in [cmd : {toMachine'[i].cmd}, live : BOOLEAN]
             /\ toMachine'[i].cmd = toMachine[i].cmd /\ toMachine'[i].live = FALSE
  <2>1. toMachine[i] \in [cmd : {toMachine[i].cmd}, live : BOOLEAN]
    BY DEF IsWire
  <2>2. toMachine'[i] = [toMachine[i] EXCEPT !.live = FALSE]
    BY <1>1
  <2>3. QED
    BY <2>1, <2>2, DeadRequest
<1>3. Len(toMachine') = Len(toMachine) /\ DOMAIN toMachine' = 1..Len(toMachine)
  BY <1>1 DEF IsWire
<1>4. toMachine' = [i \in 1..Len(toMachine') |-> toMachine'[i]]
  BY <1>1, <1>3
<1>5. QED
  BY <1>2, <1>3, <1>4 DEF IsWire

\* The first request is answered.
LEMMA HeadLeaves ==
  ASSUME IsWire, toMachine # <<>>, toMachine' = Tail(toMachine)
  PROVE  /\ IsWire' /\ Len(toMachine') = Len(toMachine) - 1 /\ Len(toMachine) >= 1
         /\ Head(toMachine) = toMachine[1]
         /\ \A i \in 1..Len(toMachine') : toMachine'[i] = toMachine[i + 1]
<1>1. PICK S : toMachine \in Seq(S)
  BY WireIsSeq
<1>2. /\ Len(toMachine') = Len(toMachine) - 1 /\ Len(toMachine) >= 1 /\ toMachine' \in Seq(S)
      /\ Head(toMachine) = toMachine[1]
      /\ \A i \in 1..Len(toMachine') : toMachine'[i] = toMachine[i + 1]
  BY <1>1
<1>3. ASSUME NEW i \in 1..Len(toMachine')
      PROVE  toMachine'[i] \in [cmd : {toMachine'[i].cmd}, live : BOOLEAN]
  <2>1. i + 1 \in 1..Len(toMachine) /\ toMachine'[i] = toMachine[i + 1]
    BY <1>2 DEF IsWire
  <2>2. QED
    BY <2>1 DEF IsWire
<1>4. /\ Len(toMachine') \in Nat /\ DOMAIN toMachine' = 1..Len(toMachine')
      /\ toMachine' = [i \in 1..Len(toMachine') |-> toMachine'[i]]
  BY <1>2, SeqIsWire
<1>5. IsWire'
  BY <1>3, <1>4 DEF IsWire
<1>6. QED
  BY <1>2, <1>5

-----------------------------------------------------------------------------
(* The steps. *)

LEMMA NoOpenInNothing ==
  /\ NoCmd.op = "none" /\ NoFlight.cmd.op = "none" /\ NoFlight.recheck = FALSE /\ "none" \in Ops
  /\ \A c : [NoFlight EXCEPT !.cmd = c, !.recheck = TRUE].cmd = c
  BY DEF NoCmd, Cmd, NoFlight, Ops

LEMMA InvInParts == ConnInv <=> IsWire /\ OneWait /\ OpensApart /\ OpenNamesDoor
  BY DEF ConnInv

\* What the invariant does not speak of may change.
LEMMA AsideKeeps ==
  ASSUME ConnInv, UNCHANGED invVars
  PROVE  ConnInv'
<1> USE DEF invVars
<1>1. IsWire' /\ OneWait'
  BY DEF ConnInv, IsWire, OneWait
<1>2. OpensApart'
  BY DEF ConnInv, OpensApart, Opens, OpenPending
<1>3. OpenNamesDoor'
  BY DEF ConnInv, OpenNamesDoor, OpenPending
<1>4. QED
  BY <1>1, <1>2, <1>3 DEF ConnInv

\* driveMu is taken, the automaton moves, and the cycle goes on while it asks
\* for something.
LEMMA EntryKeeps ==
  ASSUME ConnInv, Unlocked, Moved, Owing, cmd'.op = "door.open" => holder' # Nobody,
         UNCHANGED <<conn, doorKeyID, flight, answer, toMachine>>
  PROVE  ConnInv'
<1> USE DEF ConnInv, Unlocked
<1>1. flight = NoFlight /\ ~OpenPending
  BY DEF OneWait, OpenPending
<1>2. IsWire' /\ OneWait'
  BY <1>1 DEF IsWire, OneWait
<1>3. \A i \in 1..Len(toMachine) : ~toMachine[i].live
  BY <1>1 DEF OneWait
<1>5. OpensApart'
  BY <1>1, <1>3 DEF OpensApart, Opens, OpenPending, Owing
<1>6. OpenNamesDoor'
  BY <1>1, NoOpenInNothing DEF OpenNamesDoor, OpenPending, Moved
<1>7. QED
  BY <1>2, <1>5, <1>6

\* The wait ends, by an answer or without one.  An open may be asked for, or a
\* debt be settled, when the machine has nothing before it any more.
LEMMA LandingKeeps ==
  ASSUME ConnInv, Landed, Moved, UNCHANGED <<conn, doorKeyID>>,
         flight # NoFlight \/ state' = "closed",
         cmd'.op = "door.open" => holder' # Nobody,
         Owing \/ toMachine = <<>>,
         flight.cmd.op = "door.open" => (reconcile' /\ cmd'.op # "door.open") \/ toMachine = <<>>
  PROVE  ConnInv'
<1> USE DEF ConnInv
<1>1. /\ IsWire' /\ Len(toMachine') = Len(toMachine)
      /\ \A i \in 1..Len(toMachine) : toMachine'[i].cmd = toMachine[i].cmd /\ ~toMachine'[i].live
  BY LandedLeaves
<1>2. flight' = NoFlight /\ answer' = NoAnswer /\ (flight # NoFlight => ~OpenPending)
  BY DEF Landed, OpenPending
<1>3. toMachine = <<>> => toMachine' = <<>>
  BY DEF Landed
<1>4. OneWait'
  BY <1>1, <1>2, <1>3, NoOpenInNothing DEF OneWait
<1>5. ASSUME NEW i \in 1..Len(toMachine), Opens(i) PROVE reconcile' /\ cmd'.op # "door.open"
  <2>1. toMachine # <<>>
    BY <1>5
  <2>2. CASE toMachine[i].live
    <3>1. flight.cmd.op = "door.open"
      BY <1>5, <2>2 DEF OneWait, Opens
    <3>2. QED
      BY <2>1, <3>1
  <2>3. CASE ~toMachine[i].live
    BY <1>5, <2>1, <2>3 DEF OpensApart, Owing
  <2>4. QED
    BY <2>2, <2>3
<1>6. OpensApart'
  BY <1>1, <1>5 DEF OpensApart, Opens, OpenPending
<1>7. OpenNamesDoor'
  BY <1>2, NoOpenInNothing DEF OpenNamesDoor, OpenPending, Moved, States
<1>8. QED
  BY <1>1, <1>4, <1>6, <1>7

\* The transport is gone, and with it all that was under way but a wait.
LEMMA teardownKeeps ==
  ASSUME ConnInv, teardown
  PROVE  ConnInv'
<1> USE DEF ConnInv
<1>1. /\ conn' = "torn" /\ state' = "closed" /\ cmd' = NoCmd /\ toMachine' = <<>> /\ reconcile' = FALSE
      /\ holder' = IF flight = NoFlight THEN Nobody ELSE holder
      /\ UNCHANGED <<flight, answer, doorKeyID>>
  BY DEF teardown, lost, Quiet
<1>2. IsWire' /\ Len(toMachine)' = 0
  BY <1>1, EmptyWireAfter
<1>3. OneWait'
  BY <1>1, <1>2 DEF OneWait
<1>4. OpensApart'
  BY <1>2 DEF OpensApart
<1>5. OpenNamesDoor'
  BY <1>1, NoOpenInNothing DEF OpenNamesDoor, OpenPending, States
<1>6. QED
  BY <1>2, <1>3, <1>4, <1>5

\* A new connection: nothing is under way.
LEMMA ConnectKeeps ==
  ASSUME ConnInv, Connect
  PROVE  ConnInv'
<1> USE DEF ConnInv
<1>1. /\ conn' = "new" /\ state' = "closed" /\ cmd' = NoCmd /\ holder = Nobody
      /\ UNCHANGED <<holder, flight, answer, toMachine>> /\ conn \in {"none", "torn"}
  BY DEF Connect, Quiet, driveVars, wireVars, Unlocked
<1>2. toMachine = <<>> /\ flight = NoFlight
  BY <1>1 DEF OneWait
<1>3. IsWire' /\ Len(toMachine)' = 0
  BY <1>1, <1>2, EmptyWireAfter
<1>4. OneWait'
  BY <1>1, <1>2, <1>3 DEF OneWait
<1>5. OpensApart'
  BY <1>3 DEF OpensApart
<1>6. OpenNamesDoor'
  BY <1>1, <1>2, NoOpenInNothing DEF OpenNamesDoor, OpenPending, States
<1>7. QED
  BY <1>3, <1>4, <1>5, <1>6

LEMMA attachControlKeeps ==
  ASSUME ConnInv, attachControl
  PROVE  ConnInv'
<1> USE DEF ConnInv
<1>1. /\ conn' = "up" /\ conn = "new"
      /\ UNCHANGED <<core, doorKeyID, driveVars, wireVars>>
  BY DEF attachControl
<1>2. IsWire' /\ OneWait'
  BY <1>1 DEF IsWire, OneWait, driveVars, wireVars
<1>3. OpensApart'
  BY <1>1 DEF OpensApart, Opens, OpenPending, core, automaton, returned, flags, driveVars, wireVars
<1>4. OpenNamesDoor'
  BY <1>1 DEF OpenNamesDoor, OpenPending, core, automaton, returned, driveVars, wireVars
<1>5. QED
  BY <1>2, <1>3, <1>4

LEMMA initialStatusKeeps ==
  ASSUME ConnInv, initialStatus
  PROVE  ConnInv'
<1>1. /\ Unlocked /\ holder' = Role /\ Role # Nobody /\ cmd' # NoCmd
      /\ cmd'.op = "door.status"
      /\ UNCHANGED <<conn, doorKeyID, flight, answer, toMachine, state, door, reconcile>>
  BY DEF initialStatus, status, wireVars, flags, Cmd, NoCmd, Role, Nobody
<1>2. Moved /\ Owing
  BY <1>1 DEF ConnInv, OpenNamesDoor, Moved, Owing, Ops
<1>3. QED
  BY <1>1, <1>2, EntryKeeps

\* A command goes out, and if it is an open the signer with it.
LEMMA SendingKeeps ==
  ASSUME ConnInv, NEW c, Sends(c), cmd' = c, c.op \in Ops \ {"none"},
         flight = NoFlight, flight' # NoFlight, flight'.cmd = c, flight'.recheck => c.op = "door.status",
         holder' # Nobody, conn \in {"new", "up"}, UNCHANGED <<conn, answer, state, door, reconcile>>,
         doorKeyID' = IF c.op = "door.open" THEN c.id ELSE doorKeyID,
         c.op = "door.open" => OpenPending, OpenPending => cmd = c
  PROVE  ConnInv'
<1> USE DEF ConnInv
<1>1. /\ IsWire'
      /\ \/ toMachine' = toMachine
         \/ /\ Len(toMachine') = Len(toMachine) + 1
            /\ \A i \in 1..Len(toMachine) : toMachine'[i] = toMachine[i]
            /\ toMachine'[Len(toMachine')] = Request(c)
  BY SendsOne
<1>2. Request(c).cmd = c /\ Request(c).live = TRUE /\ Len(toMachine) \in Nat
  BY RequestIs DEF IsWire
<1>3. answer = NoAnswer /\ (\A i \in 1..Len(toMachine) : ~toMachine[i].live) /\ ~OpenPending'
  BY DEF OneWait, OpenPending
<1>4. OneWait'
  BY <1>1, <1>2, <1>3 DEF OneWait
<1>5. OpensApart'
  <2>1. CASE toMachine' = toMachine
    BY <1>3, <2>1 DEF OpensApart, Opens
  <2>2. CASE /\ Len(toMachine') = Len(toMachine) + 1
             /\ \A i \in 1..Len(toMachine) : toMachine'[i] = toMachine[i]
             /\ toMachine'[Len(toMachine')] = Request(c)
    <3>1. \A i \in 1..Len(toMachine') : i = Len(toMachine') \/ i \in 1..Len(toMachine)
      BY <1>2, <2>2
    <3>2. \A i \in 1..Len(toMachine') : Opens(i)' /\ ~toMachine'[i].live => reconcile'
      BY <1>2, <2>2, <3>1 DEF OpensApart, Opens
    <3>3. \A i, j \in 1..Len(toMachine') : Opens(i)' /\ Opens(j)' => i = j
      BY <1>2, <2>2, <3>1 DEF OpensApart, Opens
    <3>4. QED
      BY <1>3, <3>2, <3>3 DEF OpensApart
  <2>3. QED
    BY <1>1, <2>1, <2>2
<1>6. OpenNamesDoor'
  BY <1>3 DEF OpenNamesDoor, OpenPending
<1>7. QED
  BY <1>1, <1>4, <1>5, <1>6

LEMMA sendCommandKeeps ==
  ASSUME ConnInv, sendCommand
  PROVE  ConnInv'
<1>1. /\ holder # Nobody /\ flight = NoFlight /\ cmd # NoCmd
      /\ doorKeyID' = IF cmd.op = "door.open" THEN cmd.id ELSE doorKeyID
      /\ UNCHANGED <<conn, answer, state, door, cmd, reconcile>>
  BY DEF sendCommand, HasCommand, Unlocked, core, automaton, returned, flags
<1>2. CASE conn = "new" /\ holder' = Nobody /\ UNCHANGED <<flight, toMachine>>
  <2> USE DEF ConnInv
  <2>1. IsWire' /\ OneWait'
    BY <1>1, <1>2 DEF IsWire, OneWait
  <2>2. OpensApart'
    BY <1>1, <1>2 DEF OpensApart, Opens, OpenPending
  <2>3. OpenNamesDoor'
    BY <1>1, <1>2 DEF OpenNamesDoor, OpenPending
  <2>4. QED
    BY <2>1, <2>2, <2>3
<1>3. CASE /\ conn = "up" /\ UNCHANGED holder /\ Sends(cmd)
           /\ flight' = [cmd |-> cmd, own |-> cmd.op = "door.close" /\ door.key,
                         closing |-> state = "closing", reconciling |-> reconcile, recheck |-> FALSE]
  <2>1. flight'.cmd = cmd /\ flight'.recheck = FALSE /\ flight' # NoFlight
    BY <1>1, <1>3 DEF NoFlight
  <2>2. cmd.op \in Ops \ {"none"} /\ (cmd.op = "door.open" => OpenPending)
    BY <1>1 DEF ConnInv, OpenNamesDoor, OpenPending
  <2>3. QED
    BY <1>1, <1>3, <2>1, <2>2, SendingKeeps
<1>4. QED
  BY <1>2, <1>3 DEF sendCommand

\* The read loop hands over an answer that is waited for, which is the last.
LEMMA machineAnswersKeeps ==
  ASSUME ConnInv, machineAnswers
  PROVE  ConnInv'
<1> USE DEF ConnInv
<1>1. /\ conn = "up" /\ toMachine # <<>> /\ toMachine' = Tail(toMachine)
      /\ \E a \in Answers : answer' = IF Head(toMachine).live THEN a ELSE answer
      /\ UNCHANGED <<conn, doorKeyID, holder, flight, state, door, cmd, reconcile>>
  BY DEF machineAnswers, readLoop, core, epochVars, automaton, returned, flags
<1>2. /\ IsWire' /\ Len(toMachine') = Len(toMachine) - 1 /\ Len(toMachine) \in Nat /\ Len(toMachine) >= 1
      /\ Head(toMachine) = toMachine[1]
      /\ \A i \in 1..Len(toMachine') : i + 1 \in 1..Len(toMachine) /\ toMachine'[i] = toMachine[i + 1]
  BY <1>1, HeadLeaves DEF IsWire
<1>3. CASE toMachine[1].live
  <2>1. Len(toMachine) = 1 /\ flight # NoFlight
    BY <1>2, <1>3 DEF OneWait
  <2>2. Len(toMachine') = 0 /\ toMachine' = <<>>
    BY <1>2, <2>1 DEF IsWire
  <2>3. OneWait'
    <3>1. \A i \in 1..Len(toMachine') : FALSE
      BY <2>2
    <3>2. QED
      BY <1>1, <2>1, <2>2, <3>1 DEF OneWait
  <2>4. OpensApart'
    BY <2>2 DEF OpensApart
  <2>5. QED
    BY <1>1, <1>2, <2>3, <2>4 DEF OpenNamesDoor, OpenPending
<1>4. CASE ~toMachine[1].live
  <2>1. answer' = answer
    BY <1>1, <1>2, <1>4
  <2>2. OneWait'
    <3>1. answer = NoAnswer /\ answer' = NoAnswer
      BY <1>1, <2>1 DEF OneWait
    <3>2. ASSUME NEW i \in 1..Len(toMachine'), toMachine'[i].live
          PROVE  flight # NoFlight /\ i = Len(toMachine') /\ toMachine'[i].cmd = flight.cmd
      <4>1. i + 1 \in 1..Len(toMachine) /\ toMachine[i + 1].live /\ toMachine'[i].cmd = toMachine[i + 1].cmd
        BY <1>2, <3>2
      <4>2. i + 1 = Len(toMachine) /\ toMachine[i + 1].cmd = flight.cmd /\ flight # NoFlight
        BY <4>1 DEF OneWait
      <4>3. QED
        BY <1>2, <4>1, <4>2
    <3>3. QED
      BY <1>1, <3>1, <3>2 DEF OneWait
  <2>3. OpensApart'
    BY <1>1, <1>2 DEF OpensApart, Opens, OpenPending
  <2>4. QED
    BY <1>1, <1>2, <2>2, <2>3 DEF OpenNamesDoor, OpenPending
<1>5. QED
  BY <1>3, <1>4, SMTT(30)

\* Who goes on with a cycle holds driveMu.
LEMMA ContinueHolds ==
  ASSUME NEW who, who # Nobody, Continue(who)
  PROVE  cmd'.op = "door.open" => holder' # Nobody
  BY NoOpenInNothing DEF Continue

LEMMA SettleHolds ==
  ASSUME NEW op, NEW in, NEW olds, Settle(op, in, olds), holder # Nobody
  PROVE  /\ Apply(in, FreshID) /\ Landed /\ UNCHANGED <<conn, doorKeyID>>
         /\ cmd'.op = "door.open" => holder' # Nobody
  BY NoOpenInNothing DEF Settle, ApplyEvent

LEMMA PlainIs ==
  \A e : Plain(e).event = e /\ Plain(e).own = FALSE
  BY DEF Plain, Input

LEMMA PlainMoves ==
  ASSUME state \in States, NEW e \in Events \ {"lost", "status"}, NEW d, Apply(Plain(e), d)
  PROVE  /\ Moved /\ Owing
         /\ e = "timeout" /\ state = "opening"
              => state' = "closed" /\ reconcile' /\ cmd'.op # "door.open"
<1> DEFINE in == Plain(e)
<1>1. in.event = e /\ in.own = FALSE
  BY PlainIs
<1> HIDE DEF in
<1>2. Apply(in, d)
  BY DEF in
<1>3. QED
  BY <1>1, <1>2, ApplyMoves

LEMMA LateMoves ==
  ASSUME state \in States, NEW i, NEW d, Apply(Input("late", FALSE, i, FALSE, TRUE), d)
  PROVE  Moved /\ Owing
<1> DEFINE in == Input("late", FALSE, i, FALSE, TRUE)
<1>1. in.event = "late" /\ "late" \in Events
  BY DEF Input, Events
<1> HIDE DEF in
<1>2. Apply(in, d)
  BY DEF in
<1>3. QED
  BY <1>1, <1>2, ApplyMoves

\* An answer to a command is one of three inputs.
LEMMA AnswerIsInput ==
  ASSUME NEW a, flight.cmd.op \in Ops \ {"none"}
  PROVE  InputOf(a).event \in Events
<1>1. CASE ~a.ok
  BY <1>1 DEF InputOf, Input, Plain, Events
<1>2. CASE a.ok
  <2>1. flight.cmd.op \in {"door.open", "door.close", "door.status", "door.sanitize"}
    BY DEF Ops
  <2>2. CASE flight.cmd.op = "door.open"
    BY <1>2, <2>2 DEF InputOf, Input, Plain, Events
  <2>3. CASE flight.cmd.op = "door.close"
    BY <1>2, <2>3 DEF InputOf, Input, Plain, Events
  <2>4. CASE flight.cmd.op = "door.status"
    BY <1>2, <2>4 DEF InputOf, Input, Plain, Events
  <2>5. CASE flight.cmd.op = "door.sanitize"
    BY <1>2, <2>5 DEF InputOf, Input, Plain, Events
  <2>6. QED
    BY <2>1, <2>2, <2>3, <2>4, <2>5
<1>3. QED
  BY <1>1, <1>2

LEMMA driveAnswerKeeps ==
  ASSUME ConnInv, driveAnswer
  PROVE  ConnInv'
<1>1. /\ flight # NoFlight /\ answer # NoAnswer /\ holder # Nobody /\ toMachine = <<>>
      /\ flight.cmd.op \in Ops \ {"none"} /\ state \in States
  BY DEF driveAnswer, Waiting, ConnInv, OneWait, OpenNamesDoor
<1>2. InputOf(answer).event \in Events
  BY <1>1, AnswerIsInput
<1>3. /\ Apply(InputOf(answer), FreshID) /\ Landed /\ UNCHANGED <<conn, doorKeyID>>
      /\ cmd'.op = "door.open" => holder' # Nobody
  BY <1>1, SettleHolds DEF driveAnswer
<1>4. Moved
  BY <1>1, <1>2, <1>3, ApplyMoves
<1>5. QED
  BY <1>1, <1>3, <1>4, LandingKeeps

LEMMA driveTimeoutKeeps ==
  ASSUME ConnInv, driveTimeout
  PROVE  ConnInv'
<1>1. /\ flight # NoFlight /\ holder # Nobody /\ state \in States
      /\ flight.cmd.op = "door.open" => state = "opening"
  BY DEF driveTimeout, Waiting, ConnInv, OneWait, OpenNamesDoor
<1>2. /\ Apply(Plain("timeout"), FreshID) /\ Landed /\ UNCHANGED <<conn, doorKeyID>>
      /\ cmd'.op = "door.open" => holder' # Nobody
  BY <1>1, SettleHolds DEF driveTimeout
<1>3. Moved /\ Owing /\ (state = "opening" => reconcile' /\ cmd'.op # "door.open")
  BY <1>1, <1>2, PlainMoves DEF Events
<1>4. QED
  BY <1>1, <1>2, <1>3, LandingKeeps

LEMMA notSentKeeps ==
  ASSUME ConnInv, notSent
  PROVE  ConnInv'
<1>1. /\ flight = NoFlight /\ holder # Nobody /\ state = "opening" /\ state \in States
      /\ flight.cmd.op # "door.open"
  BY NoOpenInNothing DEF notSent, HasCommand, Unlocked, ConnInv, OpenNamesDoor, OpenPending
<1>2. /\ Apply(Plain("timeout"), FreshID) /\ Landed /\ UNCHANGED <<conn, doorKeyID>>
      /\ cmd'.op = "door.open" => holder' # Nobody
  BY <1>1, SettleHolds DEF notSent
<1>3. Moved /\ Owing /\ state' = "closed"
  BY <1>1, <1>2, PlainMoves DEF Events
<1>4. QED
  BY <1>1, <1>2, <1>3, LandingKeeps

\* The end of the connection ends the wait.
LEMMA driveClosedKeeps ==
  ASSUME ConnInv, driveClosed
  PROVE  ConnInv'
<1> USE DEF ConnInv
<1>1. /\ conn = "torn" /\ flight # NoFlight /\ Landed /\ holder' = Nobody
      /\ UNCHANGED <<conn, doorKeyID, state, door, cmd, reconcile>>
  BY DEF driveClosed, core, epochVars, automaton, returned, flags
<1>2. toMachine = <<>> /\ toMachine' = <<>> /\ flight' = NoFlight /\ answer' = NoAnswer
  BY <1>1 DEF OneWait, Landed
<1>3. IsWire' /\ Len(toMachine)' = 0
  BY <1>2, EmptyWireAfter
<1>4. OneWait'
  BY <1>1, <1>2, <1>3, NoOpenInNothing DEF OneWait
<1>5. OpensApart'
  BY <1>3 DEF OpensApart
<1>6. OpenNamesDoor'
  BY <1>1, <1>2, NoOpenInNothing DEF OpenNamesDoor, OpenPending
<1>7. QED
  BY <1>3, <1>4, <1>5, <1>6

-----------------------------------------------------------------------------
(* The callers. *)

\* A caller's input to the automaton, under driveMu.
LEMMA CallerEnters ==
  ASSUME ConnInv, NEW c \in Callers, NEW from, NEW next, NEW e \in Events \ {"lost", "status"},
         Enters(c, from, next), ApplyEvent(Plain(e)), Continue(c)
  PROVE  ConnInv'
<1>1. /\ Unlocked /\ state \in States /\ Apply(Plain(e), FreshID)
      /\ UNCHANGED <<conn, doorKeyID, flight, answer, toMachine>>
  BY DEF Enters, ApplyEvent, epochVars, wireVars, ConnInv, OpenNamesDoor
<1>2. Moved /\ Owing
  BY <1>1, PlainMoves
<1>3. c # Nobody
  BY ConnNames
<1>4. QED
  BY <1>1, <1>2, <1>3, ContinueHolds, EntryKeeps

LEMMA finishSessionKeeps ==
  ASSUME ConnInv, NEW c \in Callers, finishSession(c)
  PROVE  ConnInv'
<1>1. /\ Unlocked /\ state \in States /\ FinishSession /\ Continue(c)
      /\ UNCHANGED <<conn, doorKeyID, flight, answer, toMachine>>
  BY DEF finishSession, Enters, epochVars, wireVars, ConnInv, OpenNamesDoor
<1>2. QED
  BY <1>1, ConnNames, EntryPointsMove, ContinueHolds, EntryKeeps

\* The gateway's other goroutines.
LEMMA OthersKeep ==
  ASSUME ConnInv,
         (\E d \in DoorIDs : driveRetiredOpen(d)) \/ enforceHardDeadline \/ closeForOSUserChange
  PROVE  ConnInv'
<1>1. /\ Unlocked /\ Continue(Role) /\ Role # Nobody /\ state \in States
      /\ UNCHANGED <<conn, doorKeyID, flight, answer, toMachine>>
  BY DEF driveRetiredOpen, enforceHardDeadline, closeForOSUserChange, Locks, epochVars, Role, Nobody,
         ConnInv, OpenNamesDoor
<1>2. Moved /\ Owing
  BY <1>1, LateMoves, EntryPointsMove DEF driveRetiredOpen, enforceHardDeadline, closeForOSUserChange
<1>3. QED
  BY <1>1, <1>2, ContinueHolds, EntryKeeps

\* The status a refused caller sends outside a cycle.
LEMMA recheckDoorWireKeeps ==
  ASSUME ConnInv, NEW c \in Callers, recheckDoorWire(c)
  PROVE  ConnInv'
<1>1. /\ holder = Nobody /\ conn \in {"new", "up"} /\ Recheck(keyOf[c])
      /\ UNCHANGED <<conn, doorKeyID, answer, state, door, reconcile>>
  BY DEF recheckDoorWire, Unlocked, Alive, Recheck, epochVars, flags
<1>2. flight = NoFlight /\ ~OpenPending /\ state \in States
  BY <1>1 DEF ConnInv, OneWait, OpenNamesDoor, OpenPending
<1>3. Moved /\ Owing
  BY <1>1, <1>2 DEF Recheck, status, Quiet, Cmd, NoCmd, Ops, Moved, Owing
<1>4. cmd'.op # "door.open"
  BY <1>1 DEF Recheck, status, Quiet, Cmd, NoCmd
<1>5. CASE UNCHANGED <<holder, flight, toMachine>>
  BY <1>1, <1>3, <1>4, <1>5, EntryKeeps DEF Unlocked
<1>6. CASE /\ state = "open" /\ door.id = keyOf[c] /\ holder' = c /\ Sends(cmd')
           /\ flight' = [NoFlight EXCEPT !.cmd = cmd', !.recheck = TRUE]
  <2>1. cmd'.op = "door.status"
    BY <1>1, <1>6 DEF Recheck, status, Cmd
  <2>2. flight'.cmd = cmd' /\ flight' # NoFlight
    BY <1>6, <2>1, NoOpenInNothing
  <2>3. c # Nobody
    BY ConnNames
  <2>4. QED
    BY <1>1, <1>2, <1>6, <2>1, <2>2, <2>3, SendingKeeps DEF Ops
<1>7. QED
  BY <1>5, <1>6 DEF recheckDoorWire

LEMMA recheckAnswerKeeps ==
  ASSUME ConnInv, NEW c \in Callers, recheckAnswer(c)
  PROVE  ConnInv'
<1>1. /\ conn = "up" /\ flight.recheck /\ holder = c /\ c # Nobody /\ Landed /\ Continue(c)
      /\ UNCHANGED <<conn, doorKeyID>> /\ state \in States
  BY ConnNames DEF recheckAnswer, epochVars, ConnInv, OpenNamesDoor
<1>2. flight # NoFlight /\ flight.cmd.op = "door.status"
  BY <1>1, NoOpenInNothing DEF ConnInv, OneWait
<1>3. cmd'.op = "door.open" => holder' # Nobody
  BY <1>1, ContinueHolds
<1>4. CASE answer.ok /\ ApplyEvent(Input("status", answer.installed, answer.id, FALSE, FALSE))
  <2>1. toMachine = <<>>
    BY <1>4 DEF ConnInv, OneWait, NoAnswer, Answer
  <2>2. Moved
    <3> DEFINE in == Input("status", answer.installed, answer.id, FALSE, FALSE)
    <3>1. in.event \in Events
      BY DEF Input, Events
    <3>2. Apply(in, FreshID)
      BY <1>4 DEF ApplyEvent
    <3> HIDE DEF in
    <3>3. QED
      BY <1>1, <3>1, <3>2, ApplyMoves
  <2>3. QED
    BY <1>1, <1>2, <1>3, <2>1, <2>2, LandingKeeps
<1>5. CASE Ignore
  <2>1. Moved /\ Owing
    BY <1>1, <1>5, StayingMoves
  <2>2. QED
    BY <1>1, <1>2, <1>3, <2>1, LandingKeeps
<1>6. QED
  BY <1>4, <1>5 DEF recheckAnswer

\* What a caller does without driveMu.
LEMMA CallerAside ==
  ASSUME ConnInv, NEW c \in Callers,
         Check(c) \/ Turned(c) \/ Woken(c) \/ Expires(c) \/ takeSigner(c) \/ handshake(c)
           \/ endSession(c) \/ Leave(c)
  PROVE  ConnInv'
<1>1. UNCHANGED invVars
  <2>1. Aside
    BY DEF Check, Turned, Woken, Expires, takeSigner, handshake, endSession, Leave
  <2>2. QED
    BY <2>1 DEF Aside, invVars, core, automaton, returned, flags, epochVars, driveVars, wireVars
<1>2. QED
  BY <1>1, AsideKeeps

\* What a caller does under it.
LEMMA CallerInside ==
  ASSUME ConnInv, NEW c \in Callers,
         reserveWire(c) \/ cancelTicket(c) \/ nestedHandshakeSucceeded(c) \/ nestedHandshakeFailed(c)
           \/ releaseProbeReservation(c)
  PROVE  ConnInv'
<1> USE CallerEnters DEF Events
<1>1. CASE reserveWire(c)
  BY <1>1 DEF reserveWire
<1>2. CASE cancelTicket(c)
  BY <1>2 DEF cancelTicket
<1>3. CASE nestedHandshakeSucceeded(c)
  BY <1>3 DEF nestedHandshakeSucceeded
<1>4. CASE nestedHandshakeFailed(c)
  BY <1>4 DEF nestedHandshakeFailed
<1>5. CASE releaseProbeReservation(c)
  BY <1>5 DEF releaseProbeReservation
<1>6. QED
  BY <1>1, <1>2, <1>3, <1>4, <1>5

-----------------------------------------------------------------------------
(* The invariant. *)

LEMMA ConnInitHolds == ConnInit => ConnInv
<1>1. SUFFICES ASSUME ConnInit PROVE ConnInv
  OBVIOUS
<1>2. toMachine = <<>> /\ flight = NoFlight /\ answer = NoAnswer /\ holder = Nobody /\ state = "closed" /\ cmd = NoCmd
  BY <1>1 DEF ConnInit, Init
<1>3. IsWire /\ Len(toMachine) = 0
  BY <1>2, EmptyWire
<1>4. OneWait
  BY <1>2, <1>3, NoOpenInNothing DEF OneWait
<1>5. OpensApart
  BY <1>3 DEF OpensApart
<1>6. OpenNamesDoor
  BY <1>2, NoOpenInNothing DEF OpenNamesDoor, OpenPending, States
<1>7. QED
  BY <1>3, <1>4, <1>5, <1>6 DEF ConnInv

LEMMA ConnStepHolds == ConnInv /\ [ConnNext]_connVars => ConnInv'
<1>1. SUFFICES ASSUME ConnInv, [ConnNext]_connVars PROVE ConnInv'
  OBVIOUS
<1>2. ASSUME NEW c \in Callers, CallerStep(c) PROVE ConnInv'
  BY <1>1, <1>2, CallerAside, CallerInside, recheckDoorWireKeeps, recheckAnswerKeeps, finishSessionKeeps
  DEF CallerStep
<1>3. ASSUME DriveStep PROVE ConnInv'
  BY <1>1, <1>3, attachControlKeeps, initialStatusKeeps, teardownKeeps, sendCommandKeeps, driveAnswerKeeps,
     driveClosedKeeps, OthersKeep DEF DriveStep, letGo, terminalCut
<1>4. ASSUME Outside PROVE ConnInv'
  BY <1>1, <1>4, teardownKeeps, driveTimeoutKeeps, notSentKeeps, OthersKeep, CallerAside DEF Outside
<1>5. ASSUME Connect PROVE ConnInv'
  BY <1>1, <1>5, ConnectKeeps
<1>6. ASSUME machineAnswers PROVE ConnInv'
  BY <1>1, <1>6, machineAnswersKeeps
<1>7. ASSUME selfClose \/ corruptLine \/ UNCHANGED connVars PROVE ConnInv'
  <2>1. UNCHANGED <<core, epochVars, driveVars, wireVars>>
    BY <1>7 DEF selfClose, corruptLine, connVars
  <2>2. UNCHANGED invVars
    BY <2>1 DEF invVars, core, automaton, returned, flags, epochVars, driveVars, wireVars
  <2>3. QED
    BY <1>1, <2>2, AsideKeeps
<1>8. QED
  BY <1>1, <1>2, <1>3, <1>4, <1>5, <1>6, <1>7 DEF ConnNext

\* The invariant of the connection, whatever callers, machine and network do.
THEOREM ConnInvariant == ConnSpec => []ConnInv
  BY ConnInitHolds, ConnStepHolds, PTL DEF ConnSpec

\* Whoever asks for the signer of an open door is given that door's
\* (machine_conn.go sendCommand, currentDoorSigner).
THEOREM SignerIsTheDoors == ConnSpec => []KeyMatchesDoor
  BY ConnInvariant, ConnInvSuffices, PTL

\* The machine never has two opens before it (machine_conn.go driveOneUntil,
\* core/door.go openingTimeout).
THEOREM OpensNeverCompete == ConnSpec => []NoCompetingOpen
  BY ConnInvariant, ConnInvSuffices, PTL

-----------------------------------------------------------------------------
(* One line (MachineConn.OneLine).                                         *)
(*                                                                         *)
(* What the machine remembers and what is in its key file drift apart only *)
(* when it connects and the sweep before that has failed: then it          *)
(* remembers nothing and one line may be left.  While it is, the gateway   *)
(* has not heard a clean status, so it calls the machine offline, admits   *)
(* nobody and asks for no open; all it does is close and sweep.            *)

\* The automaton admits nobody and has no door of its own.
Barred == ~online /\ reservations = 0 /\ state \in {"closed", "closing"} /\ ~door.key

\* No open is asked for, and a status that was heard has found the line.
Mute ==
  /\ ~OpenPending /\ flight.cmd.op # "door.open" /\ ~flight.own
  /\ \A i \in 1..Len(toMachine) : ~Opens(i)
  /\ answer.ok /\ flight.cmd.op = "door.status" => answer.installed

\* The failed sweep was the one fault, and left one line at most.
OneLeft == mem = NoID /\ faults = MaxFaults /\ \E d : disk \ {NoID} \subseteq {d}

LineInv ==
  /\ faults \in Nat
  /\ disk \ {NoID} \subseteq {mem} \/ (OneLeft /\ Barred /\ Mute)

LEMMA LineInvSuffices == LineInv => OneLine
<1>1. SUFFICES ASSUME LineInv PROVE OneLine
  OBVIOUS
<1>2. PICK d : disk \ {NoID} \subseteq {d}
  BY <1>1 DEF LineInv, OneLeft
<1>3. IsFiniteSet({d}) /\ Cardinality({d}) = 1
  BY FS_Singleton
<1>4. disk \ {NoID} \in SUBSET {d}
  BY <1>2
<1>5. IsFiniteSet(disk \ {NoID}) /\ Cardinality(disk \ {NoID}) <= Cardinality({d})
  BY <1>3, <1>4, FS_Subset
<1>6. QED
  BY <1>3, <1>5 DEF OneLine

\* What the cells leave barred, and the command they return.
StillBarred == Barred' /\ cmd'.op # "door.open"

LEMMA BarredStays ==
  ASSUME Barred
  PROVE  /\ Ignore => StillBarred
         /\ protocolErr => StillBarred
         /\ UNCHANGED <<state, counters, flags, door>> /\ Quiet => StillBarred
  BY DEF StillBarred, Barred, Ignore, protocolErr, automaton

LEMMA CleanUpBars ==
  ASSUME Barred, NEW id, NEW why, cleanUp(id, why), UNCHANGED <<counters, flags>>
  PROVE  StillBarred
<1>1. /\ state' = "closing" /\ door'.key = FALSE /\ cmd'.op \in {"door.close", "door.sanitize"}
      /\ online' = online /\ reservations' = reservations
  BY DEF cleanUp, close, sanitize, FoundDoor, NoDoor
<1>2. QED
  BY <1>1 DEF StillBarred, Barred

LEMMA GivingUpBars ==
  ASSUME Barred, closingFailure \/ lost
  PROVE  StillBarred
<1>1. state' = "closed" /\ door'.key = FALSE /\ online' = FALSE /\ reservations' = 0 /\ cmd'.op = "none"
  BY DEF closingFailure, lost, forgetDoor, NoDoor
<1>2. QED
  BY <1>1 DEF StillBarred, Barred

LEMMA ClosedRowBars ==
  ASSUME Barred, state = "closed", NEW in
  PROVE  /\ closedStatus(in) /\ in.installed => StillBarred
         /\ closedTimeout => StillBarred
         /\ closedLate(in) => StillBarred
         /\ waitingCancel => StillBarred
<1>1. closedStatus(in) /\ in.installed => StillBarred
  BY CleanUpBars DEF closedStatus
<1>2. closedTimeout => StillBarred
  BY DEF closedTimeout, status, StillBarred, Barred
<1>3. closedLate(in) => StillBarred
  BY CleanUpBars, BarredStays DEF closedLate
<1>4. waitingCancel => StillBarred
  BY BarredStays DEF waitingCancel, Barred
<1>5. QED
  BY <1>1, <1>2, <1>3, <1>4

LEMMA ClosingRowBars ==
  ASSUME Barred, state = "closing", NEW in, NEW d
  PROVE  /\ closingSuccess(in, d) /\ ~in.own => StillBarred
         /\ closingTimeout => StillBarred
         /\ waitingCancel => StillBarred
<1>1. ASSUME closingSuccess(in, d), ~in.own PROVE StillBarred
  <2>1. CASE protocolErr
    BY <2>1, BarredStays
  <2>2. CASE UNCHANGED <<counters, online>> /\ state' = "closed" /\ door' = NoDoor /\ status
    <3>1. /\ state' = "closed" /\ door'.key = FALSE /\ cmd'.op = "door.status"
          /\ online' = online /\ reservations' = reservations
      BY <2>2 DEF status, NoDoor
    <3>2. QED
      BY <3>1 DEF StillBarred, Barred
  <2>3. QED
    BY <1>1, <2>1, <2>2 DEF closingSuccess
<1>2. ASSUME closingTimeout PROVE StillBarred
  <2>1. CASE closingFailure
    BY <2>1, GivingUpBars
  <2>2. CASE UNCHANGED <<state, counters, flags, door>> /\ cmd'.op \in {"door.close", "door.sanitize"}
    BY <2>2 DEF StillBarred, Barred
  <2>3. QED
    BY <1>2, <2>1, <2>2 DEF closingTimeout, close, sanitize
<1>3. waitingCancel => StillBarred
  BY BarredStays DEF waitingCancel, Barred
<1>4. QED
  BY <1>1, <1>2, <1>3

\* Nothing but a reservation or a clean status lets anybody in again.
LEMMA BarredApply ==
  ASSUME Barred, NEW in, NEW d, in.event \in Events \ {"reservation"}, Apply(in, d),
         in.event = "success" => ~in.own, in.event = "status" => in.installed
  PROVE  StillBarred
<1> USE DEF Apply
<1>0. state \in {"closed", "closing"}
  BY DEF Barred
<1>1. CASE in.event = "lost"
  BY <1>1, GivingUpBars
<1>2. CASE in.event = "status"
  BY <1>0, <1>2, ClosedRowBars, BarredStays
<1>3. CASE in.event = "cancel"
  BY <1>0, <1>3, ClosedRowBars, ClosingRowBars
<1>4. CASE in.event = "success"
  BY <1>0, <1>4, ClosingRowBars, BarredStays
<1>5. CASE in.event = "failure"
  BY <1>0, <1>5, GivingUpBars, BarredStays
<1>6. CASE in.event = "timeout"
  BY <1>0, <1>6, ClosedRowBars, ClosingRowBars
<1>7. CASE in.event = "late"
  BY <1>0, <1>7, ClosedRowBars, BarredStays
<1>8. CASE in.event = "nestedFailure"
  BY <1>0, <1>8, BarredStays
<1>9. QED
  BY <1>1, <1>2, <1>3, <1>4, <1>5, <1>6, <1>7, <1>8 DEF Events

LEMMA BarredEntry ==
  ASSUME Barred,
         FinishSession \/ HardDeadline(TRUE) \/ ForceClose \/ (\E id : Recheck(id))
           \/ (UNCHANGED <<state, counters, flags, door>> /\ status)
  PROVE  StillBarred
<1>0. state \in {"closed", "closing"}
  BY DEF Barred
<1>1. CASE FinishSession
  <2>1. CASE protocolErr
    BY <2>1, BarredStays
  <2>2. CASE Quiet /\ UNCHANGED <<state, reservations, flags, door>>
    BY <2>2 DEF StillBarred, Barred
  <2>3. QED
    BY <1>0, <1>1, <2>1, <2>2 DEF FinishSession
<1>2. CASE HardDeadline(TRUE)
  BY <1>0, <1>2, BarredStays DEF HardDeadline
<1>3. CASE ForceClose
  BY <1>0, <1>3, BarredStays DEF ForceClose
<1>4. CASE \E id : Recheck(id)
  BY <1>0, <1>4, BarredStays DEF Recheck
<1>5. CASE UNCHANGED <<state, counters, flags, door>> /\ status
  BY <1>5 DEF status, StillBarred, Barred
<1>6. QED
  BY <1>1, <1>2, <1>3, <1>4, <1>5

LEMMA BarredPlain ==
  ASSUME Barred, NEW e \in Events \ {"reservation", "status"}, NEW d, Apply(Plain(e), d)
  PROVE  StillBarred
<1> DEFINE in == Plain(e)
<1>1. in.event = e /\ in.own = FALSE
  BY PlainIs
<1> HIDE DEF in
<1>2. Apply(in, d)
  BY DEF in
<1>3. QED
  BY <1>1, <1>2, BarredApply

-----------------------------------------------------------------------------
(* Ways the wire stays mute. *)

Bare == Barred /\ Mute

LEMMA MuteStays ==
  ASSUME Mute, UNCHANGED <<flight, answer, toMachine>>, ~OpenPending'
  PROVE  Mute'
  BY DEF Mute, Opens

LEMMA MuteEntry ==
  ASSUME Mute, UNCHANGED <<flight, answer, toMachine>>, cmd'.op # "door.open"
  PROVE  Mute'
  BY MuteStays DEF OpenPending

LEMMA MuteLanding ==
  ASSUME ConnInv, Mute, Landed, ~OpenPending'
  PROVE  Mute'
<1>1. flight' = NoFlight /\ answer' = NoAnswer
  BY DEF Landed
<1>2. /\ Len(toMachine') = Len(toMachine)
      /\ \A i \in 1..Len(toMachine) : toMachine'[i].cmd = toMachine[i].cmd
  BY LandedLeaves DEF ConnInv
<1>3. \A i \in 1..Len(toMachine') : ~(toMachine'[i].cmd.op = "door.open")
  BY <1>2 DEF Mute, Opens
<1>4. NoAnswer.ok = FALSE /\ NoFlight.own = FALSE /\ NoFlight.cmd.op # "door.open"
  BY DEF NoAnswer, Answer, NoFlight
<1>5. QED
  BY <1>1, <1>3, <1>4 DEF Mute, Opens

LEMMA MuteSending ==
  ASSUME ConnInv, Mute, sendCommand, ~door.key
  PROVE  Mute'
<1>1. cmd.op # "door.open" /\ flight = NoFlight /\ answer = NoAnswer /\ UNCHANGED <<cmd, answer>>
  BY DEF sendCommand, HasCommand, Unlocked, Mute, OpenPending, ConnInv, OneWait, core, returned
<1>2. CASE UNCHANGED <<flight, toMachine>>
  BY <1>1, <1>2, MuteEntry
<1>3. CASE /\ flight' = [cmd |-> cmd, own |-> cmd.op = "door.close" /\ door.key,
                         closing |-> state = "closing", reconciling |-> reconcile, recheck |-> FALSE]
           /\ Sends(cmd)
  <2>1. flight'.cmd = cmd /\ ~flight'.own
    BY <1>3
  <2>2. \A i \in 1..Len(toMachine') : toMachine'[i].cmd.op # "door.open"
    <3>1. CASE toMachine' = toMachine
      BY <3>1 DEF Mute, Opens
    <3>2. CASE /\ Len(toMachine') = Len(toMachine) + 1
               /\ \A i \in 1..Len(toMachine) : toMachine'[i] = toMachine[i]
               /\ toMachine'[Len(toMachine')] = Request(cmd)
      <4>1. Request(cmd).cmd.op # "door.open" /\ Len(toMachine) \in Nat
        BY <1>1, RequestIs DEF ConnInv, IsWire
      <4>2. QED
        BY <3>2, <4>1 DEF Mute, Opens
    <3>3. QED
      BY <1>3, <3>1, <3>2, SendsOne DEF ConnInv
  <2>3. NoAnswer.ok = FALSE
    BY DEF NoAnswer, Answer
  <2>4. QED
    BY <1>1, <2>1, <2>2, <2>3 DEF Mute, Opens, OpenPending
<1>4. QED
  BY <1>2, <1>3 DEF sendCommand

LEMMA BareTeardown ==
  ASSUME Bare, teardown
  PROVE  Bare'
<1>1. StillBarred /\ toMachine' = <<>> /\ UNCHANGED <<flight, answer>>
  BY GivingUpBars DEF Bare, teardown
<1>2. \A i \in 1..Len(toMachine') : ~(toMachine'[i].cmd.op = "door.open")
  BY <1>1
<1>3. QED
  BY <1>1, <1>2 DEF Bare, Mute, Opens, OpenPending, StillBarred

-----------------------------------------------------------------------------
(* The steps while a line is left over. *)

LEMMA BareInside ==
  ASSUME Bare, StillBarred, UNCHANGED <<flight, answer, toMachine>>
  PROVE  Bare'
  BY MuteEntry DEF Bare, StillBarred

LEMMA BareLands ==
  ASSUME ConnInv, Bare, StillBarred, Landed
  PROVE  Bare'
  BY MuteLanding DEF Bare, StillBarred, OpenPending

LEMMA BareAside ==
  ASSUME Bare, UNCHANGED <<state, door, online, reservations, cmd, holder, flight, answer, toMachine>>
  PROVE  Bare'
<1>1. Barred'
  BY DEF Bare, Barred
<1>2. Mute'
  BY MuteStays DEF Bare, Mute, OpenPending
<1>3. QED
  BY <1>1, <1>2 DEF Bare

LEMMA BareAnswer ==
  ASSUME ConnInv, Bare, driveAnswer
  PROVE  Bare'
<1>1. /\ flight # NoFlight /\ holder # Nobody /\ flight.cmd.op \in Ops \ {"none"}
      /\ flight.cmd.op # "door.open" /\ ~flight.own
      /\ answer.ok /\ flight.cmd.op = "door.status" => answer.installed
  BY DEF driveAnswer, Waiting, ConnInv, OneWait, OpenNamesDoor, Bare, Mute
<1>2. Apply(InputOf(answer), FreshID) /\ Landed
  BY <1>1, SettleHolds DEF driveAnswer
<1> DEFINE in == InputOf(answer)
<1>3. /\ in.event \in Events \ {"reservation"}
      /\ in.event = "success" => ~in.own
      /\ in.event = "status" => in.installed
  <2>1. CASE ~answer.ok
    BY <2>1 DEF InputOf, Plain, Input, Events
  <2>2. CASE answer.ok /\ flight.cmd.op = "door.close"
    BY <1>1, <2>2 DEF InputOf, Plain, Input, Events
  <2>3. CASE answer.ok /\ flight.cmd.op = "door.status"
    BY <1>1, <2>3 DEF InputOf, Plain, Input, Events
  <2>4. CASE answer.ok /\ flight.cmd.op = "door.sanitize"
    BY <1>1, <2>4 DEF InputOf, Plain, Input, Events
  <2>5. QED
    BY <1>1, <2>1, <2>2, <2>3, <2>4 DEF Ops
<1>4. Apply(in, FreshID)
  BY <1>2
<1> HIDE DEF in
<1>5. StillBarred
  BY <1>3, <1>4, BarredApply DEF Bare
<1>6. QED
  BY <1>2, <1>5, BareLands

LEMMA BareRecheckAnswer ==
  ASSUME ConnInv, Bare, NEW c \in Callers, recheckAnswer(c)
  PROVE  Bare'
<1>1. Landed /\ flight.cmd.op = "door.status"
  BY NoOpenInNothing DEF recheckAnswer, ConnInv, OneWait
<1>2. CASE answer.ok /\ ApplyEvent(Input("status", answer.installed, answer.id, FALSE, FALSE))
  <2> DEFINE in == Input("status", answer.installed, answer.id, FALSE, FALSE)
  <2>1. in.event = "status" /\ in.installed /\ "status" \in Events \ {"reservation"} /\ "status" # "success"
    BY <1>1, <1>2 DEF Input, Events, Bare, Mute
  <2>2. Apply(in, FreshID)
    BY <1>2 DEF ApplyEvent
  <2> HIDE DEF in
  <2>3. StillBarred
    BY <2>1, <2>2, BarredApply DEF Bare
  <2>4. QED
    BY <1>1, <2>3, BareLands
<1>3. CASE Ignore
  BY <1>1, <1>3, BarredStays, BareLands DEF Bare
<1>4. QED
  BY <1>2, <1>3 DEF recheckAnswer

LEMMA BareDrive ==
  ASSUME ConnInv, Bare, DriveStep
  PROVE  Bare'
<1>1. CASE attachControl
  BY <1>1, BareAside DEF attachControl, core, automaton, returned, flags, counters, driveVars, wireVars
<1>2. CASE initialStatus
  <2>1. UNCHANGED <<state, counters, flags, door, flight, answer, toMachine>> /\ status
    BY <1>2 DEF initialStatus, wireVars
  <2>2. QED
    BY <2>1, BarredEntry, BareInside DEF Bare
<1>3. CASE teardown
  BY <1>3, BareTeardown
<1>4. CASE sendCommand
  <2>1. UNCHANGED core
    BY <1>4 DEF sendCommand
  <2>2. Mute'
    BY <1>4, MuteSending DEF Bare, Barred
  <2>3. QED
    BY <2>1, <2>2 DEF Bare, Barred, core, automaton, counters, flags
<1>5. CASE driveAnswer
  BY <1>5, BareAnswer
<1>6. CASE driveClosed
  <2>1. Landed /\ UNCHANGED core
    BY <1>6 DEF driveClosed
  <2>2. ~OpenPending'
    BY <1>6 DEF driveClosed, OpenPending
  <2>3. QED
    BY <2>1, <2>2, MuteLanding DEF Bare, Barred, core, automaton, counters, flags
<1>7. CASE \E d \in DoorIDs : driveRetiredOpen(d)
  <2>1. PICK d \in DoorIDs : driveRetiredOpen(d)
    BY <1>7
  <2> DEFINE in == Input("late", FALSE, d, FALSE, TRUE)
  <2>2. in.event = "late" /\ "late" \in Events \ {"reservation"} /\ "late" \notin {"success", "status"}
    BY DEF Input, Events
  <2>3. Apply(in, FreshID) /\ UNCHANGED <<flight, answer, toMachine>>
    BY <2>1 DEF driveRetiredOpen, Locks
  <2> HIDE DEF in
  <2>4. StillBarred
    BY <2>2, <2>3, BarredApply DEF Bare
  <2>5. QED
    BY <2>3, <2>4, BareInside
<1>8. QED
  BY <1>1, <1>2, <1>3, <1>4, <1>5, <1>6, <1>7 DEF DriveStep, letGo, terminalCut

LEMMA BareOutside ==
  ASSUME ConnInv, Bare, Outside
  PROVE  Bare'
<1>1. CASE teardown
  BY <1>1, BareTeardown
<1>2. CASE driveTimeout
  <2>1. holder # Nobody
    BY <1>2 DEF driveTimeout, Waiting, ConnInv, OneWait
  <2>2. Apply(Plain("timeout"), FreshID) /\ Landed
    BY <1>2, <2>1, SettleHolds DEF driveTimeout
  <2>3. QED
    BY <2>2, BarredPlain, BareLands DEF Bare, Events
<1>3. CASE notSent
  BY <1>3 DEF notSent, HasCommand, Unlocked, Bare, Mute, OpenPending
<1>4. CASE enforceHardDeadline \/ closeForOSUserChange
  <2>1. UNCHANGED <<flight, answer, toMachine>> /\ (HardDeadline(TRUE) \/ ForceClose)
    BY <1>4 DEF enforceHardDeadline, closeForOSUserChange, Locks
  <2>2. QED
    BY <2>1, BarredEntry, BareInside DEF Bare
<1>5. CASE \E c \in Callers : Check(c) \/ Expires(c) \/ endSession(c)
  <2>1. Aside
    BY <1>5 DEF Check, Expires, endSession
  <2>2. QED
    BY <2>1, BareAside DEF Aside, core, automaton, returned, flags, counters, driveVars, wireVars
<1>6. QED
  BY <1>1, <1>2, <1>3, <1>4, <1>5 DEF Outside

\* Nobody is admitted: the machine is offline.
LEMMA BareCaller ==
  ASSUME StaleCallers = {}, ConnInv, Bare, NEW c \in Callers, CallerStep(c)
  PROVE  Bare'
<1>1. CASE Turned(c) \/ Woken(c) \/ takeSigner(c) \/ handshake(c) \/ Leave(c)
  <2>1. Aside
    BY <1>1 DEF Turned, Woken, takeSigner, handshake, Leave
  <2>2. QED
    BY <2>1, BareAside DEF Aside, core, automaton, returned, flags, counters, driveVars, wireVars
<1>2. ~reserveWire(c)
  BY DEF reserveWire, Bare, Barred
<1>3. ASSUME NEW e \in Events \ {"reservation", "status"}, NEW from, NEW next,
             Enters(c, from, next), ApplyEvent(Plain(e))
      PROVE  Bare'
  <2>1. Apply(Plain(e), FreshID) /\ UNCHANGED <<flight, answer, toMachine>>
    BY <1>3 DEF Enters, ApplyEvent, wireVars
  <2>2. QED
    BY <2>1, BarredPlain, BareInside DEF Bare
<1>4. CASE cancelTicket(c) \/ nestedHandshakeSucceeded(c) \/ nestedHandshakeFailed(c) \/ releaseProbeReservation(c)
  BY <1>3, <1>4
  DEF cancelTicket, nestedHandshakeSucceeded, nestedHandshakeFailed, releaseProbeReservation, Events
<1>5. CASE finishSession(c)
  <2>1. FinishSession /\ UNCHANGED <<flight, answer, toMachine>>
    BY <1>5 DEF finishSession, Enters, wireVars
  <2>2. QED
    BY <2>1, BarredEntry, BareInside DEF Bare
<1>6. CASE recheckDoorWire(c)
  <2>1. Recheck(keyOf[c]) /\ UNCHANGED answer /\ UNCHANGED <<flight, toMachine>>
    BY <1>6 DEF recheckDoorWire, Bare, Barred
  <2>2. QED
    BY <2>1, BarredEntry, BareInside DEF Bare
<1>7. CASE recheckAnswer(c)
  BY <1>7, BareRecheckAnswer
<1>8. QED
  BY <1>1, <1>2, <1>4, <1>5, <1>6, <1>7 DEF CallerStep

-----------------------------------------------------------------------------
(* The machine. *)

\* What the machine does to its lines and its memory when all goes well.
LEMMA AnswerKeepsLine ==
  ASSUME ConnInv, LineInv, MaxFaults \in {0, 1}, machineAnswers
  PROVE  LineInv'
<1> DEFINE q == Head(toMachine)
<1>1. PICK a \in Answers :
        /\ \/ q.cmd.op = "door.open" /\ doorOpen(q.cmd.id, a)
           \/ q.cmd.op = "door.close" /\ doorClose(q.cmd.id, a)
           \/ q.cmd.op = "door.status" /\ doorStatus(a)
           \/ q.cmd.op = "door.sanitize" /\ doorSanitize(a)
        /\ answer' = IF q.live THEN a ELSE answer
  BY DEF machineAnswers, readLoop
<1>2. /\ toMachine # <<>> /\ toMachine' = Tail(toMachine)
      /\ UNCHANGED <<state, door, online, reservations, cmd, holder, flight>>
  BY DEF machineAnswers, core, automaton, returned, flags, counters, epochVars
<1>3. /\ Len(toMachine) \in Nat /\ Len(toMachine) >= 1 /\ q = toMachine[1]
      /\ Len(toMachine') = Len(toMachine) - 1
      /\ \A i \in 1..Len(toMachine') : toMachine'[i] = toMachine[i + 1]
  BY <1>2, HeadLeaves DEF ConnInv, IsWire
<1>4. q.live => q.cmd = flight.cmd
  BY <1>3 DEF ConnInv, OneWait
<1> HIDE DEF q
<1>5. faults' \in Nat
  <2>1. faults \in Nat
    BY DEF LineInv
  <2>2. UNCHANGED faults \/ faults' = faults + 1
    BY <1>1 DEF doorOpen, doorClose, doorStatus, doorSanitize, Fault, machine
  <2>3. QED
    BY <2>1, <2>2
<1>6. CASE disk \ {NoID} \subseteq {mem}
  <2>1. CASE doorOpen(q.cmd.id, a)
    BY <1>5, <1>6, <2>1 DEF doorOpen, machine, LineInv
  <2>2. CASE doorClose(q.cmd.id, a)
    <3>1. CASE UNCHANGED <<disk, mem>>
      BY <1>5, <1>6, <3>1 DEF LineInv
    <3>2. CASE mem \in {NoID, q.cmd.id} /\ disk' = disk \ {q.cmd.id} /\ mem' = NoID
      BY <1>5, <1>6, <3>2 DEF LineInv
    <3>3. QED
      BY <2>2, <3>1, <3>2 DEF doorClose, machine
  <2>3. CASE doorStatus(a)
    BY <1>5, <1>6, <2>3 DEF doorStatus, LineInv
  <2>4. CASE doorSanitize(a)
    BY <1>5, <1>6, <2>4 DEF doorSanitize, LineInv
  <2>5. QED
    BY <1>1, <2>1, <2>2, <2>3, <2>4
<1>7. CASE disk \ {NoID} # {} /\ OneLeft /\ Barred /\ Mute
  <2>1. q.cmd.op # "door.open"
    BY <1>3, <1>7 DEF Mute, Opens
  <2>2. ~(faults < MaxFaults)
    BY <1>7 DEF OneLeft
  <2>3. UNCHANGED faults
    BY <1>1, <2>1, <2>2 DEF doorClose, doorStatus, doorSanitize, Fault, machine
  <2>4. Barred'
    BY <1>2, <1>7 DEF Barred
  <2>5. \A i \in 1..Len(toMachine') : ~(toMachine'[i].cmd.op = "door.open")
    BY <1>3, <1>7 DEF Mute, Opens
  <2>6. Mute'
    <3>1. ASSUME answer'.ok, flight.cmd.op = "door.status" PROVE answer'.installed
      <4>1. CASE ~q.live
        BY <1>1, <1>7, <3>1, <4>1 DEF Mute
      <4>2. CASE q.live
        <5>1. q.cmd.op = "door.status" /\ answer' = a
          BY <1>1, <1>4, <3>1, <4>2
        <5>2. doorStatus(a) /\ disk # {}
          BY <1>1, <1>7, <5>1
        <5>3. a.installed
          BY <2>2, <5>2 DEF doorStatus, Fault, Answer
        <5>4. QED
          BY <5>1, <5>3
      <4>3. QED
        BY <4>1, <4>2
    <3>2. QED
      BY <1>2, <1>7, <2>5, <3>1 DEF Mute, Opens, OpenPending
  <2>7. mem' = NoID /\ disk' \subseteq disk
    BY <1>1, <1>7, <2>1 DEF doorClose, doorStatus, doorSanitize, machine, OneLeft
  <2>8. OneLeft'
    BY <1>7, <2>3, <2>7 DEF OneLeft
  <2>9. QED
    BY <1>5, <2>4, <2>6, <2>8 DEF LineInv
<1>8. QED
  BY <1>6, <1>7 DEF LineInv

\* The machine connects: its sweep has removed everything, or was the one fault.
LEMMA ConnectKeepsLine ==
  ASSUME ConnInv, LineInv, MaxFaults \in {0, 1}, Connect
  PROVE  LineInv'
<1>1. /\ conn \in {"none", "torn"} /\ holder = Nobody /\ cmd' = NoCmd /\ mem' = NoID
      /\ state' = "closed" /\ reservations' = 0 /\ online' = FALSE /\ door' = NoDoor
      /\ UNCHANGED <<holder, flight, answer, toMachine>>
      /\ (disk' = {} /\ UNCHANGED faults) \/ (Fault /\ UNCHANGED disk)
  BY DEF Connect, Unlocked, driveVars, wireVars
<1>2. flight = NoFlight /\ answer = NoAnswer /\ toMachine = <<>>
  BY <1>1 DEF ConnInv, OneWait
<1>3. CASE disk' = {} /\ UNCHANGED faults
  BY <1>3 DEF LineInv
<1>4. CASE Fault /\ UNCHANGED disk
  <2>1. faults \in Nat /\ faults' \in Nat /\ faults' = MaxFaults /\ faults # MaxFaults
    BY <1>4 DEF LineInv, Fault
  <2>2. disk \ {NoID} \subseteq {mem}
    BY <2>1 DEF LineInv, OneLeft
  <2>3. OneLeft'
    BY <1>1, <1>4, <2>1, <2>2 DEF OneLeft
  <2>4. Barred'
    BY <1>1 DEF Barred, NoDoor
  <2>5. Mute'
    <3>1. NoAnswer.ok = FALSE /\ NoFlight.own = FALSE /\ Len(toMachine') = 0
      BY <1>1, <1>2 DEF NoAnswer, Answer, NoFlight
    <3>2. QED
      BY <1>1, <1>2, <3>1, NoOpenInNothing DEF Mute, OpenPending
  <2>6. QED
    BY <2>1, <2>3, <2>4, <2>5 DEF LineInv
<1>5. QED
  BY <1>1, <1>3, <1>4

-----------------------------------------------------------------------------
(* The invariant. *)

LEMMA LineStep ==
  ASSUME StaleCallers = {}, MaxFaults \in {0, 1}, ConnInv, LineInv, [ConnNext]_connVars
  PROVE  LineInv'
<1>1. ASSUME UNCHANGED machine, Bare => Bare' PROVE LineInv'
  BY <1>1 DEF LineInv, OneLeft, machine, Bare
<1>2. CASE (DriveStep \/ Outside \/ \E c \in Callers : CallerStep(c)) /\ UNCHANGED machine
  BY <1>1, <1>2, BareDrive, BareOutside, BareCaller
<1>3. CASE Connect
  BY <1>3, ConnectKeepsLine
<1>4. CASE machineAnswers
  BY <1>4, AnswerKeepsLine
<1>5. ASSUME UNCHANGED <<core, epochVars, driveVars, callerVars, wireVars>> PROVE Bare => Bare'
  BY <1>5, BareAside DEF core, automaton, returned, flags, counters, driveVars, wireVars
<1>6. CASE selfClose
  <2>1. Bare => Bare'
    BY <1>5, <1>6 DEF selfClose
  <2>2. mem # NoID /\ disk' = disk \ {mem} /\ mem' = NoID /\ UNCHANGED faults
    BY <1>6 DEF selfClose
  <2>3. QED
    BY <2>2 DEF LineInv, OneLeft
<1>7. CASE corruptLine
  <2>1. faults < MaxFaults /\ faults' = faults + 1 /\ mem' = mem
        /\ \E d \in disk \ {NoID} : disk' = (disk \ {d}) \cup {NoID}
    BY <1>7 DEF corruptLine, Fault
  <2>2. faults' \in Nat /\ ~OneLeft
    BY <2>1 DEF LineInv, OneLeft
  <2>3. disk' \ {NoID} \subseteq disk \ {NoID} /\ disk \ {NoID} \subseteq {mem}
    BY <2>1, <2>2 DEF LineInv
  <2>4. QED
    BY <2>1, <2>2, <2>3 DEF LineInv
<1>8. CASE UNCHANGED connVars
  BY <1>1, <1>5, <1>8 DEF connVars
<1>9. QED
  BY <1>2, <1>3, <1>4, <1>6, <1>7, <1>8 DEF ConnNext

LEMMA LineInit == ConnInit => LineInv
  BY DEF ConnInit, LineInv

\* The machine never has two lines of its own that a key can be presented to
\* (server doorOpen, core/door.go closedStatus), whichever one operation of its
\* fails, for any number of callers, ids and requests before it.
THEOREM NeverTwoLines ==
  ASSUME StaleCallers = {}, MaxFaults \in {0, 1}
  PROVE  ConnSpec => []OneLine
<1>1. ConnInv /\ LineInv /\ [ConnNext]_connVars => LineInv'
  BY LineStep
<1>2. QED
  BY <1>1, LineInit, ConnInvariant, LineInvSuffices, PTL DEF ConnSpec

-----------------------------------------------------------------------------
(* Nobody is counted who is not there (MachineConn.NobodyCountedTwice).     *)
(*                                                                         *)
(* While the machine is honest, a cycle of driveMu leaves the door closed  *)
(* or open and owes no reconciliation.  Hence nobody comes in while a door *)
(* opens or closes, a door that closes has nobody waiting for it, and a    *)
(* caller is told `fail' only when no reservation is counted any more.     *)

\* Whoever has a reservation that may still be counted, and a session.
OnTheWay ==
  {c \in Callers :
     /\ pc[c] \in {"waiting", "cancel", "granted", "handshake", "refused", "authed", "failed"}
     /\ ~(pc[c] \in {"waiting", "cancel"} /\ ticket[c] = "fail")}
Inside == {c \in Callers : pc[c] \in {"session", "finishing"}}
Counts == reservations <= Cardinality(OnTheWay) /\ sessions <= Cardinality(Inside)

\* The automaton by itself.
Tallies ==
  /\ reservations \in Nat /\ sessions \in Nat
  /\ state \in {"closed", "closing"} => reservations = 0
Doorway ==
  /\ state \in States
  /\ state \in {"opening", "open"} => ~reconcile /\ door.id # NoID
  /\ state = "closing" /\ door.key => ~reconcile

\* The command an entry point has returned fits the state it has left.
Fits(c) ==
  /\ c.op \in Ops
  /\ c.op = "door.open" => state = "opening" /\ c.id = door.id
  /\ c.op = "door.close" => state = "closing" /\ c.id = door.id
  /\ c.op = "door.sanitize" => state = "closing"

Led ==
  /\ Tallies' /\ Doorway' /\ Fits(cmd)'
  /\ cmd'.op = "none" => state' \in {"closed", "open"}
  /\ cmd'.op = "door.status" => state' = "closed"
  /\ state' = "open" => state \in {"opening", "open"} /\ door' = door

\* The cycle ends with no reconciliation owed.
Clear == cmd'.op = "none" => ~reconcile'

Fewer == reservations' <= reservations /\ sessions' <= sessions
Unreserved == reservations' + 1 <= reservations \/ reservations' = 0

\* The cells, from a closed and from an open door.
LEMMA StaysLed ==
  ASSUME Tallies, Doorway, state \in {"closed", "open"}, ~reconcile, Ignore \/ protocolErr
  PROVE  Led /\ Clear /\ Fewer
<1>1. UNCHANGED <<state, reservations, sessions, door, reconcile>> /\ cmd'.op = "none"
  BY DEF Ignore, protocolErr, automaton
<1>2. Tallies' /\ Fewer
  BY <1>1 DEF Tallies, Fewer
<1>3. Doorway'
  BY <1>1 DEF Doorway
<1>4. Fits(cmd)'
  BY <1>1 DEF Fits, Ops
<1>5. QED
  BY <1>1, <1>2, <1>3, <1>4 DEF Led, Clear

LEMMA ClosesLed ==
  ASSUME Tallies, Doorway, ~reconcile, NEW why, state' = "closing", close(door.id, why),
         reservations' = 0, sessions' \in Nat, UNCHANGED <<door, reconcile>>
  PROVE  Led /\ Clear
<1>1. cmd'.op = "door.close" /\ cmd'.id = door.id
  BY DEF close
<1>2. Tallies'
  BY DEF Tallies
<1>3. Doorway'
  BY DEF Doorway, States
<1>4. Fits(cmd)'
  BY <1>1 DEF Fits, Ops
<1>5. QED
  BY <1>1, <1>2, <1>3, <1>4 DEF Led, Clear

LEMMA CleansUpLed ==
  ASSUME Tallies, Doorway, state = "closed", NEW id, NEW why, cleanUp(id, why), UNCHANGED <<counters, flags>>
  PROVE  Led /\ Clear /\ Fewer
<1>1. /\ state' = "closing" /\ door'.key = FALSE /\ UNCHANGED <<reservations, sessions>>
      /\ \/ cmd'.op = "door.close" /\ cmd'.id = door'.id
         \/ cmd'.op = "door.sanitize"
  BY DEF cleanUp, close, sanitize, FoundDoor, NoDoor
<1>2. Tallies' /\ Fewer
  BY <1>1 DEF Tallies, Fewer
<1>3. Doorway'
  BY <1>1 DEF Doorway, States
<1>4. Fits(cmd)'
  BY <1>1 DEF Fits, Ops
<1>5. QED
  BY <1>1, <1>2, <1>3, <1>4 DEF Led, Clear

LEMMA OpensLed ==
  ASSUME Tallies, Doorway, ~reconcile, NEW d, d # NoID, startOpen(d),
         reservations' \in Nat, sessions' \in Nat, UNCHANGED reconcile
  PROVE  Led /\ Clear
<1>1. state' = "opening" /\ door'.id = d /\ cmd'.op = "door.open" /\ cmd'.id = d
  BY DEF startOpen, OwnDoor
<1>2. Tallies'
  BY <1>1 DEF Tallies
<1>3. Doorway'
  BY <1>1 DEF Doorway, States
<1>4. Fits(cmd)'
  BY <1>1 DEF Fits, Ops
<1>5. QED
  BY <1>1, <1>2, <1>3, <1>4 DEF Led, Clear

\* An open door stays open, or closes because nobody is counted any more.
LEMMA IdlesLed ==
  ASSUME Tallies, Doorway, state = "open", NEW s \in Nat, idleClose(reservations', s),
         reservations' \in Nat, sessions' \in Nat, UNCHANGED <<door, reconcile>>
  PROVE  Led /\ Clear
<1>1. CASE reservations' = 0 /\ s = 0
  BY <1>1, ClosesLed DEF idleClose, Doorway
<1>2. CASE ~(reservations' = 0 /\ s = 0)
  <2>1. state' = "open" /\ cmd'.op = "none" /\ door' = door /\ ~reconcile'
    BY <1>2 DEF idleClose, Doorway
  <2>2. Tallies'
    BY <2>1 DEF Tallies
  <2>3. Doorway'
    BY <2>1 DEF Doorway, States
  <2>4. Fits(cmd)'
    BY <2>1 DEF Fits, Ops
  <2>5. QED
    BY <2>1, <2>2, <2>3, <2>4 DEF Led, Clear
<1>3. QED
  BY <1>1, <1>2

LEMMA OpenStaysLed ==
  ASSUME Tallies, Doorway, state = "open", Quiet, reservations' \in Nat, sessions' \in Nat,
         UNCHANGED <<state, door, reconcile>>
  PROVE  Led /\ Clear
<1>1. state' = "open" /\ cmd'.op = "none" /\ door' = door /\ ~reconcile'
  BY DEF Doorway
<1>2. Tallies'
  BY <1>1 DEF Tallies
<1>3. Doorway'
  BY <1>1 DEF Doorway, States
<1>4. Fits(cmd)'
  BY <1>1 DEF Fits, Ops
<1>5. QED
  BY <1>1, <1>2, <1>3, <1>4 DEF Led, Clear

\* The door is closed; a status may follow.
LEMMA ShutsLed ==
  ASSUME state' = "closed", reservations' = 0, sessions' \in Nat, cmd'.op \in {"none", "door.status"}
  PROVE  Led
  BY DEF Led, Tallies, Doorway, Fits, States, Ops

-----------------------------------------------------------------------------
(* What comes in between two cycles. *)

AtRest == Tallies /\ Doorway /\ state \in {"closed", "open"} /\ ~reconcile

LEMMA RestStays ==
  ASSUME AtRest, Ignore \/ protocolErr
  PROVE  Led /\ Clear /\ Fewer
  BY StaysLed DEF AtRest

LEMMA RestReserves ==
  ASSUME AtRest, NEW d, d # NoID, (closedReserve(d) /\ state = "closed") \/ (waitingReserve /\ state = "open")
  PROVE  Led /\ Clear /\ reservations' = reservations + 1 /\ sessions' = sessions
<1>1. reservations' = reservations + 1 /\ sessions' = sessions /\ reservations \in Nat /\ sessions \in Nat
  BY DEF closedReserve, waitingReserve, AtRest, Tallies
<1>2. CASE closedReserve(d) /\ state = "closed"
  <2>1. startOpen(d) /\ UNCHANGED reconcile
    BY <1>2 DEF closedReserve, AtRest
  <2>2. QED
    BY <1>1, <2>1, OpensLed DEF AtRest
<1>3. CASE waitingReserve /\ state = "open"
  <2>1. Quiet /\ UNCHANGED <<state, door, reconcile>> /\ reservations' \in Nat /\ sessions' \in Nat
    BY <1>1, <1>3 DEF waitingReserve
  <2>2. QED
    BY <1>1, <1>3, <2>1, OpenStaysLed DEF AtRest
<1>4. QED
  BY <1>2, <1>3

LEMMA RestReleases ==
  ASSUME AtRest, (nestedFailure /\ state = "open") \/ (waitingCancel /\ state = "closed")
  PROVE  Led /\ Clear /\ Fewer /\ Unreserved
<1>1. reservations \in Nat /\ sessions \in Nat
  BY DEF AtRest, Tallies
<1>2. CASE reservations = 0
  <2>1. protocolErr
    BY <1>2 DEF nestedFailure, waitingCancel
  <2>2. reservations' = 0
    BY <1>2, <2>1 DEF protocolErr, automaton
  <2>3. QED
    BY <2>1, <2>2, RestStays DEF Unreserved
<1>3. CASE reservations # 0
  <2>1. state = "open" /\ nestedFailure
    BY <1>3 DEF AtRest, Tallies
  <2>2. /\ reservations' = reservations - 1 /\ idleClose(reservations - 1, sessions)
        /\ sessions' = sessions /\ UNCHANGED <<door, reconcile>>
    BY <1>3, <2>1 DEF nestedFailure
  <2>3. idleClose(reservations', sessions)
    BY <2>2
  <2>4. reservations' \in Nat /\ sessions' \in Nat /\ Fewer /\ Unreserved
    BY <1>1, <1>3, <2>2 DEF Fewer, Unreserved
  <2>5. QED
    BY <1>1, <2>1, <2>2, <2>3, <2>4, IdlesLed DEF AtRest
<1>4. QED
  BY <1>2, <1>3

LEMMA RestAdmits ==
  ASSUME AtRest, (nestedSuccess /\ state = "open") \/ (protocolErr /\ state = "closed")
  PROVE  /\ Led /\ Clear /\ Unreserved
         /\ Fewer \/ (reservations' <= reservations /\ sessions' = sessions + 1)
<1>1. reservations \in Nat /\ sessions \in Nat
  BY DEF AtRest, Tallies
<1>2. CASE reservations = 0
  <2>1. protocolErr
    BY <1>2 DEF nestedSuccess
  <2>2. reservations' = 0
    BY <1>2, <2>1 DEF protocolErr, automaton
  <2>3. QED
    BY <2>1, <2>2, RestStays DEF Unreserved
<1>3. CASE reservations # 0
  <2>1. state = "open" /\ nestedSuccess
    BY <1>3 DEF AtRest, Tallies
  <2>2. /\ reservations' = reservations - 1 /\ sessions' = sessions + 1 /\ Quiet
        /\ UNCHANGED <<state, door, reconcile>>
    BY <1>3, <2>1 DEF nestedSuccess
  <2>3. reservations' \in Nat /\ sessions' \in Nat /\ reservations' <= reservations /\ Unreserved
    BY <1>1, <1>3, <2>2 DEF Unreserved
  <2>4. Led /\ Clear
    BY <2>1, <2>2, <2>3, OpenStaysLed DEF AtRest
  <2>5. QED
    BY <2>2, <2>3, <2>4
<1>4. QED
  BY <1>2, <1>3

LEMMA RestFinishes ==
  ASSUME AtRest, FinishSession
  PROVE  Led /\ Clear /\ Fewer /\ (sessions' + 1 <= sessions \/ sessions' = 0)
<1>1. reservations \in Nat /\ sessions \in Nat
  BY DEF AtRest, Tallies
<1>2. CASE sessions = 0
  <2>1. protocolErr
    BY <1>2 DEF FinishSession
  <2>2. sessions' = 0
    BY <1>2, <2>1 DEF protocolErr, automaton
  <2>3. QED
    BY <2>1, <2>2, RestStays
<1>3. CASE sessions # 0
  <2>1. /\ sessions' = sessions - 1 /\ UNCHANGED <<reservations, door, reconcile>>
        /\ IF state = "open" THEN idleClose(reservations, sessions - 1)
                             ELSE Quiet /\ UNCHANGED state
    BY <1>3 DEF FinishSession
  <2>2. /\ sessions' \in Nat /\ reservations' \in Nat /\ sessions - 1 \in Nat
        /\ Fewer /\ sessions' + 1 <= sessions
    BY <1>1, <1>3, <2>1 DEF Fewer
  <2>3. CASE state = "open"
    <3>1. idleClose(reservations', sessions - 1)
      BY <2>1, <2>3
    <3>2. QED
      BY <2>1, <2>2, <2>3, <3>1, IdlesLed DEF AtRest
  <2>4. CASE state = "closed"
    <3>1. /\ state' = "closed" /\ reservations' = 0 /\ cmd'.op = "none" /\ ~reconcile'
      BY <2>1, <2>4 DEF AtRest, Tallies
    <3>2. QED
      BY <2>2, <3>1, ShutsLed DEF Clear
  <2>5. QED
    BY <2>3, <2>4 DEF AtRest
<1>4. QED
  BY <1>2, <1>3

LEMMA RestClosesHard ==
  ASSUME AtRest, HardDeadline(TRUE) \/ ForceClose
  PROVE  Led /\ Clear /\ Fewer
<1>1. reservations \in Nat /\ sessions \in Nat
  BY DEF AtRest, Tallies
<1>2. CASE HardDeadline(TRUE)
  <2>1. CASE Ignore
    BY <2>1, RestStays
  <2>2. CASE /\ reservations = 0 /\ state' = "closing" /\ close(door.id, "hard")
             /\ UNCHANGED <<counters, flags, door>>
    <3>1. reservations' = 0 /\ sessions' \in Nat /\ UNCHANGED <<door, reconcile>> /\ Fewer
      BY <1>1, <2>2 DEF Fewer
    <3>2. QED
      BY <2>2, <3>1, ClosesLed DEF AtRest
  <2>3. QED
    BY <1>2, <2>1, <2>2 DEF HardDeadline
<1>3. CASE ForceClose
  <2>1. CASE Ignore \/ protocolErr
    BY <2>1, RestStays
  <2>2. CASE /\ state' = "closing" /\ reservations' = 0 /\ sessions' = 0 /\ close(door.id, "stop")
             /\ UNCHANGED <<flags, door>>
    <3>1. sessions' \in Nat /\ UNCHANGED <<door, reconcile>> /\ Fewer
      BY <1>1, <2>2 DEF Fewer
    <3>2. QED
      BY <2>2, <3>1, ClosesLed DEF AtRest
  <2>3. QED
    BY <1>3, <2>1, <2>2 DEF ForceClose, AtRest
<1>4. QED
  BY <1>2, <1>3

LEMMA RestApply ==
  ASSUME AtRest, NEW in, NEW d, d # NoID, Apply(in, d)
  PROVE  /\ in.event = "reservation" => Led /\ Clear /\ reservations' = reservations + 1 /\ sessions' = sessions
         /\ in.event \in {"cancel", "nestedFailure"} => Led /\ Clear /\ Fewer /\ Unreserved
         /\ in.event = "success" => /\ Led /\ Clear /\ Unreserved
                                    /\ Fewer \/ (reservations' <= reservations /\ sessions' = sessions + 1)
         /\ in.event = "late" => Led /\ Clear /\ Fewer
<1> USE DEF Apply
<1>0. state \in {"closed", "open"}
  BY DEF AtRest
<1>1. CASE in.event = "reservation"
  <2>1. (closedReserve(d) /\ state = "closed") \/ (waitingReserve /\ state = "open")
    BY <1>0, <1>1
  <2>2. QED
    BY <1>1, <2>1, RestReserves
<1>2. CASE in.event = "cancel"
  <2>1. (nestedFailure /\ state = "open") \/ (waitingCancel /\ state = "closed")
    BY <1>0, <1>2
  <2>2. QED
    BY <1>2, <2>1, RestReleases
<1>3. CASE in.event = "nestedFailure"
  <2>1. CASE state = "open"
    <3>1. nestedFailure
      BY <1>3, <2>1
    <3>2. QED
      BY <1>3, <2>1, <3>1, RestReleases
  <2>2. CASE state = "closed" /\ Ignore
    <3>1. reservations' = 0
      BY <2>2 DEF AtRest, Tallies, Ignore, automaton
    <3>2. QED
      BY <1>3, <2>2, <3>1, RestStays DEF Unreserved
  <2>3. QED
    BY <1>0, <1>3, <2>1, <2>2
<1>4. CASE in.event = "success"
  <2>1. (nestedSuccess /\ state = "open") \/ (protocolErr /\ state = "closed")
    BY <1>0, <1>4
  <2>2. QED
    BY <1>4, <2>1, RestAdmits
<1>5. CASE in.event = "late"
  <2>1. CASE Ignore
    BY <1>5, <2>1, RestStays
  <2>2. CASE state = "closed" /\ cleanUp(in.id, "late_reply") /\ UNCHANGED <<counters, flags>>
    BY <1>5, <2>2, CleansUpLed DEF AtRest
  <2>3. QED
    BY <1>0, <1>5, <2>1, <2>2 DEF closedLate
<1>6. QED
  BY <1>1, <1>2, <1>3, <1>4, <1>5

-----------------------------------------------------------------------------
(* What ends a wait. *)

LEMMA StatusLands ==
  ASSUME Tallies, Doorway, NEW in, NEW d, d # NoID,
         \/ state = "closed" /\ closedStatus(in)
         \/ state = "open" /\ openStatus(in, d) /\ (in.installed => in.id = door.id)
         \/ state = "open" /\ Ignore
  PROVE  Led /\ Clear /\ Fewer
<1>1. reservations \in Nat /\ sessions \in Nat
  BY DEF Tallies
<1>2. CASE state = "closed" /\ closedStatus(in)
  <2>1. CASE in.installed
    BY <1>2, <2>1, CleansUpLed DEF closedStatus
  <2>2. CASE ~in.installed
    <3>1. /\ state' = "closed" /\ reservations' = 0 /\ sessions' = sessions /\ reconcile' = FALSE
          /\ cmd'.op = "none" /\ reservations' = reservations
      BY <1>2, <2>2 DEF closedStatus, Tallies
    <3>2. QED
      BY <1>1, <3>1, ShutsLed DEF Clear, Fewer
  <2>3. QED
    BY <2>1, <2>2
<1>3. CASE state = "open" /\ Ignore
  BY <1>3, StaysLed DEF Doorway
<1>4. CASE state = "open" /\ openStatus(in, d) /\ (in.installed => in.id = door.id)
  <2>1. CASE in.installed
    BY <1>3, <1>4, <2>1 DEF openStatus
  <2>2. CASE ~in.installed
    <3>1. UNCHANGED <<counters, flags>> /\ Fewer /\ ~reconcile
      BY <1>1, <1>4, <2>2 DEF openStatus, Fewer, Doorway
    <3>2. CASE startOpen(d)
      BY <1>1, <3>1, <3>2, OpensLed
    <3>3. CASE state' = "closed" /\ ~(reservations > 0) /\ Quiet
      <4>1. reservations' = 0 /\ sessions' = sessions /\ ~reconcile' /\ cmd'.op = "none"
        BY <1>1, <3>1, <3>3
      <4>2. QED
        BY <1>1, <3>1, <3>3, <4>1, ShutsLed DEF Clear
    <3>4. startOpen(d) \/ (state' = "closed" /\ ~(reservations > 0) /\ Quiet)
      BY <1>4, <2>2 DEF openStatus
    <3>5. QED
      BY <3>2, <3>3, <3>4
  <2>3. QED
    BY <2>1, <2>2
<1>5. QED
  BY <1>2, <1>3, <1>4

LEMMA OpeningLands ==
  ASSUME Tallies, Doorway, state = "opening", NEW in,
         (openingSuccess(in) /\ in.id = door.id) \/ openingFailure \/ openingTimeout
  PROVE  Led /\ Clear /\ Fewer
<1>1. reservations \in Nat /\ sessions \in Nat /\ ~reconcile
  BY DEF Tallies, Doorway
<1>2. CASE openingSuccess(in) /\ in.id = door.id
  <2>1. UNCHANGED <<counters, flags, door>> /\ Fewer
    BY <1>1, <1>2 DEF openingSuccess, Fewer
  <2>2. CASE state' = "open" /\ Quiet
    <3>1. Tallies'
      BY <1>1, <2>1, <2>2 DEF Tallies
    <3>2. Doorway'
      BY <2>1, <2>2 DEF Doorway, States
    <3>3. Fits(cmd)'
      BY <2>2 DEF Fits, Ops
    <3>4. QED
      BY <1>1, <2>1, <2>2, <3>1, <3>2, <3>3 DEF Led, Clear
  <2>3. CASE reservations = 0 /\ state' = "closing" /\ close(door.id, "idle")
    BY <1>1, <2>1, <2>3, ClosesLed
  <2>4. \/ state' = "open" /\ Quiet
        \/ ~(reservations > 0) /\ state' = "closing" /\ close(door.id, "idle")
    BY <1>2 DEF openingSuccess
  <2>5. ~(reservations > 0) => reservations = 0
    BY <1>1
  <2>6. QED
    BY <2>2, <2>3, <2>4, <2>5
<1>3. CASE openingFailure
  <2>1. /\ state' = "closed" /\ reservations' = 0 /\ sessions' = sessions /\ reconcile' = reconcile
        /\ cmd'.op = "none"
    BY <1>3 DEF openingFailure
  <2>2. QED
    BY <1>1, <2>1, ShutsLed DEF Clear, Fewer
<1>4. CASE openingTimeout
  <2>1. state' = "closed" /\ reservations' = 0 /\ sessions' = sessions /\ cmd'.op = "door.status"
    BY <1>4 DEF openingTimeout, status
  <2>2. QED
    BY <1>1, <2>1, ShutsLed DEF Clear, Fewer
<1>5. QED
  BY <1>2, <1>3, <1>4

LEMMA ClosingLands ==
  ASSUME Tallies, Doorway, state = "closing", NEW in, NEW d,
         closingSuccess(in, d), in.id \in {NoID, door.id}, in.own => door.key
  PROVE  Led /\ Clear /\ Fewer
<1>1. reservations = 0 /\ sessions \in Nat
  BY DEF Tallies
<1>2. ~(reservations > 0)
  BY <1>1
<1>3. /\ state' = "closed" /\ UNCHANGED counters
      /\ \/ cmd'.op = "door.status"
         \/ in.own /\ cmd'.op = "none" /\ reconcile' = reconcile
  BY <1>2 DEF closingSuccess, status
<1>4. cmd'.op = "none" => ~reconcile'
  BY <1>3 DEF Doorway
<1>5. Fewer
  BY <1>1, <1>3 DEF Fewer
<1>6. QED
  BY <1>1, <1>3, <1>4, <1>5, ShutsLed DEF Clear

\* Only a closing operation that failed for good may leave a reconciliation
\* owed; it is known by its event.
LEMMA GivingUpLands ==
  ASSUME Tallies, Doorway, state = "closing", closingFailure \/ closingTimeout
  PROVE  Led /\ Fewer /\ (cmd'.op # "none" \/ (state' = "closed" /\ ~err'))
<1>1. reservations = 0 /\ sessions \in Nat
  BY DEF Tallies
<1>2. CASE closingFailure
  <2>1. /\ state' = "closed" /\ reservations' = 0 /\ sessions' = sessions /\ cmd'.op = "none" /\ ~err'
    BY <1>2 DEF closingFailure
  <2>2. QED
    BY <1>1, <2>1, ShutsLed DEF Fewer
<1>3. CASE /\ UNCHANGED <<state, counters, flags, door>>
           /\ \/ cmd'.op = "door.sanitize"
              \/ cmd'.op = "door.close" /\ cmd'.id = door.id
  <2>1. Tallies' /\ Fewer
    BY <1>1, <1>3 DEF Tallies, Fewer
  <2>2. Doorway'
    BY <1>3 DEF Doorway
  <2>3. Fits(cmd)'
    BY <1>3 DEF Fits, Ops
  <2>4. QED
    BY <1>3, <2>1, <2>2, <2>3 DEF Led
<1>4. QED
  BY <1>2, <1>3 DEF closingTimeout, close, sanitize

-----------------------------------------------------------------------------
(* The cycle. *)

Pending == IF flight = NoFlight THEN cmd ELSE flight.cmd

\* Between two cycles.
Resting == Unlocked /\ Alive => state \in {"closed", "open"} /\ ~reconcile

\* Within one: the command to send, or the one that is waited for, fits the
\* state; a cycle without one waits for its teardown.
InCycle ==
  conn = "up" /\ ~Unlocked =>
    /\ Fits(Pending)
    /\ Pending.op = "none" => state = "closed"
    /\ Pending.op = "door.status" => state = IF flight.recheck THEN "open" ELSE "closed"
    /\ flight.cmd.op \in {"door.close", "door.sanitize"} => flight.closing
    /\ flight.own => door.key

CycleInv == Tallies /\ Doorway /\ Resting /\ InCycle

\* The machine's line is the door it remembers, and an open door is that door
\* or has closed itself.
Honest ==
  /\ faults = 0 /\ disk = {mem} \ {NoID}
  /\ \A i \in 1..Len(toMachine) : Opens(i) => toMachine[i].cmd.id # NoID
  /\ conn = "up" /\ state = "open" => mem \in {NoID, door.id}

\* What it has answered.
Heard ==
  conn = "up" /\ answer # NoAnswer =>
    /\ flight.cmd.op \in {"door.open", "door.close"} /\ answer.ok => answer.id = flight.cmd.id
    /\ flight.cmd.op = "door.open" /\ answer.ok => mem \in {NoID, flight.cmd.id}
    /\ flight.cmd.op = "door.status" => answer.ok
    /\ flight.recheck /\ answer.installed => answer.id = door.id

\* An input comes in and is driven.
LEMMA EntryCycle ==
  ASSUME ConnInv, ConnInv', CycleInv, Honest, Unlocked, Alive, Led, Clear, NEW who, who # Nobody, Continue(who),
         UNCHANGED <<conn, flight, answer, toMachine, disk, mem, faults>>
  PROVE  CycleInv' /\ Honest' /\ Heard' /\ ~flight'.recheck
<1>1. flight' = NoFlight /\ answer' = NoAnswer /\ state \in {"closed", "open"}
  BY DEF ConnInv, OneWait, CycleInv, Resting, Unlocked
<1>2. cmd' = NoCmd <=> cmd'.op = "none"
  BY NoOpenInNothing DEF ConnInv, OpenNamesDoor
<1>3. Resting'
  BY <1>2 DEF Continue, Led, Clear, Resting, Unlocked
<1>4. InCycle'
  <2>1. Pending' = cmd'
    BY <1>1 DEF Pending
  <2>2. NoFlight.own = FALSE
    BY DEF NoFlight
  <2>3. Fits(Pending)'
    BY <2>1 DEF Led, Fits
  <2>4. holder' # Nobody => cmd'.op # "none"
    BY <1>2 DEF Continue
  <2>5. QED
    BY <1>1, <2>1, <2>2, <2>3, <2>4, NoOpenInNothing DEF Led, InCycle, Unlocked
<1>5. Honest'
  <2>1. state' = "open" => state = "open" /\ door' = door
    BY <1>1 DEF Led
  <2>2. QED
    BY <2>1 DEF Honest, Opens
<1>6. Heard'
  BY <1>1 DEF Heard
<1>7. QED
  BY <1>1, <1>3, <1>4, <1>5, <1>6, NoOpenInNothing DEF CycleInv, Led

\* A wait ends.
LEMMA LandingCycle ==
  ASSUME ConnInv, ConnInv', CycleInv, Honest, conn = "up", Led, Landed,
         UNCHANGED <<conn, disk, mem, faults>>,
         holder' = Nobody => cmd'.op = "none" /\ ~reconcile',
         holder' # Nobody /\ cmd'.op = "none" => state' = "closed",
         state = "opening" /\ state' = "open" => mem \in {NoID, door.id}
  PROVE  CycleInv' /\ Honest' /\ Heard' /\ ~flight'.recheck
<1>1. flight' = NoFlight /\ answer' = NoAnswer
  BY DEF Landed
<1>2. Resting'
  BY DEF Led, Resting, Unlocked
<1>3. InCycle'
  <2>1. Pending' = cmd'
    BY <1>1 DEF Pending
  <2>2. NoFlight.own = FALSE
    BY DEF NoFlight
  <2>3. Fits(Pending)'
    BY <2>1 DEF Led, Fits
  <2>4. QED
    BY <1>1, <2>1, <2>2, <2>3, NoOpenInNothing DEF Led, InCycle, Unlocked
<1>4. Honest'
  <2>1. \A i \in 1..Len(toMachine') : Opens(i)' => toMachine'[i].cmd.id # NoID
    BY LandedLeaves DEF ConnInv, Honest, Opens
  <2>2. state' = "open" => mem \in {NoID, door'.id}
    BY DEF Led, Honest
  <2>3. QED
    BY <2>1, <2>2 DEF Honest
<1>5. Heard'
  BY <1>1 DEF Heard
<1>6. QED
  BY <1>1, <1>2, <1>3, <1>4, <1>5, NoOpenInNothing DEF CycleInv, Led

\* The same for what drive does with the answer or without one.
LEMMA SettleCycle ==
  ASSUME ConnInv, ConnInv', CycleInv, Honest, conn = "up", holder # Nobody, Led,
         NEW op, NEW in, NEW olds, Settle(op, in, olds), UNCHANGED <<disk, mem, faults>>,
         Clear \/ (flight.closing /\ state' = "closed" /\ ~err' /\ in.event \in {"failure", "timeout"}),
         state = "opening" /\ state' = "open" => mem \in {NoID, door.id}
  PROVE  CycleInv' /\ Honest' /\ Heard' /\ ~flight'.recheck
<1>1. /\ Landed /\ UNCHANGED conn
      /\ holder' = IF cmd' = NoCmd /\ ~cut' THEN Nobody ELSE holder
      /\ cut' = (~err' /\ flight.closing /\ state' = "closed" /\ in.event \in {"failure", "timeout"})
  BY DEF Settle
<1>2. cmd' = NoCmd <=> cmd'.op = "none"
  BY NoOpenInNothing DEF ConnInv, OpenNamesDoor
<1>3. holder' = Nobody => cmd'.op = "none" /\ ~reconcile'
  BY <1>1, <1>2 DEF Clear
<1>4. holder' # Nobody /\ cmd'.op = "none" => state' = "closed"
  BY <1>1, <1>2
<1>5. QED
  BY <1>1, <1>3, <1>4, LandingCycle

\* What the machine's answer makes of the automaton.
LEMMA AnswerLeads ==
  ASSUME ConnInv, CycleInv, Heard, driveAnswer, FreshID # NoID
  PROVE  /\ Led /\ Fewer
         /\ Clear \/ (flight.closing /\ state' = "closed" /\ ~err' /\ InputOf(answer).event \in {"failure", "timeout"})
         /\ state = "opening" /\ state' = "open" => mem \in {NoID, door.id}
<1>1. /\ conn = "up" /\ flight # NoFlight /\ ~flight.recheck /\ answer # NoAnswer /\ holder # Nobody
      /\ flight.cmd.op \in Ops \ {"none"} /\ Pending = flight.cmd /\ ~Unlocked
  BY DEF driveAnswer, Waiting, ConnInv, OneWait, OpenNamesDoor, Pending, Unlocked
<1>2. Apply(InputOf(answer), FreshID)
  BY <1>1, SettleHolds DEF driveAnswer
<1>3. Fits(flight.cmd) /\ (flight.cmd.op \in {"door.close", "door.sanitize"} => flight.closing)
      /\ (flight.own => door.key) /\ (flight.cmd.op = "door.status" => state = "closed")
  BY <1>1 DEF CycleInv, InCycle
<1> DEFINE in == InputOf(answer)
<1>4. CASE flight.cmd.op = "door.open"
  <2>1. state = "opening" /\ flight.cmd.id = door.id
    BY <1>3, <1>4 DEF Fits
  <2>2. CASE answer.ok
    <3>1. in.event = "success" /\ in.id = door.id /\ mem \in {NoID, door.id}
      BY <1>1, <1>4, <2>1, <2>2 DEF InputOf, Input, Heard
    <3> HIDE DEF in
    <3>2. openingSuccess(in)
      BY <1>2, <2>1, <3>1 DEF Apply, in
    <3>3. QED
      BY <2>1, <3>1, <3>2, OpeningLands DEF CycleInv
  <2>3. CASE ~answer.ok
    <3>1. in.event = "failure"
      BY <2>3 DEF InputOf, Plain, Input
    <3> HIDE DEF in
    <3>2. openingFailure
      BY <1>2, <2>1, <3>1 DEF Apply, in
    <3>3. state' = "closed"
      BY <3>2 DEF openingFailure
    <3>4. QED
      BY <2>1, <3>2, <3>3, OpeningLands DEF CycleInv
  <2>4. QED
    BY <2>2, <2>3
<1>5. CASE flight.cmd.op \in {"door.close", "door.sanitize"}
  <2>1. state = "closing" /\ flight.closing /\ (flight.cmd.op = "door.close" => flight.cmd.id = door.id)
    BY <1>3, <1>5 DEF Fits
  <2>2. CASE answer.ok
    <3>1. in.event = "success" /\ in.id \in {NoID, door.id} /\ (in.own => door.key)
      <4>1. CASE flight.cmd.op = "door.close"
        BY <1>1, <1>3, <2>1, <2>2, <4>1 DEF InputOf, Input, Heard
      <4>2. CASE flight.cmd.op = "door.sanitize"
        BY <2>2, <4>2 DEF InputOf, Plain, Input
      <4>3. QED
        BY <1>5, <4>1, <4>2
    <3> HIDE DEF in
    <3>2. closingSuccess(in, FreshID)
      BY <1>2, <2>1, <3>1 DEF Apply, in
    <3>3. QED
      BY <2>1, <3>1, <3>2, ClosingLands DEF CycleInv
  <2>3. CASE ~answer.ok
    <3>1. in.event = "failure"
      BY <2>3 DEF InputOf, Plain, Input
    <3> HIDE DEF in
    <3>2. closingFailure
      BY <1>2, <2>1, <3>1 DEF Apply, in
    <3>3. Led /\ Fewer /\ (cmd'.op # "none" \/ (state' = "closed" /\ ~err'))
      BY <2>1, <3>2, GivingUpLands DEF CycleInv
    <3>4. QED
      BY <2>1, <3>1, <3>3 DEF Clear, in
  <2>4. QED
    BY <2>2, <2>3
<1>6. CASE flight.cmd.op = "door.status"
  <2>1. state = "closed" /\ answer.ok
    BY <1>1, <1>3, <1>6 DEF Heard
  <2>2. in.event = "status"
    BY <1>6, <2>1 DEF InputOf, Input
  <2> HIDE DEF in
  <2>3. closedStatus(in)
    BY <1>2, <2>1, <2>2 DEF Apply, in
  <2>4. QED
    BY <2>1, <2>3, StatusLands DEF CycleInv
<1>7. QED
  BY <1>1, <1>4, <1>5, <1>6 DEF Ops

\* And the lack of one.
LEMMA TimeoutLeads ==
  ASSUME Tallies, Doorway, NEW c, Fits(c), c.op # "none", c.op = "door.status" => state = "closed", NEW d,
         Apply(Plain("timeout"), d)
  PROVE  /\ Led /\ Fewer
         /\ Clear \/ (c.op \in {"door.close", "door.sanitize"} /\ state' = "closed" /\ ~err')
         /\ state' = "open" => state # "opening"
<1> DEFINE in == Plain("timeout")
<1>1. in.event = "timeout"
  BY PlainIs
<1> HIDE DEF in
<1>2. Apply(in, d)
  BY DEF in
<1>3. CASE c.op = "door.open"
  <2>1. state = "opening"
    BY <1>3 DEF Fits
  <2>2. openingTimeout
    BY <1>1, <1>2, <2>1 DEF Apply
  <2>3. state' = "closed"
    BY <2>2 DEF openingTimeout
  <2>4. QED
    BY <2>1, <2>2, <2>3, OpeningLands
<1>4. CASE c.op \in {"door.close", "door.sanitize"}
  <2>1. state = "closing"
    BY <1>4 DEF Fits
  <2>2. closingTimeout
    BY <1>1, <1>2, <2>1 DEF Apply
  <2>3. QED
    BY <1>4, <2>1, <2>2, GivingUpLands DEF Clear
<1>5. CASE c.op = "door.status"
  <2>1. state = "closed" /\ reservations = 0 /\ sessions \in Nat
    BY <1>5 DEF Tallies
  <2>2. closedTimeout
    BY <1>1, <1>2, <2>1 DEF Apply
  <2>3. state' = "closed" /\ reservations' = 0 /\ sessions' = sessions /\ cmd'.op = "door.status"
    BY <2>1, <2>2 DEF closedTimeout, status
  <2>4. QED
    BY <2>1, <2>3, ShutsLed DEF Clear, Fewer
<1>6. QED
  BY <1>3, <1>4, <1>5 DEF Fits, Ops

-----------------------------------------------------------------------------
(* The connection around the cycle. *)

DriveInv == CycleInv /\ Honest /\ Heard

Unswept == conn # "up" \/ ~swept

\* Before its first status a machine that has just connected is not touched,
\* and while it is gone nothing is remembered of it.
Untouched ==
  /\ Unswept
       => state = "closed" /\ sessions = 0 /\ ~online /\ retired = {} /\ late = {}
  /\ conn = "new" => ~swept
  /\ conn \in {"new", "up"} /\ ~swept => Unlocked

\* Who waits for the answer to a recheck is a caller who waits.
Rechecks == conn = "up" /\ flight.recheck => holder \in Callers /\ pc[holder] = "waiting"

\* The automaton, the wire and the machine stay as they are.
LEMMA AsideDrive ==
  ASSUME DriveInv, Untouched, UNCHANGED <<core, epochVars, driveVars, wireVars, machine>>
  PROVE  DriveInv' /\ Untouched'
<1> USE DEF core, automaton, returned, flags, counters, epochVars, driveVars, wireVars, machine
<1>1. Tallies'
  BY DEF DriveInv, CycleInv, Tallies
<1>2. Doorway' /\ Resting'
  BY DEF DriveInv, CycleInv, Doorway, Resting, Unlocked, Alive
<1>3. InCycle'
  BY DEF DriveInv, CycleInv, InCycle, Pending, Fits, Unlocked
<1>4. Honest' /\ Heard'
  BY DEF DriveInv, Honest, Heard, Opens
<1>5. Untouched'
  BY DEF Untouched, Unswept, Unlocked
<1>6. QED
  BY <1>1, <1>2, <1>3, <1>4, <1>5 DEF DriveInv, CycleInv

\* Once the machine has been swept it is no longer untouched.
LEMMA SweptUntouched ==
  ASSUME conn' = "up", swept'
  PROVE  Untouched'
  BY DEF Untouched, Unswept

LEMMA LockedIsSwept ==
  ASSUME Untouched, conn = "up", holder # Nobody
  PROVE  swept
  BY DEF Untouched, Unswept, Unlocked

LEMMA SendingDrive ==
  ASSUME ConnInv, ConnInv', DriveInv, Untouched, sendCommand, UNCHANGED machine
  PROVE  DriveInv' /\ Untouched' /\ ~flight'.recheck
<1>1. holder # Nobody /\ flight = NoFlight /\ cmd # NoCmd /\ conn = "up"
  BY DEF sendCommand, HasCommand, Unlocked, Untouched, Unswept
<1>2. /\ Sends(cmd) /\ UNCHANGED <<holder, conn, swept, answer, state, door, reconcile, reservations, sessions, cmd>>
      /\ flight' = [cmd |-> cmd, own |-> cmd.op = "door.close" /\ door.key,
                    closing |-> state = "closing", reconciling |-> reconcile, recheck |-> FALSE]
  BY <1>1 DEF sendCommand, core, automaton, returned, flags, counters
<1>3. /\ flight'.cmd = cmd /\ flight'.recheck = FALSE /\ flight' # NoFlight
      /\ flight'.own => door.key
      /\ state = "closing" => flight'.closing
  BY <1>1, <1>2 DEF NoFlight
<1>4. Pending = cmd /\ Pending' = cmd /\ ~Unlocked
  BY <1>1, <1>2, <1>3 DEF Pending, Unlocked
<1>5. Tallies' /\ Doorway'
  BY <1>2 DEF DriveInv, CycleInv, Tallies, Doorway
<1>6. Resting'
  BY <1>1, <1>2 DEF Resting, Unlocked
<1>7. InCycle'
  <2>1. Fits(cmd) /\ (cmd.op = "none" => state = "closed") /\ (cmd.op = "door.status" => state = "closed")
    BY <1>1, <1>4, NoOpenInNothing DEF DriveInv, CycleInv, InCycle
  <2>2. Fits(Pending)'
    BY <1>2, <1>4, <2>1 DEF Fits
  <2>3. cmd.op \in {"door.close", "door.sanitize"} => state = "closing"
    BY <2>1 DEF Fits
  <2>4. QED
    BY <1>2, <1>3, <1>4, <2>1, <2>2, <2>3 DEF InCycle
<1>8. Honest'
  <2>1. cmd.op = "door.open" => cmd.id # NoID
    BY <1>1, <1>4 DEF DriveInv, CycleInv, InCycle, Fits, Doorway
  <2>2. CASE toMachine' = toMachine
    BY <1>2, <2>2 DEF DriveInv, Honest, Opens, machine
  <2>3. CASE /\ Len(toMachine') = Len(toMachine) + 1
             /\ \A i \in 1..Len(toMachine) : toMachine'[i] = toMachine[i]
             /\ toMachine'[Len(toMachine')] = Request(cmd)
    <3>1. Request(cmd).cmd = cmd /\ Len(toMachine) \in Nat
      BY RequestIs DEF ConnInv, IsWire
    <3>2. \A i \in 1..Len(toMachine') : i = Len(toMachine') \/ i \in 1..Len(toMachine)
      BY <2>3, <3>1
    <3>3. \A i \in 1..Len(toMachine) : toMachine[i].cmd.op = "door.open" => toMachine[i].cmd.id # NoID
      BY DEF DriveInv, Honest, Opens
    <3>4. \A i \in 1..Len(toMachine') : toMachine'[i].cmd.op = "door.open" => toMachine'[i].cmd.id # NoID
      BY <2>1, <2>3, <3>1, <3>2, <3>3
    <3>5. QED
      BY <1>2, <3>4 DEF DriveInv, Honest, Opens, machine
  <2>4. QED
    BY <1>2, <2>2, <2>3, SendsOne DEF ConnInv
<1>9. Heard'
  <2>1. answer' = NoAnswer
    BY <1>1, <1>2 DEF ConnInv, OneWait
  <2>2. QED
    BY <2>1 DEF Heard
<1>10. Untouched'
  BY <1>1, <1>2, LockedIsSwept, SweptUntouched
<1>11. QED
  BY <1>3, <1>5, <1>6, <1>7, <1>8, <1>9, <1>10 DEF DriveInv, CycleInv

LEMMA TeardownDrive ==
  ASSUME ConnInv, DriveInv, teardown, UNCHANGED machine
  PROVE  DriveInv' /\ Untouched' /\ conn' = "torn" /\ reservations' = 0 /\ sessions' = 0
<1>1. /\ conn' = "torn" /\ state' = "closed" /\ reservations' = 0 /\ sessions' = 0 /\ online' = FALSE
      /\ reconcile' = FALSE /\ toMachine' = <<>> /\ retired' = {} /\ late' = {}
  BY DEF teardown, lost
<1>2. Tallies' /\ Doorway' /\ Resting' /\ InCycle' /\ Heard' /\ Untouched'
  BY <1>1 DEF Tallies, Doorway, States, Resting, Alive, InCycle, Heard, Untouched, Unswept
<1>3. Honest'
  BY <1>1 DEF DriveInv, Honest, machine
<1>4. QED
  BY <1>1, <1>2, <1>3 DEF DriveInv, CycleInv

LEMMA ConnectDrive ==
  ASSUME MaxFaults = 0, ConnInv, DriveInv, Untouched, Connect
  PROVE  DriveInv' /\ Untouched' /\ conn' = "new" /\ reservations' = 0 /\ sessions' = 0
<1>1. /\ conn' = "new" /\ state' = "closed" /\ reservations' = 0 /\ sessions' = 0 /\ online' = FALSE
      /\ reconcile' = FALSE /\ swept' = FALSE /\ holder' = Nobody /\ conn \in {"none", "torn"}
      /\ UNCHANGED <<toMachine, retired, late>> /\ mem' = NoID
      /\ (disk' = {} /\ UNCHANGED faults) \/ Fault
  BY DEF Connect, Unlocked, driveVars, wireVars
<1>2. faults = 0 /\ ~Fault
  BY DEF DriveInv, Honest, Fault
<1>3. Tallies' /\ Doorway' /\ Resting' /\ InCycle' /\ Heard'
  BY <1>1 DEF Tallies, Doorway, States, Resting, InCycle, Heard
<1>4. Untouched'
  BY <1>1 DEF Untouched, Unswept, Unlocked
<1>5. Honest'
  BY <1>1, <1>2 DEF DriveInv, Honest, Opens
<1>6. QED
  BY <1>1, <1>3, <1>4, <1>5 DEF DriveInv, CycleInv

\* The wait that the end of the connection ends.
LEMMA ClosedDrive ==
  ASSUME ConnInv, ConnInv', DriveInv, Untouched, driveClosed, UNCHANGED machine
  PROVE  DriveInv' /\ Untouched'
<1>1. /\ conn = "torn" /\ Landed /\ UNCHANGED <<conn, swept, retired, late, state, door, reconcile, online, reservations, sessions>>
  BY DEF driveClosed, core, automaton, flags, counters, epochVars
<1>2. Tallies' /\ Doorway' /\ Resting' /\ InCycle' /\ Heard' /\ Untouched'
  BY <1>1 DEF DriveInv, CycleInv, Tallies, Doorway, Resting, Alive, InCycle, Heard, Untouched, Unswept
<1>3. Honest'
  BY <1>1, LandedLeaves DEF DriveInv, Honest, Opens, machine, ConnInv
<1>4. QED
  BY <1>2, <1>3 DEF DriveInv, CycleInv

LEMMA AttachDrive ==
  ASSUME ConnInv, DriveInv, Untouched, attachControl, UNCHANGED machine
  PROVE  DriveInv' /\ Untouched'
<1>1. /\ conn = "new" /\ conn' = "up" /\ Unlocked /\ state = "closed"
      /\ UNCHANGED <<core, swept, driveVars, wireVars>>
  BY DEF attachControl, Untouched, Unswept
<1> USE DEF core, automaton, returned, flags, counters, driveVars, wireVars, machine
<1>2. Tallies' /\ Doorway' /\ Resting'
  BY <1>1 DEF DriveInv, CycleInv, Tallies, Doorway, Resting, Unlocked, Alive
<1>3. InCycle'
  BY <1>1 DEF InCycle, Unlocked
<1>4. Honest'
  BY <1>1 DEF DriveInv, Honest, Opens
<1>5. Untouched'
  BY <1>1 DEF Untouched, Unswept, Unlocked
<1>6. Heard'
  BY <1>1 DEF ConnInv, OneWait, Unlocked, Heard
<1>7. QED
  BY <1>1, <1>2, <1>3, <1>4, <1>5, <1>6 DEF DriveInv, CycleInv

-----------------------------------------------------------------------------
(* The machine, as long as nothing fails.                                  *)

\* What an honest machine answers, and what it then remembers.
LEMMA HonestAnswer ==
  ASSUME MaxFaults = 0, faults = 0, disk = {mem} \ {NoID}, NEW op, NEW d, NEW a,
         \/ op = "door.open" /\ doorOpen(d, a) /\ d # NoID
         \/ op = "door.close" /\ doorClose(d, a)
         \/ op = "door.status" /\ doorStatus(a)
         \/ op = "door.sanitize" /\ doorSanitize(a)
  PROVE  /\ UNCHANGED faults /\ disk' = {mem'} \ {NoID}
         /\ op \in {"door.open", "door.close"} /\ a.ok => a.id = d
         /\ op = "door.open" => mem' = mem \/ mem' = d
         /\ op = "door.open" /\ a.ok => mem' = d
         /\ op # "door.open" => mem' \in {NoID, mem}
         /\ op = "door.status" => a.ok /\ (a.installed => a.id = mem /\ mem # NoID)
<1>1. ~Fault
  BY DEF Fault
<1>2. CASE op = "door.open" /\ doorOpen(d, a) /\ d # NoID
  BY <1>1, <1>2 DEF doorOpen, machine, Answer, Refusal
<1>3. CASE op = "door.close" /\ doorClose(d, a)
  <2>1. CASE a = Refusal /\ UNCHANGED machine
    BY <1>3, <2>1 DEF machine, Answer, Refusal
  <2>2. CASE mem \in {NoID, d} /\ a = Answer(TRUE, FALSE, d) /\ disk' = disk \ {d} /\ mem' = NoID /\ UNCHANGED faults
    BY <1>3, <2>2 DEF Answer
  <2>3. QED
    BY <1>1, <1>3, <2>1, <2>2 DEF doorClose
<1>4. CASE op = "door.status" /\ doorStatus(a)
  BY <1>1, <1>4 DEF doorStatus, Answer
<1>5. CASE op = "door.sanitize" /\ doorSanitize(a)
  BY <1>1, <1>5 DEF doorSanitize, Answer
<1>6. QED
  BY <1>2, <1>3, <1>4, <1>5

LEMMA AnswersDrive ==
  ASSUME MaxFaults = 0, ConnInv, DriveInv, Untouched, machineAnswers
  PROVE  DriveInv' /\ Untouched'
<1> DEFINE q == Head(toMachine)
<1>1. PICK a \in Answers :
        /\ \/ q.cmd.op = "door.open" /\ doorOpen(q.cmd.id, a)
           \/ q.cmd.op = "door.close" /\ doorClose(q.cmd.id, a)
           \/ q.cmd.op = "door.status" /\ doorStatus(a)
           \/ q.cmd.op = "door.sanitize" /\ doorSanitize(a)
        /\ readLoop(q, a)
  BY DEF machineAnswers
<1>2. /\ toMachine # <<>> /\ toMachine' = Tail(toMachine) /\ conn = "up"
      /\ answer' = IF q.live THEN a ELSE answer
      /\ UNCHANGED <<conn, swept, state, door, online, reconcile, reservations, sessions, cmd, holder, flight>>
  BY <1>1 DEF machineAnswers, readLoop, core, automaton, returned, flags, counters, epochVars
<1>3. /\ Len(toMachine) \in Nat /\ Len(toMachine) >= 1 /\ q = toMachine[1]
      /\ Len(toMachine') = Len(toMachine) - 1
      /\ \A i \in 1..Len(toMachine') : toMachine'[i] = toMachine[i + 1]
  BY <1>2, HeadLeaves DEF ConnInv, IsWire
<1>4. /\ q.live => q.cmd = flight.cmd /\ flight # NoFlight /\ holder # Nobody
      /\ q.cmd.op = "door.open" => q.cmd.id # NoID
      /\ q.cmd.op = "door.open" /\ ~q.live => reconcile
      /\ answer # NoAnswer => FALSE
  <2>1. 1 \in 1..Len(toMachine)
    BY <1>3
  <2>2. q.live => q.cmd = flight.cmd /\ flight # NoFlight /\ holder # Nobody
    BY <1>3, <2>1 DEF ConnInv, OneWait
  <2>3. q.cmd.op = "door.open" => q.cmd.id # NoID
    BY <1>3, <2>1 DEF DriveInv, Honest, Opens
  <2>4. q.cmd.op = "door.open" /\ ~q.live => reconcile
    BY <1>3, <2>1 DEF ConnInv, OpensApart, Opens
  <2>5. answer # NoAnswer => FALSE
    BY <1>2 DEF ConnInv, OneWait
  <2>6. QED
    BY <2>2, <2>3, <2>4, <2>5
<1>5. retired = {} /\ late = {} => UNCHANGED <<retired, late>>
  BY <1>1 DEF readLoop
<1> HIDE DEF q
<1>6. faults = 0 /\ disk = {mem} \ {NoID}
  BY DEF DriveInv, Honest
<1> DEFINE op == q.cmd.op
           d == q.cmd.id
<1>7. /\ UNCHANGED faults /\ disk' = {mem'} \ {NoID}
      /\ op \in {"door.open", "door.close"} /\ a.ok => a.id = d
      /\ op = "door.open" => mem' = mem \/ mem' = d
      /\ op = "door.open" /\ a.ok => mem' = d
      /\ op # "door.open" => mem' \in {NoID, mem}
      /\ op = "door.status" => a.ok /\ (a.installed => a.id = mem /\ mem # NoID)
  <2>1. \/ op = "door.open" /\ doorOpen(d, a) /\ d # NoID
        \/ op = "door.close" /\ doorClose(d, a)
        \/ op = "door.status" /\ doorStatus(a)
        \/ op = "door.sanitize" /\ doorSanitize(a)
    BY <1>1, <1>4
  <2> HIDE DEF op, d
  <2>2. QED
    BY <1>6, <2>1, HonestAnswer
<1>8. Tallies' /\ Doorway' /\ Resting'
  BY <1>2 DEF DriveInv, CycleInv, Tallies, Doorway, Resting, Unlocked, Alive
<1>9. InCycle'
  BY <1>2 DEF DriveInv, CycleInv, InCycle, Pending, Fits, Unlocked
<1>10. Untouched'
  BY <1>2, <1>5 DEF Untouched, Unswept, Unlocked
<1>11. q.cmd.op = "door.open" => state # "open"
  <2>1. CASE q.live
    BY <1>2, <1>4, <2>1 DEF ConnInv, OpenNamesDoor
  <2>2. CASE ~q.live
    BY <1>4, <2>2 DEF DriveInv, CycleInv, Doorway
  <2>3. QED
    BY <2>1, <2>2
<1>12. Honest'
  <2>1. \A i \in 1..Len(toMachine') : toMachine'[i].cmd.op = "door.open" => toMachine'[i].cmd.id # NoID
    BY <1>3 DEF DriveInv, Honest, Opens
  <2>2. state = "open" => mem' \in {NoID, door.id}
    BY <1>2, <1>7, <1>11 DEF DriveInv, Honest
  <2>3. QED
    BY <1>2, <1>6, <1>7, <2>1, <2>2 DEF Honest, Opens
<1>13. Heard'
  <2>1. CASE ~q.live
    BY <1>2, <1>4, <2>1 DEF Heard
  <2>2. CASE q.live
    <3>1. answer' = a /\ flight' = flight /\ q.cmd = flight.cmd /\ flight # NoFlight
      BY <1>2, <1>4, <2>2
    <3>2. flight.recheck => flight.cmd.op = "door.status" /\ state = "open"
      BY <1>2, <1>4, <2>2 DEF ConnInv, OneWait, DriveInv, CycleInv, InCycle, Pending, Unlocked
    <3>3. flight.recheck /\ a.installed => a.id = door.id
      BY <1>2, <1>7, <3>1, <3>2 DEF DriveInv, Honest
    <3>4. /\ flight.cmd.op \in {"door.open", "door.close"} /\ a.ok => a.id = flight.cmd.id
          /\ flight.cmd.op = "door.open" /\ a.ok => mem' = flight.cmd.id
          /\ flight.cmd.op = "door.status" => a.ok
      BY <1>7, <3>1
    <3>5. QED
      BY <1>2, <3>1, <3>3, <3>4 DEF Heard
  <2>3. QED
    BY <2>1, <2>2
<1>14. QED
  BY <1>8, <1>9, <1>10, <1>12, <1>13 DEF DriveInv, CycleInv

LEMMA SelfCloseDrive ==
  ASSUME DriveInv, Untouched, selfClose
  PROVE  DriveInv' /\ Untouched'
<1>1. /\ UNCHANGED <<core, epochVars, driveVars, callerVars, wireVars, faults>>
      /\ mem # NoID /\ disk' = disk \ {mem} /\ mem' = NoID
  BY DEF selfClose
<1> USE DEF core, automaton, returned, flags, counters, epochVars, driveVars, wireVars
<1>2. Tallies' /\ Doorway' /\ Resting'
  BY <1>1 DEF DriveInv, CycleInv, Tallies, Doorway, Resting, Unlocked, Alive
<1>3. InCycle'
  BY <1>1 DEF DriveInv, CycleInv, InCycle, Pending, Fits, Unlocked
<1>4. Honest'
  BY <1>1 DEF DriveInv, Honest, Opens
<1>5. Heard'
  BY <1>1 DEF DriveInv, Heard
<1>6. Untouched'
  BY <1>1 DEF Untouched, Unswept, Unlocked
<1>7. QED
  BY <1>2, <1>3, <1>4, <1>5, <1>6 DEF DriveInv, CycleInv

-----------------------------------------------------------------------------
(* What enters the automaton between two cycles. *)

\* On an untouched connection the automaton ignores whatever still comes in.
LEMMA UntouchedEntry ==
  ASSUME Tallies, Untouched, Unswept, Unlocked, UNCHANGED <<conn, swept, retired, late>>,
         state = "closed" /\ sessions = 0 => UNCHANGED <<state, sessions, online>> /\ cmd' = NoCmd,
         NEW who, Continue(who)
  PROVE  Untouched'
<1>1. state = "closed" /\ sessions = 0 /\ ~online /\ retired = {} /\ late = {}
  BY DEF Untouched, Unswept
<1>2. holder' = Nobody /\ state' = "closed" /\ sessions' = 0 /\ online' = online
  BY <1>1 DEF Continue
<1>3. QED
  BY <1>1, <1>2 DEF Untouched, Unswept, Unlocked

LEMMA ClosedIgnores ==
  ASSUME Tallies, state = "closed", NEW e \in {"cancel", "success", "nestedFailure"}, NEW d, Apply(Plain(e), d)
  PROVE  UNCHANGED <<state, sessions, online>> /\ cmd' = NoCmd
<1> DEFINE in == Plain(e)
<1>1. in.event = e
  BY PlainIs
<1> HIDE DEF in
<1>2. Apply(in, d)
  BY DEF in
<1>3. reservations = 0
  BY DEF Tallies
<1>4. waitingCancel \/ protocolErr \/ Ignore
  BY <1>1, <1>2 DEF Apply
<1>5. waitingCancel => protocolErr
  BY <1>3 DEF waitingCancel
<1>6. QED
  BY <1>4, <1>5 DEF protocolErr, Ignore, automaton

LEMMA RestIs ==
  ASSUME DriveInv, Unlocked, Alive
  PROVE  AtRest
  BY DEF DriveInv, CycleInv, Resting, AtRest

\* Whoever takes driveMu with an input that leads on.
LEMMA EntryDrive ==
  ASSUME ConnInv, ConnInv', DriveInv, Untouched, Unlocked, Alive, Led, Clear,
         NEW who, who # Nobody, Continue(who),
         UNCHANGED <<conn, swept, flight, answer, toMachine, retired, late, machine>>,
         \/ state = "closed" /\ sessions = 0 => UNCHANGED <<state, sessions, online>> /\ cmd' = NoCmd
         \/ ~Unswept
  PROVE  DriveInv' /\ Untouched' /\ ~flight'.recheck
<1>1. DriveInv' /\ ~flight'.recheck
  BY EntryCycle DEF DriveInv, machine
<1>2. CASE ~Unswept
  BY <1>1, <1>2, SweptUntouched DEF Unswept
<1>3. CASE Unswept
  BY <1>1, <1>3, UntouchedEntry DEF DriveInv, CycleInv
<1>4. QED
  BY <1>1, <1>2, <1>3

-----------------------------------------------------------------------------
(* Counting. *)

Placed ==
  /\ pc \in [Callers -> Stands]
  /\ ticket \in [Callers -> {"none", "listed", "ok", "fail"}]

LEMMA Stays ==
  ASSUME IsFiniteSet(Callers), NEW S, NEW T, T \subseteq Callers, S \subseteq T,
         NEW n \in Nat, NEW m \in Nat, n <= Cardinality(S), m <= n
  PROVE  m <= Cardinality(T)
<1>1. IsFiniteSet(T)
  BY FS_Subset
<1>2. IsFiniteSet(S) /\ Cardinality(S) <= Cardinality(T)
  BY <1>1, FS_Subset
<1>3. Cardinality(S) \in Nat /\ Cardinality(T) \in Nat
  BY <1>1, <1>2, FS_CardinalityType
<1>4. QED
  BY <1>2, <1>3

LEMMA OneGoes ==
  ASSUME IsFiniteSet(Callers), NEW S, NEW T, S \subseteq Callers, T \subseteq Callers, NEW c, S \ {c} \subseteq T,
         NEW n \in Nat, NEW m \in Nat, n <= Cardinality(S), m + 1 <= n \/ m = 0
  PROVE  m <= Cardinality(T)
<1>1. IsFiniteSet(S) /\ IsFiniteSet(T)
  BY FS_Subset
<1>2. Cardinality(S) \in Nat /\ Cardinality(T) \in Nat
  BY <1>1, FS_CardinalityType
<1>3. IsFiniteSet(S \ {c}) /\ Cardinality(S \ {c}) \in {Cardinality(S) - 1, Cardinality(S)}
  BY <1>1, FS_RemoveElement
<1>4. Cardinality(S \ {c}) <= Cardinality(T)
  BY <1>1, FS_Subset
<1>5. QED
  BY <1>2, <1>3, <1>4

LEMMA OneComes ==
  ASSUME IsFiniteSet(Callers), NEW S, NEW T, S \subseteq Callers, T \subseteq Callers, NEW c, c \notin S, c \in T,
         S \subseteq T, NEW n \in Nat, NEW m \in Nat, n <= Cardinality(S), m <= n + 1
  PROVE  m <= Cardinality(T)
<1>1. IsFiniteSet(S) /\ IsFiniteSet(T)
  BY FS_Subset
<1>2. Cardinality(S) \in Nat /\ Cardinality(T) \in Nat
  BY <1>1, FS_CardinalityType
<1>3. Cardinality(S \cup {c}) = Cardinality(S) + 1
  BY <1>1, FS_AddElement
<1>4. S \cup {c} \in SUBSET T
  BY <1>1
<1>5. Cardinality(S \cup {c}) <= Cardinality(T)
  BY <1>1, <1>4, FS_Subset
<1>6. QED
  BY <1>2, <1>3, <1>5

LEMMA Crowds ==
  /\ OnTheWay \subseteq Callers /\ Inside \subseteq Callers
  /\ (OnTheWay \subseteq Callers)' /\ (Inside \subseteq Callers)'
  BY DEF OnTheWay, Inside

\* The counters go down, and nobody leaves; or they are empty.
LEMMA CountsStay ==
  ASSUME IsFiniteSet(Callers), Tallies, Tallies', Counts, Fewer,
         OnTheWay \subseteq OnTheWay' \/ reservations' = 0, Inside \subseteq Inside'
  PROVE  Counts'
<1>1. reservations \in Nat /\ sessions \in Nat /\ reservations' \in Nat /\ sessions' \in Nat
  BY DEF Tallies
<1>2. sessions' <= Cardinality(Inside')
  BY <1>1, Crowds, Stays DEF Counts, Fewer
<1>3. reservations' <= Cardinality(OnTheWay')
  <2>1. CASE OnTheWay \subseteq OnTheWay'
    BY <1>1, <2>1, Crowds, Stays DEF Counts, Fewer
  <2>2. CASE reservations' = 0
    <3>1. Cardinality(OnTheWay') \in Nat
      BY Crowds, FS_Subset, FS_CardinalityType
    <3>2. QED
      BY <2>2, <3>1
  <2>3. QED
    BY <2>1, <2>2
<1>4. QED
  BY <1>2, <1>3 DEF Counts

LEMMA CountsEmpty ==
  ASSUME IsFiniteSet(Callers), reservations' = 0, sessions' = 0
  PROVE  Counts'
<1>1. Cardinality(OnTheWay') \in Nat /\ Cardinality(Inside') \in Nat
  BY Crowds, FS_Subset, FS_CardinalityType
<1>2. QED
  BY <1>1 DEF Counts

\* What a settled command tells those who wait.
LEMMA OutcomeTells ==
  ASSUME Placed, UNCHANGED pc, NEW op, NEW e, Outcome(op, e)
  PROVE  /\ Placed'
         /\ OnTheWay \subseteq OnTheWay' \/ state' = "closed"
         /\ Inside \subseteq Inside'
<1>1. Inside \subseteq Inside'
  BY DEF Inside
<1>2. CASE UNCHANGED ticket
  BY <1>1, <1>2 DEF Placed, OnTheWay
<1>3. CASE resolveTickets("ok")
  <2>1. ticket' = [c \in Callers |-> IF ticket[c] = "listed" THEN "ok" ELSE ticket[c]]
    BY <1>3 DEF resolveTickets
  <2>2. \A c \in Callers : ticket'[c] = "fail" => ticket[c] = "fail"
    BY <2>1
  <2>3. ticket' \in [Callers -> {"none", "listed", "ok", "fail"}]
    BY <2>1 DEF Placed
  <2>4. QED
    BY <1>1, <2>2, <2>3 DEF Placed, OnTheWay
<1>4. CASE resolveTickets("fail") /\ state' = "closed"
  <2>1. ticket' = [c \in Callers |-> IF ticket[c] = "listed" THEN "fail" ELSE ticket[c]]
    BY <1>4 DEF resolveTickets
  <2>2. ticket' \in [Callers -> {"none", "listed", "ok", "fail"}]
    BY <2>1 DEF Placed
  <2>3. QED
    BY <1>1, <1>4, <2>2 DEF Placed
<1>5. QED
  BY <1>2, <1>3, <1>4 DEF Outcome

-----------------------------------------------------------------------------
(* The steps. *)

CallersInv == Placed /\ Rechecks /\ Counts
CountInv == DriveInv /\ Untouched /\ CallersInv

\* Whoever is placed stays there.
Standing == UNCHANGED <<pc, ticket>>

LEMMA StandingStays ==
  ASSUME IsFiniteSet(Callers), CallersInv, Tallies, Tallies', Standing, Fewer, ~flight'.recheck
  PROVE  CallersInv'
<1>1. Placed' /\ Rechecks'
  BY DEF CallersInv, Standing, Placed, Rechecks
<1>2. OnTheWay \subseteq OnTheWay' /\ Inside \subseteq Inside'
  BY DEF Standing, OnTheWay, Inside
<1>3. Counts'
  BY <1>2, CountsStay DEF CallersInv
<1>4. QED
  BY <1>1, <1>3 DEF CallersInv

\* A command has been settled.
LEMMA SettledCallers ==
  ASSUME IsFiniteSet(Callers), CallersInv, Tallies, Tallies', Fewer, ~flight'.recheck,
         NEW op, NEW in, NEW olds, Settle(op, in, olds)
  PROVE  CallersInv'
<1>1. Outcome(op, in.event) /\ UNCHANGED pc
  BY DEF Settle
<1>2. /\ Placed' /\ Inside \subseteq Inside'
      /\ OnTheWay \subseteq OnTheWay' \/ state' = "closed"
  BY <1>1, OutcomeTells DEF CallersInv
<1>3. state' = "closed" => reservations' = 0
  BY DEF Tallies
<1>4. Counts'
  BY <1>2, <1>3, CountsStay DEF CallersInv
<1>5. QED
  BY <1>2, <1>4 DEF CallersInv, Rechecks

LEMMA AnswerCounts ==
  ASSUME IsFiniteSet(Callers), ConnInv, ConnInv', CountInv, driveAnswer, UNCHANGED machine, FreshID # NoID
  PROVE  CountInv'
<1>1. conn = "up" /\ holder # Nobody /\ Settle(flight.cmd.op, InputOf(answer), retired) /\ UNCHANGED <<conn, swept>>
  BY DEF driveAnswer, Waiting, ConnInv, OneWait, Settle
<1>2. /\ Led /\ Fewer
      /\ Clear \/ (flight.closing /\ state' = "closed" /\ ~err' /\ InputOf(answer).event \in {"failure", "timeout"})
      /\ state = "opening" /\ state' = "open" => mem \in {NoID, door.id}
  BY AnswerLeads DEF CountInv, DriveInv
<1> DEFINE in == InputOf(answer)
           op == flight.cmd.op
<1>3. Settle(op, in, retired) /\ (Clear \/ (flight.closing /\ state' = "closed" /\ ~err' /\ in.event \in {"failure", "timeout"}))
  BY <1>1, <1>2
<1> HIDE DEF in, op
<1>4. DriveInv' /\ ~flight'.recheck
  BY <1>1, <1>2, <1>3, SettleCycle DEF CountInv, DriveInv, machine
<1>5. Untouched'
  BY <1>1, LockedIsSwept, SweptUntouched DEF CountInv
<1>6. CallersInv'
  BY <1>2, <1>3, <1>4, SettledCallers DEF CountInv, DriveInv, CycleInv
<1>7. QED
  BY <1>4, <1>5, <1>6 DEF CountInv

\* The timeout of what is waited for, and of an open that is not sent at all.
LEMMA TimeoutCounts ==
  ASSUME IsFiniteSet(Callers), ConnInv, ConnInv', CountInv, driveTimeout \/ notSent, UNCHANGED machine
  PROVE  CountInv'
<1>1. /\ holder # Nobody
      /\ \E op, olds : Settle(op, Plain("timeout"), olds)
      /\ UNCHANGED <<conn, swept>>
      /\ \/ conn = "up" /\ flight # NoFlight /\ ~flight.recheck /\ Pending = flight.cmd
         \/ flight = NoFlight /\ cmd.op = "door.open" /\ Pending = cmd
  BY DEF driveTimeout, notSent, Waiting, HasCommand, Unlocked, ConnInv, OneWait, Settle, Pending
<1>2. PICK op, olds : Settle(op, Plain("timeout"), olds)
  BY <1>1
<1>3. conn = "up"
  <2>1. flight = NoFlight /\ cmd.op = "door.open" => state = "opening"
    BY <1>1 DEF ConnInv, OpenNamesDoor, OpenPending
  <2>2. conn # "up" => state = "closed"
    BY DEF CountInv, Untouched, Unswept
  <2>3. QED
    BY <1>1, <2>1, <2>2
<1>4. /\ Fits(Pending) /\ (Pending.op = "door.status" => state = "closed") /\ Pending.op # "none"
      /\ Pending.op \in {"door.close", "door.sanitize"} => flight.closing
  <2>1. Pending.op # "none"
    BY <1>1 DEF ConnInv, OpenNamesDoor
  <2>2. /\ Fits(Pending) /\ (Pending.op = "door.status" => state = IF flight.recheck THEN "open" ELSE "closed")
        /\ flight.cmd.op \in {"door.close", "door.sanitize"} => flight.closing
    BY <1>1, <1>3 DEF CountInv, DriveInv, CycleInv, InCycle, Unlocked
  <2>3. QED
    BY <1>1, <2>1, <2>2
<1>5. Apply(Plain("timeout"), FreshID)
  BY <1>1, <1>2, SettleHolds
<1>6. /\ Led /\ Fewer
      /\ Clear \/ (Pending.op \in {"door.close", "door.sanitize"} /\ state' = "closed" /\ ~err')
      /\ state' = "open" => state # "opening"
  BY <1>4, <1>5, TimeoutLeads DEF CountInv, DriveInv, CycleInv
<1> DEFINE in == Plain("timeout")
<1>7. Settle(op, in, olds) /\ in.event = "timeout"
  BY <1>2, PlainIs
<1> HIDE DEF in
<1>8. Clear \/ (flight.closing /\ state' = "closed" /\ ~err' /\ in.event \in {"failure", "timeout"})
  BY <1>4, <1>6, <1>7
<1>9. DriveInv' /\ ~flight'.recheck
  BY <1>1, <1>3, <1>6, <1>7, <1>8, SettleCycle DEF CountInv, DriveInv, machine
<1>10. Untouched'
  BY <1>1, <1>3, LockedIsSwept, SweptUntouched DEF CountInv
<1>11. CallersInv'
  BY <1>6, <1>7, <1>9, SettledCallers DEF CountInv, DriveInv, CycleInv
<1>12. QED
  BY <1>9, <1>10, <1>11 DEF CountInv

\* An end of the connection or a new one: nobody is counted.
LEMMA EpochCounts ==
  ASSUME IsFiniteSet(Callers), Placed', reservations' = 0, sessions' = 0, conn' # "up"
  PROVE  CallersInv'
  BY CountsEmpty DEF CallersInv, Rechecks

LEMMA TeardownCounts ==
  ASSUME IsFiniteSet(Callers), ConnInv, CountInv, teardown, UNCHANGED machine
  PROVE  CountInv'
<1>1. DriveInv' /\ Untouched' /\ conn' = "torn" /\ reservations' = 0 /\ sessions' = 0
  BY TeardownDrive DEF CountInv
<1>2. Placed'
  <2>1. UNCHANGED pc /\ ticket' = [c \in Callers |-> IF ticket[c] = "listed" THEN "fail" ELSE ticket[c]]
    BY DEF teardown, resolveTickets
  <2>2. QED
    BY <2>1 DEF CountInv, CallersInv, Placed
<1>3. QED
  BY <1>1, <1>2, EpochCounts DEF CountInv

LEMMA ConnectCounts ==
  ASSUME MaxFaults = 0, IsFiniteSet(Callers), ConnInv, CountInv, Connect
  PROVE  CountInv'
<1>1. DriveInv' /\ Untouched' /\ conn' = "new" /\ reservations' = 0 /\ sessions' = 0
  BY ConnectDrive DEF CountInv
<1>2. Placed'
  BY DEF Connect, callerVars, CountInv, CallersInv, Placed
<1>3. QED
  BY <1>1, <1>2, EpochCounts DEF CountInv

\* What nobody's place depends on.
LEMMA OthersCount ==
  ASSUME IsFiniteSet(Callers), CountInv, DriveInv', Untouched', Standing, UNCHANGED <<reservations, sessions>>,
         UNCHANGED <<holder, flight, conn>> \/ ~flight'.recheck
  PROVE  CountInv'
<1>1. Fewer
  BY DEF Fewer, CountInv, DriveInv, CycleInv, Tallies
<1>2. OnTheWay \subseteq OnTheWay' /\ Inside \subseteq Inside'
  BY DEF Standing, OnTheWay, Inside
<1>3. Counts'
  BY <1>1, <1>2, CountsStay DEF CountInv, DriveInv, CycleInv, CallersInv
<1>4. Placed' /\ Rechecks'
  BY DEF Standing, CountInv, CallersInv, Placed, Rechecks
<1>5. QED
  BY <1>3, <1>4 DEF CountInv, CallersInv

LEMMA InitialStatusCounts ==
  ASSUME IsFiniteSet(Callers), ConnInv, ConnInv', CountInv, initialStatus, UNCHANGED machine
  PROVE  CountInv'
<1>1. /\ Unlocked /\ conn = "up" /\ ~swept /\ swept' /\ holder' = Role /\ status
      /\ UNCHANGED <<state, reservations, sessions, conn, flight, answer, toMachine, pc, ticket>>
  BY DEF initialStatus, callerVars, wireVars
<1>2. state = "closed" /\ reservations = 0 /\ sessions \in Nat /\ Alive
  BY <1>1 DEF CountInv, Untouched, Unswept, DriveInv, CycleInv, Tallies, Alive
<1>3. cmd'.op = "door.status" /\ Role # Nobody
  BY <1>1 DEF status, Role, Nobody
<1>4. Led /\ Clear
  BY <1>1, <1>2, <1>3, ShutsLed DEF Clear
<1>5. Continue(Role)
  BY <1>1, <1>3 DEF Continue
<1>6. DriveInv' /\ ~flight'.recheck
  BY <1>1, <1>2, <1>3, <1>4, <1>5, EntryCycle DEF CountInv, DriveInv, machine
<1>7. Untouched'
  BY <1>1, SweptUntouched
<1>8. QED
  BY <1>1, <1>6, <1>7, OthersCount DEF Standing

LEMMA LateCounts ==
  ASSUME IsFiniteSet(Callers), ConnInv, ConnInv', CountInv, NEW d \in DoorIDs, driveRetiredOpen(d),
         UNCHANGED machine, FreshID # NoID
  PROVE  CountInv'
<1>1. /\ Unlocked /\ Alive /\ Continue(Role) /\ Role # Nobody
      /\ UNCHANGED <<conn, swept, flight, answer, toMachine, pc, ticket>> /\ d \in late
  BY DEF driveRetiredOpen, Locks, epochVars, callerVars, Role, Nobody
<1>2. AtRest
  BY <1>1, RestIs DEF CountInv
<1> DEFINE in == Input("late", FALSE, d, FALSE, TRUE)
<1>3. Apply(in, FreshID) /\ in.event = "late"
  BY DEF driveRetiredOpen, Input
<1> HIDE DEF in
<1>4. Led /\ Clear /\ Fewer
  BY <1>2, <1>3, RestApply
<1>5. DriveInv' /\ ~flight'.recheck
  BY <1>1, <1>4, EntryCycle DEF CountInv, DriveInv, machine
<1>6. Untouched'
  BY <1>1, SweptUntouched DEF CountInv, Untouched, Unswept
<1>7. CallersInv'
  BY <1>1, <1>4, <1>5, StandingStays DEF CountInv, Standing, DriveInv, CycleInv
<1>8. QED
  BY <1>5, <1>6, <1>7 DEF CountInv

LEMMA HardCounts ==
  ASSUME IsFiniteSet(Callers), ConnInv, ConnInv', CountInv, enforceHardDeadline \/ closeForOSUserChange,
         UNCHANGED machine
  PROVE  CountInv'
<1>1. /\ Unlocked /\ Alive /\ Continue(Role) /\ Role # Nobody
      /\ UNCHANGED <<conn, swept, flight, answer, toMachine, retired, late, pc, ticket>>
      /\ HardDeadline(TRUE) \/ ForceClose
  BY DEF enforceHardDeadline, closeForOSUserChange, Locks, epochVars, callerVars, Role, Nobody
<1>2. AtRest
  BY <1>1, RestIs DEF CountInv
<1>3. Led /\ Clear /\ Fewer
  BY <1>1, <1>2, RestClosesHard
<1>4. state = "closed" => UNCHANGED <<state, sessions, online>> /\ cmd' = NoCmd
  BY <1>1 DEF HardDeadline, ForceClose, Ignore, automaton
<1>5. DriveInv' /\ Untouched' /\ ~flight'.recheck
  BY <1>1, <1>3, <1>4, EntryDrive DEF CountInv
<1>6. CallersInv'
  BY <1>1, <1>3, <1>5, StandingStays DEF CountInv, Standing, DriveInv, CycleInv
<1>7. QED
  BY <1>5, <1>6 DEF CountInv

LEMMA DriveStepCounts ==
  ASSUME IsFiniteSet(Callers), ConnInv, ConnInv', CountInv, DriveStep, UNCHANGED machine, FreshID # NoID
  PROVE  CountInv'
<1>1. CASE attachControl
  <2>1. DriveInv' /\ Untouched'
    BY <1>1, AttachDrive DEF CountInv
  <2>2. Standing /\ UNCHANGED <<reservations, sessions, holder, flight>> /\ Unlocked
    BY <1>1 DEF attachControl, Standing, core, automaton, counters, driveVars, callerVars, CountInv, Untouched
  <2>3. ~flight'.recheck
    BY <2>2, NoOpenInNothing DEF ConnInv, OneWait, Unlocked
  <2>4. QED
    BY <2>1, <2>2, <2>3, OthersCount
<1>2. CASE initialStatus
  BY <1>2, InitialStatusCounts
<1>3. CASE teardown
  BY <1>3, TeardownCounts
<1>4. CASE sendCommand
  <2>1. DriveInv' /\ Untouched' /\ ~flight'.recheck
    BY <1>4, SendingDrive DEF CountInv
  <2>2. Standing /\ UNCHANGED <<reservations, sessions>>
    BY <1>4 DEF sendCommand, Standing, core, automaton, counters, callerVars
  <2>3. QED
    BY <2>1, <2>2, OthersCount
<1>5. CASE driveAnswer
  BY <1>5, AnswerCounts
<1>6. CASE driveClosed
  <2>1. DriveInv' /\ Untouched'
    BY <1>6, ClosedDrive DEF CountInv
  <2>2. Standing /\ UNCHANGED <<reservations, sessions>> /\ flight' = NoFlight
    BY <1>6 DEF driveClosed, Landed, Standing, core, automaton, counters, callerVars
  <2>3. QED
    BY <2>1, <2>2, OthersCount, NoOpenInNothing
<1>7. CASE \E d \in DoorIDs : driveRetiredOpen(d)
  BY <1>7, LateCounts
<1>8. QED
  BY <1>1, <1>2, <1>3, <1>4, <1>5, <1>6, <1>7 DEF DriveStep, letGo, terminalCut

-----------------------------------------------------------------------------
(* The callers. *)

\* Only caller c moves.
Only(c) == \A x \in Callers \ {c} : pc'[x] = pc[x] /\ ticket'[x] = ticket[x]

LEMMA OnlyMoves ==
  ASSUME Placed, NEW c \in Callers, NEW next \in Stands, Moves(c, next),
         NEW t \in {"none", "listed", "ok", "fail"}, ticket' = [ticket EXCEPT ![c] = t]
  PROVE  Placed' /\ Only(c) /\ pc'[c] = next /\ ticket'[c] = t
<1>1. pc' = [pc EXCEPT ![c] = next]
  BY DEF Moves
<1>2. pc' \in [Callers -> Stands] /\ ticket' \in [Callers -> {"none", "listed", "ok", "fail"}]
  BY <1>1 DEF Placed
<1>3. QED
  BY <1>1, <1>2 DEF Placed, Only

LEMMA OnlyMovesKeeping ==
  ASSUME Placed, NEW c \in Callers, NEW next \in Stands, Moves(c, next), UNCHANGED ticket
  PROVE  Placed' /\ Only(c) /\ pc'[c] = next /\ ticket'[c] = ticket[c]
<1>1. pc' = [pc EXCEPT ![c] = next]
  BY DEF Moves
<1>2. pc' \in [Callers -> Stands] /\ ticket' \in [Callers -> {"none", "listed", "ok", "fail"}]
  BY <1>1 DEF Placed
<1>3. QED
  BY <1>1, <1>2 DEF Placed, Only

LEMMA OthersStand ==
  ASSUME NEW c \in Callers, Only(c)
  PROVE  /\ OnTheWay \ {c} \subseteq OnTheWay' /\ Inside \ {c} \subseteq Inside'
         /\ (c \in OnTheWay => c \in OnTheWay') => OnTheWay \subseteq OnTheWay'
         /\ (c \in Inside => c \in Inside') => Inside \subseteq Inside'
<1>1. OnTheWay \ {c} \subseteq OnTheWay'
  BY DEF Only, OnTheWay
<1>2. Inside \ {c} \subseteq Inside'
  BY DEF Only, Inside
<1>3. QED
  BY <1>1, <1>2

OnTheirWay == {"waiting", "cancel", "granted", "handshake", "refused", "authed", "failed"}

LEMMA WhereIs ==
  ASSUME NEW c \in Callers
  PROVE  /\ c \in OnTheWay => pc[c] \in OnTheirWay
         /\ c \in Inside <=> pc[c] \in {"session", "finishing"}
         /\ c \in Inside' <=> pc'[c] \in {"session", "finishing"}
         /\ pc[c] = "waiting" /\ ticket[c] = "fail" => c \notin OnTheWay
         /\ pc'[c] \in OnTheirWay /\ (pc'[c] \notin {"waiting", "cancel"} \/ ticket'[c] # "fail") => c \in OnTheWay'
<1>1. /\ c \in OnTheWay => pc[c] \in OnTheirWay
      /\ pc[c] = "waiting" /\ ticket[c] = "fail" => c \notin OnTheWay
  BY DEF OnTheWay, OnTheirWay
<1>2. c \in Inside <=> pc[c] \in {"session", "finishing"}
  BY DEF Inside
<1>3. c \in Inside' <=> pc'[c] \in {"session", "finishing"}
  BY DEF Inside
<1>4. pc'[c] \in OnTheirWay /\ (pc'[c] \notin {"waiting", "cancel"} \/ ticket'[c] # "fail") => c \in OnTheWay'
  BY DEF OnTheWay, OnTheirWay
<1>5. QED
  BY <1>1, <1>2, <1>3, <1>4

\* A caller moves on without the automaton.
LEMMA AsideCounts ==
  ASSUME IsFiniteSet(Callers), CountInv, NEW c \in Callers, Aside, UNCHANGED machine, Only(c), Placed',
         holder # c \/ pc[c] # "waiting",
         \/ conn = "torn"
         \/ (c \in OnTheWay => c \in OnTheWay') /\ (c \in Inside => c \in Inside')
  PROVE  CountInv'
<1>1. UNCHANGED <<core, epochVars, driveVars, wireVars, machine>>
  BY DEF Aside
<1>2. DriveInv' /\ Untouched'
  BY <1>1, AsideDrive DEF CountInv
<1>3. UNCHANGED <<reservations, sessions, state, conn, holder, flight>>
  BY <1>1 DEF core, automaton, counters, epochVars, driveVars
<1>4. Fewer /\ Tallies /\ Tallies'
  BY <1>2, <1>3 DEF CountInv, DriveInv, CycleInv, Tallies, Fewer
<1>5. Counts'
  <2>1. CASE conn = "torn"
    <3>1. reservations' = 0 /\ sessions' = 0
      BY <1>3, <2>1 DEF CountInv, Untouched, Unswept, DriveInv, CycleInv, Tallies
    <3>2. QED
      BY <3>1, CountsEmpty
  <2>2. CASE (c \in OnTheWay => c \in OnTheWay') /\ (c \in Inside => c \in Inside')
    <3>1. OnTheWay \subseteq OnTheWay' /\ Inside \subseteq Inside'
      BY <2>2, OthersStand
    <3>2. QED
      BY <1>4, <3>1, CountsStay DEF CountInv, CallersInv
  <2>3. QED
    BY <2>1, <2>2
<1>6. Rechecks'
  BY <1>3 DEF CountInv, CallersInv, Rechecks, Only
<1>7. QED
  BY <1>2, <1>5, <1>6 DEF CountInv, CallersInv

\* The steps of this kind.
LEMMA CallerAsideCounts ==
  ASSUME IsFiniteSet(Callers), CountInv, NEW c \in Callers, UNCHANGED machine,
         Check(c) \/ Turned(c) \/ Woken(c) \/ Expires(c) \/ takeSigner(c) \/ handshake(c)
           \/ endSession(c) \/ Leave(c)
  PROVE  CountInv'
<1> USE DEF CountInv, CallersInv
<1>0. Aside
  BY DEF Check, Turned, Woken, Expires, takeSigner, handshake, endSession, Leave
<1>1. ASSUME NEW next \in Stands, Moves(c, next), UNCHANGED ticket,
             holder # c \/ pc[c] # "waiting",
             pc[c] \in OnTheirWay => next \in OnTheirWay /\ (next = "cancel" => pc[c] \in {"waiting", "cancel"})
                                       /\ next # "waiting",
             pc[c] \in {"session", "finishing"} => next = "finishing"
      PROVE  CountInv'
  <2>1. Placed' /\ Only(c) /\ pc'[c] = next /\ ticket'[c] = ticket[c]
    BY <1>1, OnlyMovesKeeping
  <2>2. c \in OnTheWay => c \in OnTheWay'
    BY <1>1, <2>1 DEF OnTheWay, OnTheirWay
  <2>3. c \in Inside => c \in Inside'
    BY <1>1, <2>1, WhereIs
  <2>4. QED
    BY <1>0, <1>1, <2>1, <2>2, <2>3, AsideCounts
<1>2. CASE Check(c)
  BY <1>1, <1>2 DEF Check, Stands, OnTheirWay
<1>3. CASE Turned(c)
  BY <1>1, <1>3 DEF Turned, Stands, OnTheirWay
<1>4. CASE Expires(c)
  BY <1>1, <1>4 DEF Expires, Waits, Stands, OnTheirWay
<1>5. CASE takeSigner(c)
  BY <1>1, <1>5 DEF takeSigner, Stands, OnTheirWay
<1>6. CASE handshake(c)
  <2>1. \E next \in {"failed", "authed", "refused"} : Moves(c, next) /\ pc[c] \in {"granted", "handshake"}
    BY <1>6 DEF handshake
  <2>2. PICK next \in {"failed", "authed", "refused"} : Moves(c, next) /\ pc[c] \in {"granted", "handshake"}
    BY <2>1
  <2>3. UNCHANGED ticket
    BY <1>6 DEF handshake
  <2>4. QED
    BY <1>1, <2>2, <2>3 DEF Stands, OnTheirWay
<1>7. CASE endSession(c)
  BY <1>1, <1>7 DEF endSession, Stands, OnTheirWay
<1>8. CASE Woken(c)
  <2>1. PICK next \in {"granted", "out"} :
          /\ Moves(c, next) /\ pc[c] = "waiting" /\ holder # c
          /\ next = "out" => ticket[c] = "fail" \/ conn = "torn"
    BY <1>8 DEF Woken, Waits
  <2>2. ticket' = [ticket EXCEPT ![c] = "none"]
    BY <1>8 DEF Woken
  <2>3. Placed' /\ Only(c) /\ pc'[c] = next /\ ticket'[c] = "none"
    BY <2>1, <2>2, OnlyMoves DEF Stands
  <2>4. next = "granted" => c \in OnTheWay'
    BY <2>3, WhereIs DEF OnTheirWay
  <2>5. c \in OnTheWay /\ next = "out" => conn = "torn"
    BY <2>1, WhereIs
  <2>6. c \notin Inside
    BY <2>1, WhereIs
  <2>7. QED
    BY <1>0, <2>1, <2>3, <2>4, <2>5, <2>6, AsideCounts
<1>9. CASE Leave(c)
  <2>1. Moves(c, "out") /\ ticket' = [ticket EXCEPT ![c] = "none"] /\ conn = "torn" /\ holder # c
    BY <1>9 DEF Leave
  <2>2. Placed' /\ Only(c)
    BY <2>1, OnlyMoves DEF Stands
  <2>3. QED
    BY <1>0, <2>1, <2>2, AsideCounts
<1>10. QED
  BY <1>2, <1>3, <1>4, <1>5, <1>6, <1>7, <1>8, <1>9

\* A caller enters: the automaton leads on, and Counts is seen to.
LEMMA EntersCounts ==
  ASSUME ConnInv, ConnInv', CountInv, NEW c \in Callers, NEW from, NEW next, Enters(c, from, next),
         UNCHANGED machine, Led, Clear, Continue(c), Placed', Counts',
         \/ state = "closed" /\ sessions = 0 => UNCHANGED <<state, sessions, online>> /\ cmd' = NoCmd
         \/ ~Unswept
  PROVE  CountInv'
<1>1. /\ Unlocked /\ Alive /\ c # Nobody
      /\ UNCHANGED <<conn, swept, flight, answer, toMachine, retired, late>>
  BY ConnNames DEF Enters, epochVars, wireVars
<1>2. DriveInv' /\ Untouched' /\ ~flight'.recheck
  BY <1>1, EntryDrive DEF CountInv
<1>3. QED
  BY <1>2 DEF CountInv, CallersInv, Rechecks

LEMMA ReserveCounts ==
  ASSUME StaleCallers = {}, IsFiniteSet(Callers), ConnInv, ConnInv', CountInv, NEW c \in Callers, reserveWire(c),
         UNCHANGED machine, FreshID # NoID
  PROVE  CountInv'
<1> DEFINE next == IF state = "open" THEN "granted" ELSE "waiting"
           t == IF state = "open" THEN "none" ELSE "listed"
<1>1. /\ Enters(c, "checked", next) /\ pc[c] = "checked" /\ Moves(c, next) /\ online /\ Unlocked /\ Alive
      /\ ApplyEvent(Plain("reservation")) /\ ticket' = [ticket EXCEPT ![c] = t] /\ Continue(c)
  BY DEF reserveWire, Enters
<1>2. next \in {"granted", "waiting"} /\ t \in {"none", "listed"}
  OBVIOUS
<1> HIDE DEF next, t
<1>3. AtRest
  BY <1>1, RestIs DEF CountInv
<1> DEFINE in == Plain("reservation")
<1>4. Apply(in, FreshID) /\ in.event = "reservation"
  BY <1>1, PlainIs DEF ApplyEvent
<1> HIDE DEF in
<1>5. Led /\ Clear /\ reservations' = reservations + 1 /\ sessions' = sessions
  BY <1>3, <1>4, RestApply
<1>6. Placed' /\ Only(c) /\ pc'[c] = next /\ ticket'[c] = t
  BY <1>1, <1>2, OnlyMoves DEF CountInv, CallersInv, Stands
<1>7. c \notin OnTheWay /\ c \in OnTheWay' /\ c \notin Inside
  BY <1>1, <1>2, <1>6, WhereIs DEF OnTheirWay
<1>8. OnTheWay \subseteq OnTheWay' /\ Inside \subseteq Inside'
  BY <1>6, <1>7, OthersStand
<1>9. Counts'
  <2>1. reservations \in Nat /\ sessions \in Nat /\ reservations' \in Nat /\ sessions' \in Nat
    BY <1>5 DEF Led, Tallies, AtRest, CountInv, DriveInv, CycleInv
  <2>2. reservations' <= Cardinality(OnTheWay')
    BY <1>5, <1>7, <1>8, <2>1, Crowds, OneComes DEF CountInv, CallersInv, Counts
  <2>3. sessions' <= Cardinality(Inside')
    BY <1>5, <1>8, <2>1, Crowds, Stays DEF CountInv, CallersInv, Counts
  <2>4. QED
    BY <2>2, <2>3 DEF Counts
<1>10. ~Unswept
  BY <1>1 DEF CountInv, Untouched
<1>11. QED
  BY <1>1, <1>5, <1>6, <1>9, <1>10, EntersCounts

\* A reservation is given up or turned into a session.
LEMMA ReleaseCounts ==
  ASSUME IsFiniteSet(Callers), ConnInv, ConnInv', CountInv, NEW c \in Callers, NEW from, NEW next \in {"out", "session"},
         Enters(c, from, next), from \in OnTheirWay,
         NEW e \in {"cancel", "nestedFailure", "success"}, e = "success" <=> next = "session",
         ApplyEvent(Plain(e)), Continue(c), UNCHANGED machine, FreshID # NoID,
         UNCHANGED ticket \/ ticket' = [ticket EXCEPT ![c] = "none"]
  PROVE  CountInv'
<1>1. pc[c] = from /\ Moves(c, next) /\ Unlocked /\ Alive
  BY DEF Enters
<1>2. AtRest
  BY <1>1, RestIs DEF CountInv
<1> DEFINE in == Plain(e)
<1>3. Apply(in, FreshID) /\ in.event = e
  BY PlainIs DEF ApplyEvent
<1> HIDE DEF in
<1>4. /\ Led /\ Clear /\ Unreserved
      /\ Fewer \/ (e = "success" /\ reservations' <= reservations /\ sessions' = sessions + 1)
  BY <1>2, <1>3, RestApply
<1>5. Placed' /\ Only(c) /\ pc'[c] = next
  <2>1. next \in Stands
    BY DEF Stands
  <2>2. QED
    BY <1>1, <2>1, OnlyMoves, OnlyMovesKeeping DEF CountInv, CallersInv
<1>6. c \notin Inside /\ (e = "success" => c \in Inside')
  BY <1>1, <1>5, WhereIs DEF OnTheirWay
<1>7. OnTheWay \ {c} \subseteq OnTheWay' /\ Inside \subseteq Inside'
  BY <1>5, <1>6, OthersStand
<1>8. Counts'
  <2>1. reservations \in Nat /\ sessions \in Nat /\ reservations' \in Nat /\ sessions' \in Nat
    BY <1>4 DEF Led, Tallies, CountInv, DriveInv, CycleInv
  <2>2. reservations' <= Cardinality(OnTheWay')
    BY <1>4, <1>7, <2>1, Crowds, OneGoes DEF Unreserved, CountInv, CallersInv, Counts
  <2>3. sessions' <= Cardinality(Inside')
    <3>1. CASE Fewer
      BY <1>7, <2>1, <3>1, Crowds, Stays DEF Fewer, CountInv, CallersInv, Counts
    <3>2. CASE e = "success" /\ sessions' = sessions + 1
      BY <1>6, <1>7, <2>1, <3>2, Crowds, OneComes DEF CountInv, CallersInv, Counts
    <3>3. QED
      BY <1>4, <3>1, <3>2
  <2>4. QED
    BY <2>2, <2>3 DEF Counts
<1>9. state = "closed" => UNCHANGED <<state, sessions, online>> /\ cmd' = NoCmd
  BY ClosedIgnores DEF ApplyEvent, CountInv, DriveInv, CycleInv
<1>10. QED
  BY <1>4, <1>5, <1>8, <1>9, EntersCounts

LEMMA FinishCounts ==
  ASSUME IsFiniteSet(Callers), ConnInv, ConnInv', CountInv, NEW c \in Callers, finishSession(c), UNCHANGED machine
  PROVE  CountInv'
<1>1. /\ Enters(c, "finishing", "out") /\ pc[c] = "finishing" /\ Moves(c, "out") /\ Unlocked /\ Alive
      /\ FinishSession /\ Continue(c) /\ UNCHANGED ticket
  BY DEF finishSession, Enters
<1>2. AtRest
  BY <1>1, RestIs DEF CountInv
<1>3. Led /\ Clear /\ Fewer /\ (sessions' + 1 <= sessions \/ sessions' = 0)
  BY <1>1, <1>2, RestFinishes
<1>4. Placed' /\ Only(c)
  BY <1>1, OnlyMovesKeeping DEF CountInv, CallersInv, Stands
<1>5. OnTheWay \subseteq OnTheWay' /\ Inside \ {c} \subseteq Inside'
  BY <1>1, <1>4, OthersStand, WhereIs DEF OnTheirWay
<1>6. Counts'
  <2>1. reservations \in Nat /\ sessions \in Nat /\ reservations' \in Nat /\ sessions' \in Nat
    BY <1>3 DEF Led, Tallies, CountInv, DriveInv, CycleInv
  <2>2. reservations' <= Cardinality(OnTheWay')
    BY <1>3, <1>5, <2>1, Crowds, Stays DEF Fewer, CountInv, CallersInv, Counts
  <2>3. sessions' <= Cardinality(Inside')
    BY <1>3, <1>5, <2>1, Crowds, OneGoes DEF CountInv, CallersInv, Counts
  <2>4. QED
    BY <2>2, <2>3 DEF Counts
<1>7. sessions = 0 => UNCHANGED <<state, sessions, online>> /\ cmd' = NoCmd
  BY <1>1 DEF FinishSession, protocolErr, automaton
<1>8. QED
  BY <1>1, <1>3, <1>4, <1>6, <1>7, EntersCounts

\* A refused caller asks whether the door is still there.
LEMMA RecheckCounts ==
  ASSUME IsFiniteSet(Callers), ConnInv, ConnInv', CountInv, NEW c \in Callers, recheckDoorWire(c), UNCHANGED machine
  PROVE  CountInv'
<1>1. /\ Alive /\ Unlocked /\ pc[c] = "refused" /\ Recheck(keyOf[c])
      /\ UNCHANGED <<conn, swept, answer, retired, late>>
  BY DEF recheckDoorWire, epochVars
<1>2. AtRest
  BY <1>1, RestIs DEF CountInv
<1>3. /\ UNCHANGED <<state, reservations, sessions, online, reconcile, door>>
      /\ IF state = "open" /\ door.id = keyOf[c] THEN status ELSE cmd' = NoCmd
  BY <1>1 DEF Recheck
<1>4. Tallies' /\ Fewer
  BY <1>3 DEF CountInv, DriveInv, CycleInv, Tallies, Fewer
<1>5. \E next \in {"granted", "waiting", "failed"} :
        /\ Moves(c, next)
        /\ \/ UNCHANGED ticket /\ next # "waiting"
           \/ ticket' = [ticket EXCEPT ![c] = "listed"]
  BY DEF recheckDoorWire
<1>6. PICK next \in {"granted", "waiting", "failed"} :
        /\ Moves(c, next)
        /\ \/ UNCHANGED ticket /\ next # "waiting"
           \/ ticket' = [ticket EXCEPT ![c] = "listed"]
  BY <1>5
<1>7. Placed' /\ Only(c) /\ pc'[c] = next /\ (next = "waiting" => ticket'[c] = "listed")
  <2>1. next \in Stands
    BY DEF Stands
  <2>2. QED
    BY <1>6, <2>1, OnlyMoves, OnlyMovesKeeping DEF CountInv, CallersInv
<1>8. c \in OnTheWay' /\ c \notin Inside
  BY <1>1, <1>7, WhereIs DEF OnTheirWay
<1>9. Counts'
  <2>1. OnTheWay \subseteq OnTheWay' /\ Inside \subseteq Inside'
    BY <1>7, <1>8, OthersStand
  <2>2. QED
    BY <1>4, <2>1, CountsStay DEF CountInv, CallersInv, DriveInv, CycleInv
<1>10. flight = NoFlight /\ answer' = NoAnswer
  BY <1>1 DEF ConnInv, OneWait, Unlocked
<1>11. Doorway' /\ Heard'
  BY <1>3, <1>10 DEF CountInv, DriveInv, CycleInv, Doorway, Heard
<1>12. CASE UNCHANGED <<holder, flight, toMachine>>
  <2>1. Resting' /\ InCycle' /\ Untouched' /\ Rechecks'
    BY <1>1, <1>3, <1>10, <1>12, NoOpenInNothing
    DEF CountInv, DriveInv, CycleInv, Resting, InCycle, Untouched, Unswept, Unlocked, Alive, Rechecks
  <2>2. Honest'
    BY <1>1, <1>3, <1>12 DEF CountInv, DriveInv, Honest, Opens, machine
  <2>3. QED
    BY <1>4, <1>7, <1>9, <1>11, <2>1, <2>2 DEF CountInv, CallersInv, DriveInv, CycleInv
<1>13. CASE /\ state = "open" /\ door.id = keyOf[c] /\ holder' = c /\ Sends(cmd') /\ Moves(c, "waiting")
            /\ flight' = [NoFlight EXCEPT !.cmd = cmd', !.recheck = TRUE]
  <2>1. cmd'.op = "door.status"
    BY <1>3, <1>13 DEF status
  <2>2. flight'.cmd = cmd' /\ flight'.recheck = TRUE /\ flight' # NoFlight /\ flight'.own = FALSE
    BY <1>13, <2>1, NoOpenInNothing DEF NoFlight
  <2>3. conn = "up" /\ swept
    BY <1>1, <1>13 DEF CountInv, Untouched, Unswept
  <2>4. Untouched'
    BY <1>1, <2>3, SweptUntouched
  <2>5. Resting'
    BY <1>13, ConnNames DEF Resting, Unlocked
  <2>6. Pending' = cmd'
    BY <2>2 DEF Pending
  <2>7. Fits(Pending)'
    BY <2>1, <2>6 DEF Fits, Ops
  <2>8. InCycle'
    BY <1>3, <1>13, <2>1, <2>2, <2>6, <2>7 DEF InCycle
  <2>9. Honest'
    <3>1. \A i \in 1..Len(toMachine') : toMachine'[i].cmd.op = "door.open" => toMachine'[i].cmd.id # NoID
      <4>1. CASE toMachine' = toMachine
        BY <4>1 DEF CountInv, DriveInv, Honest, Opens
      <4>2. CASE /\ Len(toMachine') = Len(toMachine) + 1
                 /\ \A i \in 1..Len(toMachine) : toMachine'[i] = toMachine[i]
                 /\ toMachine'[Len(toMachine')] = Request(cmd')
        <5>1. Request(cmd').cmd = cmd' /\ Len(toMachine) \in Nat
          BY RequestIs DEF ConnInv, IsWire
        <5>2. \A i \in 1..Len(toMachine') : i = Len(toMachine') \/ i \in 1..Len(toMachine)
          BY <4>2, <5>1
        <5>3. \A i \in 1..Len(toMachine) : toMachine[i].cmd.op = "door.open" => toMachine[i].cmd.id # NoID
          BY DEF CountInv, DriveInv, Honest, Opens
        <5>4. QED
          BY <2>1, <4>2, <5>1, <5>2, <5>3
      <4>3. QED
        <5>1. PICK k : k = cmd'
          OBVIOUS
        <5>2. Sends(k)
          BY <1>13, <5>1 DEF Sends
        <5>3. QED
          BY <4>1, <4>2, <5>1, <5>2, SendsOne DEF ConnInv
    <3>2. QED
      BY <1>1, <1>3, <3>1 DEF CountInv, DriveInv, Honest, Opens, machine
  <2>10. Rechecks'
    <3>1. next = "waiting"
      BY <1>6, <1>7, <1>13 DEF Moves, CountInv, CallersInv, Placed
    <3>2. QED
      BY <1>7, <1>13, <3>1 DEF Rechecks
  <2>11. QED
    BY <1>4, <1>7, <1>9, <1>11, <2>4, <2>5, <2>8, <2>9, <2>10 DEF CountInv, CallersInv, DriveInv, CycleInv
<1>14. QED
  BY <1>12, <1>13 DEF recheckDoorWire

\* What a recheck hears of an honest machine: the door is there, or is gone.
LEMMA RecheckAnswerCounts ==
  ASSUME IsFiniteSet(Callers), ConnInv, ConnInv', CountInv, NEW c \in Callers, recheckAnswer(c),
         UNCHANGED machine, FreshID # NoID
  PROVE  CountInv'
<1>1. /\ conn = "up" /\ flight.recheck /\ holder = c /\ c # Nobody /\ Landed /\ Continue(c)
      /\ UNCHANGED <<conn, swept>>
  BY ConnNames DEF recheckAnswer, epochVars
<1>2. flight # NoFlight /\ flight.cmd.op = "door.status" /\ pc[c] = "waiting"
  BY <1>1, NoOpenInNothing DEF ConnInv, OneWait, CountInv, CallersInv, Rechecks
<1>3. state = "open"
  BY <1>1, <1>2 DEF CountInv, DriveInv, CycleInv, InCycle, Pending, Unlocked
<1>4. Led /\ Clear /\ Fewer
  <2>1. CASE answer.ok /\ ApplyEvent(Input("status", answer.installed, answer.id, FALSE, FALSE))
    <3> DEFINE in == Input("status", answer.installed, answer.id, FALSE, FALSE)
    <3>1. answer # NoAnswer
      BY <2>1 DEF NoAnswer, Answer
    <3>2. in.event = "status" /\ (in.installed => in.id = door.id)
      BY <1>1, <3>1 DEF Input, CountInv, DriveInv, Heard
    <3>3. Apply(in, FreshID)
      BY <2>1 DEF ApplyEvent
    <3> HIDE DEF in
    <3>4. openStatus(in, FreshID)
      BY <1>3, <3>2, <3>3 DEF Apply
    <3>5. QED
      BY <1>3, <3>2, <3>4, StatusLands DEF CountInv, DriveInv, CycleInv
  <2>2. CASE Ignore
    BY <1>3, <2>2, StatusLands DEF CountInv, DriveInv, CycleInv
  <2>3. QED
    BY <2>1, <2>2 DEF recheckAnswer
<1>5. cmd' = NoCmd <=> cmd'.op = "none"
  BY NoOpenInNothing DEF ConnInv, OpenNamesDoor
<1>6. DriveInv' /\ ~flight'.recheck
  BY <1>1, <1>3, <1>4, <1>5, LandingCycle DEF CountInv, DriveInv, machine, Continue, Clear
<1>7. Untouched'
  BY <1>1, LockedIsSwept, SweptUntouched DEF CountInv
<1>8. /\ Placed' /\ Only(c)
      /\ pc'[c] = "failed" \/ UNCHANGED <<pc, ticket>>
  <2>1. CASE UNCHANGED <<pc, ticket>>
    BY <2>1 DEF Only, CountInv, CallersInv, Placed
  <2>2. CASE Moves(c, "failed") /\ ticket' = [ticket EXCEPT ![c] = "none"]
    BY <2>2, OnlyMoves DEF CountInv, CallersInv, Stands
  <2>3. QED
    BY <2>1, <2>2 DEF recheckAnswer
<1>9. OnTheWay \subseteq OnTheWay' /\ Inside \subseteq Inside'
  <2>1. CASE UNCHANGED <<pc, ticket>>
    BY <2>1 DEF OnTheWay, Inside
  <2>2. CASE pc'[c] = "failed"
    <3>1. c \in OnTheWay' /\ c \notin Inside
      BY <1>2, <2>2, WhereIs DEF OnTheirWay
    <3>2. QED
      BY <1>8, <3>1, OthersStand
  <2>3. QED
    BY <1>8, <2>1, <2>2
<1>10. Counts'
  BY <1>4, <1>9, CountsStay DEF Led, CountInv, CallersInv, DriveInv, CycleInv
<1>11. QED
  BY <1>6, <1>7, <1>8, <1>10 DEF CountInv, CallersInv, Rechecks

-----------------------------------------------------------------------------
(* The invariant. *)

LEMMA CallerStepCounts ==
  ASSUME StaleCallers = {}, IsFiniteSet(Callers), ConnInv, ConnInv', CountInv, NEW c \in Callers, CallerStep(c),
         UNCHANGED machine, FreshID # NoID
  PROVE  CountInv'
<1>1. CASE Turned(c) \/ Woken(c) \/ takeSigner(c) \/ handshake(c) \/ Leave(c)
  BY <1>1, CallerAsideCounts
<1>2. CASE reserveWire(c)
  BY <1>2, ReserveCounts
<1>3. CASE recheckDoorWire(c)
  BY <1>3, RecheckCounts
<1>4. CASE recheckAnswer(c)
  BY <1>4, RecheckAnswerCounts
<1>5. CASE finishSession(c)
  BY <1>5, FinishCounts
<1>6. CASE cancelTicket(c)
  <2>1. /\ Enters(c, "cancel", "out") /\ ApplyEvent(Plain("cancel")) /\ Continue(c)
        /\ ticket' = [ticket EXCEPT ![c] = "none"]
    BY <1>6 DEF cancelTicket
  <2>2. QED
    BY <2>1, ReleaseCounts DEF OnTheirWay
<1>7. CASE nestedHandshakeSucceeded(c)
  <2>1. /\ Enters(c, "authed", "session") /\ ApplyEvent(Plain("success")) /\ Continue(c)
        /\ UNCHANGED ticket
    BY <1>7 DEF nestedHandshakeSucceeded
  <2>2. QED
    BY <2>1, ReleaseCounts DEF OnTheirWay
<1>8. CASE nestedHandshakeFailed(c) \/ releaseProbeReservation(c)
  <2>1. /\ Enters(c, "failed", "out") \/ Enters(c, "authed", "out")
        /\ ApplyEvent(Plain("nestedFailure")) /\ Continue(c) /\ UNCHANGED ticket
    BY <1>8 DEF nestedHandshakeFailed, releaseProbeReservation
  <2>2. QED
    BY <2>1, ReleaseCounts DEF OnTheirWay
<1>9. QED
  BY <1>1, <1>2, <1>3, <1>4, <1>5, <1>6, <1>7, <1>8 DEF CallerStep

\* NewDoor finds an id that nothing remembers.
IDsLast == \E d \in DoorIDs : d \notin InUse

LEMMA CountStep ==
  ASSUME StaleCallers = {}, MaxFaults = 0, IsFiniteSet(Callers), ConnInv, ConnInv', CountInv, IDsLast,
         [ConnNext]_connVars
  PROVE  CountInv'
<1>1. FreshID # NoID
  BY DEF IDsLast, FreshID
<1>2. CASE DriveStep /\ UNCHANGED machine
  BY <1>1, <1>2, DriveStepCounts
<1>3. CASE Outside /\ UNCHANGED machine
  BY <1>3, TeardownCounts, TimeoutCounts, HardCounts, CallerAsideCounts DEF Outside
<1>4. CASE (\E c \in Callers : CallerStep(c)) /\ UNCHANGED machine
  BY <1>1, <1>4, CallerStepCounts
<1>5. CASE Connect
  BY <1>5, ConnectCounts
<1>6. CASE machineAnswers
  <2>1. DriveInv' /\ Untouched'
    BY <1>6, AnswersDrive DEF CountInv
  <2>2. Standing /\ UNCHANGED <<reservations, sessions, holder, flight, conn>>
    BY <1>6 DEF machineAnswers, core, automaton, counters, epochVars, callerVars, Standing
  <2>3. QED
    BY <2>1, <2>2, OthersCount
<1>7. CASE selfClose
  <2>1. DriveInv' /\ Untouched'
    BY <1>7, SelfCloseDrive DEF CountInv
  <2>2. Standing /\ UNCHANGED <<reservations, sessions, holder, flight, conn>>
    BY <1>7 DEF selfClose, core, automaton, counters, epochVars, driveVars, callerVars, Standing
  <2>3. QED
    BY <2>1, <2>2, OthersCount
<1>8. ~corruptLine
  BY DEF corruptLine, Fault, CountInv, DriveInv, Honest
<1>9. CASE UNCHANGED connVars
  <2>1. UNCHANGED <<core, epochVars, driveVars, wireVars, machine, callerVars>>
    BY <1>9 DEF connVars
  <2>2. DriveInv' /\ Untouched'
    BY <2>1, AsideDrive DEF CountInv
  <2>3. Standing /\ UNCHANGED <<reservations, sessions, holder, flight, conn>>
    BY <2>1 DEF core, automaton, counters, epochVars, driveVars, callerVars, Standing
  <2>4. QED
    BY <2>2, <2>3, OthersCount
<1>10. QED
  BY <1>2, <1>3, <1>4, <1>5, <1>6, <1>7, <1>8, <1>9 DEF ConnNext

LEMMA CountInit ==
  ASSUME MaxFaults = 0, IsFiniteSet(Callers), ConnInit
  PROVE  CountInv
<1>1. /\ state = "closed" /\ reservations = 0 /\ sessions = 0 /\ ~online /\ door = NoDoor /\ conn = "none"
      /\ pc = [c \in Callers |-> "out"] /\ ticket = [c \in Callers |-> "none"]
      /\ toMachine = <<>> /\ retired = {} /\ late = {} /\ disk = {} /\ mem = NoID /\ faults = 0
  BY DEF ConnInit, Init
<1>2. Tallies /\ Doorway /\ Resting /\ InCycle /\ Heard /\ Untouched /\ Rechecks
  BY <1>1 DEF Tallies, Doorway, States, Resting, Alive, InCycle, Heard, Untouched, Unswept, Rechecks
<1>3. Honest
  BY <1>1 DEF Honest
<1>4. Placed
  BY <1>1 DEF Placed, Stands
<1>5. Counts
  <2>1. IsFiniteSet(OnTheWay) /\ IsFiniteSet(Inside)
    BY Crowds, FS_Subset
  <2>2. Cardinality(OnTheWay) \in Nat /\ Cardinality(Inside) \in Nat
    BY <2>1, FS_CardinalityType
  <2>3. QED
    BY <1>1, <2>2 DEF Counts
<1>6. QED
  BY <1>2, <1>3, <1>4, <1>5 DEF CountInv, DriveInv, CycleInv, CallersInv

LEMMA CountSuffices ==
  ASSUME IsFiniteSet(Callers), CountInv
  PROVE  NobodyCountedTwice /\ NoForgottenReservation
<1>1. reservations \in Nat /\ sessions \in Nat /\ Counts
  BY DEF CountInv, DriveInv, CycleInv, Tallies, CallersInv
<1> DEFINE all == ComingIn
<1>2. reservations <= Cardinality(all)
  <2>1. OnTheWay \subseteq all /\ all \subseteq Callers
    BY DEF OnTheWay, ComingIn
  <2> HIDE DEF all
  <2>2. QED
    BY <1>1, <2>1, Stays DEF Counts
<1>3. NobodyCountedTwice
  BY <1>1, <1>2 DEF NobodyCountedTwice, Counts, Inside
<1>4. NoForgottenReservation
  BY DEF NoForgottenReservation, CountInv, DriveInv, CycleInv, Tallies
<1>5. QED
  BY <1>3, <1>4

-----------------------------------------------------------------------------
(* Every reservation ends once (MachineConn.OneForEach), whatever the machine *)
(* answers and whenever a stale caller comes.  A failure or a timeout reaches *)
(* the automaton in the row of the command it belongs to, unless a stale     *)
(* caller's open has overtaken the initial status; hence it drops all the    *)
(* reservations or none.                                                     *)

Closings == {"door.close", "door.sanitize"}

AccountInv ==
  /\ reservations \in Nat
  /\ Placed
  /\ conn # "torn" /\ holder # Nobody =>
       /\ flight = NoFlight /\ cmd.op \in Closings => state = "closing"
       /\ flight.cmd.op \in Closings => state = "closing" /\ flight.closing

\* A command that closes leaves the door closing.
Shuts == cmd'.op \in Closings => state' = "closing"

Released == reservations' = reservations - 1 \/ (reservations = 0 /\ reservations' = 0)

\* What an input makes of the count.
Accounts(e) ==
  /\ reservations' \in Nat /\ Shuts
  /\ e = "reservation" => reservations' = reservations + 1
  /\ e \in {"cancel", "success", "nestedFailure"} => Released \/ (state # "open" /\ reservations' = reservations)
  /\ e = "cancel" => Released
  /\ e \in {"status", "late"} => reservations' = reservations
  /\ e = "success" /\ state # "open" => reservations' = reservations
  /\ e \in {"failure", "timeout"} =>
       /\ state = "closed" => reservations' = reservations
       /\ state = "opening" => ~err' /\ state' = "closed" /\ reservations' = 0
       /\ state = "closing" => \/ reservations' = reservations
                               \/ ~err' /\ state' = "closed" /\ reservations' = 0
       /\ state = "open" => Released

LEMMA StillAccounts ==
  ASSUME reservations \in Nat, Ignore \/ protocolErr
  PROVE  reservations' = reservations /\ reservations' \in Nat /\ Shuts
  BY DEF Ignore, protocolErr, Quiet, automaton, counters, Shuts, Closings, NoCmd, Cmd

LEMMA ReservingAccounts ==
  ASSUME reservations \in Nat, NEW d, closedReserve(d) \/ waitingReserve
  PROVE  reservations' = reservations + 1 /\ reservations' \in Nat /\ Shuts
  BY DEF closedReserve, waitingReserve, startOpen, Quiet, Shuts, Closings, NoCmd, Cmd

LEMMA ReleasingAccounts ==
  ASSUME reservations \in Nat, waitingCancel \/ nestedSuccess \/ nestedFailure
  PROVE  Released /\ reservations' \in Nat /\ Shuts
<1> USE DEF Released, Shuts, Closings, NoCmd, Cmd
<1>1. CASE waitingCancel
  BY <1>1, StillAccounts DEF waitingCancel, Quiet
<1>2. CASE nestedSuccess
  BY <1>2, StillAccounts DEF nestedSuccess, Quiet
<1>3. CASE nestedFailure
  BY <1>3, StillAccounts DEF nestedFailure, idleClose, close, Quiet
<1>4. QED
  BY <1>1, <1>2, <1>3

LEMMA StatusAccounts ==
  ASSUME reservations \in Nat, NEW in, NEW d,
         closedStatus(in) \/ openStatus(in, d) \/ closedLate(in) \/ closedTimeout
  PROVE  reservations' = reservations /\ reservations' \in Nat /\ Shuts
<1> USE DEF Shuts, Closings, counters
<1>1. CASE closedStatus(in)
  BY <1>1 DEF closedStatus, cleanUp, close, sanitize, Quiet, NoCmd, Cmd
<1>2. CASE openStatus(in, d)
  BY <1>2, StillAccounts DEF openStatus, cleanUp, close, sanitize, startOpen, Quiet, NoCmd, Cmd
<1>3. CASE closedLate(in)
  BY <1>3, StillAccounts DEF closedLate, cleanUp, close, sanitize
<1>4. CASE closedTimeout
  BY <1>4 DEF closedTimeout, status, Cmd
<1>5. QED
  BY <1>1, <1>2, <1>3, <1>4

LEMMA SuccessAccounts ==
  ASSUME reservations \in Nat, NEW in, NEW d, openingSuccess(in) \/ closingSuccess(in, d)
  PROVE  reservations' = reservations /\ reservations' \in Nat /\ Shuts
<1> USE DEF Shuts, Closings, counters
<1>1. CASE openingSuccess(in)
  BY <1>1, StillAccounts DEF openingSuccess, close, Quiet, NoCmd, Cmd
<1>2. CASE closingSuccess(in, d)
  BY <1>2, StillAccounts DEF closingSuccess, startOpen, status, Quiet, NoCmd, Cmd
<1>3. QED
  BY <1>1, <1>2

LEMMA FailureAccounts ==
  ASSUME reservations \in Nat
  PROVE  /\ openingFailure \/ openingTimeout \/ closingFailure =>
              ~err' /\ state' = "closed" /\ reservations' = 0 /\ Shuts
         /\ state = "closing" /\ closingTimeout =>
              /\ reservations' \in Nat /\ Shuts
              /\ reservations' = reservations \/ (~err' /\ state' = "closed" /\ reservations' = 0)
<1> USE DEF Shuts, Closings, counters
<1>1. openingFailure \/ openingTimeout \/ closingFailure =>
        ~err' /\ state' = "closed" /\ reservations' = 0 /\ Shuts
  BY DEF openingFailure, openingTimeout, closingFailure, Quiet, status, NoCmd, Cmd
<1>2. state = "closing" /\ closingTimeout =>
        /\ reservations' \in Nat /\ Shuts
        /\ reservations' = reservations \/ (~err' /\ state' = "closed" /\ reservations' = 0)
  BY <1>1 DEF closingTimeout, close, sanitize
<1>3. QED
  BY <1>1, <1>2

LEMMA ApplyAccounts ==
  ASSUME reservations \in Nat, state \in States, NEW in, NEW d, in.event \in Events \ {"lost"}, Apply(in, d)
  PROVE  Accounts(in.event)
<1> USE DEF Apply, States, Accounts
<1>1. CASE in.event = "status"
  BY <1>1, StatusAccounts, StillAccounts
<1>2. CASE in.event = "reservation"
  BY <1>2, ReservingAccounts
<1>3. CASE in.event = "cancel"
  BY <1>3, ReleasingAccounts
<1>4. CASE in.event = "success"
  <2>1. CASE state = "closed"
    BY <1>4, <2>1, StillAccounts
  <2>2. CASE state \in {"opening", "closing"}
    BY <1>4, <2>2, SuccessAccounts
  <2>3. CASE state = "open"
    BY <1>4, <2>3, ReleasingAccounts
  <2>4. QED
    BY <2>1, <2>2, <2>3
<1>5. CASE in.event = "failure"
  <2>1. CASE state = "closed"
    BY <1>5, <2>1, StillAccounts
  <2>2. CASE state = "opening"
    <3>1. openingFailure
      BY <1>5, <2>2
    <3>2. QED
      BY <1>5, <2>2, <3>1, FailureAccounts
  <2>3. CASE state = "closing"
    <3>1. closingFailure
      BY <1>5, <2>3
    <3>2. QED
      BY <1>5, <2>3, <3>1, FailureAccounts
  <2>4. CASE state = "open"
    BY <1>5, <2>4, ReleasingAccounts
  <2>5. QED
    BY <2>1, <2>2, <2>3, <2>4
<1>6. CASE in.event = "timeout"
  <2>1. CASE state = "closed"
    BY <1>6, <2>1, StatusAccounts
  <2>2. CASE state = "opening"
    <3>1. openingTimeout
      BY <1>6, <2>2
    <3>2. QED
      BY <1>6, <2>2, <3>1, FailureAccounts
  <2>3. CASE state = "closing"
    <3>1. closingTimeout
      BY <1>6, <2>3
    <3>2. QED
      BY <1>6, <2>3, <3>1, FailureAccounts
  <2>4. CASE state = "open"
    BY <1>6, <2>4, ReleasingAccounts
  <2>5. QED
    BY <2>1, <2>2, <2>3, <2>4
<1>7. CASE in.event = "late"
  BY <1>7, StatusAccounts, StillAccounts
<1>8. CASE in.event = "nestedFailure"
  BY <1>8, StillAccounts, ReleasingAccounts
<1>9. QED
  BY <1>1, <1>2, <1>3, <1>4, <1>5, <1>6, <1>7, <1>8 DEF Events

LEMMA EntryPointsAccount ==
  ASSUME reservations \in Nat, FinishSession \/ HardDeadline(TRUE) \/ ForceClose
  PROVE  /\ reservations' \in Nat /\ Shuts
         /\ \/ reservations' = reservations
            \/ /\ reservations' = 0 /\ state # "closing" /\ state' = "closing" /\ closingReason' = "stop"
<1> USE DEF Shuts, Closings, NoCmd, Cmd
<1>1. CASE FinishSession
  BY <1>1, StillAccounts DEF FinishSession, idleClose, close, Quiet
<1>2. CASE HardDeadline(TRUE)
  BY <1>2, StillAccounts DEF HardDeadline, close, counters
<1>3. CASE ForceClose
  BY <1>3, StillAccounts DEF ForceClose, close
<1>4. QED
  BY <1>1, <1>2, <1>3

-----------------------------------------------------------------------------
(* The steps of the connection. *)

\* The callers on their way, one by one.
LEMMA ComesOrGoes ==
  ASSUME NEW c \in Callers, Only(c)
  PROVE  /\ c \in ComingIn <=> pc[c] \in OnTheirWay
         /\ c \in ComingIn' <=> pc'[c] \in OnTheirWay
         /\ ComingIn \ {c} = ComingIn' \ {c}
<1>1. c \in ComingIn <=> pc[c] \in OnTheirWay
  BY DEF ComingIn, OnTheirWay
<1>2. c \in ComingIn' <=> pc'[c] \in OnTheirWay
  BY DEF ComingIn, OnTheirWay
<1>3. \A x \in Callers \ {c} : x \in ComingIn <=> x \in ComingIn'
  BY DEF ComingIn, Only
<1>4. ComingIn \subseteq Callers /\ ComingIn' \subseteq Callers
  BY DEF ComingIn
<1>5. QED
  BY <1>1, <1>2, <1>3, <1>4

LEMMA NobodyMoves ==
  ASSUME UNCHANGED pc
  PROVE  ComingIn' = ComingIn
  BY DEF ComingIn

\* Nobody moves, and the reservations stay or are dropped.
LEMMA StandingAccount ==
  ASSUME reservations \in Nat, UNCHANGED pc,
         reservations' = reservations \/ (reservations' = 0 /\ (AllDropped \/ Overtaken))
           \/ (Released /\ Overtaken)
  PROVE  OneForEach
<1>1. ComingIn' = ComingIn
  BY NobodyMoves
<1>2. reservations' > reservations => FALSE
  BY DEF Released
<1>3. reservations' < reservations => AllDropped \/ Overtaken
  BY DEF Released
<1>4. QED
  BY <1>1, <1>2, <1>3 DEF OneForEach

\* One caller moves, and its reservation with it.
LEMMA MovingAccount ==
  ASSUME reservations \in Nat, NEW c \in Callers, Only(c),
         \/ /\ reservations' = reservations
            /\ pc[c] \in OnTheirWay /\ pc'[c] \notin OnTheirWay =>
                 reservations = 0 \/ state # "open" \/ ticket[c] = "fail" \/ conn = "torn"
         \/ /\ reservations' = reservations + 1
            /\ pc[c] \notin OnTheirWay /\ pc'[c] \in OnTheirWay
         \/ /\ reservations' = reservations - 1
            /\ pc[c] \in OnTheirWay /\ pc'[c] \notin OnTheirWay
  PROVE  OneForEach
<1>1. /\ c \in ComingIn <=> pc[c] \in OnTheirWay
      /\ c \in ComingIn' <=> pc'[c] \in OnTheirWay
      /\ ComingIn \ {c} = ComingIn' \ {c}
  BY ComesOrGoes
<1>2. CASE /\ reservations' = reservations
           /\ pc[c] \in OnTheirWay /\ pc'[c] \notin OnTheirWay =>
                reservations = 0 \/ state # "open" \/ ticket[c] = "fail" \/ conn = "torn"
  <2>1. ~(reservations' > reservations) /\ ~(reservations' < reservations)
    BY <1>2
  <2>2. \A x \in ComingIn \ ComingIn' : x = c
    BY <1>1
  <2>3. QED
    BY <1>1, <1>2, <2>1, <2>2 DEF OneForEach
<1>3. CASE /\ reservations' = reservations + 1
           /\ pc[c] \notin OnTheirWay /\ pc'[c] \in OnTheirWay
  <2>1. ~(reservations' < reservations) /\ ComingIn' = ComingIn \cup {c} /\ c \notin ComingIn
    BY <1>1, <1>3
  <2>2. ComingIn \ ComingIn' = {}
    BY <2>1
  <2>3. QED
    BY <1>3, <2>1, <2>2 DEF OneForEach
<1>4. CASE /\ reservations' = reservations - 1
           /\ pc[c] \in OnTheirWay /\ pc'[c] \notin OnTheirWay
  <2>1. ~(reservations' > reservations) /\ ComingIn' = ComingIn \ {c} /\ c \in ComingIn
    BY <1>1, <1>4
  <2>2. QED
    BY <1>4, <2>1 DEF OneForEach
<1>5. QED
  BY <1>2, <1>3, <1>4

\* An automaton left alone, and the same for one that returns to its rest.
LEMMA AloneAccount ==
  ASSUME AccountInv, UNCHANGED <<reservations, state, cmd, conn, holder, flight>>, Placed'
  PROVE  AccountInv'
  BY DEF AccountInv

LEMMA FreeAccount ==
  ASSUME reservations' \in Nat, Placed',
         \/ conn' = "torn" \/ holder' = Nobody
         \/ flight' = NoFlight /\ Shuts
  PROVE  AccountInv'
  BY NoOpenInNothing DEF AccountInv, Shuts, Closings

LEMMA AsideAccount ==
  ASSUME AccountInv, NEW c \in Callers,
         Check(c) \/ Turned(c) \/ Woken(c) \/ Expires(c) \/ takeSigner(c) \/ handshake(c)
           \/ endSession(c) \/ Leave(c)
  PROVE  AccountInv' /\ OneForEach
<1>1. Aside
  BY DEF Check, Turned, Woken, Expires, takeSigner, handshake, endSession, Leave
<1>2. UNCHANGED <<reservations, state, cmd, conn, holder, flight>>
  BY <1>1 DEF Aside, core, automaton, counters, returned, epochVars, driveVars
<1>3. \E next \in Stands :
        /\ Moves(c, next)
        /\ UNCHANGED ticket \/ ticket' = [ticket EXCEPT ![c] = "none"]
        /\ pc[c] \in OnTheirWay /\ next \notin OnTheirWay => ticket[c] = "fail" \/ conn = "torn"
  BY DEF Check, Turned, Woken, Waits, Expires, takeSigner, handshake, endSession, Leave, Stands, OnTheirWay
<1>4. PICK next \in Stands :
        /\ Moves(c, next)
        /\ UNCHANGED ticket \/ ticket' = [ticket EXCEPT ![c] = "none"]
        /\ pc[c] \in OnTheirWay /\ next \notin OnTheirWay => ticket[c] = "fail" \/ conn = "torn"
  BY <1>3
<1>5. Placed' /\ Only(c) /\ pc'[c] = next
  BY <1>4, OnlyMoves, OnlyMovesKeeping DEF AccountInv
<1>6. AccountInv'
  BY <1>2, <1>5, AloneAccount
<1>7. reservations \in Nat
  BY DEF AccountInv
<1>8. OneForEach
  BY <1>2, <1>4, <1>5, <1>7, MovingAccount
<1>9. QED
  BY <1>6, <1>8

\* A caller's input to the automaton.
LEMMA InsideAccount ==
  ASSUME ConnInv, AccountInv, NEW c \in Callers, NEW from \in Stands, NEW next \in Stands, Enters(c, from, next),
         NEW e \in {"reservation", "cancel", "success", "nestedFailure"}, ApplyEvent(Plain(e)),
         NEW t \in {"none", "listed", "ok", "fail"}, UNCHANGED ticket \/ ticket' = [ticket EXCEPT ![c] = t],
         e = "reservation" => from \notin OnTheirWay /\ next \in OnTheirWay,
         e # "reservation" => from \in OnTheirWay /\ next \notin OnTheirWay
  PROVE  AccountInv' /\ OneForEach
<1>1. /\ Moves(c, next) /\ pc[c] = from /\ holder = Nobody /\ UNCHANGED <<conn, flight>> /\ state \in States
  BY DEF Enters, Unlocked, epochVars, ConnInv, OpenNamesDoor
<1>2. flight = NoFlight
  BY <1>1 DEF ConnInv, OneWait
<1>3. Placed' /\ Only(c) /\ pc'[c] = next
  BY <1>1, OnlyMoves, OnlyMovesKeeping DEF AccountInv
<1>4. reservations \in Nat
  BY DEF AccountInv
<1>5. Accounts(e)
  <2> DEFINE in == Plain(e)
  <2>1. in.event = e /\ e \in Events \ {"lost"}
    BY PlainIs DEF Events
  <2> HIDE DEF in
  <2>2. Apply(in, FreshID)
    BY DEF ApplyEvent, in
  <2>3. QED
    BY <1>1, <1>4, <2>1, <2>2, ApplyAccounts
<1>6. reservations' \in Nat /\ Shuts
  BY <1>5 DEF Accounts
<1>7. AccountInv'
  BY <1>1, <1>2, <1>3, <1>6, FreeAccount
<1>8. \/ e = "reservation" /\ reservations' = reservations + 1
      \/ e # "reservation" /\ reservations' = reservations - 1
      \/ e # "reservation" /\ reservations' = reservations /\ (reservations = 0 \/ state # "open")
  BY <1>4, <1>5 DEF Accounts, Released
<1>9. OneForEach
  BY <1>1, <1>3, <1>4, <1>8, MovingAccount
<1>10. QED
  BY <1>7, <1>9

LEMMA CallersAccount ==
  ASSUME ConnInv, AccountInv, NEW c \in Callers,
         reserveWire(c) \/ cancelTicket(c) \/ nestedHandshakeSucceeded(c) \/ nestedHandshakeFailed(c)
           \/ releaseProbeReservation(c)
  PROVE  AccountInv' /\ OneForEach
<1> USE InsideAccount DEF Stands, OnTheirWay
<1>1. CASE reserveWire(c)
  <2>1. CASE state = "open"
    <3>1. Enters(c, "checked", "granted") /\ ApplyEvent(Plain("reservation")) /\ ticket' = [ticket EXCEPT ![c] = "none"]
      BY <1>1, <2>1 DEF reserveWire
    <3>2. QED
      BY <3>1
  <2>2. CASE state # "open"
    <3>1. Enters(c, "checked", "waiting") /\ ApplyEvent(Plain("reservation")) /\ ticket' = [ticket EXCEPT ![c] = "listed"]
      BY <1>1, <2>2 DEF reserveWire
    <3>2. QED
      BY <3>1
  <2>3. QED
    BY <2>1, <2>2
<1>2. CASE cancelTicket(c)
  BY <1>2 DEF cancelTicket
<1>3. CASE nestedHandshakeSucceeded(c)
  BY <1>3 DEF nestedHandshakeSucceeded
<1>4. CASE nestedHandshakeFailed(c)
  BY <1>4 DEF nestedHandshakeFailed
<1>5. CASE releaseProbeReservation(c)
  BY <1>5 DEF releaseProbeReservation
<1>6. QED
  BY <1>1, <1>2, <1>3, <1>4, <1>5

LEMMA FinishAccount ==
  ASSUME ConnInv, AccountInv, NEW c \in Callers, finishSession(c)
  PROVE  AccountInv' /\ OneForEach
<1>1. /\ Moves(c, "out") /\ pc[c] = "finishing" /\ holder = Nobody /\ UNCHANGED <<conn, flight, ticket>>
      /\ FinishSession
  BY DEF finishSession, Enters, Unlocked, epochVars
<1>2. flight = NoFlight /\ reservations \in Nat
  BY <1>1 DEF ConnInv, OneWait, AccountInv
<1>3. "out" \in Stands
  BY DEF Stands
<1>4. Placed' /\ Only(c) /\ pc'[c] = "out"
  BY <1>1, <1>3, OnlyMovesKeeping DEF AccountInv
<1>5. reservations' = reservations /\ Shuts
  BY <1>1, <1>2, StillAccounts DEF FinishSession, idleClose, close, Quiet, Shuts, Closings, NoCmd, Cmd
<1>6. AccountInv'
  BY <1>1, <1>2, <1>4, <1>5, FreeAccount
<1>7. OneForEach
  BY <1>1, <1>2, <1>4, <1>5, MovingAccount DEF OnTheirWay
<1>8. QED
  BY <1>6, <1>7

LEMMA RecheckAccount ==
  ASSUME ConnInv, AccountInv, NEW c \in Callers, recheckDoorWire(c)
  PROVE  AccountInv' /\ OneForEach
<1>1. /\ pc[c] = "refused" /\ holder = Nobody /\ Recheck(keyOf[c]) /\ UNCHANGED <<conn, reservations, state>>
  BY DEF recheckDoorWire, Unlocked, epochVars, Recheck, counters
<1>2. flight = NoFlight /\ reservations \in Nat
  BY <1>1 DEF ConnInv, OneWait, AccountInv
<1>3. cmd'.op \notin Closings
  BY <1>1 DEF Recheck, status, Quiet, Closings, NoCmd, Cmd
<1>4. \E next \in {"granted", "waiting", "failed"} :
        Moves(c, next) /\ (UNCHANGED ticket \/ ticket' = [ticket EXCEPT ![c] = "listed"])
  BY DEF recheckDoorWire
<1>5. PICK next \in {"granted", "waiting", "failed"} :
        Moves(c, next) /\ (UNCHANGED ticket \/ ticket' = [ticket EXCEPT ![c] = "listed"])
  BY <1>4
<1>6. next \in Stands /\ next \in OnTheirWay
  BY DEF Stands, OnTheirWay
<1>7. Placed' /\ Only(c) /\ pc'[c] = next
  BY <1>5, <1>6, OnlyMoves, OnlyMovesKeeping DEF AccountInv
<1>8. UNCHANGED flight \/ flight' = [NoFlight EXCEPT !.cmd = cmd', !.recheck = TRUE]
  BY DEF recheckDoorWire
<1>9. flight'.cmd.op \notin Closings
  BY <1>2, <1>3, <1>8, NoOpenInNothing DEF Closings
<1>10. AccountInv'
  BY <1>1, <1>2, <1>3, <1>7, <1>9 DEF AccountInv
<1>11. OneForEach
  BY <1>1, <1>2, <1>6, <1>7, MovingAccount
<1>12. QED
  BY <1>10, <1>11

LEMMA RecheckAnswerAccount ==
  ASSUME ConnInv, AccountInv, NEW c \in Callers, recheckAnswer(c)
  PROVE  AccountInv' /\ OneForEach
<1>1. /\ flight' = NoFlight /\ UNCHANGED conn /\ state \in States /\ reservations \in Nat
      /\ flight.recheck /\ holder = c /\ c # Nobody
  BY ConnNames DEF recheckAnswer, Landed, epochVars, ConnInv, OpenNamesDoor, AccountInv
<1>2. reservations' = reservations /\ Shuts
  <2>1. CASE ApplyEvent(Input("status", answer.installed, answer.id, FALSE, FALSE))
    <3> DEFINE in == Input("status", answer.installed, answer.id, FALSE, FALSE)
    <3>1. in.event = "status" /\ in.event \in Events \ {"lost"}
      BY DEF Input, Events
    <3>2. Apply(in, FreshID)
      BY <2>1 DEF ApplyEvent
    <3> HIDE DEF in
    <3>3. QED
      BY <1>1, <3>1, <3>2, ApplyAccounts DEF Accounts
  <2>2. CASE Ignore
    BY <1>1, <2>2, StillAccounts
  <2>3. QED
    BY <2>1, <2>2 DEF recheckAnswer
<1>3. \/ UNCHANGED <<pc, ticket>>
      \/ Moves(c, "failed") /\ ticket' = [ticket EXCEPT ![c] = "none"]
  BY DEF recheckAnswer
<1>4. CASE UNCHANGED <<pc, ticket>>
  <2>1. Placed'
    BY <1>4 DEF AccountInv, Placed
  <2>2. QED
    BY <1>1, <1>2, <1>4, <2>1, FreeAccount, StandingAccount
<1>5. CASE Moves(c, "failed") /\ ticket' = [ticket EXCEPT ![c] = "none"]
  <2>1. "failed" \in Stands /\ "failed" \in OnTheirWay
    BY DEF Stands, OnTheirWay
  <2>2. Placed' /\ Only(c) /\ pc'[c] = "failed"
    BY <1>5, <2>1, OnlyMoves DEF AccountInv
  <2>3. QED
    BY <1>1, <1>2, <2>1, <2>2, FreeAccount, MovingAccount
<1>6. QED
  BY <1>3, <1>4, <1>5

\* The answer to a command, or its timeout.
LEMMA SettleAccount ==
  ASSUME ConnInv, AccountInv, NEW in, NEW op \in {"door.open", "door.close", "door.status", "door.sanitize"},
         NEW olds, Settle(op, in, olds),
         in.event \in {"success", "failure", "timeout", "status"},
         op = "door.open" => state = "opening",
         op \in Closings => state = "closing" /\ flight.closing,
         op = "door.status" => flight.cmd.op = "door.status" /\ ~flight.recheck /\ in.event # "success"
  PROVE  AccountInv' /\ OneForEach
<1>1. /\ Apply(in, FreshID) /\ Outcome(op, in.event) /\ flight' = NoFlight /\ UNCHANGED <<pc, conn>>
      /\ cut' = (~err' /\ flight.closing /\ state' = "closed" /\ in.event \in {"failure", "timeout"})
      /\ state \in States /\ reservations \in Nat
  BY DEF Settle, ApplyEvent, Landed, ConnInv, OpenNamesDoor, AccountInv
<1>2. Accounts(in.event)
  <2>1. in.event \in Events \ {"lost"}
    BY DEF Events
  <2>2. QED
    BY <1>1, <2>1, ApplyAccounts
<1>3. reservations' \in Nat /\ Shuts
  BY <1>2 DEF Accounts
<1>4. UNCHANGED ticket \/ resolveTickets("ok") \/ resolveTickets("fail")
  BY <1>1 DEF Outcome
<1>5. Placed'
  BY <1>1, <1>4 DEF AccountInv, Placed, resolveTickets
<1>6. AccountInv'
  BY <1>1, <1>3, <1>5, FreeAccount
<1>0. UNCHANGED pc /\ reservations \in Nat
  BY <1>1
<1> SUFFICES OneForEach
  BY <1>6
<1>7. CASE reservations' = reservations
  BY <1>0, <1>7, StandingAccount
<1>8. CASE op = "door.status" /\ state # "closed"
  <2>1. Overtaken
    BY <1>8 DEF Overtaken
  <2>2. reservations' = reservations \/ reservations' = 0 \/ Released
    BY <1>1, <1>2 DEF Accounts, States
  <2>3. QED
    BY <1>0, <2>1, <2>2, StandingAccount
<1>9. CASE op = "door.status" /\ state = "closed"
  BY <1>2, <1>7, <1>9 DEF Accounts
<1>10. CASE op = "door.open"
  <2>1. state = "opening"
    BY <1>10
  <2>2. CASE in.event \in {"failure", "timeout"}
    <3>1. ~err' /\ state' = "closed" /\ reservations' = 0
      BY <1>2, <2>1, <2>2 DEF Accounts
    <3>2. resolveTickets("fail")
      BY <1>1, <1>10, <3>1 DEF Outcome
    <3>3. \A c \in Callers : ticket'[c] # "listed"
      BY <3>2 DEF resolveTickets
    <3>4. AllDropped
      BY <2>1, <3>1, <3>3 DEF AllDropped
    <3>5. QED
      BY <1>0, <3>1, <3>4, StandingAccount
  <2>3. CASE in.event \notin {"failure", "timeout"}
    BY <1>2, <1>7, <2>1, <2>3 DEF Accounts
  <2>4. QED
    BY <2>2, <2>3
<1>11. CASE op \in Closings
  <2>1. state = "closing" /\ flight.closing
    BY <1>11
  <2>2. CASE in.event \in {"failure", "timeout"} /\ reservations' # reservations
    <3>1. ~err' /\ state' = "closed" /\ reservations' = 0
      BY <1>2, <2>1, <2>2 DEF Accounts
    <3>2. cut'
      BY <1>1, <2>1, <2>2, <3>1
    <3>3. AllDropped
      BY <2>1, <3>1, <3>2 DEF AllDropped
    <3>4. QED
      BY <1>0, <3>1, <3>3, StandingAccount
  <2>3. CASE in.event \notin {"failure", "timeout"}
    BY <1>2, <1>7, <2>1, <2>3 DEF Accounts
  <2>4. QED
    BY <1>7, <2>2, <2>3
<1>12. QED
  BY <1>8, <1>9, <1>10, <1>11 DEF Closings

LEMMA AnswersAccount ==
  ASSUME ConnInv, AccountInv, driveAnswer \/ driveTimeout \/ notSent
  PROVE  AccountInv' /\ OneForEach
<1>1. CASE driveAnswer
  <2>1. /\ Settle(flight.cmd.op, InputOf(answer), retired) /\ Waiting /\ holder # Nobody
        /\ flight.cmd.op \in Ops \ {"none"}
    BY <1>1 DEF driveAnswer, Waiting, ConnInv, OneWait, OpenNamesDoor
  <2>2. flight.cmd.op = "door.open" => state = "opening"
    BY <2>1 DEF Waiting, ConnInv, OpenNamesDoor
  <2>3. flight.cmd.op \in Closings => state = "closing" /\ flight.closing
    BY <2>1 DEF Waiting, AccountInv
  <2>4. flight.cmd.op \in {"door.open", "door.close", "door.status", "door.sanitize"}
    BY <2>1 DEF Ops
  <2> DEFINE in == InputOf(answer)
  <2>5. in.event \in {"success", "failure", "status"} /\ (flight.cmd.op = "door.status" => in.event # "success")
    <3>1. CASE ~answer.ok
      BY <3>1, PlainIs DEF InputOf
    <3>2. CASE answer.ok /\ flight.cmd.op = "door.open"
      BY <3>2 DEF InputOf, Input
    <3>3. CASE answer.ok /\ flight.cmd.op = "door.close"
      BY <3>3 DEF InputOf, Input
    <3>4. CASE answer.ok /\ flight.cmd.op = "door.status"
      BY <3>4 DEF InputOf, Input
    <3>5. CASE answer.ok /\ flight.cmd.op = "door.sanitize"
      BY <3>5, PlainIs DEF InputOf
    <3>6. QED
      BY <2>4, <3>1, <3>2, <3>3, <3>4, <3>5
  <2>6. Settle(flight.cmd.op, in, retired)
    BY <2>1
  <2> HIDE DEF in
  <2>7. QED
    BY <2>1, <2>2, <2>3, <2>4, <2>5, <2>6, SettleAccount DEF Waiting
<1>2. CASE driveTimeout
  <2>1. /\ \E olds : Settle(flight.cmd.op, Plain("timeout"), olds)
        /\ Waiting /\ holder # Nobody /\ flight.cmd.op \in Ops \ {"none"}
    BY <1>2 DEF driveTimeout, Waiting, ConnInv, OneWait, OpenNamesDoor
  <2>2. flight.cmd.op = "door.open" => state = "opening"
    BY <2>1 DEF Waiting, ConnInv, OpenNamesDoor
  <2>3. flight.cmd.op \in Closings => state = "closing" /\ flight.closing
    BY <2>1 DEF Waiting, AccountInv
  <2>4. flight.cmd.op \in {"door.open", "door.close", "door.status", "door.sanitize"}
    BY <2>1 DEF Ops
  <2>5. PICK in : in = Plain("timeout")
    OBVIOUS
  <2>6. in.event = "timeout"
    BY <2>5, PlainIs
  <2>7. PICK olds : Settle(flight.cmd.op, in, olds)
    BY <2>1, <2>5
  <2>8. QED
    BY <2>1, <2>2, <2>3, <2>4, <2>6, <2>7, SettleAccount DEF Waiting
<1>3. CASE notSent
  <2>1. Settle("door.open", Plain("timeout"), retired) /\ state = "opening"
    BY <1>3 DEF notSent, HasCommand, Unlocked, ConnInv, OpenNamesDoor, OpenPending
  <2>2. PICK in : in = Plain("timeout")
    OBVIOUS
  <2>3. in.event = "timeout" /\ Settle("door.open", in, retired)
    BY <2>1, <2>2, PlainIs
  <2>4. QED
    BY <2>1, <2>3, SettleAccount DEF Closings
<1>4. QED
  BY <1>1, <1>2, <1>3

\* Epochs, sendings and the goroutines beside the callers: nobody moves.
LEMMA EpochsAccount ==
  ASSUME ConnInv, AccountInv, teardown \/ Connect
  PROVE  AccountInv' /\ OneForEach
<1>1. reservations' = 0 /\ conn' \in {"torn", "new"} /\ UNCHANGED pc /\ reservations \in Nat
  BY DEF teardown, lost, Connect, callerVars, AccountInv
<1>2. AllDropped
  BY <1>1 DEF AllDropped
<1>3. OneForEach
  BY <1>1, <1>2, StandingAccount
<1>4. CASE teardown
  <2>1. Placed'
    BY <1>4 DEF teardown, resolveTickets, AccountInv, Placed
  <2>2. conn' = "torn"
    BY <1>4 DEF teardown
  <2>3. QED
    BY <1>1, <1>3, <2>1, <2>2, FreeAccount
<1>5. CASE Connect
  <2>1. Placed' /\ holder' = Nobody
    BY <1>5 DEF Connect, callerVars, driveVars, Unlocked, AccountInv, Placed
  <2>2. QED
    BY <1>1, <1>3, <2>1, FreeAccount
<1>6. QED
  BY <1>4, <1>5

LEMMA SendingAccount ==
  ASSUME ConnInv, AccountInv, attachControl \/ initialStatus \/ sendCommand \/ driveClosed
  PROVE  AccountInv' /\ OneForEach
<1>1. UNCHANGED <<reservations, pc, ticket>> /\ reservations \in Nat
  BY DEF attachControl, initialStatus, sendCommand, driveClosed, callerVars, core, automaton, counters, AccountInv
<1>2. Placed'
  BY <1>1 DEF AccountInv, Placed
<1>3. OneForEach
  BY <1>1, StandingAccount
<1>4. CASE attachControl
  BY <1>1, <1>2, <1>3, <1>4 DEF attachControl, AccountInv, core, automaton, returned, driveVars
<1>5. CASE initialStatus
  <2>1. flight' = NoFlight
    BY <1>5 DEF initialStatus, Unlocked, ConnInv, OneWait
  <2>2. Shuts
    BY <1>5 DEF initialStatus, status, Shuts, Closings, Cmd
  <2>3. QED
    BY <1>1, <1>2, <1>3, <2>1, <2>2, FreeAccount
<1>6. CASE sendCommand
  <2>1. /\ holder # Nobody /\ flight = NoFlight /\ cmd # NoCmd /\ UNCHANGED <<state, cmd, conn>>
        /\ \/ holder' = Nobody
           \/ /\ conn = "up" /\ UNCHANGED holder
              /\ flight' = [cmd |-> cmd, own |-> cmd.op = "door.close" /\ door.key,
                            closing |-> state = "closing", reconciling |-> reconcile, recheck |-> FALSE]
    BY <1>6 DEF sendCommand, HasCommand, Unlocked, core, automaton, returned
  <2>2. CASE holder' = Nobody
    BY <1>1, <1>2, <1>3, <2>2, FreeAccount
  <2>3. CASE /\ conn = "up"
             /\ flight' = [cmd |-> cmd, own |-> cmd.op = "door.close" /\ door.key,
                            closing |-> state = "closing", reconciling |-> reconcile, recheck |-> FALSE]
    <3>1. flight'.cmd = cmd /\ flight'.closing = (state = "closing")
      BY <2>3
    <3>2. cmd.op \in Closings => state = "closing"
      BY <2>1, <2>3 DEF AccountInv
    <3>3. flight' # NoFlight
      BY <2>1, <3>1 DEF NoFlight
    <3>4. QED
      BY <1>1, <1>2, <1>3, <2>1, <3>1, <3>2, <3>3 DEF AccountInv
  <2>4. QED
    BY <2>1, <2>2, <2>3
<1>7. CASE driveClosed
  BY <1>1, <1>2, <1>3, <1>7, FreeAccount DEF driveClosed
<1>8. QED
  BY <1>4, <1>5, <1>6, <1>7

LEMMA OthersAccount ==
  ASSUME ConnInv, AccountInv,
         (\E d \in DoorIDs : driveRetiredOpen(d)) \/ enforceHardDeadline \/ closeForOSUserChange
  PROVE  AccountInv' /\ OneForEach
<1>1. /\ UNCHANGED <<pc, ticket, flight>> /\ holder = Nobody /\ state \in States /\ reservations \in Nat
  BY DEF driveRetiredOpen, enforceHardDeadline, closeForOSUserChange, Locks, Unlocked, callerVars, ConnInv,
         OpenNamesDoor, AccountInv
<1>2. flight' = NoFlight /\ Placed'
  BY <1>1 DEF ConnInv, OneWait, AccountInv, Placed
<1>3. CASE \E d \in DoorIDs : driveRetiredOpen(d)
  <2>1. PICK d \in DoorIDs : Apply(Input("late", FALSE, d, FALSE, TRUE), FreshID)
    BY <1>3 DEF driveRetiredOpen
  <2>2. PICK in : in = Input("late", FALSE, d, FALSE, TRUE)
    OBVIOUS
  <2>3. in.event = "late" /\ in.event \in Events \ {"lost"} /\ Apply(in, FreshID)
    BY <2>1, <2>2 DEF Input, Events
  <2>4. reservations' = reservations /\ Shuts
    BY <1>1, <2>3, ApplyAccounts DEF Accounts
  <2>5. QED
    BY <1>1, <1>2, <2>4, FreeAccount, StandingAccount
<1>4. CASE enforceHardDeadline \/ closeForOSUserChange
  <2>1. /\ reservations' \in Nat /\ Shuts
        /\ \/ reservations' = reservations
           \/ reservations' = 0 /\ state # "closing" /\ state' = "closing" /\ closingReason' = "stop"
    BY <1>1, <1>4, EntryPointsAccount DEF enforceHardDeadline, closeForOSUserChange
  <2>2. reservations' = reservations \/ (reservations' = 0 /\ AllDropped)
    BY <2>1 DEF AllDropped
  <2>3. QED
    BY <1>1, <1>2, <2>1, <2>2, FreeAccount, StandingAccount
<1>5. QED
  BY <1>3, <1>4

LEMMA AccountInit == ConnInit => AccountInv
  BY DEF ConnInit, Init, AccountInv, Placed, Stands

LEMMA AccountStep ==
  ASSUME ConnInv, AccountInv, [ConnNext]_connVars
  PROVE  AccountInv' /\ [OneForEach]_connVars
<1>1. CASE \E c \in Callers : CallerStep(c)
  BY <1>1, AsideAccount, CallersAccount, FinishAccount, RecheckAccount, RecheckAnswerAccount DEF CallerStep
<1>2. CASE DriveStep
  BY <1>2, EpochsAccount, SendingAccount, AnswersAccount, OthersAccount DEF DriveStep, letGo, terminalCut
<1>3. CASE Outside
  BY <1>3, EpochsAccount, AnswersAccount, OthersAccount, AsideAccount DEF Outside
<1>4. CASE Connect
  BY <1>4, EpochsAccount
<1>5. CASE machineAnswers \/ selfClose \/ corruptLine \/ UNCHANGED connVars
  <2>1. UNCHANGED <<reservations, state, cmd, conn, holder, flight, pc, ticket>>
    BY <1>5 DEF machineAnswers, selfClose, corruptLine, connVars, core, automaton, counters, returned, epochVars,
                driveVars, callerVars
  <2>2. Placed' /\ reservations \in Nat
    BY <2>1 DEF AccountInv, Placed
  <2>3. QED
    BY <2>1, <2>2, AloneAccount, StandingAccount
<1>6. QED
  BY <1>1, <1>2, <1>3, <1>4, <1>5 DEF ConnNext

\* One reservation comes with one caller and goes with one (machine_conn.go
\* reserve, cancelTicket, nestedHandshakeSucceeded, nestedHandshakeFailed;
\* core/door.go): for any number of callers, stale ones among them, and however
\* often the machine's operations fail, requests time out and connections are
\* lost, no release takes two, and no caller leaves one at an open door.
THEOREM OneReservationEach == ConnSpec => [][OneForEach]_connVars
<1>1. ConnInv /\ AccountInv /\ [ConnNext]_connVars => AccountInv' /\ [OneForEach]_connVars
  BY AccountStep
<1>2. QED
  BY <1>1, AccountInit, ConnInvariant, PTL DEF ConnSpec

\* The two together (machine_conn.go nestedFailure, recheckDoor; core/door.go
\* openingTimeout, closingSuccess).  That nobody is counted who is not there
\* holds while no reconnect catches a caller before its reservation and the
\* machine's own file operations do not fail; MCMachineConnClaims.cfg shows how
\* a failing one lets a release find no open door.
THEOREM NobodyLeftOver ==
  ASSUME StaleCallers = {}, MaxFaults = 0, IsFiniteSet(Callers)
  PROVE  ConnSpec /\ []IDsLast => CountedOnce
<1>1. ConnInit => CountInv
  BY CountInit
<1>2. ConnInv /\ ConnInv' /\ IDsLast /\ CountInv /\ [ConnNext]_connVars => CountInv'
  BY CountStep
<1>3. CountInv => NobodyCountedTwice /\ NoForgottenReservation
  BY CountSuffices
<1>4. QED
  BY <1>1, <1>2, <1>3, ConnInvariant, OneReservationEach, PTL DEF ConnSpec, CountedOnce

=============================================================================
