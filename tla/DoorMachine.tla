---------------------------- MODULE DoorMachine ----------------------------
(***************************************************************************)
(* The door automaton a gateway keeps for one connected machine            *)
(* (internal/gateway/core/door.go, type Machine).  A door is a short-lived *)
(* key the gateway has installed on the machine; the automaton decides     *)
(* when to install one, when to remove it, and which control command goes  *)
(* out next.  Every entry point runs under the automaton's one mutex, so   *)
(* each of them is one atomic step here.                                   *)
(*                                                                         *)
(* The cells of the 4 x 9 transition table are one action each.  A cell    *)
(* takes an Input and the id NewDoor would generate, and leaves in `cmd'   *)
(* the command it returns (no cell returns more than one) and in `err'     *)
(* whether it returned a protocol error.  The next-state relation at the   *)
(* end feeds the table every input in every order: the gateway trusts      *)
(* neither the machine's answers nor the order its own callers arrive in.  *)
(***************************************************************************)
EXTENDS Naturals

CONSTANTS
  DoorIDs,     \* well-formed door ids (validDoorID accepts exactly these)
  NoID,        \* the empty id
  BadID,       \* any id that is not a well-formed uuid
  MaxCount     \* bound on reservations + sessions alive at once

ASSUME IDAssumption == NoID \notin DoorIDs /\ BadID \notin DoorIDs /\ NoID # BadID
ASSUME MaxCountAssumption == MaxCount \in Nat \ {0}

VARIABLES
  state,          \* closed, opening, open or closing
  reservations,   \* admitted callers whose nested handshake has not ended
  sessions,       \* established sessions
  online,         \* the first reconciliation of this epoch found no line
  reconcile,      \* a door.status must come back clean before the next open
  door,           \* the current door: its id, and whether we hold its key
  closeTimeouts,  \* 1 once the closing operation has been repeated
  closingOp,      \* the closing operation in flight, and its reason
  closingReason,
  cmd,            \* the command the last entry point returned
  err,            \* whether the last entry point returned a protocol error
  issued          \* history: the ids generated in this epoch

counters == <<reservations, sessions>>
closingCtx == <<closingOp, closingReason>>
flags == <<online, reconcile>>
automaton == <<state, counters, flags, door, closeTimeouts, closingCtx>>
returned == <<cmd, err>>
vars == <<automaton, returned, issued>>

States == {"closed", "opening", "open", "closing"}
Reasons == {"idle", "hard", "stop", "reconnect", "late_reply", "corrupted", "none"}
AnyID == DoorIDs \cup {NoID, BadID}

NoDoor == [id |-> NoID, key |-> FALSE]
OwnDoor(d) == [id |-> d, key |-> TRUE]       \* generated here: we hold its key
FoundDoor(d) == [id |-> d, key |-> FALSE]    \* reported by the machine
Doors == [id : DoorIDs \cup {NoID}, key : BOOLEAN]

Cmd(op, id, reason) == [op |-> op, id |-> id, reason |-> reason]
NoCmd == Cmd("none", NoID, "none")
Ops == {"none", "door.open", "door.close", "door.sanitize", "door.status"}
Cmds == [op : Ops, id : AnyID, reason : Reasons]

Events == {"status", "reservation", "cancel", "success", "failure", "timeout",
           "lost", "late", "nestedFailure"}

\* core.Input.  A plain event carries no more than its name.
Input(event, installed, id, own, retired) ==
  [event |-> event, installed |-> installed, id |-> id, own |-> own, retired |-> retired]
Plain(event) == Input(event, FALSE, NoID, FALSE, FALSE)
Inputs == [event : Events, installed : BOOLEAN, id : AnyID, own : BOOLEAN, retired : BOOLEAN]

validDoorID(id) == id \in DoorIDs

-----------------------------------------------------------------------------
(* What the cells are made of. *)

\* A cell that returns no command and no error.
Quiet == cmd' = NoCmd /\ err' = FALSE

\* protocolErr(): the event is forbidden here and changes nothing.
protocolErr ==
  /\ err' = TRUE
  /\ cmd' = NoCmd
  /\ UNCHANGED automaton

Ignore == Quiet /\ UNCHANGED automaton

forgetDoor == door' = NoDoor /\ closeTimeouts' = 0

close(id, reason) ==
  /\ closingOp' = "close"
  /\ closingReason' = reason
  /\ cmd' = Cmd("door.close", id, reason)
  /\ err' = FALSE

sanitize(reason) ==
  /\ closingOp' = "sanitize"
  /\ closingReason' = reason
  /\ cmd' = Cmd("door.sanitize", NoID, reason)
  /\ err' = FALSE

status ==
  /\ cmd' = Cmd("door.status", NoID, "none")
  /\ err' = FALSE
  /\ UNCHANGED closingCtx

\* NewDoor yields the fresh id d with its key; the open goes out next.
startOpen(d) ==
  /\ door' = OwnDoor(d)
  /\ state' = "opening"
  /\ cmd' = Cmd("door.open", d, "none")
  /\ err' = FALSE
  /\ UNCHANGED closingCtx

\* Nobody inside and nobody on the way in: close the open door.  r and s are
\* the counters the caller has just written.
idleClose(r, s) ==
  IF r = 0 /\ s = 0
    THEN state' = "closing" /\ close(door.id, "idle")
    ELSE Quiet /\ UNCHANGED <<state, closingCtx>>

\* Mutant: close by whatever id was reported.
cleanUpByAnyID(id, reason) ==
  state' = "closing" /\ door' = NoDoor /\ close(id, reason)

\* A line the gateway did not install was found: close it by its id, or sweep
\* it when it has no id to be addressed by.
cleanUp(id, reason) ==
  /\ state' = "closing"
  /\ IF validDoorID(id)
       THEN door' = FoundDoor(id) /\ close(id, reason)
       ELSE door' = NoDoor /\ sanitize("corrupted")

-----------------------------------------------------------------------------
(* Row closed. *)

\* Mutant: any answer to the status means the machine is clean.
closedStatusTrusts(in) ==
  /\ reconcile' = FALSE
  /\ online' = TRUE
  /\ Quiet
  /\ UNCHANGED <<state, counters, door, closeTimeouts, closingCtx>>

closedStatus(in) ==
  IF in.installed
    THEN /\ cleanUp(in.id, "reconnect")
         /\ UNCHANGED <<counters, flags, closeTimeouts>>
    ELSE /\ reconcile' = FALSE
         /\ online' = TRUE
         /\ Quiet
         /\ UNCHANGED <<state, counters, door, closeTimeouts, closingCtx>>

\* Mutant: open at once, reconciliation owed or not.
closedReserveAtOnce(d) ==
  /\ reservations' = reservations + 1
  /\ startOpen(d)
  /\ UNCHANGED <<sessions, flags, closeTimeouts>>

closedReserve(d) ==
  /\ reservations' = reservations + 1
  /\ UNCHANGED <<sessions, flags, closeTimeouts>>
  /\ IF reconcile
       THEN Quiet /\ UNCHANGED <<state, door, closingCtx>>
       ELSE startOpen(d)

\* Mutant: the counter is not checked before it is decremented.
waitingCancelUnchecked ==
  /\ reservations' = reservations - 1
  /\ Quiet
  /\ UNCHANGED <<state, sessions, flags, door, closeTimeouts, closingCtx>>

\* closedCancel, openingCancel and closingCancel share this body.
waitingCancel ==
  IF reservations = 0
    THEN protocolErr
    ELSE /\ reservations' = reservations - 1
         /\ Quiet
         /\ UNCHANGED <<state, sessions, flags, door, closeTimeouts, closingCtx>>

closedTimeout ==
  /\ reconcile' = TRUE
  /\ status
  /\ UNCHANGED <<state, counters, online, door, closeTimeouts>>

\* Mutant: take the late door back into service instead of closing it.
closedLateRestores(in) ==
  /\ in.retired /\ validDoorID(in.id)
  /\ state' = "closing"
  /\ door' = OwnDoor(in.id)
  /\ close(in.id, "late_reply")
  /\ UNCHANGED <<counters, flags, closeTimeouts>>

closedLate(in) ==
  IF in.retired /\ in.id # NoID
    THEN /\ cleanUp(in.id, "late_reply")
         /\ UNCHANGED <<counters, flags, closeTimeouts>>
    ELSE Ignore

-----------------------------------------------------------------------------
(* Row opening.  openingReserve, openReserve and closingReserve are alike. *)

waitingReserve ==
  /\ reservations' = reservations + 1
  /\ Quiet
  /\ UNCHANGED <<state, sessions, flags, door, closeTimeouts, closingCtx>>

openingSuccess(in) ==
  IF in.id # NoID /\ in.id # door.id
    THEN protocolErr
    ELSE /\ UNCHANGED <<counters, flags, door, closeTimeouts>>
         /\ IF reservations > 0
              THEN state' = "open" /\ Quiet /\ UNCHANGED closingCtx
              ELSE state' = "closing" /\ close(door.id, "idle")

openingFailure ==
  /\ state' = "closed"
  /\ reservations' = 0
  /\ forgetDoor
  /\ Quiet
  /\ UNCHANGED <<sessions, flags, closingCtx>>

\* Mutant: the timed-out open is reconciled but its key is kept.
openingTimeoutKeepsKey ==
  /\ state' = "closed"
  /\ reservations' = 0
  /\ reconcile' = TRUE
  /\ status
  /\ UNCHANGED <<sessions, online, door, closeTimeouts>>

\* Mutant: a timed-out open is forgotten without a status.
openingTimeoutNoStatus ==
  /\ state' = "closed"
  /\ reservations' = 0
  /\ forgetDoor
  /\ Quiet
  /\ UNCHANGED <<sessions, flags, closingCtx>>

openingTimeout ==
  /\ state' = "closed"
  /\ reservations' = 0
  /\ forgetDoor
  /\ reconcile' = TRUE
  /\ status
  /\ UNCHANGED <<sessions, online>>

-----------------------------------------------------------------------------
(* Row open. *)

\* Mutant: a door found gone is not replaced.
openStatusNoReopen(in, d) ==
  /\ ~in.installed
  /\ state' = "closed" /\ forgetDoor
  /\ Quiet
  /\ UNCHANGED <<counters, flags, closingCtx>>

\* The answer to Recheck.  Anything but our own door still there means the
\* machine closed it by itself.
openStatus(in, d) ==
  \/ /\ in.installed /\ in.id = door.id
     /\ Ignore
  \/ /\ in.installed /\ in.id # door.id
     /\ cleanUp(in.id, "reconnect")
     /\ closeTimeouts' = 0
     /\ UNCHANGED <<counters, flags>>
  \/ /\ ~in.installed
     /\ closeTimeouts' = 0
     /\ UNCHANGED <<counters, flags>>
     /\ IF reservations > 0
          THEN startOpen(d)
          ELSE /\ state' = "closed"
               /\ door' = NoDoor
               /\ Quiet
               /\ UNCHANGED closingCtx

nestedSuccess ==
  IF reservations = 0
    THEN protocolErr
    ELSE /\ reservations' = reservations - 1
         /\ sessions' = sessions + 1
         /\ Quiet
         /\ UNCHANGED <<state, flags, door, closeTimeouts, closingCtx>>

\* Mutant: the release forgets the idle rule.
nestedFailureNoIdle ==
  /\ reservations > 0
  /\ reservations' = reservations - 1
  /\ Quiet
  /\ UNCHANGED <<state, sessions, flags, door, closeTimeouts, closingCtx>>

\* nestedFailure and openCancel: release one reservation, then the idle rule.
nestedFailure ==
  IF reservations = 0
    THEN protocolErr
    ELSE /\ reservations' = reservations - 1
         /\ idleClose(reservations - 1, sessions)
         /\ UNCHANGED <<sessions, flags, door, closeTimeouts>>

-----------------------------------------------------------------------------
(* Row closing. *)

closingSuccess(in, d) ==
  IF in.id # NoID /\ in.id # door.id
    THEN protocolErr
    ELSE
      /\ closeTimeouts' = 0
      /\ UNCHANGED <<counters, online>>
      /\ CASE ~in.own ->
                /\ state' = "closed" /\ door' = NoDoor
                /\ reconcile' = TRUE
                /\ status
           [] in.own /\ reservations > 0 /\ ~reconcile ->
                startOpen(d) /\ UNCHANGED reconcile
           [] OTHER ->
                /\ state' = "closed" /\ door' = NoDoor
                /\ Quiet /\ UNCHANGED <<reconcile, closingCtx>>

closingFailure ==
  /\ state' = "closed"
  /\ reservations' = 0
  /\ forgetDoor
  /\ online' = FALSE
  /\ Quiet
  /\ UNCHANGED <<sessions, reconcile, closingCtx>>

\* Mutant: every timeout repeats the operation.
closingTimeoutForever ==
  /\ closeTimeouts' = 1
  /\ IF closingOp = "sanitize" THEN sanitize(closingReason)
                               ELSE close(door.id, closingReason)
  /\ UNCHANGED <<state, counters, flags, door>>

\* The first timeout repeats the operation in flight, the second gives up.
closingTimeout ==
  IF closeTimeouts = 0
    THEN /\ closeTimeouts' = 1
         /\ IF closingOp = "sanitize" THEN sanitize(closingReason)
                                      ELSE close(door.id, closingReason)
         /\ UNCHANGED <<state, counters, flags, door>>
    ELSE closingFailure

-----------------------------------------------------------------------------
(* The transport-loss column, the table, and the entry points beside it. *)

lost ==
  /\ state' = "closed"
  /\ reservations' = 0
  /\ sessions' = 0
  /\ online' = FALSE
  /\ reconcile' = FALSE
  /\ forgetDoor
  /\ Quiet
  /\ UNCHANGED closingCtx

\* Apply: exactly one cell of the table (doorTransition).
Apply(in, d) ==
  CASE in.event = "lost" -> lost
    [] in.event = "status" /\ state = "closed" -> closedStatus(in)
    [] in.event = "status" /\ state = "open" -> openStatus(in, d)
    [] in.event = "status" /\ state \in {"opening", "closing"} -> protocolErr
    [] in.event = "reservation" /\ state = "closed" -> closedReserve(d)
    [] in.event = "reservation" /\ state # "closed" -> waitingReserve
    [] in.event = "cancel" /\ state = "open" -> nestedFailure
    [] in.event = "cancel" /\ state # "open" -> waitingCancel
    [] in.event = "success" /\ state = "closed" -> protocolErr
    [] in.event = "success" /\ state = "opening" -> openingSuccess(in)
    [] in.event = "success" /\ state = "open" -> nestedSuccess
    [] in.event = "success" /\ state = "closing" -> closingSuccess(in, d)
    [] in.event = "failure" /\ state = "closed" -> Ignore
    [] in.event = "failure" /\ state = "opening" -> openingFailure
    [] in.event = "failure" /\ state = "open" -> nestedFailure
    [] in.event = "failure" /\ state = "closing" -> closingFailure
    [] in.event = "timeout" /\ state = "closed" -> closedTimeout
    [] in.event = "timeout" /\ state = "opening" -> openingTimeout
    [] in.event = "timeout" /\ state = "open" -> nestedFailure
    [] in.event = "timeout" /\ state = "closing" -> closingTimeout
    [] in.event = "late" /\ state = "closed" -> closedLate(in)
    [] in.event = "late" /\ state # "closed" -> Ignore
    [] in.event = "nestedFailure" /\ state = "closed" -> Ignore
    [] in.event = "nestedFailure" /\ state = "open" -> nestedFailure
    [] in.event = "nestedFailure" /\ state \in {"opening", "closing"} -> protocolErr

FinishSession ==
  IF sessions = 0
    THEN protocolErr
    ELSE /\ sessions' = sessions - 1
         /\ IF state = "open" THEN idleClose(reservations, sessions - 1)
                              ELSE Quiet /\ UNCHANGED <<state, closingCtx>>
         /\ UNCHANGED <<reservations, flags, door, closeTimeouts>>

\* Asking whether door id is still there changes no state.
Recheck(id) ==
  /\ IF state = "open" /\ door.id = id THEN status
                                       ELSE Quiet /\ UNCHANGED closingCtx
  /\ UNCHANGED <<state, counters, flags, door, closeTimeouts>>

\* due: the gateway's clock has passed the door's hard deadline.
HardDeadline(due) ==
  IF state = "open" /\ reservations = 0 /\ due
    THEN /\ state' = "closing"
         /\ close(door.id, "hard")
         /\ UNCHANGED <<counters, flags, door, closeTimeouts>>
    ELSE Ignore

ForceClose ==
  CASE state \in {"closed", "closing"} -> Ignore
    [] state \in {"opening", "open"} /\ door.id = NoID -> protocolErr
    [] OTHER -> /\ state' = "closing"
                /\ reservations' = 0
                /\ sessions' = 0
                /\ close(door.id, "stop")
                /\ UNCHANGED <<flags, door, closeTimeouts>>

-----------------------------------------------------------------------------

Init ==
  /\ state = "closed"
  /\ reservations = 0
  /\ sessions = 0
  /\ online = FALSE
  /\ reconcile = FALSE
  /\ door = NoDoor
  /\ closeTimeouts = 0
  /\ closingOp = "close"
  /\ closingReason = "none"
  /\ cmd = NoCmd
  /\ err = FALSE
  /\ issued = {}

\* NewDoor never generates an id twice; issued remembers the ones it has.
Generated ==
  IF cmd'.op = "door.open"
    THEN cmd'.id \notin issued /\ issued' = issued \cup {cmd'.id}
    ELSE UNCHANGED issued

ApplyInput(in, d) ==
  /\ in.event = "reservation" => reservations + sessions < MaxCount
  /\ Apply(in, d)
  /\ Generated

Next ==
  \/ \E in \in Inputs, d \in DoorIDs : ApplyInput(in, d)
  \/ FinishSession /\ Generated
  \/ \E id \in AnyID : Recheck(id) /\ Generated
  \/ \E due \in BOOLEAN : HardDeadline(due) /\ Generated
  \/ ForceClose /\ Generated

Spec == Init /\ [][Next]_vars

-----------------------------------------------------------------------------
(* What the automaton promises, whatever it is fed. *)

TypeOK ==
  /\ state \in States
  /\ reservations \in Nat
  /\ sessions \in Nat
  /\ online \in BOOLEAN
  /\ reconcile \in BOOLEAN
  /\ door \in Doors
  /\ closeTimeouts \in {0, 1}
  /\ closingOp \in {"close", "sanitize"}
  /\ closingReason \in Reasons
  /\ cmd \in Cmds
  /\ err \in BOOLEAN
  /\ issued \subseteq DoorIDs

\* A private key is held only for a door this epoch generated, and never while
\* the door is closed: a foreign, stale or late line is cleaned up without one
\* (forgetDoor, closedStatus, closedLate).
KeyOnlyForOwnDoor ==
  /\ door.key => door.id \in issued
  /\ state = "closed" => door = NoDoor
  /\ state \in {"opening", "open"} => door.key

\* An open door always has somebody on the way in or inside: the last release,
\* whichever entry point makes it, starts the close (idleClose).
OpenDoorIsUsed == state = "open" => reservations + sessions > 0

\* No door is opening or open while a reconciliation is still owed, so two
\* opens never compete for the machine (closedReserve, closingSuccess,
\* openingTimeout).
NoDoorWhileReconciling == state \in {"opening", "open"} => ~reconcile

\* A closing operation can always be repeated as it stands: a door.close has a
\* well-formed id to name, a door.sanitize belongs to a line without one
\* (closingTimeout repeats the operation that closingOp remembers), and the
\* retry it is allowed has not been spent by an earlier door (forgetDoor).
ClosingIsAddressable ==
  /\ state = "closing" =>
       IF closingOp = "close" THEN door.id \in DoorIDs ELSE door = NoDoor
  /\ state # "closing" => closeTimeouts = 0

\* A closing operation goes out at most twice.  Once it has been repeated, no
\* step sends it again while the door stays closing, and a fresh close starts
\* with its own retry (closingTimeout, forgetDoor).
RepeatedOnce ==
  [][/\ state = "closing" /\ closeTimeouts = 1 /\ state' = "closing"
          => cmd' = NoCmd /\ closeTimeouts' = 1
     /\ state # "closing" /\ state' = "closing" => closeTimeouts' = 0]_vars

\* The gateway never comes to hold a key it had forgotten: the key it takes up
\* is one just generated ("do not restore the key", closedLate).
ForgottenKeyStaysForgotten ==
  [][door'.key /\ door' # door => door'.id \notin issued]_vars

\* None of the four is inductive alone; together with the types they are.
DoorInv ==
  /\ TypeOK
  /\ KeyOnlyForOwnDoor
  /\ OpenDoorIsUsed
  /\ NoDoorWhileReconciling
  /\ ClosingIsAddressable
=============================================================================
