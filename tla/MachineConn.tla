---------------------------- MODULE MachineConn ----------------------------
(***************************************************************************)
(* The gateway's side of one machine's control channel                     *)
(* (internal/gateway/machine_conn.go): the automaton of DoorMachine, the   *)
(* callers who want in, and the wire.                                      *)
(*                                                                         *)
(* driveMu is held for a whole cycle: an input is applied to the           *)
(* automaton, the command it returns is sent, its answer or its timeout is *)
(* applied, and so on until no command is left.  `holder' is who is inside *)
(* such a cycle, `cmd' (of DoorMachine) the command to send next and       *)
(* `flight' the one being waited for.  What does not take driveMu runs     *)
(* beside it: the read loop, the teardown, the callers' own waits.         *)
(*                                                                         *)
(* A caller is a person's session (serveHumanSession) or an sshd probe.    *)
(* After a teardown the old connection object is dead: whatever a caller   *)
(* still does to it changes nothing, and the next epoch is a new object.   *)
(*                                                                         *)
(* The machine is here as the gateway meets it (DoorController has it in   *)
(* full): the set of its own lines in the key file, the door its server    *)
(* remembers, and requests answered in the order they came.  The time an   *)
(* answer travels is part of the time its request waits.                   *)
(***************************************************************************)
EXTENDS DoorMachine, Sequences, FiniteSets, FiniteSetsExt

CONSTANTS
  Callers,
  StaleCallers,   \* callers a reconnect may catch between Check and reg.get
  MaxMisses,      \* DoorStatusMaxMisses
  MaxWire,        \* bound on requests the machine has not answered yet
  MaxRetired,     \* bound on opens that timed out and are not settled yet
  MaxFaults       \* bound on the machine's file operations that go wrong

ASSUME ConnBounds == /\ StaleCallers \subseteq Callers
                     /\ {MaxMisses, MaxWire, MaxRetired} \subseteq Nat \ {0} /\ MaxFaults \in Nat

VARIABLES
  conn,       \* none, new (registered, no control channel yet), up, torn
  swept,      \* whether the role handler has sent its initial door.status
  misses,     \* door.status requests in a row that went unanswered
  doorKeyID,  \* the door of the signer callers are given
  holder,     \* who holds driveMu
  budget,     \* the next command is the first of a caller's own budget
  flight,     \* the command sent and not yet answered
  answer,     \* its answer, handed over by the read loop
  cut,        \* a closing operation failed for good: the holder will tear down
  pc,         \* per caller: where it stands
  retried,    \* callers who have used their one retry
  keyOf,      \* per caller: the door whose key it presents to sshd
  ticket,     \* per caller: none, listed, or how it was resolved
  toMachine,  \* the requests the machine has not answered, in order
  retired,    \* opens that timed out: answered, how, and reconciled since
  late,       \* doors whose late answer waits for driveMu
  disk,       \* the machine's lines in the key file; a corrupt one has no id
  mem,        \* the door the machine's server remembers
  faults      \* the machine's operations gone wrong so far

core == <<automaton, returned, issued>>
epochVars == <<conn, swept, misses, doorKeyID>>
driveVars == <<holder, budget, flight, answer, cut>>
callerVars == <<pc, retried, keyOf, ticket>>
wireVars == <<toMachine, retired, late>>
machine == <<disk, mem, faults>>
connVars == <<core, epochVars, driveVars, callerVars, wireVars, machine>>

Nobody == "nobody"
Role == "role"      \* handleMachine, and every other goroutine of the gateway

ASSUME ConnNames == {Nobody, Role} \cap Callers = {}

NoFlight == [cmd |-> NoCmd, own |-> FALSE, closing |-> FALSE,
             reconciling |-> FALSE, recheck |-> FALSE]
\* A request is live while its sender still waits.
Request(c) == [cmd |-> c, live |-> TRUE]
Answer(ok, installed, id) == [ok |-> ok, installed |-> installed, id |-> id]
Refusal == Answer(FALSE, FALSE, NoID)
NoAnswer == Answer(FALSE, TRUE, NoID)
Retired(id) == [id |-> id, answered |-> FALSE, ok |-> FALSE, done |-> FALSE]

Alive == conn \in {"new", "up"}
Unlocked == holder = Nobody

\* One more file operation of the machine goes wrong.
Fault == faults < MaxFaults /\ faults' = faults + 1

\* NewDoor generates an id that nothing remembers.
InUse ==
  {door.id, doorKeyID, flight.cmd.id, answer.id, mem} \cup {keyOf[c] : c \in Callers}
  \cup {r.id : r \in retired} \cup late \cup disk
  \cup {toMachine[i].cmd.id : i \in DOMAIN toMachine}
FreshID == CHOOSE d \in DoorIDs : d \notin InUse

ApplyEvent(in) == Apply(in, FreshID) /\ UNCHANGED issued

\* The cycle goes on while there is a command to send.
Continue(who) == holder' = IF cmd' = NoCmd THEN Nobody ELSE who

\* Every listed ticket gets the outcome; the list is emptied.
resolveTickets(outcome) ==
  ticket' = [c \in Callers |-> IF ticket[c] = "listed" THEN outcome ELSE ticket[c]]

-----------------------------------------------------------------------------
(* Epochs. *)

\* registerIfVacant: a machine connects when no connection of it is registered.
\* It has swept its lines before that, unless the sweep failed.
Connect ==
  /\ conn \in {"none", "torn"} /\ Unlocked
  /\ \A c \in Callers : pc[c] \in {"out", "checked"}
  /\ conn' = "new" /\ swept' = FALSE /\ misses' = 0 /\ doorKeyID' = NoID
  /\ state' = "closed" /\ reservations' = 0 /\ sessions' = 0
  /\ online' = FALSE /\ reconcile' = FALSE /\ door' = NoDoor /\ closeTimeouts' = 0
  /\ closingOp' = "close" /\ closingReason' = "none"
  /\ Quiet
  /\ mem' = NoID
  /\ \/ disk' = {} /\ UNCHANGED faults
     \/ Fault /\ UNCHANGED disk
  /\ UNCHANGED <<issued, driveVars, callerVars, wireVars>>

attachControl ==
  /\ conn = "new"
  /\ conn' = "up"
  /\ UNCHANGED <<core, swept, misses, doorKeyID, driveVars, callerVars, wireVars>>

\* driveOneSync: the initial door.status.
initialStatus ==
  /\ conn = "up" /\ ~swept /\ Unlocked
  /\ swept' = TRUE
  /\ holder' = Role
  /\ status
  /\ UNCHANGED <<state, counters, flags, door, closeTimeouts, issued, conn, misses,
                 doorKeyID, budget, flight, answer, cut, callerVars, wireVars>>

\* The transport is lost, the keepalive gives up, or the holder decides to let
\* the machine go.  Takes mc.mu, not driveMu: a cycle that waits for an answer
\* goes on until it sees doneCh, one between two commands ends.
teardown ==
  /\ Alive
  /\ lost
  /\ conn' = "torn"
  /\ resolveTickets("fail")
  /\ holder' = IF flight = NoFlight THEN Nobody ELSE holder
  /\ cut' = FALSE /\ budget' = FALSE
  /\ toMachine' = <<>> /\ retired' = {} /\ late' = {}
  /\ UNCHANGED <<issued, swept, misses, doorKeyID, flight, answer, pc, retried, keyOf>>

-----------------------------------------------------------------------------
(* Sending. *)

HasCommand == ~Unlocked /\ flight = NoFlight /\ cmd # NoCmd

\* statusPause lets go of a machine that has left MaxMisses statuses in a row
\* unanswered, provided no session is counted.
Unresponsive == cmd.op = "door.status" /\ misses >= MaxMisses /\ sessions = 0
letGo == HasCommand /\ Unresponsive /\ teardown

Sends(c) ==
  toMachine' = IF Len(toMachine) < MaxWire THEN Append(toMachine, Request(c)) ELSE toMachine

\* Mutant: a signer that is there already is kept.
sendCommandKeepsKey ==
  /\ HasCommand /\ ~Unresponsive /\ conn = "up"
  /\ doorKeyID' = IF cmd.op = "door.open" /\ doorKeyID = NoID THEN cmd.id ELSE doorKeyID
  /\ budget' = FALSE
  /\ flight' = [cmd |-> cmd, own |-> cmd.op = "door.close" /\ door.key,
                closing |-> state = "closing", reconciling |-> reconcile,
                recheck |-> FALSE]
  /\ Sends(cmd)
  /\ UNCHANGED <<core, conn, swept, misses, holder, answer, cut, callerVars, retired, late>>

\* driveOneUntil and sendCommand, up to the wait; flight holds what driveOneUntil
\* reads of the automaton first.  Without a control channel the send fails and
\* the cycle ends where it is.
sendCommand ==
  /\ HasCommand /\ ~Unresponsive
  /\ doorKeyID' = IF cmd.op = "door.open" THEN cmd.id ELSE doorKeyID
  /\ budget' = FALSE
  /\ \/ /\ conn = "up"
        /\ flight' = [cmd |-> cmd, own |-> cmd.op = "door.close" /\ door.key,
                      closing |-> state = "closing", reconciling |-> reconcile,
                      recheck |-> FALSE]
        /\ Sends(cmd)
        /\ UNCHANGED holder
     \/ /\ conn = "new"
        /\ holder' = Nobody
        /\ UNCHANGED <<flight, toMachine>>
  /\ UNCHANGED <<core, conn, swept, misses, answer, cut, callerVars, retired, late>>

-----------------------------------------------------------------------------
(* Answers. *)

\* readLoop: the answer to q goes to its sender if that still waits, or to the
\* memory of an open that timed out, or nowhere.
readLoop(q, a) ==
  LET olds == {r \in retired : ~q.live /\ r.id = q.cmd.id}
  IN  /\ answer' = IF q.live THEN a ELSE answer
      /\ IF \E r \in olds : r.done
           THEN /\ retired' = retired \ olds
                /\ late' = IF a.ok THEN late \cup {a.id} ELSE late
           ELSE /\ retired' = (retired \ olds)
                     \cup {[r EXCEPT !.answered = TRUE, !.ok = a.ok] : r \in olds}
                /\ UNCHANGED late

InputOf(a) ==
  CASE ~a.ok -> Plain("failure")
    [] a.ok /\ flight.cmd.op = "door.open" -> Input("success", FALSE, a.id, FALSE, FALSE)
    [] a.ok /\ flight.cmd.op = "door.close" -> Input("success", FALSE, a.id, flight.own, FALSE)
    [] a.ok /\ flight.cmd.op = "door.status" -> Input("status", a.installed, a.id, FALSE, FALSE)
    [] a.ok /\ flight.cmd.op = "door.sanitize" -> Plain("success")

\* What a settled door.open or a failed door.close tells the waiting callers.
Outcome(op, event) ==
  CASE ~err' /\ op = "door.open" /\ state' = "open" -> resolveTickets("ok")
    [] ~err' /\ op = "door.open" /\ state' = "closed" -> resolveTickets("fail")
    [] ~err' /\ op = "door.close" /\ state' = "closed" /\ event \in {"failure", "timeout"}
         -> resolveTickets("fail")
    [] OTHER -> UNCHANGED ticket

\* completeRetiredOpenReconciliation: a line found explains the opens that are
\* remembered; otherwise each is settled by its answer, or is from now on.
Reconciled(in, olds) ==
  IF in.event = "status" /\ in.installed
    THEN retired' = {} /\ UNCHANGED late
    ELSE /\ retired' = {[r EXCEPT !.done = TRUE] : r \in {x \in olds : ~x.answered}}
         /\ late' = late \cup {r.id : r \in {x \in olds : x.answered /\ x.ok}}

\* The sender has stopped waiting.
Landed ==
  /\ flight' = NoFlight /\ answer' = NoAnswer
  /\ toMachine' = [i \in DOMAIN toMachine |-> [toMachine[i] EXCEPT !.live = FALSE]]

\* The rest of driveOneUntil, once the input is known; olds are the opens
\* remembered by then.
Settle(op, in, olds) ==
  /\ ApplyEvent(in)
  /\ Outcome(op, in.event)
  /\ cut' = (/\ ~err' /\ flight.closing /\ state' = "closed"
             /\ in.event \in {"failure", "timeout"})
  /\ holder' = IF cmd' = NoCmd /\ ~cut' THEN Nobody ELSE holder
  /\ Landed
  /\ budget' = FALSE
  /\ IF op = "door.status" /\ flight.reconciling /\ ~err'
       THEN Reconciled(in, olds)
       ELSE retired' = olds /\ UNCHANGED late
  /\ UNCHANGED <<conn, swept, doorKeyID, pc, retried, keyOf>>

Waiting == conn = "up" /\ flight # NoFlight /\ ~flight.recheck

driveAnswer ==
  /\ Waiting /\ answer # NoAnswer
  /\ misses' = IF flight.cmd.op = "door.status" THEN 0 ELSE misses
  /\ Settle(flight.cmd.op, InputOf(answer), retired)

\* The timeout, which may beat an answer already handed over.  An open that may
\* still be answered is remembered.
driveTimeout ==
  LET unanswered == \E i \in DOMAIN toMachine : toMachine[i].live
  IN  /\ Waiting
      /\ flight.cmd.op = "door.open"
           => Cardinality(retired) + Cardinality(late) < MaxRetired
      /\ misses' = IF flight.cmd.op = "door.status" THEN Min({misses + 1, MaxMisses})
                                                   ELSE misses
      /\ Settle(flight.cmd.op, Plain("timeout"),
                IF flight.cmd.op = "door.open" /\ unanswered
                  THEN retired \cup {Retired(flight.cmd.id)} ELSE retired)

\* A caller whose budget is spent does not send its open at all: the automaton
\* sees a timeout, and no key is handed out.
notSent ==
  /\ HasCommand /\ budget /\ cmd.op = "door.open"
  /\ UNCHANGED misses
  /\ Settle("door.open", Plain("timeout"), retired)

\* Mutant: a caller's recheck does not watch doneCh.
driveClosedNotRecheck ==
  /\ conn = "torn" /\ flight # NoFlight /\ ~flight.recheck
  /\ Landed
  /\ holder' = Nobody
  /\ UNCHANGED <<core, epochVars, budget, cut, callerVars, retired, late>>

\* doneCh ends the wait, a caller's recheck too.
driveClosed ==
  /\ conn = "torn" /\ flight # NoFlight
  /\ Landed
  /\ holder' = Nobody
  /\ UNCHANGED <<core, epochVars, budget, cut, callerVars, retired, late>>

\* A closing operation that failed for good ends the epoch.
terminalCut == cut /\ teardown

-----------------------------------------------------------------------------
(* Callers. *)

Moves(c, next) == pc' = [pc EXCEPT ![c] = next]

\* A step a caller takes without driveMu.
Aside == UNCHANGED <<core, epochVars, driveVars, retried, wireVars>>

\* Takes driveMu, applies one input and drives what comes of it.
Enters(c, from, next) ==
  /\ Alive /\ Unlocked /\ pc[c] = from
  /\ Moves(c, next)
  /\ UNCHANGED <<epochVars, flight, answer, cut, wireVars>>

\* acl Check sees the machine online.
Check(c) ==
  /\ pc[c] = "out" /\ Alive /\ online
  /\ Moves(c, "checked")
  /\ Aside /\ UNCHANGED <<keyOf, ticket>>

\* reg.get finds no connection any more.
Turned(c) ==
  /\ pc[c] = "checked" /\ ~Alive
  /\ Moves(c, "out")
  /\ Aside /\ UNCHANGED <<keyOf, ticket>>

\* reserveWire.  A caller not in StaleCallers reserves on the epoch it checked.
reserveWire(c) ==
  /\ Enters(c, "checked", IF state = "open" THEN "granted" ELSE "waiting")
  /\ c \in StaleCallers \/ online
  /\ ApplyEvent(Plain("reservation"))
  /\ ticket' = [ticket EXCEPT ![c] = IF state = "open" THEN "none" ELSE "listed"]
  /\ retried' = retried \ {c}
  /\ Continue(c) /\ budget' = (cmd' # NoCmd)
  /\ UNCHANGED keyOf

\* The select of reserve and recheckDoor: the ticket's outcome, the caller's own
\* deadline, or the end of the connection, whichever the runtime picks.
Waits(c) == pc[c] = "waiting" /\ holder # c

Woken(c) ==
  /\ Waits(c)
  /\ \/ ticket[c] = "ok" /\ Moves(c, "granted")
     \/ ticket[c] = "fail" /\ Moves(c, "out")
     \/ conn = "torn" /\ Moves(c, "out")
  /\ ticket' = [ticket EXCEPT ![c] = "none"]
  /\ keyOf' = [keyOf EXCEPT ![c] = NoID]
  /\ Aside

Expires(c) ==
  /\ Waits(c) /\ Alive
  /\ Moves(c, "cancel")
  /\ Aside /\ UNCHANGED <<keyOf, ticket>>

cancelTicket(c) ==
  /\ Enters(c, "cancel", "out")
  /\ ticket' = [ticket EXCEPT ![c] = "none"]
  /\ ApplyEvent(Plain("cancel"))
  /\ Continue(c)
  /\ UNCHANGED <<budget, retried, keyOf>>

\* currentDoorSigner.
takeSigner(c) ==
  /\ pc[c] = "granted"
  /\ Moves(c, "handshake")
  /\ keyOf' = [keyOf EXCEPT ![c] = doorKeyID]
  /\ Aside /\ UNCHANGED ticket

\* The handshake with the machine's sshd works if the line is there; sshd may
\* refuse the key or the account, and everything may fail some other way.
handshake(c) ==
  /\ \/ pc[c] \in {"granted", "handshake"} /\ Moves(c, "failed")
     \/ pc[c] = "handshake" /\ keyOf[c] \in disk /\ Moves(c, "authed")
     \/ pc[c] = "handshake" /\ c \notin retried /\ Moves(c, "refused")
  /\ keyOf' = [keyOf EXCEPT ![c] = IF pc'[c] = "refused" THEN @ ELSE NoID]
  /\ Aside /\ UNCHANGED ticket

\* recheckDoorWire, up to the door.status it sends outside drive.
recheckDoorWire(c) ==
  LET asks == state = "open" /\ door.id = keyOf[c]
      lists == Moves(c, "waiting") /\ ticket' = [ticket EXCEPT ![c] = "listed"]
  IN  /\ Alive /\ Unlocked /\ pc[c] = "refused"
      /\ retried' = retried \cup {c}
      /\ Recheck(keyOf[c])
      /\ \/ /\ state = "open" /\ ~asks
            /\ Moves(c, "granted")
            /\ UNCHANGED <<ticket, holder, flight, toMachine>>
         \/ /\ state # "open"
            /\ lists
            /\ UNCHANGED <<holder, flight, toMachine>>
         \/ /\ asks
            /\ lists
            /\ holder' = c
            /\ flight' = [NoFlight EXCEPT !.cmd = cmd', !.recheck = TRUE]
            /\ Sends(cmd')
         \/ /\ asks                       \* the budget is spent: nothing is asked
            /\ Moves(c, "failed")
            /\ UNCHANGED <<ticket, holder, flight, toMachine>>
      /\ keyOf' = [keyOf EXCEPT ![c] = IF pc'[c] = "waiting" /\ asks THEN @ ELSE NoID]
      /\ UNCHANGED <<issued, epochVars, budget, answer, cut, retired, late>>

\* The answer to it.  An answer that does not come, a refusal and the door still
\* in place leave the refusal with sshd; anything else is driven on.
recheckAnswer(c) ==
  LET sshdsOwn == Moves(c, "failed") /\ ticket' = [ticket EXCEPT ![c] = "none"]
  IN  /\ conn = "up" /\ flight.recheck /\ holder = c
      /\ keyOf' = [keyOf EXCEPT ![c] = NoID]
      /\ \/ /\ answer.ok
            /\ ApplyEvent(Input("status", answer.installed, answer.id, FALSE, FALSE))
            /\ IF ~err' /\ state' = "open" /\ door'.id = keyOf[c]
                 THEN sshdsOwn ELSE UNCHANGED <<pc, ticket>>
         \/ /\ Ignore /\ UNCHANGED issued
            /\ sshdsOwn
      /\ Landed
      /\ Continue(c) /\ budget' = (cmd' # NoCmd)
      /\ UNCHANGED <<epochVars, cut, retried, retired, late>>

nestedHandshakeSucceeded(c) ==
  /\ Enters(c, "authed", "session")
  /\ ApplyEvent(Plain("success"))
  /\ Continue(c)
  /\ UNCHANGED <<budget, retried, keyOf, ticket>>

\* Mutant: sshd grants no session channel, and the reservation is given back
\* there and again where the setup ends.
nestedHandshakeFailedTwice(c) ==
  /\ \/ Enters(c, "failed", "out")
     \/ Enters(c, "authed", "failed")
  /\ ApplyEvent(Plain("nestedFailure"))
  /\ Continue(c)
  /\ UNCHANGED <<budget, retried, keyOf, ticket>>

\* The handshake failed, or sshd granted no session channel after it.
nestedHandshakeFailed(c) ==
  /\ \/ Enters(c, "failed", "out")
     \/ Enters(c, "authed", "out")
  /\ ApplyEvent(Plain("nestedFailure"))
  /\ Continue(c)
  /\ UNCHANGED <<budget, retried, keyOf, ticket>>

\* A probe opens no session, so a proved account and a refused one both release.
releaseProbeReservation(c) ==
  /\ \/ Enters(c, "failed", "out")
     \/ Enters(c, "authed", "out")
  /\ ApplyEvent(Plain("nestedFailure"))
  /\ Continue(c)
  /\ UNCHANGED <<budget, retried, keyOf, ticket>>

\* The person leaves, or is cut off.
endSession(c) ==
  /\ pc[c] = "session"
  /\ Moves(c, "finishing")
  /\ Aside /\ UNCHANGED <<keyOf, ticket>>

finishSession(c) ==
  /\ Enters(c, "finishing", "out")
  /\ FinishSession /\ UNCHANGED issued
  /\ Continue(c)
  /\ UNCHANGED <<budget, retried, keyOf, ticket>>

\* On a connection that has been torn down, what a caller still calls finds
\* mc.closed, or an automaton nobody will look at again.
Leave(c) ==
  /\ conn = "torn" /\ holder # c
  /\ pc[c] \notin {"out", "checked", "waiting"}
  /\ Moves(c, "out")
  /\ keyOf' = [keyOf EXCEPT ![c] = NoID]
  /\ ticket' = [ticket EXCEPT ![c] = "none"]
  /\ Aside

-----------------------------------------------------------------------------
(* The gateway's other goroutines. *)

Locks ==
  /\ Alive /\ Unlocked
  /\ Continue(Role)
  /\ UNCHANGED <<issued, epochVars, budget, flight, answer, cut, callerVars, toMachine, retired>>

driveRetiredOpen(d) ==
  /\ d \in late
  /\ Apply(Input("late", FALSE, d, FALSE, TRUE), FreshID)
  /\ late' = late \ {d}
  /\ Locks

enforceHardDeadline == HardDeadline(TRUE) /\ UNCHANGED late /\ Locks

\* machines.set-user, after it has told every session to end.
closeForOSUserChange == ForceClose /\ UNCHANGED late /\ Locks

-----------------------------------------------------------------------------
(* The machine: one handler at a time, in the order of the requests. *)

doorOpen(d, a) ==
  \/ /\ mem = NoID /\ a = Answer(TRUE, TRUE, d)
     /\ disk' = disk \cup {d} /\ mem' = d
     /\ UNCHANGED faults
  \/ mem # NoID /\ a = Refusal /\ UNCHANGED machine
  \/ mem = NoID /\ a = Refusal /\ Fault /\ UNCHANGED <<disk, mem>>

\* Refused if it contradicts the memory or the first line in the file.
doorClose(d, a) ==
  \E first \in IF disk = {} THEN {NoID} ELSE disk :
    LET agrees == {mem, first} \subseteq {NoID, d}
    IN  \/ /\ agrees /\ a = Answer(TRUE, FALSE, d)
           /\ disk' = disk \ {d} /\ mem' = NoID
           /\ UNCHANGED faults
        \/ ~agrees /\ a = Refusal /\ UNCHANGED machine
        \/ agrees /\ a = Refusal /\ Fault /\ UNCHANGED <<disk, mem>>

doorStatus(a) ==
  /\ \/ disk = {} /\ a = Answer(TRUE, FALSE, NoID) /\ UNCHANGED faults
     \/ \E first \in disk : a = Answer(TRUE, TRUE, first) /\ UNCHANGED faults
     \/ a = Answer(TRUE, mem # NoID, mem) /\ Fault
  /\ UNCHANGED <<disk, mem>>

doorSanitize(a) ==
  \/ /\ a = Answer(TRUE, FALSE, NoID)
     /\ disk' = {} /\ mem' = NoID
     /\ UNCHANGED faults
  \/ a = Refusal /\ Fault /\ UNCHANGED <<disk, mem>>

Answers == {Refusal} \cup [ok : {TRUE}, installed : BOOLEAN, id : InUse]

machineAnswers ==
  LET q == Head(toMachine)
  IN  /\ conn = "up" /\ toMachine # <<>>
      /\ toMachine' = Tail(toMachine)
      /\ \E a \in Answers :
           /\ \/ q.cmd.op = "door.open" /\ doorOpen(q.cmd.id, a)
              \/ q.cmd.op = "door.close" /\ doorClose(q.cmd.id, a)
              \/ q.cmd.op = "door.status" /\ doorStatus(a)
              \/ q.cmd.op = "door.sanitize" /\ doorSanitize(a)
           /\ readLoop(q, a)
      /\ UNCHANGED <<core, epochVars, holder, budget, flight, cut, callerVars>>

\* The machine's own timers close its door without a word to the gateway.
selfClose ==
  /\ mem # NoID
  /\ disk' = disk \ {mem} /\ mem' = NoID
  /\ UNCHANGED <<core, epochVars, driveVars, callerVars, wireVars, faults>>

\* Somebody edits the key file and damages a line.
corruptLine ==
  /\ Fault
  /\ \E d \in disk \ {NoID} : disk' = (disk \ {d}) \cup {NoID}
  /\ UNCHANGED <<core, epochVars, driveVars, callerVars, wireVars, mem>>

-----------------------------------------------------------------------------

ConnInit ==
  /\ Init
  /\ conn = "none" /\ swept = FALSE /\ misses = 0 /\ doorKeyID = NoID
  /\ holder = Nobody /\ budget = FALSE /\ flight = NoFlight /\ answer = NoAnswer
  /\ cut = FALSE
  /\ pc = [c \in Callers |-> "out"]
  /\ retried = {}
  /\ keyOf = [c \in Callers |-> NoID]
  /\ ticket = [c \in Callers |-> "none"]
  /\ toMachine = <<>> /\ retired = {} /\ late = {}
  /\ disk = {} /\ mem = NoID /\ faults = 0

\* A caller's steps that need nothing but the processor and driveMu.
CallerStep(c) ==
  \/ Turned(c) \/ reserveWire(c) \/ Woken(c) \/ cancelTicket(c)
  \/ takeSigner(c) \/ handshake(c) \/ recheckDoorWire(c) \/ recheckAnswer(c)
  \/ nestedHandshakeSucceeded(c) \/ nestedHandshakeFailed(c) \/ releaseProbeReservation(c)
  \/ finishSession(c) \/ Leave(c)

\* So too the steps of a cycle, and of the goroutines that wait for one to end.
DriveStep ==
  \/ attachControl \/ initialStatus \/ letGo \/ sendCommand
  \/ driveAnswer \/ driveClosed \/ terminalCut
  \/ \E d \in DoorIDs : driveRetiredOpen(d)

\* Clocks, people, the network.
Outside ==
  \/ teardown \/ driveTimeout \/ notSent
  \/ enforceHardDeadline \/ closeForOSUserChange
  \/ \E c \in Callers : Check(c) \/ Expires(c) \/ endSession(c)

ConnNext ==
  \/ (DriveStep \/ Outside \/ \E c \in Callers : CallerStep(c)) /\ UNCHANGED machine
  \/ Connect \/ machineAnswers \/ selfClose \/ corruptLine

ConnSpec == ConnInit /\ [][ConnNext]_connVars

\* A goroutine that can run does: nothing is assumed of the machine, the network,
\* the people or the clocks.
ConnFairness ==
  /\ WF_connVars(DriveStep /\ UNCHANGED machine)
  /\ \A c \in Callers : WF_connVars(CallerStep(c) /\ UNCHANGED machine)

FairConnSpec == ConnSpec /\ ConnFairness

\* Timeouts fire as well, and no session lasts for ever.
TimedConnSpec ==
  /\ FairConnSpec
  /\ WF_connVars(driveTimeout /\ UNCHANGED machine)
  /\ \A c \in Callers : WF_connVars(endSession(c) /\ UNCHANGED machine)

-----------------------------------------------------------------------------
(* What the gateway promises while the machine is honest. *)

Stands == {"out", "checked", "waiting", "cancel", "granted", "handshake", "refused",
           "authed", "failed", "session", "finishing"}

ConnTypeOK ==
  /\ TypeOK
  /\ conn \in {"none", "new", "up", "torn"}
  /\ {swept, budget, cut} \subseteq BOOLEAN
  /\ misses \in 0..MaxMisses
  /\ {doorKeyID, mem} \subseteq DoorIDs \cup {NoID}
  /\ holder \in Callers \cup {Nobody, Role}
  /\ pc \in [Callers -> Stands]
  /\ retried \subseteq Callers
  /\ keyOf \in [Callers -> DoorIDs \cup {NoID}]
  /\ ticket \in [Callers -> {"none", "listed", "ok", "fail"}]
  /\ Len(toMachine) <= MaxWire
  /\ late \subseteq DoorIDs
  /\ disk \subseteq DoorIDs \cup {NoID}

\* Whoever asks for the signer while the door is open gets the key of that very
\* door, although the key is cached under another mutex than the automaton's and
\* a door is replaced under callers who wait (sendCommand, currentDoorSigner).
KeyMatchesDoor == state = "open" => doorKeyID = door.id

\* The machine never has two opens before it: an open that timed out is followed
\* by a status it has to answer first (sendCommand, openingTimeout).
NoCompetingOpen ==
  \A i, j \in DOMAIN toMachine :
    toMachine[i].cmd.op = "door.open" /\ toMachine[j].cmd.op = "door.open" => i = j

\* The callers between their reservation and their session, or their leaving.
ComingIn ==
  {c \in Callers : pc[c] \in
     {"waiting", "cancel", "granted", "handshake", "refused", "authed", "failed"}}

\* A granted reservation becomes a counted session or is released: between two
\* cycles nobody is counted who is not there, or the door would never be idle
\* again (nestedHandshakeFailed, releaseProbeReservation, finishSession).
NobodyCountedTwice ==
  Unlocked =>
    /\ reservations <= Cardinality(ComingIn)
    /\ sessions <= Cardinality({c \in Callers : pc[c] \in {"session", "finishing"}})

\* A reservation still counted when a cycle leaves the door closed and
\* reconciled has nobody left to open a door for it (closedStatus, openStatus).
NoForgottenReservation ==
  Unlocked /\ conn = "up" /\ state = "closed" /\ ~reconcile => reservations = 0

\* The automaton drops every reservation at once: an open or a close has failed,
\* and whoever waited is told so, now or by the teardown that follows; the
\* account of the door has changed (ForceClose); the connection is lost.
AllDropped ==
  /\ reservations' = 0
  /\ \/ /\ state \in {"opening", "closing"} /\ state' = "closed"
        /\ cut' \/ \A c \in Callers : ticket'[c] # "listed"
     \/ state # "closing" /\ state' = "closing" /\ closingReason' = "stop"
     \/ conn' # "up"

\* A stale caller's open has overtaken the initial door.status: the automaton
\* takes the failure of the status for one of the open.
Overtaken == flight.cmd.op = "door.status" /\ ~flight.recheck /\ state # "closed"

\* One caller comes, and is counted; one caller goes, and no more than one
\* reservation goes with it; and with every caller who goes one does, unless it
\* was dropped before or there is no open door to release it at, which
\* nestedHandshakeFailed does not look at.
OneForEach ==
  /\ reservations' > reservations =>
       reservations' = reservations + 1 /\ \E c \in Callers \ ComingIn : ComingIn' = ComingIn \cup {c}
  /\ reservations' < reservations =>
       \/ reservations' = reservations - 1 /\ \E c \in ComingIn : ComingIn' = ComingIn \ {c}
       \/ AllDropped \/ Overtaken
  /\ \A c \in ComingIn \ ComingIn' :
       \/ reservations' = reservations - 1
       \/ reservations = 0
       \/ state # "open" \/ ticket[c] = "fail" \/ conn = "torn"

\* A reservation ends once, however grants, refusals, cancels and rechecks fall
\* among each other: nobody's release takes a second reservation with it, nobody
\* goes and leaves one behind at an open door, and between two cycles the
\* counters are of people who are there.  What OneForEach leaves open is the
\* code's own: a caller whose reservation was dropped may still release, and
\* takes one that a later caller made (IdleCloseSparesCallers).
CountedOnce ==
  /\ [](NobodyCountedTwice /\ NoForgottenReservation)
  /\ [][OneForEach]_connVars

\* The machine has at most one line a key can be presented to (doorOpen refuses
\* a second door, closedStatus has a left-over one removed first).
OneLine == Cardinality(disk \ {NoID}) <= 1

\* A lost transport sets everybody free: the cycle that waits for an answer,
\* whoever started it, and every caller (teardownWith, doneCh).
TeardownReleases ==
  conn = "torn" ~> Unlocked /\ \A c \in Callers : pc[c] \in {"out", "checked"}

-----------------------------------------------------------------------------
(* What the comments and the protocol document say, and the code does not do. *)

\* An idle close spares the callers between their grant and the end of their
\* handshake: their reservations are counted (nestedFailure, cancelTicket).
IdleCloseSparesCallers ==
  [][state = "open" /\ state' = "closing" /\ closingReason' = "idle"
       => \A c \in Callers : pc'[c] \notin {"granted", "handshake", "refused", "authed"}]_connVars

\* A machine that leaves its statuses unanswered is let go of once no session is
\* live on it (statusPause, finishSession).
UnresponsiveIsLetGo ==
  misses >= MaxMisses /\ (\A c \in Callers : pc[c] # "session")
    ~> conn = "torn" \/ misses = 0
=============================================================================
