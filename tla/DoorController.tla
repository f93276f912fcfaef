--------------------------- MODULE DoorController ---------------------------
(***************************************************************************)
(* The machine's half of a door: the handlers that install and remove a    *)
(* door line in the key file sshd reads (internal/server/door.go), the     *)
(* file operations under them (internal/winkeys/doors.go) and the watchdog *)
(* process that outlives a crash (internal/winkeys/doorwatch*.go).         *)
(*                                                                         *)
(* A controller is one doorController: one per connection.  Several share  *)
(* the file: the processes of two registrations of one machine, and, in    *)
(* one process, a connection and an older one whose teardown failed.       *)
(* Every file operation runs under a cross-process lock and is atomic      *)
(* here, and each may fail; MaxFaults bounds how many do.  The bytes of    *)
(* the file are abstracted to its door-looking lines, in file order: a     *)
(* well-formed line is its id and owner tag, a corrupt one has no id.      *)
(***************************************************************************)
EXTENDS Naturals, Sequences

CONSTANTS
  DoorIDs, NoID,
  Owners,       \* the registrations whose lines may be in the file
  Ctls, NoCtl,  \* the controllers
  OwnerOf(_),   \* the registration a controller belongs to
  NoOwner,      \* the tag of a line written before lines had owners
  MaxFaults     \* bound on failing file operations and process starts

ASSUME CtlIDs == NoID \notin DoorIDs /\ NoCtl \notin Ctls
ASSUME CtlOwners == NoOwner \notin Owners /\ \A c \in Ctls : OwnerOf(c) \in Owners
ASSUME CtlFaults == MaxFaults \in Nat

VARIABLES
  lines,      \* the door-looking lines of the key file, first to last
  mem,        \* per controller: the door it holds installed, or NoID
  timers,     \* per controller: the self-close timers still armed
  opening,    \* per controller: the door.open between its two effects, or NoID
  sweeping,   \* the controllers between the two effects of a door.sanitize
  serving,    \* per registration: the controller of its connection, or NoCtl
  late,       \* per controller: what its control loop does after Serve returned
  watch,      \* per door: no watchdog, one whose parent lives, or an orphan
  abandoned,  \* history: doors their hard timer or watchdog failed to remove
  faults,     \* failures so far
  reply       \* what the last control handler answered

processVars == <<timers, opening, sweeping, serving, late>>
ctlVars == <<lines, mem, processVars, watch, abandoned, faults, reply>>

Line(id, owner) == [id |-> id, owner |-> owner]
Corrupt == Line(NoID, NoOwner)
Lines == [id : DoorIDs \cup {NoID}, owner : Owners \cup {NoOwner}]
IsValid(l) == l.id # NoID

Reply(ok, installed, id) == [ok |-> ok, installed |-> installed, id |-> id]
Refused == Reply(FALSE, FALSE, NoID)
Replies == [ok : BOOLEAN, installed : BOOLEAN, id : DoorIDs \cup {NoID}]

\* One more file operation or process start fails.
Fault == faults < MaxFaults /\ faults' = faults + 1
NoFault == UNCHANGED faults

-----------------------------------------------------------------------------
(* winkeys.Door: the three file operations. *)

\* The lines of s that are not in the set gone, in their order.
Without(s, gone) ==
  LET kept[i \in 0..Len(s)] ==
        IF i = 0 THEN <<>> ELSE IF s[i] \in gone THEN kept[i - 1] ELSE Append(kept[i - 1], s[i])
  IN  kept[Len(s)]

WithID(d) == {l \in Lines : l.id = d}

\* appendDoorLine puts the line last, or first when the file does not end in
\* a newline; a line with the same id is collapsed into it.
Install(d, owner) ==
  LET rest == Without(lines, WithID(d))
  IN  \/ lines' = Append(rest, Line(d, owner))
      \/ lines' = <<Line(d, owner)>> \o rest

\* A controller removes only lines tagged as its own.
Removed(d, owner) == Without(lines, {Line(d, owner)})

\* Mutant: a sweep takes every door line, as it did before lines had owners.
ownsEveryLine(l, owner) == TRUE

\* A corrupt or untagged line is anybody's; another registration's is not.
ownsLine(l, owner) == ~IsValid(l) \/ l.owner \in {NoOwner, owner}
OwnedBy(owner) == {l \in Lines : ownsLine(l, owner)}
SweepStale(owner) == lines' = Without(lines, OwnedBy(owner))

\* The first line that is not another registration's: nothing, a line the
\* gateway cannot address (no id), or the id of our own.
parseDiskDoorStatus(owner) ==
  LET ours == Without(lines, Lines \ OwnedBy(owner))
  IN  IF ours = <<>> THEN Reply(TRUE, FALSE, NoID)
      ELSE IF Head(ours).owner = owner THEN Reply(TRUE, TRUE, Head(ours).id)
      ELSE Reply(TRUE, TRUE, NoID)

-----------------------------------------------------------------------------
(* The control handlers.  One loop runs a connection's handlers in turn, and *)
(* dc.mu keeps the timers and the teardown out of a door.open, though not    *)
(* out of a door.sanitize.                                                   *)

Idle(c) == opening[c] = NoID /\ c \notin sweeping

\* The control loop takes its next request.  Serve does not wait for the loop,
\* so a request that was already buffered may be handled after Serve returned;
\* its answer cannot be written, and the loop ends there.
Receives(c) ==
  /\ Idle(c)
  /\ \/ serving[OwnerOf(c)] = c /\ UNCHANGED late
     \/ late[c] = "reads" /\ late' = [late EXCEPT ![c] = "ends"]

\* Mutant: the timers are stopped but the watchdog is left to itself.
stopSelfKeepsWatchdog(c) ==
  /\ mem' = [mem EXCEPT ![c] = NoID]
  /\ timers' = [timers EXCEPT ![c] = {}]
  /\ UNCHANGED watch

\* Mutant: a watchdog is stopped whether or not there is a door.
stopSelfUnguarded(c) ==
  /\ mem' = [mem EXCEPT ![c] = NoID]
  /\ timers' = [timers EXCEPT ![c] = {}]
  /\ watch' = [d \in DOMAIN watch \cup {mem[c]} |-> IF d = mem[c] THEN "none" ELSE watch[d]]

\* Clears the memory, the timers and the watchdog; the line goes first.
stopSelfLocked(c) ==
  /\ mem' = [mem EXCEPT ![c] = NoID]
  /\ timers' = [timers EXCEPT ![c] = {}]
  /\ watch' = IF mem[c] = NoID THEN watch ELSE [watch EXCEPT ![mem[c]] = "none"]

\* door.open, up to the watchdog that must run before there is a line.
openSpawn(c, d) ==
  /\ Receives(c)
  /\ UNCHANGED <<lines, mem, timers, sweeping, serving, abandoned>>
  /\ \/ /\ mem[c] # NoID
        /\ reply' = IF mem[c] = d THEN Reply(TRUE, TRUE, d) ELSE Refused
        /\ NoFault /\ UNCHANGED <<opening, watch>>
     \/ /\ mem[c] = NoID
        /\ opening' = [opening EXCEPT ![c] = d]
        /\ watch' = [watch EXCEPT ![d] = "alive"]
        /\ NoFault /\ UNCHANGED reply
     \/ /\ mem[c] = NoID
        /\ Fault
        /\ reply' = Refused
        /\ UNCHANGED <<opening, watch>>

\* Mutant: the hard timer is not armed.
openInstallNoHard(c) ==
  /\ opening[c] # NoID
  /\ opening' = [opening EXCEPT ![c] = NoID]
  /\ Install(opening[c], OwnerOf(c))
  /\ mem' = [mem EXCEPT ![c] = opening[c]]
  /\ timers' = [timers EXCEPT ![c] = {"idle"}]
  /\ reply' = Reply(TRUE, TRUE, opening[c])
  /\ UNCHANGED <<sweeping, serving, late, abandoned, faults, watch>>

\* door.open, the line itself; the watchdog is stopped again if it cannot be
\* written.
openInstall(c) ==
  /\ opening[c] # NoID
  /\ opening' = [opening EXCEPT ![c] = NoID]
  /\ UNCHANGED <<sweeping, serving, late, abandoned>>
  /\ \/ /\ Install(opening[c], OwnerOf(c))
        /\ mem' = [mem EXCEPT ![c] = opening[c]]
        /\ timers' = [timers EXCEPT ![c] = {"idle", "hard"}]
        /\ reply' = Reply(TRUE, TRUE, opening[c])
        /\ NoFault /\ UNCHANGED watch
     \/ /\ Fault
        /\ watch' = [watch EXCEPT ![opening[c]] = "none"]
        /\ reply' = Refused
        /\ UNCHANGED <<lines, mem, timers>>

\* Mutant: the handler stops everything before it removes the line.
doorCloseStopsFirst(c, d) ==
  /\ Receives(c) /\ mem[c] = d
  /\ stopSelfLocked(c)
  /\ \/ lines' = Removed(d, OwnerOf(c)) /\ NoFault /\ reply' = Reply(TRUE, FALSE, d)
     \/ Fault /\ reply' = Refused /\ UNCHANGED lines
  /\ UNCHANGED <<opening, sweeping, serving, abandoned>>

\* door.close refuses an id that contradicts the memory or the disk, and
\* answers success for a line that is already gone.  A file that cannot be read
\* contradicts nothing.
doorClose(c, d) ==
  LET disk == parseDiskDoorStatus(OwnerOf(c))
      remove == /\ lines' = Removed(d, OwnerOf(c))
                /\ IF mem[c] = d THEN stopSelfLocked(c) ELSE UNCHANGED <<mem, timers, watch>>
                /\ reply' = Reply(TRUE, FALSE, d)
      refuse == reply' = Refused /\ UNCHANGED <<lines, mem, timers, watch>>
  IN  /\ Receives(c)
      /\ UNCHANGED <<opening, sweeping, serving, abandoned>>
      /\ \/ /\ mem[c] \in {NoID, d} /\ disk.id \in {NoID, d}
            /\ remove /\ NoFault
         \/ /\ mem[c] \in {NoID, d}
            /\ Fault
            /\ remove \/ refuse
         \/ /\ mem[c] \notin {NoID, d} \/ disk.id \notin {NoID, d}
            /\ refuse /\ NoFault

\* door.status answers from the disk; memory only stands in for a file that
\* cannot be read.
doorStatus(c) ==
  /\ Receives(c)
  /\ \/ reply' = parseDiskDoorStatus(OwnerOf(c)) /\ NoFault
     \/ reply' = Reply(TRUE, mem[c] # NoID, mem[c]) /\ Fault
  /\ UNCHANGED <<lines, mem, timers, opening, sweeping, serving, watch, abandoned>>

\* door.sanitize sweeps without dc.mu ...
sanitizeSweep(c) ==
  /\ Receives(c)
  /\ \/ /\ SweepStale(OwnerOf(c))
        /\ sweeping' = sweeping \cup {c}
        /\ NoFault /\ UNCHANGED reply
     \/ /\ Fault
        /\ reply' = Refused
        /\ UNCHANGED <<lines, sweeping>>
  /\ UNCHANGED <<mem, timers, opening, serving, watch, abandoned>>

\* ... and clears the record of the door under it.
sanitizeStop(c) ==
  /\ c \in sweeping
  /\ sweeping' = sweeping \ {c}
  /\ stopSelfLocked(c)
  /\ reply' = Reply(TRUE, FALSE, NoID)
  /\ UNCHANGED <<lines, opening, serving, late, abandoned, faults>>

-----------------------------------------------------------------------------
(* What the machine does on its own. *)

\* The controller's own idle or hard timer.  Each fires once, and a removal
\* that fails is not tried again.
selfClose(c, timer) ==
  /\ opening[c] = NoID
  /\ mem[c] # NoID /\ timer \in timers[c]
  /\ \/ /\ lines' = Removed(mem[c], OwnerOf(c))
        /\ stopSelfLocked(c)
        /\ NoFault /\ UNCHANGED abandoned
     \/ /\ Fault
        /\ timers' = [timers EXCEPT ![c] = @ \ {timer}]
        /\ abandoned' = IF timer = "hard" THEN abandoned \cup {mem[c]} ELSE abandoned
        /\ UNCHANGED <<lines, mem, watch>>
  /\ UNCHANGED <<opening, sweeping, serving, late, reply>>

\* Removes the door the controller still holds.
teardown(c) ==
  \/ /\ mem[c] = NoID
     /\ NoFault /\ UNCHANGED <<lines, mem, timers, watch>>
  \/ /\ mem[c] # NoID
     /\ lines' = Removed(mem[c], OwnerOf(c))
     /\ stopSelfLocked(c)
     /\ NoFault
  \/ /\ mem[c] # NoID
     /\ Fault
     /\ UNCHANGED <<lines, mem, timers, watch>>

\* The transport died: Serve tears the door down and returns, whatever the
\* control loop is doing short of a door.open.
Serve(c) ==
  /\ serving[OwnerOf(c)] = c /\ opening[c] = NoID
  /\ serving' = [serving EXCEPT ![OwnerOf(c)] = NoCtl]
  /\ \E next \in {"reads", "ends"} : late' = [late EXCEPT ![c] = next]
  /\ teardown(c)
  /\ UNCHANGED <<opening, sweeping, abandoned, reply>>

\* The control loop ends, and tears the door down once more.
serveControl(c) ==
  /\ late[c] # "over" /\ Idle(c)
  /\ late' = [late EXCEPT ![c] = "over"]
  /\ teardown(c)
  /\ UNCHANGED <<opening, sweeping, serving, abandoned, reply>>

\* One turn of the connection loop: sweep, then dial, which makes a fresh
\* controller when it succeeds.  A sweep that fails is logged and passed over.
\* The pause before a reconnect is taken to outlast the old control loop.
Run(c) ==
  /\ serving[OwnerOf(c)] = NoCtl
  /\ \A x \in Ctls : OwnerOf(x) = OwnerOf(c) => late[x] = "over"
  /\ mem[c] = NoID
  /\ \/ SweepStale(OwnerOf(c)) /\ NoFault
     \/ Fault /\ UNCHANGED lines
  /\ \/ serving' = [serving EXCEPT ![OwnerOf(c)] = c]
     \/ UNCHANGED serving
  /\ UNCHANGED <<mem, timers, opening, sweeping, late, watch, abandoned, reply>>

\* The process of registration o dies between any two effects.  Its watchdogs
\* see that.
Crash(o) ==
  LET Mine(c) == OwnerOf(c) = o
      doors == {mem[c] : c \in {x \in Ctls : Mine(x)}}
               \cup {opening[c] : c \in {x \in Ctls : Mine(x)}}
  IN  /\ mem' = [c \in Ctls |-> IF Mine(c) THEN NoID ELSE mem[c]]
      /\ timers' = [c \in Ctls |-> IF Mine(c) THEN {} ELSE timers[c]]
      /\ opening' = [c \in Ctls |-> IF Mine(c) THEN NoID ELSE opening[c]]
      /\ sweeping' = {c \in sweeping : ~Mine(c)}
      /\ serving' = [serving EXCEPT ![o] = NoCtl]
      /\ late' = [c \in Ctls |-> IF Mine(c) THEN "over" ELSE late[c]]
      /\ watch' = [d \in DoorIDs |->
                     IF d \in doors /\ watch[d] = "alive" THEN "orphan" ELSE watch[d]]
      /\ UNCHANGED <<lines, abandoned, faults, reply>>

\* A watchdog whose parent died removes its line by id, once, and exits.
RunWatchdog(d) ==
  /\ watch[d] = "orphan"
  /\ watch' = [watch EXCEPT ![d] = "none"]
  /\ \/ /\ lines' = Without(lines, WithID(d))
        /\ NoFault /\ UNCHANGED abandoned
     \/ /\ Fault
        /\ abandoned' = abandoned \cup {d}
        /\ UNCHANGED lines
  /\ UNCHANGED <<mem, processVars, reply>>

\* A watchdog gives up on a living parent some time after the hard deadline.
WatchdogExpires(c) ==
  /\ mem[c] # NoID /\ "hard" \notin timers[c]
  /\ watch[mem[c]] = "alive"
  /\ watch' = [watch EXCEPT ![mem[c]] = "none"]
  /\ UNCHANGED <<lines, mem, processVars, abandoned, faults, reply>>

-----------------------------------------------------------------------------

\* The file may already hold a corrupt line or one from before owner tags.
CtlInit ==
  /\ lines \in {<<>>, <<Corrupt>>} \cup {<<Line(d, NoOwner)>> : d \in DoorIDs}
  /\ mem = [c \in Ctls |-> NoID]
  /\ timers = [c \in Ctls |-> {}]
  /\ opening = [c \in Ctls |-> NoID]
  /\ sweeping = {}
  /\ serving = [o \in Owners |-> NoCtl]
  /\ late = [c \in Ctls |-> "over"]
  /\ watch = [d \in DoorIDs |-> "none"]
  /\ abandoned = {}
  /\ faults = 0
  /\ reply = Refused

\* NewDoor never generates an id twice, so a gateway opens only ids of which
\* the machine has no trace.
Fresh(d) ==
  /\ \A i \in DOMAIN lines : lines[i].id # d
  /\ \A c \in Ctls : mem[c] # d /\ opening[c] # d
  /\ watch[d] = "none" /\ d \notin abandoned

CtlNext ==
  \/ \E c \in Ctls, d \in DoorIDs :
       \/ (Fresh(d) \/ mem[c] = d) /\ openSpawn(c, d)
       \/ doorClose(c, d)
  \/ \E c \in Ctls :
       \/ openInstall(c)
       \/ doorStatus(c)
       \/ sanitizeSweep(c)
       \/ sanitizeStop(c)
       \/ Serve(c)
       \/ serveControl(c)
       \/ Run(c)
       \/ WatchdogExpires(c)
       \/ \E timer \in {"idle", "hard"} : selfClose(c, timer)
  \/ \E o \in Owners : Crash(o)
  \/ \E d \in DoorIDs : RunWatchdog(d)

\* Timers fire, a watchdog that lost its parent wakes up, and a handler that
\* has begun ends; nothing says a request ever comes or a process ever dies.
CtlFairness ==
  /\ \A c \in Ctls : WF_ctlVars(openInstall(c)) /\ WF_ctlVars(selfClose(c, "hard"))
  /\ \A d \in DoorIDs : WF_ctlVars(RunWatchdog(d))

CtlSpec == CtlInit /\ [][CtlNext]_ctlVars /\ CtlFairness

-----------------------------------------------------------------------------

CtlTypeOK ==
  /\ lines \in Seq(Lines)
  /\ mem \in [Ctls -> DoorIDs \cup {NoID}]
  /\ timers \in [Ctls -> SUBSET {"idle", "hard"}]
  /\ opening \in [Ctls -> DoorIDs \cup {NoID}]
  /\ sweeping \subseteq Ctls
  /\ serving \in [Owners -> Ctls \cup {NoCtl}]
  /\ late \in [Ctls -> {"reads", "ends", "over"}]
  /\ watch \in [DoorIDs -> {"none", "alive", "orphan"}]
  /\ abandoned \subseteq DoorIDs
  /\ faults \in 0..MaxFaults
  /\ reply \in Replies

Tagged(d) == \E i \in DOMAIN lines : lines[i].id = d /\ lines[i].owner # NoOwner

\* At every instant, crashes included, a door line some server wrote has a
\* watchdog behind it, unless its own hard timer or that watchdog has already
\* tried and failed to remove it (open spawns before it installs; every stop
\* comes after a removal that worked).
GuardedLine == \A d \in DoorIDs : Tagged(d) => watch[d] # "none" \/ d \in abandoned

\* A door the connected server believes it holds really is in the file, whatever
\* the other registration of the machine sweeps, closes or crashes into
\* (ownsLine, removeLocked); a sanitize is the one moment they differ.
ServedDoorIsOnDisk ==
  \A c \in Ctls :
    serving[OwnerOf(c)] = c /\ mem[c] # NoID /\ c \notin sweeping
      => \E i \in DOMAIN lines : lines[i] = Line(mem[c], OwnerOf(c))

\* No watchdog outlives its door: one that still watches a living process
\* stands behind a door that process holds, or is writing (stopSelfLocked).
\* A stray one would take a line of another life of the id at the next crash.
NoStrayWatchdog ==
  \A d \in DoorIDs :
    watch[d] = "alive" => \E c \in Ctls : d \in {mem[c], opening[c]}

\* Lines and watchdogs keep step, through open, close, timers, sweeps and
\* crashes of both servers: no line without its watchdog, no watchdog that has
\* lost its door.
WatchdogsMatchLines == GuardedLine /\ NoStrayWatchdog

\* The line of a door leaves the file without any help from the gateway:
\* through the hard timer, or, after a crash, through the watchdog.  Only a
\* removal that itself failed can leave it there.
LineGoes == \A d \in DoorIDs : Tagged(d) ~> ~Tagged(d) \/ d \in abandoned

\* Serve's own promise: "It always leaves the door clean on the way out:
\* whatever line this Machine's doorController currently owns is removed before
\* Serve returns".  Stated for machines whose file operations never fail.
ServeLeavesDoorClean ==
  faults = 0 => \A c \in Ctls : mem[c] # NoID => serving[OwnerOf(c)] = c
=============================================================================
