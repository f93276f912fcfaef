# iamtunnel: a TLA+ model of the gateway and of the machine's doors

iamtunnel lets a person open a recorded SSH session to a machine that has no
reachable address.  The machine's *server* keeps a connection to a public
*gateway*; a person's plain `ssh` client connects to the gateway too; and for
the length of a session the gateway has the machine install a *door*: a
short-lived public key in the file the machine's own sshd reads.

This directory models the parts of that program in which order matters: the
life of a door from both ends, the connection of a machine, the rule that a
connection lives no longer than its key, the agreement of the access on record
with the access in force, how people and machines come and go, the barrier a
command passes, the session behind it with its recording and its lines, what
is on the gateway's disk through crashes, and the stop of the gateway.

## 1. Inventory

What each part keeps, does, and must guarantee.  "Hard" names what a test
hardly reaches.  `PROJECT.json` lists every part, the ones that are not
modelled too, and each hazard at its line.

| part | state | operations | hard | must hold |
|---|---|---|---|---|
| door automaton (`gateway/core/door.go`) | closed/opening/open/closing, counters of reservations and sessions, `reconcilePending`, the door and its key | a 4 x 9 table of events, `FinishSession`, `Recheck`, `HardDeadline`, `ForceClose` | answers that are late, lost or wrong; any order of calls | keys only for own doors, no door for nobody, no competing opens, a bounded number of retries |
| machine connection (`gateway/machine_conn.go`, `machine_role.go`) | the automaton, `driveMu`, tickets, retired opens, cached signer, misses | drive cycle, reserve, cancel, recheck, handshake results, finish, teardown | callers beside a cycle that holds the mutex across a wait; reconnects | one release per reservation, the signer fits the door, one line on the machine, a lost transport frees everybody |
| door controller (`server/door.go`, `machine.go`, `run.go`) | remembered door, two timers, the control loop | open, close, status, sanitize, self-close, teardown, reconnect | crashes between two effects, failing file operations, a loop that outlives `Serve` | every line is guarded and goes away by itself |
| key file (`winkeys/doors.go`) and watchdog (`winkeys/doorwatch*.go`) | door lines with owner tags; one process per door | install, remove, sweep; remove when the parent is gone | two registrations share one file | nobody removes another's served line |
| key connections (`gateway/key_conns.go`) | tracked connections with their keys, the read/write gate | track, check, cut | a key is taken between check and use, or during a setup | no command and no session outlives its key |
| administration (`gateway/admin_role.go`) | people, roles, keys, grants, machines in the store | some forty commands, one JSON answer each | two commands at once; the answer waits for the client | a refused change changes nothing; somebody can always administer |
| drain and lifecycle (`gateway/drain.go`, `gateway.go`) | draining and closed flags, connection list, two wait groups | `Serve`, `handleConn`, `Drain`, `Close` | a stop at any moment, the first included; a setup that waits for a mutex or a client | nobody overlooked, everybody told, nothing left running |
| access engine (`gateway/acl`) | grants, live sessions | check, open, sweep, revoke, kill | expiry and revocation against a session being admitted | a live session is permitted |
| state store (`gateway/state`, `datafile`) | state file, lock, enrolment key; in memory the same and what to roll back to | open, update, close; backup and restore (`lifecycle.go`) | a crash or power failure between two writes, a failed sync, a second process | one atomic register: nothing acknowledged is lost, nothing half written is read |
| journal (`gateway/events`, `audit_health.go`) | hash chain over a file and its archives; the health commands ask for | append, repair, rotate, prune; watch, judge, publish | torn tails, two writers, a failing disk, two commands of one person | what is recorded stays; what answers ok is recorded |
| recordings (`gateway/record`) | per session a file, its metadata, a transcript | claim a name, write, finalize; sweep; repair at start | two sessions of one instant, a pass of the sweep beside a live session, crashes | what was shown is on disk; what is recorded is spared; what is over can go |
| one-time ways in (`enrol_role.go`, `pairing_role.go`, `bootstrap_role.go`) and the commands on people and machines | invitations, the pairing window with its misses, the bootstrap token, people, machines, what refers to them | invite, open, close, redeem, miss; add, remove, rename | a secret read by two logins, a window that was replaced, a name that comes back while a session under it still drains | a secret buys one identity, a name inherits nothing, an administrator remains |
| risk barrier (`risk_judge.go`, `risk_approval.go`, `risk_classifier.go`, `risk_mode.go`, `risk_source.go`) | mode, source, held commands and their approvals | classify, hold, approve, deny, consume, switch | the mode is read twice, an approval is looked for and asked for under two locks | nothing unjudged runs; an approval runs once, for its own command, in time |
| exec session (`human_role.go`, `core/bridge.go`, `exec_stdin.go`, `record/exec_recorder.go`) | seven goroutines, two channels, one recording | copy both ways, stderr, exit status, script read ahead, end | who closes first, a lost transport, a revocation, a failed write, a client that does not read | nothing is shown unrecorded, the exit status comes last, only a client that does not read holds the end up |
| sftp session (`sftp_session.go`) | outstanding requests, open files with their hashes | judge, refuse, forward, answer, record, journal | reused ids, chunks out of order, copies that fail half-way, packets it does not read, lines that cannot be written, either side goes | what the person saw done is judged and recorded, a file has its one line, a hash is of the whole file |
| live tail (`live_tail.go`, `control_inbound.go`) | registry of live recordings with who is on record as watching | follow as administrator or as machine, sweep | first requests together; the end of the session | nobody reads unrecorded; the end is not announced early |
| machine's door journal (`winkeys/file_sink.go`) | the file, its archives, the rotation marker; the archive a truncate is owed to | append (server and watchdogs), rotate, prune, recover | a death of the server between two file operations, a clock set back, a watchdog beside it | what was written stays; no line is archived twice |
| terminal emulator (`gateway/record/vt.go`) | screen, cursor, scrollback with its first and last lines, an erase that waits | every rune and sequence, resize, flush | numbers up to the ends of int; an erase that may be a redraw | the cursor stays on the screen; what was shown and cleared is in the transcript once, in order |
| rate limit, SSH helpers, client, window, command line | windows of attempts; buffers and presentation | | | |

How they meet: a person's handler (`serveHumanSession`) asks the access engine,
reserves at the machine connection, which drives the automaton, which sends
`door.open` to the door controller; the person's handler then logs in to the
machine's sshd with the door's key, registers its session with the engine, and
bridges.  A command may take the person's key or grant at any point of that, and
a stop may begin at any point of it.

## 2. Modules

| module | models | is built from |
|---|---|---|
| `DoorMachine` | the door automaton | |
| `MachineConn` | one machine's connection with its callers, the wire and the machine as the gateway meets it | extends `DoorMachine` |
| `DoorController` | the machine's half: handlers, timers, key file, watchdogs, crashes | |
| `KeyGate` | key checks, the commands that change people and keys, the cut, and the sessions it has to reach | |
| `Access` | grants on record and in the access engine, the commands that publish one to the other, the sessions the engine admits and ends | |
| `Drain` | `Serve`, `handleConn`, `Drain`, `Close` and the sessions between them | |
| `Register` | what the state store promises: one durable register | |
| `StateStore` | the state file, its lock, the processes on it, backup, restore, crash and power failure | instantiates `Register` (`ImplementsRegister`) |
| `Recordings` | the recordings directory: sessions that write, the sweep, the repair at start | |
| `Journal` | the hash-chained journal, its rotation and repair, and the answers that depend on it | |
| `Sftp` | one sftp session | |
| `LiveTail` | the watchers of one session | |
| `Identities` | people, machines, invitations, pairing, bootstrap and the logins they need | |
| `RiskGate` | the judgement of commands, and approvals | |
| `ExecSession` | one exec session from its script to its last line | |
| `DoorJournal` | a machine's journal of its doors: the server that rotates it, the watchdogs that append | |
| `Terminal` | the terminal emulator: one screen and what scrolled off it | |
| `MC...` | the instance TLC explores: sets, symmetry (`Drain`, `Access` and `ExecSession` need none) | each extends its module; `MCStore` is `StateStore` or `Recordings`, `MCJournal` is `Journal`, `Sftp`, `LiveTail` or `DoorJournal`, `MCDoorMachine` is `DoorMachine` or `Terminal`: these share no state, so a behaviour is of one of them |
| `...Proofs` | theorems for every value of the constants | `IdentitiesProofs` is about the module it names; `TerminalProofs` is about `Terminal` and `Drain`, `SessionProofs` is about `Access` and `Sftp`, `DoorProofs` is about `DoorMachine` and `MachineConn`, `KeyGateProofs` about `KeyGate` and `DoorController`, `StateStoreProofs` about `StateStore`, `Register` and `Recordings`, `RiskGateProofs` about `RiskGate` and `ExecSession`, `JournalProofs` about `Journal`, `LiveTail` and `DoorJournal` |

Names follow the code: an action bears the name of the function it stands for,
and the map in `PROJECT.json` gives its lines.  Where a function waits (for an
answer, a mutex, a client that reads) it is split into one action per stretch
between two waits.  Operators introduced as "Mutant" are plausible mistakes in
the definition below them; each is a variant that must break a property.

### DoorMachine

One action per cell of the transition table and per entry point; each runs
under the automaton's mutex, so it is atomic.  `cmd` and `err` hold what the
call returns.  The next-state relation feeds every input in every state, because
the gateway trusts neither the machine nor the order of its own callers.  Times
are reduced to "the hard deadline has passed".  `NewDoor` failing is left out:
only a failure of the system's random source could make it fail.

### MachineConn

`holder` is the goroutine inside a drive cycle, `flight` the command it waits
for.  The read loop, the teardown and the callers' own waits run beside the
cycle.  A caller (`pc`) goes through check, reservation, wait, handshake with
its one retry after a recheck, session and release; a probe releases instead of
becoming a session.  The machine is honest here and answers in order, but its
file operations may fail (`MaxFaults`), its doors close by themselves and
somebody may damage its line.  `StaleCallers` are the callers a reconnect may
catch between their online check and their lookup of the connection.

Abstractions: an answer's travel time is part of its request's waiting time, so
an answer that was handed over may still lose to the timeout; wire framing and
journal lines are left out; a caller that reserves before the control channel is
attached can leave the automaton in `opening` until the teardown, which is what
`TeardownReleases` covers.

`CountedOnce` has two sides.  Between two cycles nobody is counted who is not
there.  And step by step (`OneForEach`) the count rises by one with one caller who
comes and falls by one with one who goes, and who goes from an open door takes one
with him.  Its exceptions are the code's: `AllDropped`, where the automaton gives up
every reservation at once and tells whoever waited; a caller told so, who finds
none left; a door that is not open, where `nestedHandshakeFailed` releases nothing;
and `Overtaken`, where a stale caller's open has overtaken the first `door.status`, whose
timeout the automaton takes for the open's.

### DoorController

One controller per connection; the controllers of two registrations and of an
earlier connection share the key file.  `door.open` is two steps (watchdog, then
line) and `door.sanitize` is two (sweep without the mutex, then the record under
it).  `Crash` may fall between any two steps, each file operation may fail,
`Serve` does not wait for the control loop.  The pause before a reconnect is
taken to outlast the old control loop.  A line is its id and owner tag; a
corrupt one has no id.  `Install` removes an earlier line of the same id only,
as the code does; the comment above it in `doors.go` speaks of all iamtunnel
lines.

### KeyGate

`owner`, `people` and `admins` are the record; `gate` is the holders of the
RWMutex, with Go's preference for a waiting writer; a command passes
*asked - checked - ran - published - cutting* and a session
*setup - opened - carried - bridged*.  The transport (`closed`) and the handler
are separate, because a setup does not notice that its transport is gone.
Grants are left out (they are `Access`): whoever is on record may open a session.  A command login
has one command at a time; joining by pairing or bootstrap is not in the model.
A command login that is idle when its key is taken before it was tracked lives on until
the next command anybody runs, and can do nothing meanwhile
(`OnlyKeyHoldersWrite`).

### Access

`grants` is the record, `eGrants` the engine's copy; a pair has a deadline
(`Never` for none) and a capability.  A command is one step for its write of the
record and then one per call of the engine: `toRevoke`, `toAdd` and `toKill` hold
the calls still to come, in that order, and the publish mutex is free when they
are empty.  `New` is a crash and a restart, between any two of these steps.  A
command's `now` may be any earlier time, since it is read before the mutex is
taken.  A session looks at the engine twice (`Check`, `OpenSession`), with the
login to the machine between; `live` is the engine's list.

Abstractions: roles and keys are `KeyGate`'s, so a removal the last-administrator
rule would refuse is allowed here; the cut of the keys that `people.remove` and
`people.rename` take is their `toKill`, and enrolments and probes, which the code
lets run beside that cut, wait for it; a session's clock reading and the engine
call it is for are one step; whether the machine is online, its door, and the
session limits can only refuse (`deny`); a machine's key never changes under its
id, because enrolment refuses an id that is taken.

### Drain

`pc` follows one connection from `Accept` to its end; `conns` is the list `Close`
cuts and waits for, `counting` the setups `setupWG` counts, `live` the engine's
list and `notices` the channels to tell.  `stop` is the position of the run loop,
which enters `Close` after a drain or after a `Serve` that ended by itself.  A setup
that waits for its machine's `driveMu`, which `reserveWire` and the two ends of the
nested handshake take without a context, is `parked`; nothing says when it goes on
before `Close` tears the machine down, because the status loop of a machine that
answers nothing may keep the mutex for ever (`UnresponsiveIsLetGo` of `MachineConn`).

### StateStore and Register

A state is the set of updates it holds.  `file` is what processes see and
`durable` what a power failure leaves; the atomic replace is the temporary file,
the rename and the sync of the directory, with a crash or a fault between any
two.  Processes open (lock, enrolment key, state), update with rollback, back up
and restore; the journal is the set of updates it has a line for.  After a failed
save the file is looked at again (`verifyDiskMatches`); that look may fail as well,
and `blind` is the stores which then went on writing.  The register has three
variables: the values a restart could find, the updates that were acknowledged, and
the value an operator's restore is about to install.  The mapping takes `May` (what
the disk may hold), `acked` and `Restores` for them, and `ImplementsRegister` says that
every step of the store is a step of the register or none.  Only the installation of a
prepared restore, which writes without a sync, may add `Torn` to what a restart finds; a
save over a file that is there may not.

### Recordings

`dir` is the files of each name, `rec` the recorder of each session, `sweep` the
pass of `Rotate` under way.  A session claims its name by its first file (`O_EXCL`),
writes its metadata, and per chunk writes, syncs and only then shows.  A chunk of a
terminal session that ends inside a rune has that end held in memory and shown all
the same (`held`: the chunks of which something is held, no more than the beginning of
a rune has bytes, `MaxHeld`); `finalize` writes
it out.  `finalize` runs under the recorder's mutex and may fail in one of its steps:
the last event, the held end, the sync, the close, the transcript, the hash or the
metadata, of which the code looks at some and not at others.  A pass reads
the directory once, may find one metadata file unreadable, and then removes file by file, beside the sessions.  `New`
marks what a crash left as being recorded.  A hash is the number of chunks it was
taken over; what a power failure does to a rename is in `StateStore`.  The clock
is taken to move between the claim of a name and the removal of its files, so a
pass does not meet a new session under the name it is clearing.  The sweep's size
step is the one by fullness of the disk, the only one the gateway configures.

### Journal

A line has a hash, the hash it names, the event it is of and whether it can be
read; a write may leave nothing, a newline, half a line, a line without its
newline or one whose sync failed.  `dir` holds the files with their torn tails
and archives.  A command is watched, refused while the journal fails, run,
recorded and answered; the gateway's tick rotates and prunes; a local command
has a `Log` of its own on the same file.

### Sftp

The bridge's two copies and the proxy's pump are `writer`, `reader` and `puller`;
`pending` and `files` are the proxy's tables, `toHuman` is a rendezvous.  A chunk
is one unit long, and a hash is the sequence of chunks it was fed.  The client
may reuse an id, send any kind of request, stop or go; the machine answers in
order.  A line goes to the recording, whose failure ends the session, and to the
journal, whose failure does not (`Entered`); `MaxLogFaults` of them fail.  The kind
`unread` is what the gateway hands on without looking at it, and the machine may do
anything to any file with it but open or close a handle.  A copy or another change
may fail half-way; `did` is what was carried out whole and `behind` what was changed
by halves or unread.  Of the machine it is assumed that it writes only through
handles that were opened for writing.  What the judge says is `RiskGate`'s.  Handles
of directories are left out.

### LiveTail

One session, its entry in the registry, and requests that look the file up, look
at the mark, write the line and read, each a step; the machine's requests hold
`watchMu` and are marked per connection.  An append that fails leaves no line, or
the whole of it if it was the sync that failed (`spoilt`).  A request that comes between
`OpenSession` and `addFile` is answered as one about a session that is over (`early`).

### Identities

Every change of the record is one store update, and so one step; a login and the
command that follows it are two, which is where secrets are read before they are
spent.  Birth numbers, which the record does not keep, tell a name from the name
reused.  What a person's commands leave under two names is here too: an exec is
held, approved and forwarded by name (`approvals`), and its history is written when its
session has drained, by the names it began with (`recordRecentCommand`), which other
people may have by then (`late`).

### RiskGate

The judgement of one session is many steps: the source is read, the service
answers when it likes, the mode is read twice, an approval is looked for and
asked for under two locks.  A text is what is judged; the rules over it are two
sets, `RedTexts` and `YellowTexts`, because the patterns themselves are tables.

### ExecSession

Seven goroutines (`main`, two copies, stderr, the proxy of the machine's requests,
the one that closes the person's channel, the pump that reads a script ahead)
over two channels and one recording, with a lost transport (`lost`) or a revocation
at any point.  A revocation is three steps, as in `endRevokedSession`: the nested
connection is closed, the line that says why is written and the person's channel
closed, and after `revokeNoticeTimeout` the connection goes, whatever the person does.
A write to the person waits until the client takes it.  The risk judgement before
the session is not in it.

### DoorJournal

`sink` is where the server's `fileSink` stands in `writeLocked` and `rotateLocked`:
each file operation (marker, copy, rename, prune, truncate, removal of the marker,
write) is a step that may fail, with a death of the server between any two.
A file is the set of its lines, and the name of an archive its place among the
names; any free name may come next, because the clock may be set back.  A watchdog
appends while the lock is free and looks at no marker.  `owing` keeps the lines
written while a truncate is owed: the archive was made before them and the
truncate takes them, so `LostOnlyOwed` leaves them out and `DoorJournalLost.cfg`
shows one.

### Terminal

One step is one rune or one whole control sequence with the numbers the machine
chose.  A printed mark is a number of its own, so that order and repetition can be
told; a row is a function of its cells.  Each step says of itself whether it may
take something off the screen for good (`Edits`: printing over it, erasing part of
a row, inserting and deleting) or must leave the sequence of marks in the
transcript as it was (`Keeps`: moves, wraps, scrolls, clears, resizes, the end of
the stream).  `log` is every line that ever went into history, which the two ends
kept in memory are compared with.  An erase that was left by `CSI u`, the one move that
does not settle it, is excused from `Keeps` (`strayed`).

## 3. Runs

| run | question | bounds | distinct states |
|---|---|---|---|
| `automaton` | do the two automata a machine feeds keep their promises under any input: the door automaton, and the terminal emulator? | 3 ids, reservations + sessions at most 3; screens of 1 x 3 and 2 x 1, numbers -16, 0 and 15 of a 5-bit int, 2 marks, 3 lines of history of which 1 + 1 are kept | 24925 |
| `machine_doors` | is every line guarded, and does it go? (with liveness) | 2 registrations, one of which reconnects, 2 ids, 2 faults | 161371 |
| `two_callers` | do keys, counters and tickets stay consistent? | 2 callers, 8 ids, 1 miss, 2 requests on the wire, 1 retired open | 856418 |
| `one_fault` | is there ever a second usable line, and does a lost transport free everybody? (with liveness) | 1 caller, 1 fault | 39437 |
| `key_gate` | does anything outlive its key? | 2 names, 2 keys, 2 command logins, 1 session | 2492817 |
| `access` | do record and engine agree, and does every live session stand on the record until its deadline? (with liveness) | 2 names, 1 machine, 1 session, 1 account, the times 0 and 1 | 248756 |
| `stop` | is anybody overlooked, untold or left behind by a stop, and what can hold it? (with liveness) | 3 connections | 26333 |
| `store` | is the state file one atomic register, is an archive one moment, does a restore lose anything (`ArchivesHold`); are recordings true and spared? (with the refinement) | 2 processes, 2 updates, 1 fault; 2 sessions of 1 chunk, days 0 to 2, 2 names an instant, 1 fault | 2044456 |
| `journal` | does what is recorded stay and what answers ok stand; is an sftp session judged and accounted for; does anybody watch unrecorded; does rotation on a machine keep its lines? | 2 commands, 2 files, 4 lines, 2 faults; 4 requests of which 1 names no file and 3 move or change something, 2 ids, 1 handle, 2 chunks, 1 line that fails; 2 requests of 2 administrators and a machine, 2 connections; 5 lines, 2 a file, 1 archive kept, 3 names, 2 deaths, 2 faults | 3898272 |
| `identities` | can a secret be spent twice, a name inherit, the last administrator go? | 2 people, 1 machine, 2 keys, 2 logins, 3 secrets, 2 misses, 1 command | 658994 |
| `risk` | does anything run unjudged, or on another's approval? | 2 sessions, 2 texts, 2 people, 1 switch, time to live 2 | 3230936 |
| `exec_session` | is all that is shown on record, and what can hold the session? (with liveness) | 2 chunks of stdin, 1 of stdout, 1 of stderr, 1 failed write | 1553588 |

A property a run lists may be a conjunction of parts with names of their own; the
parts are what to look at when it fails: `DoorInv` (key, use, reconciliation,
address of the close), `WatchdogsMatchLines`, `CountedOnce`, `CloseIsTheEnd`,
`RecordingsAreTrue`, `RotationSpares`, `ArchivesHold`, `JournalHolds`,
`AuditIsHonest`, `LinesAreTrue`, `WatchingIsTrue`, `RotationKeeps`, `TerminalHolds`, `SecretsAreSpent`,
`AdministratorIsKept`, `ApprovalIsExact`, `BarrierHolds`, `RecordingIsTrue`,
`EndIsLast`.  Each module also states its type invariant; section 5 says which
of them are theorems.

Why the bounds are enough.  Two callers are the smallest number that can disturb
each other, and each disturbance found so far needs no third.  Two requests on
the wire and one retired open are what a timed-out open leaves before its status
is answered; a second retired open needs that status answered first.  One miss stands
for five: only "below the limit" and "at the limit" differ.  Eight ids are more
than a state of two callers can mention, so `FreshID` never runs
out; the proofs cover any number of ids.  Two
keys and two names give every case of removal, rename and re-registration under
the same or another name.  In `access`, pairs meet only through a rename, for
which two names are enough; a deadline is passed, ahead or absent, and a clock of
two values gives each of them before and after, with a command's `now` on either
side; the proofs cover every other size.  `one_fault` allows one fault because two are too
many for the code as well: a sweep that failed and a status answered from
memory because the file could not be read leave a second line.

In `store` two updates give an acknowledged one and one on its way, and one fault a save
that failed, with its second look failing or not; two faults are what the proofs cover.  Two sessions give both orders of a shared
instant and a session beside the one the sweep takes; with `Retention` 1 and three
days a recording is young, at the limit and expired.  In `journal` one line fills
a file, so that two files and four lines bring a rotation between any two writes,
and the two faults a torn line and the failure of what follows it; four requests
are an opening, two chunks in order, out of order or repeated, and a close, which
is the least a hash needs to be wrong, and `MaxNaming` and `MaxWork` keep the client from
spending them all on renames or on chunks of nothing; two requests are two of one
watcher or one each.  In `identities` three secrets are one of each kind, and two
logins the two that race for one.  In `risk` two sessions are what one approval
can be contested by, and a time to live of 2 has a before, a last moment and an after.
In a door journal of two lines a file, five lines bring a second rotation while an
archive of the first is there, and two faults a truncate that fails and a retry
that does; three names let a new archive sort before, between and after.  A screen
of one column and three rows has a block of output, a blank row and a second
block, and one of two columns and one row has wraps, wide runes and tabs; a session may be
resized from either to the other.
In `exec_session` a second chunk of stdin is the one that is in flight when the first
is refused.

Symmetry is used only in runs without liveness properties: ids in `automaton`,
callers in `two_callers`, names, keys and logins in `key_gate` and `identities`,
sessions in `risk` and among the recordings, commands in `journal`.  Deadlock is
checked in `automaton`, `machine_doors`, the runs of `MachineConn`, `access` and
`risk`; the others have ends: everybody's key may be gone, the gateway stops, a
session is over, or a bound on files, lines or secrets is used up.

Further configurations explore neighbouring questions; where a file names more
than one property, they are asked one at a time.  Two hold: `TakenKeyEnds` of
`MCKeyGateClaims.cfg` under `ReadingSpec` (a session ends with its key; 188 654
states) and `SftpEnds` of `SftpEnds.cfg` (an sftp session whose transport is lost
ends; 119 009 states).  In the others TLC finds a violation, most against a sentence
of the repository:

| configuration | what TLC finds |
|---|---|
| `MCMachineConnClaims.cfg`, `IdleCloseSparesCallers` | a caller whose budget is spent releases its reservation twice; the door closes as idle under somebody else |
| `MCMachineConnClaims.cfg`, `UnresponsiveIsLetGo` | the status loop holds `driveMu`, so the session that keeps it from letting the machine go can never be uncounted |
| `MCKeyGateClaims.cfg`, `SomebodyCanAdminister` | `people.remove` counts administrators, not their keys: two legal commands lock everybody out |
| `MCIdentitiesRemoved.cfg`, `RemovedMachineIsGone` | a machine removed between its login and its registration stays connected; `docs/THREATS.md:348-351` accepts it |
| `MCIdentitiesRemoved.cfg`, `HistoryIsItsOwn` | a session drains after its person was removed and the name given again, and writes its command into the newcomer's history (`recent_commands.go:194`, which goes by the name) |
| `MCIdentitiesRemoved.cfg`, `ApprovalsAreItsOwn` | `people.remove` leaves what the person was held for under the name, and who has the name next may use an approval in its time |
| `ExecSessionTaken.cfg`, `TakenIsRecorded` | the machine refuses the start after a script was read ahead: those bytes are on no record |
| `ExecSessionTaken.cfg`, `RevokedIsNoStop` | a revocation closes the person's channel under the copy to it, which the bridge takes for a clean end (`bridge.go:129`): after its `session.drop` the session is journaled as stopped `ok` too, with recorded output that nobody saw |
| `SftpEnds.cfg`, `EveryChangeIsJudged` | a packet of a type the gateway does not know, or a `CLOSE`, `READ` or `WRITE` it cannot parse, is handed on unjudged (`sftp_session.go:479`) |
| `SftpEnds.cfg`, `HashIsOfTheFile` | a copy fails half-way, so the file is not marked as copied, and its hash is of what was uploaded alone |
| `SftpEnds.cfg`, `RefusalReleased` | after a clean end of the machine's stream a refusal waits for a reader that has ended, until the transport is lost |
| `DoorJournalLost.cfg` | the server dies between the archive and the truncate, a watchdog appends, and the next start's retry of the truncate takes the line, which no archive has (`file_sink.go:74`: "the line is never lost") |
| `MCDoorMachineStray.cfg` | `CSI u` leaves a row without settling its erase (`vt.go:165`: "every way the cursor leaves a row goes through advanceLine or moveCursorY"); a second erase then takes the text of the first from the transcript |
| `LiveTailSwept.cfg`, `NoneIsTooEarly` | a request between `OpenSession` and `addFile` is told that nothing more will be appended, of a session that has just begun |
| `LiveTailSwept.cfg`, `OneLineEver` | an append writes its line and fails in its sync, the request is refused, and the next one writes the line again |
| `LiveTailSwept.cfg`, `UnknownIsNotRead` | the grace ends between an administrator's look-up and the look at the mark: the file is read with no `session.watch` |
| `RecordingsClaims.cfg`, `EveryByteFirst` | the beginning of a rune is shown while the recorder holds it in memory (`recorder.go`: "every machine byte is written and fsync-committed before it is forwarded to the human") |
| `RecordingsClaims.cfg`, `RecordedIsNeverDeleted` | a session without metadata, because a pass came before it was written, could not read it, or because writing it failed and the error is dropped, is deleted while it is being recorded (`rotation.go:96`: "Never delete sessions that are actively being recorded") |
| `RecordingsClaims.cfg`, `OneSessionPerName` | a terminal and an exec session of one instant claim different first files of one name and share its metadata (`sessionname.go:68`: "one session's files always share one base and stay one session to the recordings scanner") |
| `RecordingsClaims.cfg`, `EveryRemovalHasItsLine` | a pass that fails journals one line about the failure and none about what it has deleted (`gateway.go:508`: "every deletion is an event") |
| `MCDoorControllerLate.cfg` | a buffered `door.open` installs a line after `Serve` tore the door down and returned, against the comment at `server/machine.go:145` ("It always leaves the door clean on the way out"); the control loop's own teardown removes it |
| `MCMachineConnClaims.cfg`, `OneLine` with a stale caller | a caller checked on the old epoch reserves on the new one before its first status (`machine_role.go:101`: "no reservation may be admitted before this completes"), and a second line appears beside one whose sweep failed |
| `MCMachineConnClaims.cfg`, `NoForgottenReservation` | after a damaged line was swept, a waiting reservation gets no door and sits out its budget (`PROTOCOL.md:1080`: "waiting reservations may start an open") |
| `MCMachineConnClaims.cfg`, `NobodyCountedTwice` | a failed handshake reported to an automaton that another caller's recheck moved to `closed` releases nothing (`machine_conn.go:988`: "either becomes a counted session or is released") |
| `MCKeyGateClaims.cfg`, `TakenKeyEnds` under `FairSpec` | the answer is written under the gate and before the cut, so a caller that does not read keeps the sessions of the key it took (`key_conns.go:13`: "after each command every connection whose key is no longer its person's is ended") |
| `DrainClaims.cfg`, `DrainTakesNobody` | `Drain` before `Serve` registered the listener finds none to close, `Serve` looks only at the flag of `Close`, and connections are taken during the drain (`drain.go:83`: "the listener is closed, so no new connection is taken at all") |
| `AccessUser.cfg` | the account is read before the login; `machines.set-user` and the probe of the new account may both complete before the session is registered, which then runs as the old account (`SPEC.md:765`: "the gateway only ever logs in as `verifiedOsUser`").  The door, which set-user closes, is not in this model: it shows that the access checks alone do not exclude it |
| `DrainClaims.cfg`, `BudgetBoundsTheWait` | a setup is counted while it waits for `driveMu`, whatever its budget, and a refused one until its refusal is read, so the wait for setups has no bound (`drain.go:124`: "The setup budget bounds the wait") |

## 4. Fairness

* `DoorController`: weak fairness of the hard timer, of a watchdog that lost its
  parent and of a `door.open` under way.  These are a Go timer, a polling
  process and straight-line code.  No request, reconnect or crash is
  assumed.
* `MachineConn`: `FairConnSpec` assumes that goroutines run (`DriveStep`,
  `CallerStep`) and nothing of the machine, the network or the clocks.
  `TimedConnSpec`, used only for `UnresponsiveIsLetGo`, adds that timeouts fire and
  sessions end.
* `KeyGate` and `Drain`: `FairSpec` assumes that a handler which can go on does,
  and nothing of any client.  In `Drain` it assumes nothing either of a setup that
  waits for `driveMu`, until `Close` cuts the machines.  So `StopEnds` says what the
  code gives: a stop comes to its end, unless the drain's wait meets, again and again
  or for good, a setup held at the mutex or by a client (`SetupHeld`).
  `ReadingSpec` of `KeyGate` adds that a client takes what it is sent or its connection
  dies, which the keepalive gives for a peer that is gone, though not for one that
  answers keepalives and does not read; the difference is what `MCKeyGateClaims.cfg` shows.
* `Access`: a command inside the mutex makes its next engine call (straight-line
  code), and the sweep runs (`sweepExpired`, a ticker that lives as long as the
  gateway).  The clock is not assumed to advance.
* `ExecSession` and `Sftp`: every goroutine that can go on does; a machine whose
  channel we have closed answers the close, and one whose transport is lost
  is closed, which the SSH library does; in an sftp session the person's client
  answers a close and takes what it is sent, which only `SftpEnds` rests on.  In `ExecSession` nothing is assumed of what the person or
  the command sends, ends or reads: `SessionEnds` allows a session to stay for as long
  as something written to a client, or the close of its channel, is not taken by
  one that is still there (`ClientAwaited`).  A revocation ends it all the same, since
  its timer, whose firing is assumed, cuts the connection.
* `StateStore`, `Recordings`, `Journal`, `LiveTail`, `DoorJournal`, `Terminal`,
  `Identities` and `RiskGate`
  have safety properties only, and no fairness.
* The stop signal, commands, logins and hang-ups are never assumed.

## 5. Proofs

TLAPS checks theorems of eight modules, for every value of the constants the
assumptions allow: any number of people, keys, machines, sessions, doors, lines,
faults and steps, where TLC has two or three of each.  The pattern is one: an
invariant that TLC finds true (`...Inv`, checked on the runs' instances before it
was proved) is shown inductive with one lemma per action, and the property of a
run follows from it.  Every invariant below has the property of the run in it or
implies it; what is said here is what had to be added.

**DoorProofs** (`DoorMachine`, `MachineConn`).  Assumptions: the ids are distinct
from the empty and the malformed id, `MaxCount` is positive; `Nobody` and `Role` are
no callers, the bounds on misses, wire and retired opens are positive.  `DoorInv` is
the type invariant with the four state properties of the automaton.  None of the
four is inductive alone: that an open door is used needs that counters are
naturals, that a closing door is addressable needs that an open door holds a
generated key, and no door while reconciling needs that a closed door is no door.
`RetryIsBounded` and `NoKeyRestored` are action properties from it.  `ConnInv` says
what the holder of `driveMu` knows: *OneWait* (one request is waited for, it is the
last one sent, and an answer that was handed over means that the machine has nothing
else before it), *OpensApart* (an open nobody waits for any more is owed a
reconciliation, and none goes out before that), *OpenNamesDoor* (the door that is
opening is that of the open which is sent or to be sent).  `KeyMatchesDoor` and
`NoCompetingOpen` follow, with no assumption on how
many ids are fresh.

`OneReservationEach` is `OneForEach`, the part of `CountedOnce` about steps, with no
hypothesis: stale callers, failing file operations, lost connections and late
answers included.  Its invariant is small: a cycle that waits for the answer to a closing
command finds the door closing (`AccountInv`), without which the answer to a stale command
could be the end of somebody's reservation.  The rest is what each input makes of the
count, one lemma per function of the automaton, and who moves with it.

Two more theorems have hypotheses, and each of those is one the code needs.
`NeverTwoLines` (`OneLine`) assumes that no caller reserves on an epoch it was not
admitted on (`StaleCallers = {}`) and that one operation of the machine may fail, not two:
section 3 shows the second line with a stale caller, and a sweep and a
later look that both fail leave one as well.  `LineInv` says that the file has no
line but the one the machine remembers, or that one forgotten line is left and then
nothing may be added: the fault is spent, the machine has no clean status on its way
to the gateway (*Mute*), and the automaton is offline, admits nobody and opens nothing
(*Barred*).  `NobodyLeftOver` (the whole of `CountedOnce`) assumes besides that nothing of the
machine fails, because its part about states fails with one fault in the code as well
(section 3: a caller is counted who has gone), that there are finitely
many callers, and, as `[]IDsLast`, that an id nothing remembers is always left: an id
has 128 random bits, where the model's set may be finite.  `CountInv` places every
caller: the counters are at most the number of those on the way to a session or inside
one (*Counts*), and a caller who waits although told to fail is not on the way any
more.  A caller who moves between those sets must move with the counter; what makes that so is
what the driver knows at each point of a cycle.  *Resting* and *InCycle*: an honest
machine leaves the door closed or open and owes no reconciliation when `driveMu` is
released, hence nobody comes in while a door opens or closes.  *Heard*: an answer
that is good names the id of its request.  *Untouched*: before its first status a
machine that has just connected has no door, no session and nothing on the wire to
wait for.  *Rechecks*: who waits for the answer to a recheck still waits.

**KeyGateProofs** (`KeyGate`, `DoorController`).  Assumptions: `None` is neither a
name nor a key, and command logins are not sessions; every controller has an owner.
`KeyGateInv` adds to the types who holds the gate (*GateHolders*: exactly the
commands past their check; *WriterAlone*: a revoking one excludes all others;
*CheckedMayAct*: between the check and the write the key is still held and the role
still there) and who cuts whom (*SessionIsRecorded*, *ServedIsTracked*: a bridged
session is recorded and, while its transport lives, tracked; *CuttersCut*: only a
command at the cut has connections left to cut).  `CheckedMayAct` is what the gate is
for: it survives another command's write only because of `WriterAlone`.
`CtlInv` is the machine's half: *Turns* (of the controllers of one registration only
the one in service or one whose control loop outlived `Serve` is in the middle of
anything), *Hands* (a door is in one controller's memory or in one's `door.open`, never in
both), *Written* (a door that is being opened has its watchdog and no line yet; a
remembered door's line is its controller's own; its hard timer is set or has failed),
*Watched* and *Served*.  `Served` is the property of the run with its line in the file;
it survives the other registration's sweep because lines have owners (`ownsLine`), and
its own because a sweep that is under way is a moment it leaves out.  The file is a
sequence, but only its set of lines matters; `WithoutLeaves` gives that set, by taking
the least position at which the recursion of `Without` could go wrong.

**SessionProofs** (`Access`, `Sftp`).  Assumptions: the last time and the bounds of a file
session are naturals; `NoUser` is no account, `NoHandle` no handle.  `EngineAgrees` speaks of moments when the mutex is free, so it
is not inductive; `Settles` says what holds inside: a pair that only waits to be
revoked gives nothing on record, a pair that waits to be added is on record, and as
long as it waits the engine's grant allows no shell the record does not.  The last
part is what a session registered in the middle of `grants.set-caps` needs.
`LiveIsKnown` (a live session has an engine grant) makes a revocation reach its
sessions.  With the types (a grant's person and machine are on record) these are
`AccessInv`; `TickKeeps` shows that time takes access from both sides at once, `NewKeeps`
that a restart rebuilds the agreement.

For `Sftp`, `NothingChangesUnjudged` is inductive with *OnlyJudged*: what waits at the
machine was judged if its kind must be, and the request that opened a handle to write
through was judged.  `LinesAreTrue` needs `SftpInv`, which follows every request and every
handle from place to place.  *QueuesOK*: a request is at one place, requests and answers are in
the order of their numbers, and the id of each stands for the request it was forwarded
with.  *FreshOK*: of a request on its way nothing is noted and nobody has heard.
*LinesOK*: an answer that tells of a change, or of one that failed half-way, comes
behind its line in the recording, a file that is open has no line yet, and one request
opens one file; a line that the journal did not get is a line all the same.  *HandlesOK*: a handle the person
holds is the same file to machine and gateway, one that is being closed is named
by no request any more, and the machine mints a handle again only behind the answer
to its close.  *ChunksOK* is about the hash: what passed of a file is what was counted of
it, followed by what the answers in flight will add, in their order (`Trails`, an order
preserving function from the chunks not yet counted to the answers); a file
uploaded in order is counted when it is forwarded (`Counted`); a chunk that could not be
forwarded has ended the writer, so nobody closes that file (`Abandoned`).  Each step of
the session is first reduced to one of eleven shapes (`StepIs`), and each shape owes each
part one lemma.

**TerminalProofs** (`Terminal`, `Drain`).  Assumptions for `Terminal`: sizes, tab stop, the limit of
history and `MaxInt` are positive, the bounds are naturals, numbers are integers of that
width.  `TermInv` is one predicate of the emulator's state, `Good`: the shape of the screen,
with its committed rows blank (*Shaped*); an erase that is pending has blanked its row and
keeps a text (*Erasing*); what is in memory is both ends of `log` (*Kept*); the cursor
(*Placed*); a pending erase is on the cursor's row unless `CSI u` took it away (*Steady*:
why `moveCursorY` and `advanceLine` settle the right one); and no `Keeps` has failed. The
work is in the last part.  What is shown is the marks of one long line, so two pages are
compared by the joins of sequences of sequences (`FlattenSeq`, for which the module
has its own lemmas, from the fold): a commit moves rows from the screen to `log` and
leaves them blank, which does not change the join; a scroll drops only rows just
committed; a resize cuts lines into pieces whose join is the line (`SplitWhole`) and puts
the surplus into `log` before the rest onto the screen (`ReflowedInk`).  Each
operation has one lemma on what is shown before and after it (`Shown`) and one on what else it may
touch (`Follows`), and the control sequences are compositions of these.

No assumption for `Drain`: any set of connections.  `DrainInv` adds that a
setup is counted exactly while it is one, that the flag is set in
every phase after the first, that no setup is left once the wait is over, and
that a listener which is accepting is registered.

**StateStoreProofs** (`StateStore` as `Register`, `Recordings`).  Assumptions: the two
marks for "no file" and "torn" are no states, the bounds are naturals.  `StoreInv`
adds to `MemoryIsTheFile`, with the stores whose second look failed, where the lock is (*HolderIsInside*), what a process has before it
read (*NothingRead*), and the four facts of a save: it starts from what it would roll
back to, ends in what is in memory, adds one update that no archive has, and never
writes an update nobody tried.  `ArchivesHold` (three action properties) needs the last two,
with *RestoreIsReady* and *ArchivedLinesRemain*.  `StoreIsARegister` is the refinement, step by
step: an acknowledged update is in every value a power failure could leave.  A restore that has
rotated the journal is what `Restores` names, and only from there may a torn file come.
Its hypothesis `DurableReplace = TRUE` is the platform on which the atomic replace syncs the
directory (`datafile/atomic.go`); without it the code promises less, and so does the
theorem.  `RecordingsInv`: a linked file is as long as its recorder has written, and that is
what was shown but for what is held of a rune (*FilesFit*), a completed one has the metadata of its session (*Completed*), every file
is some session's (*Owned*), what is left behind has somebody to say so or the
repair still before it (*Protected*, *InRepair*), and a pass of the sweep does not hold
the name of a live session with a status that would let it go, unless it could not read
it (*Spared*, *PassOK*).

**IdentitiesProofs** (`Identities`).  Assumptions: the bounds are naturals, the limit of misses is
positive, the empty key is no key.  `RecordInv` (references lead only to those they were
made for; once there was an administrator there is one), `SecretsInv` (a secret that
can be redeemed was given, for one purpose, and has bought nothing; an open window
has misses left) and `LoginsInv` (the registry of connections holds the machines it
says).  A command's history written late is told from the others by the births its
session began with, and is what `NothingInherited` leaves out.  A step of the record is a commit of a draft, so what a command owes is a fact
about its draft; `AdministratorStays` is the action property.

**RiskGateProofs** (`RiskGate`, `ExecSession`).  Assumptions: red and yellow
texts are texts, nobody is no person, the time to live is positive.  `JudgeInv` is
a predicate of one session's record at a time (*Sound*: what it has seen is no stricter
than the mode; a verdict is red when a consulted source said so; what the first
reading of the mode settled still binds after the second), `ApprovalsInv` of the
approvals (ids are given once and spent once; the time left is at most the time to live).
`ExecInv` says where each chunk is:
*PumpFits* and *StdinFits* (stdin is in the recording, in the buffer of the reader that
runs ahead, or with the machine), *OutputFits* (what a copy holds is recorded and not yet
shown; nothing follows the exit status), *AllPasses* (a session in which nothing failed,
which was not revoked and whose person stayed, has shown what it recorded).  `PumpFits` is the part a refused person's read in flight
would break.

**JournalProofs** (`Journal`, `LiveTail`, `DoorJournal`).  Assumptions: bounds are naturals,
the tick is no command, the two writers differ; the machine itself is no administrator.  `JournalInv`: an
answered line stands where it was written, in a file a reader finds (*AppendsKept*,
with `Keeps` as the one lemma every step of the directory owes); a torn tail is the last line of its file and was answered for to
nobody (*DirOK*); the gateway's handle is the file under the name (*HandlesOK*); a
command that has lost a line of its own has been counted since it was watched
(*CommandsOK*).  `WatchInv`: a request reads only after an append for its watcher has succeeded,
appends that left their line in failing are no more than those that failed, and
what it found out about the end of the session is still so.  `SinkInv`: the marker names
the archive a truncate is owed to, that archive has every line of the file not
written meanwhile, and no other repeats one.

Only model-checked, and why:

* every liveness property: `LineGoes`, `TeardownReleases`, `StopEnds`, `ExpiredEnds`,
  `SessionEnds`, and those of the further configurations.  Fairness and ENABLED are out of the
  prover's reach.

Every invariant and every safety action property the runs check is a theorem, `CountedOnce`
without hypotheses only in the part about steps.

Induction over a sequence is done where it was needed by taking a least
counterexample (`LeastNatural`); the library's induction theorems, which take an
operator as parameter, cannot be used.

## 6. Not modelled, and why

The map covers 11.5 % of the implementation's lines.  Most of the rest
has no protocol to explore, and modelling it would mean to copy it:

* the window (`internal/ui`, the largest directory) and the command line
  (`cmd/iamtunnel`): presentation, flags, texts, and the plumbing of one call per
  button or command;
* the risk rules (`gateway/risk/risk.go`): tables of patterns over command text; in
  `RiskGate` a verdict is any verdict;
* installers, service managers, permissions and other platform glue;
* byte formats and wire parsing (`sftpwire`, `control_wire.go`, `protocol`), reading and
  listing commands, which change nothing;
* the client, which dials once and copies bytes.

The hidden costs of file systems are reduced to "an operation is atomic and may
fail", except in `StateStore`, `Recordings`, `Journal` and `DoorJournal`, where a
write, its sync and a rename are steps.  A shell session's terminal requests,
migration of old state files, the rate limit, the relay of a machine's watchers
(`server/tail.go`) and the pollers of the window have protocols and are on the plan.

## 7. Plan

Modelling, in this order:

1. `DoorLink`: `MachineConn` with `DoorController` as its machine, and an abstract
   door (absent, present, going) that the pair implements.
2. `server/tail.go` beside `LiveTail`, and the window's pollers, whose look at the current generation and append are two
   steps.
3. `RateLimit`, keepalive and back-off, the client's store lock.
4. The shell session: terminal requests and resizes beside the bridge of `ExecSession`.

Proofs: of each module above, with it; what is planned for the modules there are is done.
