---------------------------- MODULE StateStore ----------------------------
(***************************************************************************)
(* The gateway's state file and the processes that open it                 *)
(* (internal/gateway/state/store.go, filelock_*.go, enrolhmac.go, the      *)
(* backup and restore of internal/gateway/lifecycle.go, and the atomic     *)
(* replace of internal/datafile/atomic.go).                                *)
(*                                                                         *)
(* Processes are the running gateway, the local commands that open the     *)
(* store to write, "gateway status" and "gateway restore"; each may be     *)
(* killed at any step, and the power may fail.  A state is the set of the  *)
(* updates it holds; what an update says is left to Access and Identities. *)
(* The journal appears as the set of updates it has a line for: its lines, *)
(* hashes and rotation are in Journal.  Temporaries left by a kill, which  *)
(* the next Open removes, are not kept track of.                           *)
(***************************************************************************)
EXTENDS Naturals, FiniteSets

CONSTANTS
  Procs,           \* processes
  NoProc, NoFile, Torn,
  DurableReplace,  \* state.DurableReplace: the platform syncs directories
  MaxUpdates,      \* bound on the updates tried
  MaxFaults        \* bound on operations of the disk that fail

Updates == 1..MaxUpdates
States == SUBSET Updates
NewState == {}

ASSUME StoreAssumption ==
  /\ NoProc \notin Procs
  /\ NoFile # Torn /\ \A s \in States : s # NoFile /\ s # Torn
  /\ DurableReplace \in BOOLEAN
  /\ MaxUpdates \in Nat /\ MaxFaults \in Nat

VARIABLES
  file,     \* state.json as processes see it
  durable,  \* state.json as the disk holds it: what a power failure leaves
  unsynced, \* the bytes of state.json were never synced
  key,      \* enrol-hmac.key: "none", "empty" or "whole"
  lock,     \* who holds state.lock
  pc, mem,  \* where each process stands, and Store.state
  old,      \* what commitLocked rolls back to; NoFile while Open saves
  ro,       \* Store.readOnly
  blind,    \* stores whose last rollback could not read the file again
  had,      \* what a restore saw before it opened the store
  live,     \* updates with a line in events.jsonl
  past,     \* updates with a line in an archive of it
  backup,   \* the last archive written, <<state, journal>>
  kept,     \* the last state.json.pre-restore-*
  tried,    \* updates begun
  acked,    \* updates answered with success and not restored away
  faults    \* operations of the disk that failed

disk == <<file, durable, unsynced>>
proc == <<lock, pc, mem, old, ro, blind, had>>
journal == <<live, past>>
archives == <<backup, kept>>
vars == <<disk, key, proc, journal, archives, tried, acked, faults>>

Goes(p, from, to) == pc[p] = from /\ pc' = [pc EXCEPT ![p] = to]
Step(p, from, to) == Goes(p, from, to) /\ UNCHANGED <<lock, mem, old, ro, blind, had>>
Fault == faults < MaxFaults /\ faults' = faults + 1

\* What state.json may hold after a power failure.
May == {file, durable} \cup (IF unsynced THEN {Torn} ELSE {})

\* Mutant: a file that does not parse is taken as it is.
parseAnything(p) ==
  /\ mem' = [mem EXCEPT ![p] = file]
  /\ ro' = [ro EXCEPT ![p] = FALSE]

\* What a store is over a file: one that does not parse gives an empty state
\* that is read-only.
parseStateBytes(p) ==
  /\ mem' = [mem EXCEPT ![p] = IF file = Torn THEN NewState ELSE file]
  /\ ro' = [ro EXCEPT ![p] = file = Torn]

\* The lock goes back: Close, an Open that fails, the end of the process.
Leave(p) ==
  /\ pc' = [pc EXCEPT ![p] = "down"]
  /\ lock' = (IF lock = p THEN NoProc ELSE lock)
  /\ mem' = [mem EXCEPT ![p] = NewState] /\ old' = [old EXCEPT ![p] = NoFile]
  /\ ro' = [ro EXCEPT ![p] = FALSE] /\ blind' = blind \ {p}
  /\ had' = [had EXCEPT ![p] = {}]

-----------------------------------------------------------------------------
(* Open: the lock, the HMAC key, the file. *)

\* AcquireFileLock; another holder is a refusal.
Open(p) ==
  /\ lock = NoProc
  /\ Goes(p, IF had[p] = {} THEN "down" ELSE "looked", "locked")
  /\ lock' = p
  /\ UNCHANGED <<disk, key, mem, old, ro, blind, had, journal, archives, tried, acked, faults>>

LoadKey(p) ==
  /\ \/ key = "whole" /\ Step(p, "locked", "keyed") /\ UNCHANGED key
     \/ key = "none" /\ Step(p, "locked", "keying") /\ key' = "empty"
     \/ key = "empty" /\ pc[p] = "locked" /\ Leave(p) /\ UNCHANGED key
  /\ UNCHANGED <<disk, journal, archives, tried, acked, faults>>

WriteKey(p) ==
  /\ \/ Step(p, "keying", "keyed") /\ key' = "whole" /\ UNCHANGED faults
     \/ Fault /\ pc[p] = "keying" /\ Leave(p) /\ UNCHANGED key
  /\ UNCHANGED <<disk, journal, archives, tried, acked>>

\* No file: a fresh state is saved.
ReadState(p) ==
  /\ \/ file = NoFile /\ Step(p, "keyed", "save") /\ UNCHANGED faults
     \/ file # NoFile /\ Goes(p, "keyed", "open") /\ parseStateBytes(p)
        /\ UNCHANGED <<lock, old, blind, had, faults>>
     \/ Fault /\ pc[p] = "keyed" /\ Leave(p)
  /\ UNCHANGED <<disk, key, journal, archives, tried, acked>>

\* The reader takes the lock a writer would.  (Without a lock file it takes
\* none, but every Open leaves one beside the state file it makes.)
OpenForRead(p) ==
  /\ file # NoFile /\ lock = NoProc
  /\ Goes(p, "down", "reading")
  /\ lock' = p
  /\ mem' = [mem EXCEPT ![p] = IF file = Torn THEN NewState ELSE file]
  /\ ro' = [ro EXCEPT ![p] = TRUE]
  /\ UNCHANGED <<disk, key, old, blind, had, journal, archives, tried, acked, faults>>

Close(p) ==
  /\ pc[p] = "reading" \/ (pc[p] = "open" /\ had[p] = {})
  /\ Leave(p)
  /\ UNCHANGED <<disk, key, journal, archives, tried, acked, faults>>

-----------------------------------------------------------------------------
(* Update and Set: a draft, validated, committed. *)

\* A draft that Validate refuses changes nothing and is no step.
Update(p) ==
  /\ had[p] = {} /\ ~ro[p]
  /\ tried < MaxUpdates /\ tried' = tried + 1
  /\ Goes(p, "open", "save")
  /\ old' = [old EXCEPT ![p] = mem[p]]
  /\ mem' = [mem EXCEPT ![p] = mem[p] \cup {tried'}]
  /\ UNCHANGED <<disk, key, lock, ro, blind, had, journal, archives, acked, faults>>

\* Mutant: a failed save is rolled back without a look at the file.
rollbackBlindly(p) ==
  IF old[p] = NoFile THEN Leave(p)
  ELSE /\ pc' = [pc EXCEPT ![p] = "open"]
       /\ mem' = [mem EXCEPT ![p] = old[p]]
       /\ UNCHANGED <<lock, old, ro, blind, had>>

\* verifyDiskMatchesLocked: a store whose file is not what memory holds stops
\* writing.  A disk that failed the save may fail the second read as well: then
\* nothing is known, and the store goes on writing.
verifyDiskMatches(p) ==
  \/ ro' = [ro EXCEPT ![p] = file \notin {NoFile, old[p]}] /\ blind' = blind \ {p}
  \/ file # NoFile /\ blind' = blind \cup {p} /\ UNCHANGED ro

\* commitLocked after a failed save: memory goes back, and the file is looked
\* at.  A failed save in Open fails Open.
rollback(p) ==
  IF old[p] = NoFile THEN Leave(p)
  ELSE /\ pc' = [pc EXCEPT ![p] = "open"]
       /\ mem' = [mem EXCEPT ![p] = old[p]]
       /\ verifyDiskMatches(p)
       /\ UNCHANGED <<lock, old, had>>

\* saveAtomicLocked up to the rename: the temporary written, synced, given its
\* owner and closed.  A failure of any of these removes it.
WriteTemp(p) ==
  /\ \/ Step(p, "save", "temp") /\ UNCHANGED faults
     \/ Fault /\ pc[p] = "save" /\ rollback(p)
  /\ UNCHANGED <<disk, key, journal, archives, tried, acked>>

\* Mutant: a file that is there is opened and written instead of being replaced.
writeInPlace(p) ==
  /\ Step(p, "temp", IF file \in {NoFile, Torn} THEN "renamed" ELSE "temp")
  /\ file' = (IF file \in {NoFile, Torn} THEN mem[p] ELSE Torn)
  /\ unsynced' = (file \notin {NoFile, Torn})
  /\ UNCHANGED <<durable, key, journal, archives, tried, acked, faults>>

\* From the rename on the file is what memory holds, whatever was known before.
replaceFile(p) ==
  /\ \/ /\ Goes(p, "temp", "renamed") /\ file' = mem[p] /\ unsynced' = FALSE
        /\ blind' = blind \ {p}
        /\ UNCHANGED <<lock, mem, old, ro, had, faults>>
     \/ Fault /\ pc[p] = "temp" /\ rollback(p) /\ UNCHANGED <<file, unsynced>>
  /\ UNCHANGED <<durable, key, journal, archives, tried, acked>>

committed(p) == IF old[p] = NoFile THEN {} ELSE mem[p] \ old[p]

\* Update answers nil once the directory entry is synced.
syncDir(p) ==
  /\ \/ /\ Step(p, "renamed", IF old[p] = NoFile THEN "open" ELSE "journal")
        /\ durable' = (IF DurableReplace THEN file ELSE durable)
        /\ acked' = acked \cup committed(p)
        /\ UNCHANGED faults
     \/ /\ DurableReplace /\ Fault /\ pc[p] = "renamed" /\ rollback(p)
        /\ UNCHANGED <<durable, acked>>
  /\ UNCHANGED <<file, unsynced, key, journal, archives, tried>>

\* The line an admin command writes about its update, in the same hold of
\* accessPublishMu; a write that fails is a line that is not there.
Record(p) ==
  /\ Step(p, "journal", "open")
  /\ \/ live' = live \cup committed(p) /\ UNCHANGED faults
     \/ Fault /\ UNCHANGED live
  /\ UNCHANGED <<disk, key, past, archives, tried, acked>>

-----------------------------------------------------------------------------
(* Backup, rotation of the journal, restore. *)

\* Mutant: the two members are read without accessPublishMu.
backupBetweenWrites(p) ==
  /\ pc[p] \in {"open", "journal"} /\ had[p] = {} /\ file # Torn
  /\ backup' = <<file, live>>
  /\ UNCHANGED <<disk, key, proc, journal, kept, tried, acked, faults>>

\* gateway.backup inside the gateway's process: under accessPublishMu, which an
\* admin command holds from its update to its line.  An archive of a file that
\* does not parse is left out: a restore refuses it.
CreateBackupArchive(p) ==
  /\ pc[p] = "open" /\ had[p] = {} /\ file # Torn
  /\ backup' = <<file, live>>
  /\ UNCHANGED <<disk, key, proc, journal, kept, tried, acked, faults>>

\* The sweep moves a large journal aside.
rotateJournal(p) ==
  /\ pc[p] = "open" /\ had[p] = {} /\ live # {}
  /\ past' = past \cup live /\ live' = {}
  /\ UNCHANGED <<disk, key, proc, archives, tried, acked, faults>>

\* What is here is looked at before the store is opened: Open makes a state file.
RestoreLooks(p) ==
  /\ backup # <<>>
  /\ Goes(p, "down", "looked")
  /\ had' = [had EXCEPT ![p] = {"restore"} \cup {x \in {"state"} : file # NoFile}
                                           \cup {x \in {"journal"} : live # {}}]
  /\ UNCHANGED <<disk, key, lock, mem, old, ro, blind, journal, archives, tried, acked, faults>>

\* Mutant: the state is replaced without a copy of it.
RestoreKeepsNothing(p) ==
  /\ had[p] # {} /\ Step(p, "open", "kept")
  /\ UNCHANGED <<disk, key, journal, archives, tried, acked, faults>>

\* A copy of what is about to be replaced; a copy that fails ends the restore.
RestoreKeeps(p) ==
  /\ had[p] # {}
  /\ \/ Step(p, "open", "kept") /\ UNCHANGED faults
        /\ kept' = (IF "state" \in had[p] THEN file ELSE kept)
     \/ Fault /\ pc[p] = "open" /\ Leave(p) /\ UNCHANGED kept
  /\ UNCHANGED <<disk, key, journal, backup, tried, acked>>

\* Mutant: the journal of the archive takes the place of the one that was here.
RestoreRollsBack(p) ==
  /\ Step(p, "kept", "rotated")
  /\ live' = backup[2]
  /\ UNCHANGED <<disk, key, past, archives, tried, acked, faults>>

\* The journal that was here goes aside before the state is touched; if it
\* cannot, the restore ends.
RestoreRotates(p) ==
  /\ \/ /\ Step(p, "kept", "rotated") /\ UNCHANGED faults
        /\ past' = (IF "journal" \in had[p] THEN past \cup live ELSE past)
        /\ live' = (IF "journal" \in had[p] THEN {} ELSE live)
     \/ Fault /\ "journal" \in had[p] /\ pc[p] = "kept" /\ Leave(p) /\ UNCHANGED journal
  /\ UNCHANGED <<disk, key, archives, tried, acked>>

\* datafile.WriteFileAtomicFunc without WithSync: the name holds the old or the
\* new content, whose bytes need not have reached the disk.
WriteFileAtomic(v) == file' = v /\ unsynced' = TRUE /\ UNCHANGED durable

\* The state is installed: the commit point of a restore.
RestoreCommits(p) ==
  /\ \/ Step(p, "rotated", "installed") /\ WriteFileAtomic(backup[1])
        /\ acked' = acked \cap backup[1] /\ UNCHANGED faults
     \/ Fault /\ pc[p] = "rotated" /\ Leave(p) /\ UNCHANGED <<disk, acked>>
  /\ UNCHANGED <<key, journal, archives, tried>>

\* A directory that had no journal gets the archive's, unless it cannot be
\* written.  Then the restore's own line, and the lock goes back.
RestoreEnds(p) ==
  /\ pc[p] = "installed" /\ Leave(p)
  /\ \/ live' = (IF "journal" \notin had[p] /\ backup[2] # {} THEN backup[2] ELSE live) /\ UNCHANGED faults
     \/ Fault /\ UNCHANGED live
  /\ UNCHANGED <<disk, key, past, archives, tried, acked>>

-----------------------------------------------------------------------------
(* Failures. *)

\* A process is killed: the system takes its locks, its files stay.
Crash(p) ==
  /\ pc[p] # "down" /\ Leave(p)
  /\ UNCHANGED <<disk, key, journal, archives, tried, acked, faults>>

PowerFails ==
  /\ file' \in May /\ durable' = file' /\ unsynced' = FALSE
  /\ lock' = NoProc /\ pc' = [p \in Procs |-> "down"]
  /\ mem' = [p \in Procs |-> NewState] /\ old' = [p \in Procs |-> NoFile]
  /\ ro' = [p \in Procs |-> FALSE] /\ blind' = {} /\ had' = [p \in Procs |-> {}]
  /\ UNCHANGED <<key, journal, archives, tried, acked, faults>>

-----------------------------------------------------------------------------
Init ==
  /\ file = NoFile /\ durable = NoFile /\ unsynced = FALSE
  /\ key = "none" /\ lock = NoProc
  /\ pc = [p \in Procs |-> "down"] /\ mem = [p \in Procs |-> NewState]
  /\ old = [p \in Procs |-> NoFile] /\ ro = [p \in Procs |-> FALSE]
  /\ blind = {} /\ had = [p \in Procs |-> {}]
  /\ live = {} /\ past = {} /\ backup = <<>> /\ kept = NoFile
  /\ tried = 0 /\ acked = {} /\ faults = 0

Opening(p) == Open(p) \/ LoadKey(p) \/ WriteKey(p) \/ ReadState(p) \/ OpenForRead(p) \/ Close(p)
Saving(p) == Update(p) \/ WriteTemp(p) \/ replaceFile(p) \/ syncDir(p) \/ Record(p)
Restoring(p) == RestoreLooks(p) \/ RestoreKeeps(p) \/ RestoreRotates(p) \/ RestoreCommits(p) \/ RestoreEnds(p)

Next ==
  \/ \E p \in Procs : Opening(p) \/ Saving(p) \/ Restoring(p)
                      \/ CreateBackupArchive(p) \/ rotateJournal(p) \/ Crash(p)
  \/ PowerFails

Spec == Init /\ [][Next]_vars

-----------------------------------------------------------------------------
IsContent(c) == c = NoFile \/ c = Torn \/ c \in States

FilesOK ==
  /\ IsContent(file) /\ IsContent(durable) /\ IsContent(kept) /\ unsynced \in BOOLEAN
  /\ key \in {"none", "empty", "whole"}
  /\ backup = <<>> \/ backup \in States \X States

ProcsOK ==
  /\ lock \in Procs \cup {NoProc}
  /\ pc \in [Procs -> {"down", "looked", "locked", "keying", "keyed", "reading", "open", "save", "temp",
                       "renamed", "journal", "kept", "rotated", "installed"}]
  /\ mem \in [Procs -> States] /\ old \in [Procs -> {NoFile} \cup States]
  /\ ro \in [Procs -> BOOLEAN] /\ blind \subseteq Procs
  /\ had \in [Procs -> SUBSET {"restore", "state", "journal"}]

BooksOK ==
  /\ live \in States /\ past \in States /\ acked \in States
  /\ tried \in 0..MaxUpdates /\ faults \in 0..MaxFaults

TypeOK == FilesOK /\ ProcsOK /\ BooksOK

\* A store that still writes holds what its file holds: what Get answers and
\* what a restart would read are one state (commitLocked's rollback and
\* verifyDiskMatchesLocked).  One whose second read failed is behind its file at
\* worst, until its next rename.
MemoryIsTheFile ==
  \A p \in Procs : pc[p] \in {"open", "journal"} /\ ~ro[p] =>
    \/ file = mem[p]
    \/ p \in blind /\ file \notin {NoFile, Torn} /\ mem[p] \subseteq file

\* An archive is one moment of the gateway: once it is written, no line appears
\* about an update that its state already has (readBackupMembers under
\* accessPublishMu).
BackupIsOneMoment == backup # <<>> => ((live' \cup past') \ (live \cup past)) \cap backup[1] = {}

\* Acknowledged updates go only in a restore that kept a copy of the state they
\* were in, or that looked before there was a state (RestoreBackupTarGz, rule 3).
StateIsKept ==
  \/ acked \subseteq acked'
  \/ kept = file
  \/ \E p \in Procs : pc[p] = "rotated" /\ "state" \notin had[p]

\* No step takes a line out of the journal, unless a restore looked before
\* there was a journal and the archive brings one (rule 1).
JournalGrows ==
  \/ past \cup live \subseteq past' \cup live'
  \/ \E p \in Procs : RestoreEnds(p) /\ "journal" \notin had[p]

\* A backup shows one moment of a gateway that goes on, and a restore, whole,
\* failed or cut short by a crash, takes neither the history nor the state it
\* replaces (CreateBackupArchive, RestoreBackupTarGz).
ArchivesHold == [][BackupIsOneMoment /\ StateIsKept /\ JournalGrows]_vars

\* What an operator's restore is about to put in the place of the state.
Restores == {backup[1] : p \in {q \in Procs : pc[q] = "rotated"}}

Reg == INSTANCE Register WITH may <- May, done <- acked, restoring <- Restores

\* The store implements a durable register: whatever fails, a restart finds a
\* whole state with every acknowledged update in it, but for what an operator's
\* restore took back (saveAtomicLocked under state.lock).
ImplementsRegister == Reg!Spec
=============================================================================
