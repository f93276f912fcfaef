---------------------------- MODULE DoorJournal ----------------------------
(***************************************************************************)
(* The machine's own journal of its doors (internal/winkeys/file_sink.go): *)
(* the server appends and rotates, the watchdogs only append, each under   *)
(* the cross-process rotation lock.  Rotation copies the file to a new     *)
(* archive, prunes old archives and truncates the file in place; a marker  *)
(* names the archive while that goes on.  The server may be killed between *)
(* any two of its file operations, and each of them may fail.              *)
(*                                                                         *)
(* A line is a number, a file the set of its lines, its size their count;  *)
(* an archive's name is its place in the order of names, and any free name *)
(* may be the next one, for the clock may be set back.  What a power       *)
(* failure does to names that were not synced, a line cut short by a full  *)
(* disk, and somebody who removes the file by hand, are not in this model. *)
(***************************************************************************)
EXTENDS Integers, FiniteSets

CONSTANTS
  MaxBytes,       \* the size a file is rotated at, in lines
  MaxArchives,    \* archives that are kept
  MaxDoorLines,   \* bound on the lines written
  MaxStamps,      \* bound on the names of archives
  MaxKills,       \* bound on deaths of the server
  MaxSinkFaults   \* bound on file operations that fail

ASSUME DoorJournalAssumption ==
  /\ {MaxBytes, MaxArchives, MaxStamps} \subseteq Nat \ {0}
  /\ {MaxDoorLines, MaxKills, MaxSinkFaults} \subseteq Nat

VARIABLES
  live,      \* the lines of the journal file
  archive,   \* the lines of each published archive; Absent where there is none
  partial,   \* names with a staging copy
  marker,    \* the archive the rotation marker names, or NoStamp
  draft,     \* the draft of a marker lies about
  sink,      \* the server's fileSink: where it stands, the line it writes, the
             \* archive of the rotation under way, and pendingArchive
  written,   \* the number of the last line, and the lines written and synced
  sinkFaults, kills,
  pruned,    \* history: lines retention has deleted
  owing,     \* history: lines written while a truncate was still owed
  forgot     \* history: recovery could not look at a marker or its archive

sinkVars == <<live, archive, partial, marker, draft, sink, written, sinkFaults, kills, pruned, owing, forgot>>

Stamps == 1..MaxStamps
NoStamp == 0
Absent == {-1}
Down == [at |-> "down", line |-> 0, to |-> NoStamp, pending |-> NoStamp]
Published == {s \in Stamps : archive[s] # Absent}
LinesHeld == live \cup UNION {archive[s] : s \in Published}

DoorJournalInit ==
  /\ live = {} /\ archive = [s \in Stamps |-> Absent] /\ partial = {} /\ marker = NoStamp /\ draft = FALSE
  /\ sink = Down /\ written = [last |-> 0, ok |-> {}]
  /\ sinkFaults = 0 /\ kills = 0 /\ pruned = {} /\ owing = {} /\ forgot = FALSE

SinkFault == sinkFaults < MaxSinkFaults /\ sinkFaults' = sinkFaults + 1
SinkWorks == UNCHANGED sinkFaults
Stands(where) == sink.at = where
SinkGoes(where) == sink' = [sink EXCEPT !.at = where]
Locked == ~(sink.at \in {"down", "idle"})
History == UNCHANGED <<written, kills, pruned, owing, forgot>>

\* A truncate of the file is owed to an archive that holds what it held, in
\* memory or by what the next start will find.
Owed == sink.pending # NoStamp \/ marker \in Published

-----------------------------------------------------------------------------
(* Opening. *)

\* NewJournalSink and recoverRotationOnOpen of the rotator: what lies about is
\* discarded, a marker whose archive is there makes its truncate pending, and
\* any other marker goes.  Nothing here stops the start.
recoverRotationOnOpen ==
  /\ Stands("down")
  /\ \/ /\ SinkWorks /\ draft' = FALSE /\ partial' = partial \ {marker} /\ UNCHANGED forgot
        /\ sink' = [Down EXCEPT !.at = "idle", !.pending = IF marker \in Published THEN marker ELSE NoStamp]
        /\ marker' = IF marker \in Published THEN marker ELSE NoStamp
     \/ \* The draft, the staging copy or the marker cannot be removed.
        /\ SinkFault /\ (draft \/ marker # NoStamp) /\ UNCHANGED forgot
        /\ \/ UNCHANGED draft /\ partial' = partial \ {marker}
           \/ draft' = FALSE /\ UNCHANGED partial
        /\ sink' = [Down EXCEPT !.at = "idle", !.pending = IF marker \in Published THEN marker ELSE NoStamp]
        /\ marker' \in IF marker \in Published THEN {marker} ELSE {marker, NoStamp}
     \/ \* The marker cannot be read, or looked at, or the lock not be had.
        /\ SinkFault /\ marker # NoStamp /\ draft' \in {draft, FALSE} /\ forgot' = TRUE
        /\ sink' = [Down EXCEPT !.at = "idle"] /\ UNCHANGED <<partial, marker>>
     \/ \* Its archive cannot be looked at: it counts as not there.
        /\ SinkFault /\ marker # NoStamp /\ draft' = FALSE /\ partial' = partial \ {marker} /\ forgot' = TRUE
        /\ sink' = [Down EXCEPT !.at = "idle"] /\ marker' = NoStamp
  /\ UNCHANGED <<live, archive, written, kills, pruned, owing>>

\* The server dies; what it was writing may be there: a draft of the marker, a
\* staging copy, a line nobody was told of.
serverDies ==
  /\ sink.at # "down" /\ kills < MaxKills /\ kills' = kills + 1
  /\ sink' = Down
  /\ draft' \in IF Stands("marker") THEN BOOLEAN ELSE {draft}
  /\ partial' \in {partial} \cup (IF Stands("copy") THEN {partial \cup {sink.to}} ELSE {})
  /\ live' \in {live} \cup (IF Stands("write") THEN {live \cup {sink.line}} ELSE {})
  /\ UNCHANGED <<archive, marker, written, sinkFaults, pruned, owing, forgot>>

-----------------------------------------------------------------------------
(* OnDoor of the server, up to the write. *)

NextLine == written.last + 1

\* Under s.mu and the lock: a truncate that is owed comes first, and then no
\* new rotation in the same call.
writeLocked ==
  /\ Stands("idle") /\ NextLine <= MaxDoorLines
  /\ \/ /\ SinkWorks
        /\ sink' = [sink EXCEPT !.line = NextLine,
                                !.at = IF sink.pending # NoStamp THEN "retry"
                                       ELSE IF Cardinality(live) + 1 > MaxBytes THEN "rotate" ELSE "write"]
     \/ SinkFault /\ UNCHANGED sink   \* no lock in journalLockWait, or the file cannot be looked at
     \/ SinkFault /\ sink.pending = NoStamp /\ sink' = [sink EXCEPT !.line = NextLine, !.at = "write"]   \* no size
  /\ written' = [written EXCEPT !.last = NextLine]
  /\ UNCHANGED <<live, archive, partial, marker, draft, kills, pruned, owing, forgot>>

\* The delayed truncate.
retryTruncate ==
  /\ Stands("retry")
  /\ \/ SinkWorks /\ live' = {} /\ SinkGoes("finish")
     \/ SinkFault /\ SinkGoes("write") /\ UNCHANGED live
  /\ History /\ UNCHANGED <<archive, partial, marker, draft>>

\* Its marker goes, or is reported; the rotation is over either way.
finishPending ==
  /\ Stands("finish")
  /\ \/ SinkWorks /\ marker' = NoStamp
     \/ SinkFault /\ UNCHANGED marker
  /\ sink' = [sink EXCEPT !.at = "write", !.pending = NoStamp]
  /\ History /\ UNCHANGED <<live, archive, partial, draft>>

\* rotateLocked: a name for which neither archive nor staging copy exists;
\* MaxStamps bounds them.
nextArchivePath ==
  /\ Stands("rotate")
  /\ \E s \in Stamps \ (Published \cup partial) : sink' = [sink EXCEPT !.at = "marker", !.to = s]
  /\ SinkWorks /\ History /\ UNCHANGED <<live, archive, partial, marker, draft>>

writeRotationMarkerLocked ==
  /\ Stands("marker")
  /\ \/ SinkWorks /\ marker' = sink.to /\ SinkGoes("copy")
     \/ SinkFault /\ UNCHANGED marker /\ SinkGoes("write")
  /\ draft' = FALSE
  /\ History /\ UNCHANGED <<live, archive, partial>>

\* A copy or a rename that fails takes back what there is of it, as far as it
\* can: the errors of these removals are dropped.
TakesBack ==
  /\ SinkFault /\ SinkGoes("write")
  /\ \/ partial' = partial \ {sink.to} /\ marker' = NoStamp
     \/ /\ sinkFaults' < MaxSinkFaults
        /\ \/ partial' = partial \ {sink.to} /\ UNCHANGED marker
           \/ partial' = partial \cup {sink.to} /\ marker' = NoStamp

copyCurrentToLocked ==
  /\ Stands("copy")
  /\ \/ SinkWorks /\ partial' = partial \cup {sink.to} /\ SinkGoes("publish") /\ UNCHANGED marker
     \/ TakesBack
  /\ History /\ UNCHANGED <<live, archive, draft>>

\* Mutant: a rename that fails is not noticed.
publishUnseen ==
  /\ Stands("publish") /\ SinkGoes("prune")
  /\ \/ SinkWorks /\ partial' = partial \ {sink.to} /\ archive' = [archive EXCEPT ![sink.to] = live]
     \/ SinkFault /\ UNCHANGED <<partial, archive>>
  /\ History /\ UNCHANGED <<live, marker, draft>>

\* The lock has been held since the copy: it holds what the file holds.
publish ==
  /\ Stands("publish")
  /\ \/ /\ SinkWorks /\ partial' = partial \ {sink.to} /\ SinkGoes("prune") /\ UNCHANGED marker
        /\ archive' = [archive EXCEPT ![sink.to] = live]
     \/ TakesBack /\ UNCHANGED archive
  /\ History /\ UNCHANGED <<live, draft>>

\* What retention takes: the oldest names, never that of this rotation.
Surplus ==
  {s \in Published \ {sink.to} :
     Cardinality({t \in Published \ {sink.to} : t < s}) < Cardinality(Published) - MaxArchives}

pruneArchivesLocked ==
  /\ Stands("prune")
  /\ \E gone \in SUBSET Surplus :
       /\ \/ gone = Surplus /\ SinkWorks
          \/ gone # Surplus /\ SinkFault
       /\ archive' = [s \in Stamps |-> IF s \in gone THEN Absent ELSE archive[s]]
       /\ pruned' = pruned \cup UNION {archive[s] : s \in gone}
  /\ SinkGoes("truncate")
  /\ UNCHANGED <<live, partial, marker, draft, written, kills, owing, forgot>>

\* A truncate that fails stays pending, with its marker.
truncateToZero ==
  /\ Stands("truncate")
  /\ \/ SinkWorks /\ live' = {} /\ SinkGoes("unmark")
     \/ SinkFault /\ UNCHANGED live /\ sink' = [sink EXCEPT !.at = "write", !.pending = sink.to]
  /\ History /\ UNCHANGED <<archive, partial, marker, draft>>

removeMarker ==
  /\ Stands("unmark") /\ SinkGoes("write")
  /\ \/ SinkWorks /\ marker' = NoStamp
     \/ SinkFault /\ UNCHANGED marker
  /\ History /\ UNCHANGED <<live, archive, partial, draft>>

-----------------------------------------------------------------------------
(* The write. *)

Appends(l) ==
  \/ /\ SinkWorks /\ live' = live \cup {l} /\ written' = [last |-> l, ok |-> written.ok \cup {l}]
     /\ owing' = IF Owed THEN owing \cup {l} ELSE owing
  \/ SinkFault /\ live' \in {live, live \cup {l}} /\ written' = [written EXCEPT !.last = l] /\ UNCHANGED owing

writeLine ==
  /\ Stands("write") /\ Appends(sink.line)
  /\ sink' = [sink EXCEPT !.at = "idle", !.line = 0, !.to = NoStamp]
  /\ UNCHANGED <<archive, partial, marker, draft, kills, pruned, forgot>>

\* OnDoor of a watchdog, which outlives the server: AppenderRole looks at no
\* size and at no marker.
watchdogWrites ==
  /\ ~Locked /\ NextLine <= MaxDoorLines /\ Appends(NextLine)
  /\ UNCHANGED <<archive, partial, marker, draft, sink, kills, pruned, forgot>>

DoorJournalNext ==
  \/ recoverRotationOnOpen \/ serverDies
  \/ writeLocked \/ retryTruncate \/ finishPending
  \/ nextArchivePath \/ writeRotationMarkerLocked \/ copyCurrentToLocked \/ publish
  \/ pruneArchivesLocked \/ truncateToZero \/ removeMarker
  \/ writeLine \/ watchdogWrites

DoorJournalSpec == DoorJournalInit /\ [][DoorJournalNext]_sinkVars

-----------------------------------------------------------------------------

DoorJournalTypeOK ==
  /\ live \subseteq 1..MaxDoorLines
  /\ archive \in [Stamps -> (SUBSET (1..MaxDoorLines)) \cup {Absent}]
  /\ partial \subseteq Stamps /\ marker \in Stamps \cup {NoStamp} /\ draft \in BOOLEAN
  /\ sink.pending \in Stamps \cup {NoStamp} /\ sink.to \in Stamps \cup {NoStamp}
  /\ written.ok \subseteq 1..written.last /\ written.last <= MaxDoorLines

\* A line that was written and synced is in the file or in an archive until
\* retention deletes it, unless it was written while a truncate was owed: the
\* copy in the archive was made before it, and the truncate takes it.
LostOnlyOwed == written.ok \ owing \subseteq LinesHeld \cup pruned

\* The archive a truncate is owed to is there when the truncate comes: retention
\* spares it, wherever its name sorts.
OwedArchiveStands ==
  /\ sink.pending # NoStamp => sink.pending \in Published
  /\ Stands("truncate") => sink.to \in Published /\ live \subseteq archive[sink.to]

\* A truncate that fails or is cut off does not fill the disk with copies: a line
\* is in one archive, unless recovery could not look.
ArchivedOnce ==
  ~forgot => \A s, t \in Published : s # t => archive[s] \cap archive[t] = {}

\* What rotation promises across failures, deaths of the server and a clock
\* set back.
RotationKeeps == LostOnlyOwed /\ OwedArchiveStands /\ ArchivedOnce

\* What the code says of this journal: "the line is never lost".
LineIsNeverLost == written.ok \subseteq LinesHeld \cup pruned
=============================================================================
