---------------------------- MODULE Recordings ----------------------------
(***************************************************************************)
(* The recordings directory: the sessions that write into it               *)
(* (internal/gateway/record/recorder.go, exec_recorder.go, sessionname.go, *)
(* meta.go), the sweep that prunes it (rotation.go, sweepRecordings of     *)
(* gateway.go) and the repair at start (orphan.go), with crashes.          *)
(*                                                                         *)
(* A session claims a name made of the clock and, where that repeats, a    *)
(* suffix; the files of one name are one recording to the sweep.  Chunks   *)
(* are counted; a hash is the number of chunks it was taken over.  The     *)
(* recorder of a terminal session holds back the beginning of a rune whose *)
(* end has not come: the chunk it ends is shown before all of it is on     *)
(* disk.  What a power failure does to a rename is in StateStore: here it  *)
(* takes the bytes that were not synced.  The clock is taken to move between the     *)
(* claim of a name and the removal of its files, so that a pass does not   *)
(* meet a new session under a name it is clearing.                         *)
(***************************************************************************)
EXTENDS Integers, FiniteSets

CONSTANTS
  Recs, NoRec,     \* sessions
  Retention,       \* RecordingRetentionDays, 0 for ever
  Attempts,        \* sessionNameAttempts
  MaxRecChunks,    \* bound on the chunks of a session
  MaxNow,          \* bound on the clock; sessions begin before it
  MaxRecDirFaults  \* bound on operations of the disk that fail

ASSUME RecordingsAssumption ==
  /\ NoRec \notin Recs
  /\ Retention \in Nat /\ Attempts \in Nat \ {0} /\ MaxRecChunks \in Nat
  /\ MaxNow \in Nat \ {0} /\ MaxRecDirFaults \in Nat

VARIABLES
  gw,        \* the gateway: "repair" while it is down or New mends orphans, "up"
  today,     \* the clock
  dir,       \* the files of each name
  rec,       \* each session's recorder
  sweep,     \* the pass of Rotate that is under way
  taken,     \* names a pass has begun to remove
  dirFaults  \* operations that failed

recVars == <<gw, today, dir, rec, sweep, taken, dirFaults>>

Names == (0..MaxNow - 1) \X (0..Attempts - 1)
NoName == <<-1, 0>>
Exts == {"cast", "exec", "meta", "txt"}
Walked == [cast |-> 1, exec |-> 2, meta |-> 3, txt |-> 4]  \* the order of a walk

MaxHeld == 3  \* utf8: the beginning of a rune is at most three bytes

Missing == [of |-> NoRec, chunks |-> 0, synced |-> 0]
NoMeta == [status |-> "none", at |-> 0, sum |-> -1]
Nameless == [cast |-> Missing, exec |-> Missing, meta |-> NoMeta, txt |-> FALSE]
Resting == [pc |-> "idle", old |-> {}, rest |-> {}, name |-> NoName, files |-> {},
            by |-> "size", gone |-> FALSE]

RecordingsInit ==
  /\ gw = "up" /\ today = 0
  /\ dir = [n \in Names |-> Nameless]
  /\ rec = [s \in Recs |-> [at |-> "no", kind |-> "cast", name |-> NoName, shown |-> 0,
                            held |-> 0, bare |-> FALSE, unsaid |-> FALSE]]
  /\ sweep = Resting
  /\ taken = {} /\ dirFaults = 0

Stands(s, where) == gw = "up" /\ rec[s].at = where
File(s) == dir[rec[s].name][rec[s].kind]
Linked(s) == File(s).of = s
Holds(n, e) == dir[n][e] # Nameless[e]
Some(n) == dir[n] # Nameless
Living == {"claimed", "open", "wrote", "failed"}
Live(s) == rec[s].at \in Living

DirFault == dirFaults < MaxRecDirFaults /\ dirFaults' = dirFaults + 1
Well == UNCHANGED dirFaults
Moves(s, to) == rec' = [rec EXCEPT ![s].at = to]
\* The recorder is gone; unsaid: the metadata it leaves still says "recording".
Gone(r, unsaid) == [r EXCEPT !.at = "over", !.unsaid = unsaid, !.bare = FALSE]
Ends(s, unsaid) == rec' = [rec EXCEPT ![s] = Gone(@, unsaid)]
Spoils(s) == DirFault /\ Moves(s, "failed")
RecorderOnly == UNCHANGED <<gw, today, sweep, taken>>

\* What a write puts into the session's file, which may have been unlinked.
Puts(s, f) ==
  dir' = IF Linked(s) THEN [dir EXCEPT ![rec[s].name][rec[s].kind] = f] ELSE dir

WriteMeta(n, status, at, sum) == dir' = [dir EXCEPT ![n].meta = [status |-> status, at |-> at, sum |-> sum]]

-----------------------------------------------------------------------------
(* A session: NewRecording, chunk after chunk, finalize. *)

\* The first name of this instant whose first file is free (O_EXCL), or none.
claimSessionName(k) ==
  LET free == {i \in 0..Attempts - 1 : dir[<<today, i>>][k] = Missing}
  IN  {i \in free : \A j \in free : i <= j}

\* NewRecorder and NewExecRecorder up to the claim.
newRecording(s) ==
  /\ Stands(s, "no") /\ today < MaxNow /\ Well
  /\ \A n \in taken : n[1] < today
  /\ \E k \in {"cast", "exec"} : \E i \in claimSessionName(k) :
       /\ rec' = [rec EXCEPT ![s].at = "claimed", ![s].kind = k, ![s].name = <<today, i>>]
       /\ dir' = [dir EXCEPT ![<<today, i>>][k] = [of |-> s, chunks |-> 0, synced |-> 0]]
  /\ RecorderOnly

\* The disk is past the refusal threshold, or no name is free.
refuseRecording(s) ==
  /\ Stands(s, "no") /\ Moves(s, "over") /\ Well
  /\ UNCHANGED dir /\ RecorderOnly

\* The first metadata, and for an exec session its command as first event.  A
\* terminal session goes on without metadata; an exec session is refused, and
\* if it was the event that failed, its metadata stays "recording".
firstMeta(s) ==
  /\ Stands(s, "claimed")
  /\ \/ /\ WriteMeta(rec[s].name, "recording", rec[s].name[1], -1)
        /\ \/ Moves(s, "open") /\ Well
           \/ rec[s].kind = "exec" /\ DirFault /\ Ends(s, TRUE)
     \/ /\ DirFault /\ UNCHANGED dir
        /\ IF rec[s].kind = "exec" THEN Ends(s, FALSE) ELSE Moves(s, "open")
  /\ RecorderOnly

\* The header of a cast cannot be written: the session is refused.
headerFails(s) ==
  /\ Stands(s, "claimed") /\ rec[s].kind = "cast"
  /\ DirFault /\ Ends(s, FALSE)
  /\ UNCHANGED dir /\ RecorderOnly

\* A chunk is written, with what was held back before it; Write has not returned
\* yet.  A terminal recorder holds back the beginning of a rune it ends with.  A
\* chunk that is no more than that is not written at all: Write returns, and the
\* person sees it.  held: the chunks shown whose end is not synced.
writeChunk(s) ==
  /\ Stands(s, "open") /\ rec[s].shown < MaxRecChunks
  /\ \/ /\ \E whole \in {0, 1} : /\ whole = 0 => rec[s].kind = "cast"
                                /\ Puts(s, [File(s) EXCEPT !.chunks = rec[s].shown + whole])
        /\ Moves(s, "wrote") /\ Well
     \/ /\ rec[s].kind = "cast" /\ rec[s].held < MaxHeld
        /\ rec' = [rec EXCEPT ![s].shown = @ + 1, ![s].held = @ + 1]
        /\ Well /\ UNCHANGED dir
     \/ Spoils(s) /\ UNCHANGED dir
  /\ RecorderOnly

\* Mutant: the chunk is passed on before it is synced.
passOn(s) ==
  /\ Stands(s, "wrote")
  /\ rec' = [rec EXCEPT ![s].at = "open", ![s].shown = @ + 1] /\ Well
  /\ UNCHANGED dir /\ RecorderOnly

\* What is written is synced, Write returns, and the person sees the chunk; or
\* the sync fails, and the bridge ends the session.
fileSyncFn(s) ==
  /\ Stands(s, "wrote")
  /\ \/ /\ Puts(s, [File(s) EXCEPT !.synced = File(s).chunks])
        /\ rec' = [rec EXCEPT ![s].at = "open", ![s].shown = @ + 1,
                              ![s].held = IF Linked(s) THEN rec[s].shown + 1 - File(s).chunks ELSE 0]
        /\ Well
     \/ Spoils(s) /\ UNCHANGED dir
  /\ RecorderOnly

\* Close or Abort: the session ends, of itself or cut; the bridge cuts one whose
\* Write failed.
CloseWithReason(s) == IF rec[s].at = "failed" THEN {"aborted"} ELSE {"completed", "aborted"}

\* The status finalize settles on, after hashing what is on disk: a terminal
\* session that met a failure is an error, but for the held-back end of its last
\* chunk and the last sync, whose errors it does not look at; an exec session
\* without its eof is aborted, and one without its hash is what it would be.
Verdict(s, status, bad) ==
  CASE rec[s].kind = "cast" /\ (rec[s].at = "failed" \/ ~Linked(s) \/ bad \notin {"nothing", "tail", "sync"}) -> "error"
    [] bad = "eof" -> "aborted"
    [] OTHER -> status

\* The end of the last chunk gets into the file.
Flushes(s, bad) == Linked(s) /\ rec[s].at = "open" /\ bad # "tail"
Unsaved(s, bad) == IF Flushes(s, bad) /\ bad # "sync" THEN 0 ELSE rec[s].held

\* What finalize leaves of the session's files, whichever of its writes is bad:
\* the file closed and, but for an aborted exec session, synced; a transcript
\* of a terminal session; the metadata with the hash of what is on disk.
Finalized(s, status, bad) ==
  LET g == dir[rec[s].name]
      k == rec[s].kind
      chunks == IF Flushes(s, bad) THEN rec[s].shown ELSE g[k].chunks
      syncs == Linked(s) /\ bad \notin {"eof", "sync"} /\ (k = "cast" \/ status = "completed")
      hashed == Linked(s) /\ bad # "hash" /\ ~(k = "cast" /\ bad = "close")
  IN  [g EXCEPT ![k].chunks = chunks,
                ![k].synced = IF syncs THEN chunks ELSE @,
                !.txt = @ \/ (k = "cast" /\ bad # "text"),
                !.meta = IF bad = "meta" THEN @
                         ELSE [status |-> Verdict(s, status, bad), at |-> rec[s].name[1],
                               sum |-> IF hashed THEN chunks ELSE -1]]

\* Mutant: an eof that cannot be written ends finalize at once.
finalizeGivesUp(s) ==
  /\ Stands(s, "open") \/ Stands(s, "failed")
  /\ \/ Well /\ \E status \in CloseWithReason(s) : dir' = [dir EXCEPT ![rec[s].name] = Finalized(s, status, "nothing")]
     \/ DirFault /\ UNCHANGED dir
  /\ Ends(s, FALSE) /\ RecorderOnly

\* finalize, under the recorder's mutex, with at most one of its steps bad: the
\* eof of an exec session; the held-back end, the sync or the transcript of a
\* terminal session; the close of the file, its hash, or the metadata, which
\* leaves "recording" behind.
finalize(s) ==
  /\ Stands(s, "open") \/ Stands(s, "failed")
  /\ \E status \in CloseWithReason(s), bad \in {"nothing", "eof", "tail", "sync", "close", "text", "hash", "meta"} :
       /\ bad \in {"tail", "sync", "text"} => rec[s].kind = "cast"
       /\ bad = "eof" => rec[s].kind = "exec" /\ status = "completed"
       /\ IF bad = "nothing" THEN Well ELSE DirFault
       /\ dir' = [dir EXCEPT ![rec[s].name] = Finalized(s, status, bad)]
       /\ rec' = [rec EXCEPT ![s] = [Gone(rec[s], bad = "meta") EXCEPT !.held = Unsaved(s, bad)]]
  /\ RecorderOnly

RecorderNext ==
  \E s \in Recs :
    \/ newRecording(s) \/ refuseRecording(s) \/ firstMeta(s) \/ headerFails(s)
    \/ writeChunk(s) \/ fileSyncFn(s) \/ finalize(s)

-----------------------------------------------------------------------------
(* A pass of Rotate. *)

SweepOnly == UNCHANGED <<gw, today, rec>>
Pass(pc) == gw = "up" /\ sweep.pc = pc

\* The name whose metadata cannot be read, if there is one: its error is ignored,
\* and it is to the pass as if there were none.
Unread == {NoName} \cup {n \in Names : dir[n].meta # NoMeta}
MetaRead(n, unread) == IF n = unread THEN NoMeta ELSE dir[n].meta

\* When a group began: as its metadata says; without any, as the time of its
\* oldest file says, which is no earlier than its name.
startedAt(n, unread) == IF MetaRead(n, unread) # NoMeta THEN {dir[n].meta.at} ELSE n[1]..today

Group(n, at, unread) == [name |-> n, at |-> at, status |-> MetaRead(n, unread).status,
                         files |-> {e \in Exts : Holds(n, e)}]

\* scanSessions walks the tree and reads the metadata; Rotate sets the expired
\* apart, except those that are being recorded.  bare: a pass has looked at the
\* session and read no metadata.
scanSessions ==
  /\ Pass("idle")
  /\ \E unread \in Unread :
       LET found == {n \in Names : Some(n)}
       IN  /\ IF unread = NoName THEN Well ELSE DirFault
           /\ \E began \in [found -> 0..MaxNow] :
                LET groups == {Group(n, began[n], unread) : n \in found}
                    old == {g \in groups : Retention > 0 /\ g.status # "recording" /\ g.at < today - Retention}
                IN  /\ found # {} /\ \A n \in found : began[n] \in startedAt(n, unread)
                    /\ sweep' = [Resting EXCEPT !.pc = "prune", !.old = old, !.rest = groups \ old]
           /\ rec' = [s \in Recs |-> [rec[s] EXCEPT !.bare = @ \/ (Live(s) /\ MetaRead(rec[s].name, unread) = NoMeta)]]
  /\ UNCHANGED <<gw, today, dir, taken>>

\* deleteSession begins with one group.
deletes(g, by) ==
  /\ sweep' = [sweep EXCEPT !.pc = "remove", !.name = g.name, !.files = g.files, !.by = by,
                            !.old = @ \ {g}, !.rest = @ \ {g}]
  /\ taken' = taken \cup {g.name}

pruneByAge ==
  /\ Pass("prune")
  /\ \E g \in sweep.old : deletes(g, "age")
  /\ UNCHANGED <<dir, dirFaults>> /\ SweepOnly

\* Age is done with: Rotate looks at the disk.
BySize == Pass("prune") /\ sweep.old = {}

\* The groups the size step may delete.
deletable == {g \in sweep.rest : g.status # "recording"}

\* The disk is too full and something may go: the oldest goes, but not the
\* last recording there is.
pruneBySize ==
  /\ BySize /\ deletable # {}
  /\ deletable # sweep.rest \/ Cardinality(deletable) > 1
  /\ \E g \in deletable : (\A h \in deletable : g.at <= h.at) /\ deletes(g, "size")
  /\ UNCHANGED <<dir, dirFaults>> /\ SweepOnly

\* The next file of the group is removed.
removeFile ==
  /\ Pass("remove")
  /\ \E e \in sweep.files :
       /\ \A f \in sweep.files : Walked[e] <= Walked[f]
       /\ dir' = [dir EXCEPT ![sweep.name][e] = Nameless[e]]
       /\ sweep' = IF sweep.files # {e} THEN [sweep EXCEPT !.files = @ \ {e}]
                   ELSE [sweep EXCEPT !.pc = "prune", !.by = "size", !.gone = TRUE, !.name = NoName, !.files = {}]
  /\ UNCHANGED <<taken, dirFaults>> /\ SweepOnly

\* The disk is no longer too full, or nothing more may go: each removal gets
\* its line.
sweepEnds ==
  /\ BySize
  /\ sweep' = Resting
  /\ UNCHANGED <<dir, taken, dirFaults>> /\ SweepOnly

\* A removal or a look at the disk fails: one line says so, the removals the
\* pass has made get none.
sweepFails ==
  /\ BySize \/ Pass("remove")
  /\ DirFault /\ sweep' = Resting
  /\ UNCHANGED <<dir, taken>> /\ SweepOnly

SweepNext ==
  \/ scanSessions \/ pruneByAge \/ pruneBySize
  \/ removeFile \/ sweepEnds \/ sweepFails

-----------------------------------------------------------------------------
(* The gateway dies and comes back. *)

Killed ==
  /\ gw' = "repair" /\ sweep' = Resting
  /\ rec' = [s \in Recs |-> IF rec[s].at = "no" THEN rec[s] ELSE Gone(rec[s], FALSE)]
  /\ UNCHANGED <<today, taken, dirFaults>>

Unsynced(f) == [f EXCEPT !.chunks = f.synced]

gatewayDies ==
  /\ gw = "up" /\ Killed
  /\ \/ UNCHANGED dir
     \/ dir' = [n \in Names |-> [dir[n] EXCEPT !.cast = Unsynced(@), !.exec = Unsynced(@)]]

Orphans == {n \in Names : dir[n].meta.status = "recording"}

\* New marks each left-over recording aborted.  One whose metadata cannot be read
\* is passed over; if the metadata cannot be written, New fails and the next start
\* looks at all of them again.
AbortOrphanedRecordings ==
  LET left == {n \in Orphans : \A s \in Recs : rec[s].name = n => ~rec[s].unsaid}
  IN  /\ gw = "repair"
      /\ \/ \E n \in left : \/ dir' = [dir EXCEPT ![n].meta.status = "aborted"] /\ Well /\ UNCHANGED <<gw, rec>>
                            \/ /\ rec' = [s \in Recs |-> IF rec[s].name = n THEN Gone(rec[s], TRUE) ELSE rec[s]]
                               /\ DirFault /\ UNCHANGED <<gw, dir>>
         \/ /\ left # {} /\ DirFault
            /\ rec' = [s \in Recs |-> IF rec[s].at = "no" THEN rec[s] ELSE Gone(rec[s], FALSE)]
            /\ UNCHANGED <<gw, dir>>
         \/ left = {} /\ gw' = "up" /\ Well /\ UNCHANGED <<dir, rec>>
      /\ UNCHANGED <<today, sweep, taken>>

newDay == today < MaxNow /\ today' = today + 1 /\ UNCHANGED <<gw, dir, rec, sweep, taken, dirFaults>>

RecordingsNext ==
  \/ RecorderNext \/ SweepNext
  \/ gatewayDies \/ AbortOrphanedRecordings \/ newDay

RecordingsSpec == RecordingsInit /\ [][RecordingsNext]_recVars

-----------------------------------------------------------------------------
\* Nobody else has claimed the session's name: a terminal and an exec session
\* of one instant claim different first files of one name.
Alone(s) == \A t \in Recs \ {s} : rec[t].name # rec[s].name

\* What a person has been shown is on disk, synced, for as long as no pass has
\* begun to remove the recording: through crashes, power failures, sessions of
\* one instant and failed writes.  The one exception is the beginning of a rune,
\* of a terminal session: no more chunks than it has bytes end in what the
\* recorder still held (Write, fileSyncFn, claimSessionName, finalize).
ShownIsKept ==
  \A s \in Recs : rec[s].name \notin taken \cup {NoName} =>
    /\ Linked(s) /\ rec[s].shown <= File(s).synced + rec[s].held
    /\ rec[s].held <= (IF rec[s].kind = "cast" THEN MaxHeld ELSE 0)

\* A recording called completed is there, and its hash is of all that was shown
\* but such an end, whose loss finalize does not look at; an exec recording may
\* be without a hash, if its file could not be read (finalize).
CompletedIsHashed ==
  \A n \in Names \ taken : dir[n].meta.status = "completed" =>
    \E s \in Recs :
      /\ rec[s].name = n /\ Linked(s)
      /\ \/ dir[n].meta.sum \in rec[s].shown - rec[s].held..rec[s].shown
         \/ rec[s].kind = "exec" /\ dir[n].meta.sum = -1

\* A recording is what the person saw, or is missing because it was pruned.
RecordingsAreTrue == ShownIsKept /\ CompletedIsHashed

\* Only the recordings of sessions that live are protected from the sweep: none
\* that a crash or a failure left behind, unless its last metadata could not be
\* written, or not be read by the repair (orphan.go: an "immortal" recording).
ProtectedIsLive ==
  gw = "up" => \A n \in Orphans : \E s \in Recs : rec[s].name = n /\ (Live(s) \/ rec[s].unsaid)

\* No pass takes a file from under a session that is being recorded, unless it
\* looked while the session had no metadata or could not read it (rotation.go,
\* which takes either for "not being recorded").
LiveIsSpared ==
  \A s \in Recs : Live(s) /\ ~rec[s].bare /\ Alone(s) => Linked(s)

\* "NEVER wipe the archive to 0": while the size step removes a group there is
\* another.
NotWiped ==
  sweep.pc = "remove" /\ sweep.by = "size" => \E n \in Names \ {sweep.name} : Some(n)

\* The sweep and the sessions keep out of each other's way: what is recorded
\* is spared, what is over can go, and something always stays.
RotationSpares == ProtectedIsLive /\ LiveIsSpared /\ NotWiped

-----------------------------------------------------------------------------
(* What the comments say, and the code does not do. *)

\* recorder.go: "every machine byte is written and fsync-committed before it is
\* forwarded to the human".
EveryByteFirst ==
  \A s \in Recs : rec[s].name \notin taken \cup {NoName} => rec[s].shown <= File(s).synced

\* rotation.go: "Never delete sessions that are actively being recorded".
RecordedIsNeverDeleted == \A s \in Recs : Live(s) /\ Alone(s) => Linked(s)

\* sessionname.go: "one session's files always share one base and stay one
\* session to the recordings scanner".
OneSessionPerName == \A s \in Recs : rec[s].name # NoName => Alone(s)

\* gateway.go sweepRecordings: "every deletion is an event: every deleted
\* session becomes its own admin.op line": a pass that forgets what it has
\* removed has come to its end, where the lines are written.
EveryRemovalHasItsLine ==
  [][sweep.gone /\ ~sweep'.gone => gw' = "up" /\ UNCHANGED dirFaults]_recVars
=============================================================================
