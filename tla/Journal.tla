------------------------------ MODULE Journal ------------------------------
(***************************************************************************)
(* The gateway's audit journal (internal/gateway/events/log.go, chain.go)  *)
(* and the answers that depend on it (internal/gateway/audit_health.go,    *)
(* the journal part of auth_quiet.go, runCommand of admin_role.go).        *)
(*                                                                         *)
(* A line is its hash (a number of its own), the hash it names as prev,    *)
(* the event it is of, and whether it can be read.  A write may leave      *)
(* nothing, a newline only, a cut line, a line without its newline, or a   *)
(* whole line whose sync failed.  The append lock is held from reading the *)
(* last line to the sync, so an append is one step; so is a rotation, but  *)
(* for the crashes inside it.  A local command is a second writer.         *)
(***************************************************************************)
EXTENDS Naturals, Sequences, FiniteSets, SequencesExt

CONSTANTS
  Gw, Local,    \* the Log of the gateway, and that of a local command
  Tick,         \* the gateway's events of its own
  Cmds,         \* administration commands, each run once
  KeyOf,        \* Cmds -> the <<actor, op>> its record is watched under
  RotateAt,     \* JournalRotateBytes, in lines
  MaxFiles, MaxLines, MaxFaults

Writers == {Gw, Local}
Files == 1..MaxFiles
Genesis == 0
Keys == {KeyOf[c] : c \in Cmds}
Actors == Cmds \cup {Tick}

ASSUME JournalAssumption ==
  /\ Tick \notin Cmds /\ Gw # Local /\ DOMAIN KeyOf = Cmds
  /\ {RotateAt, MaxFiles, MaxLines, MaxFaults} \subseteq Nat

VARIABLES
  up,       \* the gateway runs
  dir,      \* the directory: lines and torn tails of files, their names
  h,        \* Log.file of each writer; 0 is nil
  lost,     \* Log.lostWhy is set
  arch,     \* Log.lostArchive; 0 is none
  pc,       \* of commands, and of the tick
  was,      \* auditWatch.was of each command
  rec,      \* what became of the event each actor wrote last
  answer,   \* what each command said
  failing, watched, \* auditHealth
  told,     \* audit-health.json says "ok"
  stale,    \* and the last attempt to write it failed
  acked,    \* hashes of the lines an Append to events.jsonl answered for
  faults

log == <<up, h, lost, arch>>
health == <<failing, watched>>
file == <<told, stale>>
vars == <<dir, log, pc, was, rec, answer, health, file, acked, faults>>

Outcomes == {"ok", "unsynced", "bare", "cut", "blank", "none"}
Line == [id : 1..MaxLines, prev : 0..MaxLines, whole : BOOLEAN, of : Actors \cup Writers]

TypeOK ==
  /\ dir \in [lines : [Files -> Seq(Line)], torn : SUBSET Files, cur : 0..MaxFiles,
              archives : Seq(Files), gone : SUBSET Files, made : 0..MaxFiles, n : 0..MaxLines]
  /\ up \in BOOLEAN /\ h \in [Writers -> 0..MaxFiles] /\ lost \in [Writers -> BOOLEAN]
  /\ arch \in [Writers -> 0..MaxFiles]
  /\ pc \in [Actors -> {"idle", "watched", "written", "changed", "noted", "answered", "removed"}]
  /\ was \in [Cmds -> Nat] /\ rec \in [Actors -> {"none", "kept", "lost"}]
  /\ answer \in [Cmds -> {"none", "ok", "lost", "refused"}]
  /\ failing \in BOOLEAN /\ watched \in [Keys -> Nat]
  /\ told \in BOOLEAN /\ stale \in BOOLEAN
  /\ acked \subseteq 1..MaxLines /\ faults \in 0..MaxFaults
  /\ \A w \in Writers : h[w] <= dir.made
  /\ IsInjective(dir.archives) /\ Range(dir.archives) \cap ({dir.cur} \cup dir.gone) = {}

Init ==
  /\ dir = [lines |-> [f \in Files |-> <<>>], torn |-> {}, cur |-> 0,
            archives |-> <<>>, gone |-> {}, made |-> 0, n |-> 0]
  /\ up = FALSE /\ h = [w \in Writers |-> 0] /\ lost = [w \in Writers |-> FALSE]
  /\ arch = [w \in Writers |-> 0]
  /\ pc = [a \in Actors |-> "idle"]
  /\ was = [c \in Cmds |-> 0] /\ rec = [a \in Actors |-> "none"]
  /\ answer = [c \in Cmds |-> "none"]
  /\ failing = FALSE /\ watched = [k \in Keys |-> 0]
  /\ told = TRUE /\ stale = FALSE
  /\ acked = {} /\ faults = 0

Fault == faults < MaxFaults /\ faults' = faults + 1
Outcome(r) == IF r = "ok" THEN UNCHANGED faults ELSE Fault

-----------------------------------------------------------------------------
(* The directory after a write.  A hash is spent by every write that leaves *)
(* bytes; a line that joins a torn tail cannot be read.                     *)

\* Mutant: the line a torn tail left is skipped over.
lastWholeLine(d, f) ==
  LET whole == IF f = 0 THEN <<>> ELSE SelectSeq(d.lines[f], LAMBDA l : l.whole)
  IN  IF whole = <<>> THEN Genesis ELSE Last(whole).id

\* LineHash(lastLine(path)); a path without a file has no last line.
lastLine(d, f) ==
  IF f = 0 \/ d.lines[f] = <<>> THEN Genesis ELSE Last(d.lines[f]).id

Write(d, f, of, prev, r) ==
  LET joins == f \in d.torn
      line == [id |-> d.n + 1, prev |-> prev, whole |-> r # "cut" /\ ~joins, of |-> of]
      before == IF joins THEN Front(d.lines[f]) ELSE d.lines[f]
  IN  IF r \in {"none", "blank"} THEN d
      ELSE [d EXCEPT !.n = @ + 1, !.lines[f] = Append(before, line),
                     !.torn = IF r \in {"cut", "bare"} THEN @ \cup {f} ELSE @ \ {f}]

\* Mutant: nothing ends a torn tail.
writeBehindTorn(d, f, of, r) == Write(d, f, of, lastLine(d, d.cur), r)

\* The line before is read by path, the line is written to the open file f:
\* they differ for a writer that kept its file open over a rotation.
writeChainedLocked(d, f, of, r) ==
  LET ended == IF d.cur \in d.torn /\ r # "none" THEN [d EXCEPT !.torn = @ \ {f}] ELSE d
  IN  Write(ended, f, of, lastLine(d, d.cur), r)

\* Opened, or created where there is none.
OpenDataFile(d) ==
  IF d.cur # 0 THEN d ELSE [d EXCEPT !.cur = d.made + 1, !.made = @ + 1]

\* The line written in this step, if the write succeeded.  A writer that kept
\* its file open over a rotation writes into the archive, behind whatever tail
\* that has: what it was answered is not counted on.
Acked(w, ok) == acked' = IF ok /\ h'[w] = dir'.cur THEN acked \cup {dir'.n} ELSE acked

-----------------------------------------------------------------------------
(* The log. *)

\* OpenLog: a torn tail gets its newline, a missing file is created.
OpenLog(w) ==
  /\ IF w = Gw THEN ~up ELSE h[w] = 0
  /\ dir.cur # 0 \/ dir.made < MaxFiles
  /\ dir' = OpenDataFile([dir EXCEPT !.torn = @ \ {dir.cur}])
  /\ h' = [h EXCEPT ![w] = dir'.cur] /\ up' = (up \/ w = Gw)
  \* A starting gateway publishes a health that is good again.
  /\ IF w = Gw THEN /\ failing' = FALSE /\ watched' = [k \in Keys |-> 0]
                    /\ told' = TRUE /\ stale' = FALSE
               ELSE UNCHANGED <<health, file>>
  /\ UNCHANGED <<lost, arch, pc, was, rec, answer, acked, faults>>

\* A log whose rotation lost its file opens one, and ties an empty one to the
\* archive; a line that fails to is answered with an error, but leaves the
\* file open.
reopenAfterRotationLocked(w, of, ok) ==
  LET d == OpenDataFile(dir)
      link == arch[w] # 0 /\ d.lines[d.cur] = <<>>
      linked(r) == IF link THEN Write(d, d.cur, w, lastLine(d, arch[w]), r) ELSE d
      found == UNCHANGED up /\ lost' = [lost EXCEPT ![w] = FALSE] /\ arch' = [arch EXCEPT ![w] = 0]
  IN  \/ /\ Fault /\ ~ok /\ UNCHANGED <<dir, log>>
      \/ /\ dir.cur # 0 \/ dir.made < MaxFiles
         /\ h' = [h EXCEPT ![w] = d.cur]
         /\ \/ /\ link /\ ~ok /\ Fault /\ UNCHANGED <<up, lost, arch>>
               /\ \E r \in Outcomes \ {"ok"} : dir' = linked(r)
            \/ /\ found
               /\ \E r \in Outcomes :
                    /\ ok = (r = "ok") /\ Outcome(r)
                    /\ dir' = writeChainedLocked(linked("ok"), d.cur, of, r)

\* Append.  A log without a file and without a reason is closed.
appendLocked(w, of, ok) ==
  /\ dir.n + 2 <= MaxLines
  /\ \/ /\ h[w] # 0 /\ UNCHANGED log
        /\ \E r \in Outcomes : /\ ok = (r = "ok") /\ Outcome(r)
                               /\ dir' = writeChainedLocked(dir, h[w], of, r)
     \/ h[w] = 0 /\ ~lost[w] /\ ~ok /\ UNCHANGED <<dir, log, faults>>
     \/ h[w] = 0 /\ lost[w] /\ reopenAfterRotationLocked(w, of, ok)
  /\ Acked(w, ok)

\* Mutant: the journal is copied, and goes on under its name.
copied(d) == [d EXCEPT !.archives = Append(@, d.cur)]

\* The rename done: the name is free, the file is the newest archive.
archived(d) ==
  [d EXCEPT !.archives = Append(@, d.cur), !.cur = 0]

\* rotateJournalIfLarge, and Rotate with its ways of failing.
rotateJournalIfLarge ==
  /\ h[Gw] # 0 /\ pc[Tick] = "idle"
  /\ Len(dir.lines[dir.cur]) >= RotateAt
  /\ dir.made < MaxFiles /\ dir.n < MaxLines
  /\ \/ \* closed, and the archive directory cannot be made: not even lost
        /\ Fault /\ h' = [h EXCEPT ![Gw] = 0]
        /\ UNCHANGED <<dir, lost, arch, acked>>
     \/ \* not renamed, and what stayed behind cannot be opened
        /\ Fault /\ h' = [h EXCEPT ![Gw] = 0] /\ lost' = [lost EXCEPT ![Gw] = TRUE]
        /\ UNCHANGED <<dir, arch, acked>>
     \/ \* renamed, and no fresh file can be opened
        /\ Fault /\ h' = [h EXCEPT ![Gw] = 0] /\ lost' = [lost EXCEPT ![Gw] = TRUE]
        /\ arch' = [arch EXCEPT ![Gw] = dir.cur]
        /\ dir' = archived(dir) /\ UNCHANGED acked
     \/ \* renamed and opened; the log.rotate line may fail
        LET d == OpenDataFile(archived(dir))
        IN  /\ h' = [h EXCEPT ![Gw] = d.cur]
            /\ lost' = [lost EXCEPT ![Gw] = FALSE] /\ arch' = [arch EXCEPT ![Gw] = 0]
            /\ \E r \in Outcomes :
                 /\ Outcome(r)
                 /\ dir' = Write(d, d.cur, Gw, lastLine(dir, dir.cur), r)
                 /\ Acked(Gw, r = "ok")
  /\ UNCHANGED <<up, pc, was, rec, answer, health, file>>

\* pruneJournalArchives: an archive too old, or one too many (when that is, is
\* left open), is removed; the ones before it are there if that failed ...
pruneRemoves ==
  /\ up /\ pc[Tick] = "idle"
  /\ \E i \in 1..Len(dir.archives) :
       /\ faults + i - 1 <= MaxFaults /\ faults' = faults + i - 1
       /\ dir' = [dir EXCEPT !.archives = RemoveAt(@, i), !.gone = @ \cup {dir.archives[i]}]
  /\ pc' = [pc EXCEPT ![Tick] = "removed"]
  /\ UNCHANGED <<log, was, rec, answer, health, file, acked>>

\* ... and then recorded; other events of the gateway are written alike.
tickWrites ==
  /\ up /\ pc[Tick] \in {"idle", "removed"}
  /\ \E ok \in BOOLEAN :
       /\ appendLocked(Gw, Tick, ok)
       /\ rec' = [rec EXCEPT ![Tick] = IF ok THEN "kept" ELSE "lost"]
  /\ pc' = [pc EXCEPT ![Tick] = "written"]
  /\ UNCHANGED <<was, answer, health, file>>

\* A local command opens the journal, writes its line and closes it.
localWrites ==
  /\ h[Local] # 0
  /\ \E ok \in BOOLEAN : appendLocked(Local, Local, ok)
  /\ UNCHANGED <<pc, was, rec, answer, health, file>>

Close ==
  /\ h[Local] # 0 /\ h' = [h EXCEPT ![Local] = 0]
  /\ UNCHANGED <<dir, up, lost, arch, pc, was, rec, answer, health, file, acked, faults>>

-----------------------------------------------------------------------------
(* Commands, and the health their answers rest on. *)

\* Mutant: the watch names no key, so every lost write is the command's own.
lostAnything(c) == \E k \in Keys : watched[k] > 0

lostSince(c) == watched[KeyOf[c]] > was[c]

auditRefusal == failing

\* runCommand up to the run: refused, or watched.
runCommand(c) ==
  /\ up /\ pc[c] = "idle"
  /\ IF auditRefusal
       THEN /\ pc' = [pc EXCEPT ![c] = "answered"]
            /\ answer' = [answer EXCEPT ![c] = "refused"] /\ UNCHANGED was
       ELSE /\ pc' = [pc EXCEPT ![c] = "watched"]
            /\ was' = [was EXCEPT ![c] = watched[KeyOf[c]]] /\ UNCHANGED answer
  /\ UNCHANGED <<dir, log, rec, health, file, acked, faults>>

\* The command does its work and journals it (logAdminOp, appendEvent).
appendEvent(c) ==
  /\ pc[c] = "watched"
  /\ \E ok \in BOOLEAN :
       /\ appendLocked(Gw, c, ok)
       /\ rec' = [rec EXCEPT ![c] = IF ok THEN "kept" ELSE "lost"]
  /\ pc' = [pc EXCEPT ![c] = "written"]
  /\ UNCHANGED <<was, answer, health, file>>

\* Mutant: only the write that turns the health is counted.
noteLostOnce(a) ==
  watched' = IF a \in Cmds /\ ~failing THEN [watched EXCEPT ![KeyOf[a]] = @ + 1] ELSE watched

noteLostLocked(a) ==
  watched' = IF a \in Cmds THEN [watched EXCEPT ![KeyOf[a]] = @ + 1] ELSE watched

\* Where an actor stands once its write is noted.
Noted(a) == IF a = Tick THEN "idle" ELSE "noted"

\* noteAudit: a lost write fails the health, a kept one mends it.
noteAudit(a) ==
  /\ pc[a] = "written"
  /\ IF rec[a] = "lost" THEN noteLostLocked(a) ELSE UNCHANGED watched
  /\ failing' = (rec[a] = "lost")
  /\ pc' = [pc EXCEPT ![a] = IF failing # failing' THEN "changed" ELSE Noted(a)]
  /\ UNCHANGED <<dir, log, was, rec, answer, file, acked, faults>>

\* Mutant: what is published is what the caller noted.
publishOwn(a) ==
  /\ pc[a] = "changed"
  /\ told' = (rec[a] # "lost") /\ stale' = FALSE /\ UNCHANGED faults
  /\ pc' = [pc EXCEPT ![a] = Noted(a)]
  /\ UNCHANGED <<dir, log, was, rec, answer, health, acked>>

\* The snapshot is taken under the publish lock, so the last one is the newest.
publishAudit(a) ==
  /\ pc[a] = "changed"
  /\ \/ told' = ~failing /\ stale' = FALSE /\ UNCHANGED faults
     \/ Fault /\ stale' = TRUE /\ UNCHANGED told
  /\ pc' = [pc EXCEPT ![a] = Noted(a)]
  /\ UNCHANGED <<dir, log, was, rec, answer, health, acked>>

Answer(c) ==
  /\ pc[c] = "noted" /\ pc' = [pc EXCEPT ![c] = "answered"]
  /\ answer' = [answer EXCEPT ![c] = IF lostSince(c) THEN "lost" ELSE "ok"]
  /\ UNCHANGED <<dir, log, was, rec, health, file, acked, faults>>

-----------------------------------------------------------------------------
\* A kill of the gateway.  Inside a write it cuts the line, inside a rotation
\* it leaves no file, or an empty one.
Crash ==
  /\ up /\ Fault /\ up' = FALSE
  /\ dir' \in {dir}
        \cup (IF h[Gw] # 0 /\ dir.n < MaxLines
                THEN {writeChainedLocked(dir, h[Gw], Tick, r) : r \in {"cut", "bare", "unsynced"}} ELSE {})
        \cup (IF h[Gw] # 0 /\ Len(dir.lines[dir.cur]) >= RotateAt /\ dir.made < MaxFiles
                THEN {archived(dir), OpenDataFile(archived(dir))} ELSE {})
  /\ h' = [h EXCEPT ![Gw] = 0] /\ lost' = [lost EXCEPT ![Gw] = FALSE]
  /\ arch' = [arch EXCEPT ![Gw] = 0]
  /\ pc' = [a \in Actors |-> IF a = Tick THEN "idle" ELSE "answered"]
  /\ failing' = FALSE /\ watched' = [k \in Keys |-> 0] /\ was' = [c \in Cmds |-> 0]
  /\ UNCHANGED <<rec, answer, file, acked>>

Next ==
  \/ \E w \in Writers : OpenLog(w)
  \/ rotateJournalIfLarge \/ pruneRemoves \/ tickWrites
  \/ localWrites \/ Close \/ Crash
  \/ \E c \in Cmds : runCommand(c) \/ appendEvent(c) \/ Answer(c)
  \/ \E a \in Actors : noteAudit(a) \/ publishAudit(a)

Spec == Init /\ [][Next]_vars

-----------------------------------------------------------------------------
(* What the journal promises. *)

\* The files a reader finds, and those retention took.
Kept == {f \in Files : f = dir.cur \/ f \in Range(dir.archives) \/ f \in dir.gone}
Readable == UNION {{i \in 1..Len(dir.lines[f]) : dir.lines[f][i].whole} \X {f} : f \in Kept}

\* A line an Append into events.jsonl answered for (log.go appendLocked) can be
\* read for as long as its file is there: no torn tail before it, rotation,
\* second writer or crash after it takes it back.
RecordedStays ==
  \A n \in acked : \E r \in Readable : dir.lines[r[2]][r[1]].id = n

\* Inside events.jsonl every line names the line before it, cut lines and
\* repaired tails included (chain.go writeChainedLocked, verifyChainFile).
LiveChain ==
  dir.cur # 0 =>
    LET s == dir.lines[dir.cur]
    IN  \A i \in 2..Len(s) : s[i].whole => s[i].prev = s[i - 1].id

\* The journal keeps what it answered for, in one chain, through torn tails,
\* rotations, a second writer and crashes.
JournalHolds == RecordedStays /\ LiveChain

\* A command that says it succeeded has its line in the journal
\* (admin_role.go runCommand, audit_health.go lostSince).
OkIsRecorded ==
  \A c \in Cmds : answer[c] = "ok" =>
    \E r \in Readable : dir.lines[r[2]][r[1]].of = c

\* A command says its record was lost only when a record under its own name and
\* operation was (the watch names the person and the command).
LostIsItsOwn ==
  \A c \in Cmds : answer[c] = "lost" =>
    \E o \in Cmds : KeyOf[o] = KeyOf[c] /\ rec[o] = "lost"

\* When nobody is between a change of the health and its publication,
\* audit-health.json says what the gateway acts on, unless it could not be
\* written (audit_health.go publishAudit).
HealthPublished ==
  up /\ (\A a \in Actors : pc[a] # "changed") /\ ~stale => told = ~failing

\* What commands are told and what the window shows is true of the journal,
\* whichever command of the same person loses a record at the same time.
AuditIsHonest == OkIsRecorded /\ LostIsItsOwn /\ HealthPublished
=============================================================================
