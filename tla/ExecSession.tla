---------------------------- MODULE ExecSession ----------------------------
(***************************************************************************)
(* One exec session of a person, from the script on its standard input to  *)
(* the line that ends it in the journal: human_role.go serveHumanSession   *)
(* after the risk judgement (RiskGate has that), core/bridge.go,           *)
(* exec_stdin.go and record/exec_recorder.go.                              *)
(*                                                                         *)
(* Seven goroutines share two SSH channels and a recording: the session    *)
(* itself, the two copies of the bridge, the stderr copy, the proxy of the *)
(* machine's requests, the one that closes the person's channel when the   *)
(* command is over, and the pump that reads a script ahead.  The person    *)
(* and the machine send, end, close, answer a close, or are lost, when     *)
(* they like.  A chunk is one read; the recording is the sequence of its   *)
(* lines.                                                                  *)
(***************************************************************************)
EXTENDS Naturals, Sequences, FiniteSets

CONSTANTS
  MaxIn, MaxOut, MaxErr,  \* chunks of stdin, stdout and stderr
  MaxFaults               \* writes to the recording that fail

ASSUME SessionAssumption == {MaxIn, MaxOut, MaxErr, MaxFaults} \subseteq Nat

VARIABLES
  main,     \* serveHumanSession
  preview,  \* the command reads a script, so a pump reads stdin ahead
  pump,     \* stdinPreviewReader: its goroutine, its buffer, stopped
  h2t, t2h, stderr, mreqs, closer,  \* the other goroutines
  bridge,   \* Bridge: "run", "draining" after ctx.Done, "clean", "error"
  rec,      \* the recording: open, completed, aborted; its lines; stdin lost
  person,   \* what the person does: chunks left, at its end, gone
  human,    \* the person's channel on our side: open, EOF sent, closed
  shown,    \* what has reached the person
  machine,  \* the command: chunks left, unread chunks, exit status, channel
  target,   \* the nested channel on our side: open, EOF sent, closed
  taken, sent,  \* chunks of stdin read from the person, written to the machine
  lost,     \* mc.ctx has been cancelled
  revoked,  \* the engine has killed the session, and its session.drop is journaled
  event,    \* session.stop or session.drop, of the session itself
  faults

goroutines == <<pump, h2t, t2h, stderr, mreqs, closer, bridge>>
execVars == <<main, preview, goroutines, rec, person, human, shown, machine, target, taken, sent, lost, revoked, event, faults>>

ExecInit ==
  /\ preview \in BOOLEAN /\ main = IF preview THEN "script" ELSE "judged"
  /\ pump = [pc |-> IF preview THEN "idle" ELSE "done", buf |-> 0, stopped |-> FALSE]
  /\ h2t = "off" /\ t2h = "off" /\ stderr = "off" /\ mreqs = "off" /\ closer = "off" /\ bridge = "off"
  /\ rec = [status |-> "none", lines |-> <<>>, stdinLost |-> FALSE]
  /\ person = [left |-> MaxIn, end |-> FALSE, gone |-> FALSE, early |-> FALSE]
  /\ human = "open" /\ target = "open"
  /\ shown = [out |-> 0, err |-> 0, exit |-> FALSE, refused |-> FALSE]
  /\ machine = [out |-> MaxOut, err |-> MaxErr, outQ |-> 0, errQ |-> 0, exit |-> "none", eof |-> FALSE, closed |-> FALSE]
  /\ taken = 0 /\ sent = 0 /\ lost = FALSE /\ revoked = FALSE /\ event = "none" /\ faults = 0

-----------------------------------------------------------------------------
(* The recording. *)

Lines(kind) == Cardinality({i \in DOMAIN rec.lines : rec.lines[i] = kind})
Fault == faults < MaxFaults /\ faults' = faults + 1

\* writeEventLocked of a recording that is open.
Writes(kinds) == rec.status = "open" /\ rec' = [rec EXCEPT !.lines = @ \o kinds] /\ UNCHANGED faults
Fails == \/ rec.status # "open" /\ UNCHANGED faults
         \/ rec.status = "open" /\ Fault

\* n chunks of stdin.
Stdin(n) == [i \in 1..n |-> "in"]

\* flushStdinLocked remembers the first failure.
stdinFailed(r) == [r EXCEPT !.stdinLost = TRUE]

\* AddBytesIn has no result: a chunk that cannot be written is remembered, and
\* a recording that is closed takes nothing.  The recordings it may leave, each
\* with the faults counted by then.
AddBytesIn(r, n) ==
  IF r.status # "open" THEN {<<r, faults>>}
  ELSE {<<[r EXCEPT !.lines = @ \o Stdin(n)], faults>>}
       \cup {<<stdinFailed(r), f>> : f \in {faults + 1} \cap (IF n > 0 THEN 1..MaxFaults ELSE {})}

\* Mutant: a chunk of stdin that could not be written is forgotten.
FinalizedAnyway(r, status) == IF r.status # "open" THEN r ELSE [r EXCEPT !.status = status]

\* finalize; the second call finds the recording closed.
Finalized(r, status) ==
  IF r.status # "open" THEN r
  ELSE [r EXCEPT !.status = IF r.stdinLost /\ status = "completed" THEN "aborted" ELSE status]

-----------------------------------------------------------------------------
(* The person and the machine. *)

PersonEnds ==
  /\ ~person.end /\ person' = [person EXCEPT !.end = TRUE, !.left = 0]
  /\ UNCHANGED <<main, preview, goroutines, rec, human, shown, machine, target, taken, sent, lost, revoked, event, faults>>

\* Closes the channel, or answers our close; or the keepalive probe finds the
\* person dead and closes the connection.  What was on its way may still arrive.
PersonCloses ==
  /\ ~person.gone /\ person' = [person EXCEPT !.end = TRUE, !.gone = TRUE, !.early = human # "closed"]
  /\ UNCHANGED <<main, preview, goroutines, rec, human, shown, machine, target, taken, sent, lost, revoked, event, faults>>

\* The command runs once it was forwarded, until it ends or its channel does.
Runs == main = "bridge" /\ ~machine.eof /\ ~machine.closed

MachinePrints ==
  /\ Runs
  /\ \/ machine.out > 0 /\ machine' = [machine EXCEPT !.out = @ - 1, !.outQ = @ + 1]
     \/ machine.err > 0 /\ machine' = [machine EXCEPT !.err = @ - 1, !.errQ = @ + 1]
  /\ UNCHANGED <<main, preview, goroutines, rec, person, human, shown, target, taken, sent, lost, revoked, event, faults>>

MachineExits ==
  /\ machine.exit = "none" /\ ~machine.closed /\ main \in {"bridge", "grace"} /\ bridge # "off"
  /\ machine' = [machine EXCEPT !.exit = "queued"]
  /\ UNCHANGED <<main, preview, goroutines, rec, person, human, shown, target, taken, sent, lost, revoked, event, faults>>

MachineEOF ==
  /\ Runs /\ bridge # "off" /\ machine' = [machine EXCEPT !.eof = TRUE, !.out = 0, !.err = 0]
  /\ UNCHANGED <<main, preview, goroutines, rec, person, human, shown, target, taken, sent, lost, revoked, event, faults>>

\* After its EOF, or in answer to our close, or with its transport.
MachineCloses ==
  /\ ~machine.closed /\ bridge # "off" /\ (machine.eof \/ target = "closed" \/ lost)
  /\ machine' = [machine EXCEPT !.eof = TRUE, !.closed = TRUE, !.out = 0, !.err = 0]
  /\ UNCHANGED <<main, preview, goroutines, rec, person, human, shown, target, taken, sent, lost, revoked, event, faults>>

\* The transport dies: machine_conn.go teardown cancels mc.ctx.
MachineLost ==
  /\ bridge # "off" /\ ~lost /\ lost' = TRUE
  /\ UNCHANGED <<main, preview, goroutines, rec, person, human, shown, machine, target, taken, sent, revoked, event, faults>>

-----------------------------------------------------------------------------
(* The grant or the key goes, or the time: the engine's callback journals a   *)
(* session.drop and ends the session from outside (endRevokedSession), while  *)
(* mc.ctx lives.                                                              *)

\* The nested connection goes first; what of its output is lost was never sent.
revoke ==
  /\ main # "ended" /\ ~revoked /\ revoked' = TRUE
  /\ target' = "closed"
  /\ machine' = [machine EXCEPT !.eof = TRUE, !.closed = TRUE, !.out = 0, !.err = 0]
  /\ UNCHANGED <<main, preview, goroutines, rec, person, human, shown, taken, sent, lost, event, faults>>

\* The line that says why is written, and the person's channel closed.
endRevokedSession ==
  /\ revoked /\ human # "closed" /\ human' = "closed"
  /\ UNCHANGED <<main, preview, goroutines, rec, person, shown, machine, target, taken, sent, lost, revoked, event, faults>>

\* revokeNoticeTimeout: the connection is closed, whatever the person does.
revokeNoticeTimeout ==
  /\ revoked /\ ~person.gone
  /\ person' = [person EXCEPT !.end = TRUE, !.gone = TRUE, !.early = human # "closed"]
  /\ UNCHANGED <<main, preview, goroutines, rec, human, shown, machine, target, taken, sent, lost, revoked, event, faults>>

-----------------------------------------------------------------------------
(* stdinPreviewReader (exec_stdin.go). *)

\* pump: a read begins, unless the reader was stopped ...
pumpReads ==
  /\ pump.pc = "idle" /\ pump' = [pump EXCEPT !.pc = IF pump.stopped THEN "done" ELSE "inRead"]
  /\ UNCHANGED <<main, preview, h2t, t2h, stderr, mreqs, closer, bridge, rec, person, human, shown, machine,
                 target, taken, sent, lost, revoked, event, faults>>

\* ... and brings a chunk into the buffer, or the end.
pumpAppends ==
  /\ pump.pc = "inRead"
  /\ \/ /\ person.left > 0 /\ taken' = taken + 1 /\ person' = [person EXCEPT !.left = @ - 1]
        /\ pump' = [pump EXCEPT !.pc = "idle", !.buf = @ + 1]
     \/ /\ person.left = 0 /\ person.end /\ UNCHANGED <<taken, person>>
        /\ pump' = [pump EXCEPT !.pc = "done"]
  /\ UNCHANGED <<main, preview, h2t, t2h, stderr, mreqs, closer, bridge, rec, human, shown, machine,
                 target, sent, lost, revoked, event, faults>>

\* readScript: the script has ended, or it has not in time.
readScript ==
  /\ main = "script" /\ main' = "judged"
  /\ UNCHANGED <<preview, goroutines, rec, person, human, shown, machine, target, taken, sent, lost, revoked, event, faults>>

-----------------------------------------------------------------------------
(* The decision is carried out (RiskGate says which one it is). *)

Drops == event' = "drop"
Ends == main' = "ended"

\* NewRecording fails: there is nothing to be recorded in.
newRecordingFails ==
  /\ main = "judged" /\ Fault /\ Ends /\ Drops /\ human' = "closed" /\ pump' = [pump EXCEPT !.stopped = TRUE]
  /\ UNCHANGED <<preview, h2t, t2h, stderr, mreqs, closer, bridge, rec, person, shown, machine, target, taken, sent, lost, revoked>>

Opened == [rec EXCEPT !.status = "open"]

\* Mutant: the buffer is recorded, and the reader left to itself.
sealNothing == [pump EXCEPT !.buf = 0]

\* seal: no read starts after it.
seal == [pump EXCEPT !.stopped = TRUE, !.buf = 0]

\* A refused command: the reader is sealed and what it has is recorded.  A read
\* in flight at this moment makes the refusal a late one.
refuse ==
  /\ main = "judged" /\ \E a \in AddBytesIn(Opened, pump.buf) : rec' = a[1] /\ faults' = a[2]
  /\ pump' = IF preview THEN seal ELSE pump
  /\ main' = IF pump.pc = "inRead" THEN "refusedLate" ELSE "refused"
  /\ UNCHANGED <<preview, h2t, t2h, stderr, mreqs, closer, bridge, person, human, shown, machine, target, taken, sent, lost, revoked, event>>

\* finishRefused, the line in the journal, exit status 126 and the close.  A
\* recording that the late read may still add to stays open.
tellRefused ==
  /\ main \in {"refused", "refusedLate"}
  /\ IF main = "refused" THEN rec' = Finalized([rec EXCEPT !.lines = Append(@, "exit")], "completed") /\ main' = "ended"
     ELSE main' = "late" /\ UNCHANGED rec
  /\ Drops /\ shown' = [shown EXCEPT !.refused = TRUE] /\ human' = "closed"
  /\ UNCHANGED <<preview, goroutines, person, machine, target, taken, sent, lost, revoked, faults>>

\* endLateStdin and finishLateStdin: the person answers the close, or the whole
\* connection is closed under the read, which aborts the recording; what the
\* last read brought is recorded first.
finishLateStdin ==
  /\ main = "late" /\ pump.pc = "done"
  /\ \E status \in {"completed", "aborted"}, a \in AddBytesIn(rec, pump.buf) :
       rec' = Finalized([a[1] EXCEPT !.lines = Append(@, "exit")], status) /\ faults' = a[2]
  /\ pump' = [pump EXCEPT !.buf = 0]
  /\ Ends
  /\ UNCHANGED <<preview, h2t, t2h, stderr, mreqs, closer, bridge, person, human, shown, machine, target, taken, sent, lost, revoked, event>>

\* The reader has not returned even then: the recording says so.
lateStdinUnread ==
  /\ main = "late" /\ pump.pc # "done"
  /\ rec' = Finalized(rec, "unread") /\ Ends
  /\ UNCHANGED <<preview, goroutines, person, human, shown, machine, target, taken, sent, lost, revoked, event, faults>>

\* The notice cannot be written, of a refused command too, or the machine
\* refuses the command.
startFails ==
  /\ \/ main = "judged" /\ rec' = Finalized(Opened, "aborted")
     \/ main \in {"refused", "refusedLate"} /\ rec' = Finalized(rec, "aborted")
  /\ Ends /\ Drops /\ human' = "closed" /\ pump' = [pump EXCEPT !.stopped = TRUE]
  /\ UNCHANGED <<preview, h2t, t2h, stderr, mreqs, closer, bridge, person, shown, machine, target, taken, sent, lost, revoked, faults>>

\* forwardSessionStart, session.start, the banner, and the goroutines begin.
start ==
  /\ main = "judged" /\ ~revoked /\ rec' = Opened /\ main' = "bridge"
  /\ h2t' = "copy" /\ t2h' = "copy" /\ stderr' = "copy" /\ mreqs' = "loop" /\ closer' = "wait" /\ bridge' = "run"
  /\ UNCHANGED <<preview, pump, person, human, shown, machine, target, taken, sent, lost, revoked, event, faults>>

-----------------------------------------------------------------------------
(* The copies.  A write to a channel that has ended is an io.EOF, which the  *)
(* bridge takes for the end of its copy, and the stderr copy for an error.   *)

CanShow == human = "open" /\ ~person.gone
Stop == human' = "closed" /\ target' = "closed"

\* CloseWrite of revocableHuman: a revoked session's person gets no EOF before
\* the line that says why.
CloseWrite == human' = IF human = "open" /\ ~revoked THEN "eof" ELSE human

\* Mutant: what is handed on stays in the buffer.
ReadKeeps == pump

\* Read of the preview reader.
Read == [pump EXCEPT !.buf = @ - 1]

\* countWriter: a chunk for the machine is counted once it is written.
h2tCopies ==
  /\ h2t = "copy" /\ bridge # "off"
  /\ IF preview THEN /\ pump.buf > 0 /\ pump' = Read /\ UNCHANGED <<taken, person>>
     ELSE /\ person.left > 0 /\ taken' = taken + 1 /\ person' = [person EXCEPT !.left = @ - 1] /\ UNCHANGED pump
  /\ IF target = "open" /\ ~machine.closed
       THEN /\ sent' = sent + 1 /\ UNCHANGED <<h2t, target>>
            /\ \E a \in AddBytesIn(rec, 1) : rec' = a[1] /\ faults' = a[2]
       ELSE h2t' = "done" /\ target' = (IF target = "open" THEN "eof" ELSE target) /\ UNCHANGED <<sent, rec, faults>>
  /\ UNCHANGED <<main, preview, t2h, stderr, mreqs, closer, bridge, human, shown, machine, lost, revoked, event>>

\* The person's end is passed on.
h2tEnds ==
  /\ h2t = "copy" /\ IF preview THEN pump.pc = "done" /\ pump.buf = 0 ELSE person.left = 0 /\ person.end
  /\ h2t' = "done" /\ target' = (IF target = "open" THEN "eof" ELSE target)
  /\ UNCHANGED <<main, preview, pump, t2h, stderr, mreqs, closer, bridge, rec, person, human, shown, machine, taken, sent, lost, revoked, event, faults>>

\* Mutant: the person gets the chunk though the recording could not.
t2hRecordsAtBest ==
  /\ t2h = "copy" /\ machine.outQ > 0
  /\ machine' = [machine EXCEPT !.outQ = @ - 1] /\ t2h' = "hold"
  /\ Writes(<<"out">>) \/ (Fails /\ UNCHANGED rec)
  /\ UNCHANGED <<main, preview, pump, h2t, stderr, mreqs, closer, bridge, person, human, target, shown, taken, sent, lost, revoked, event>>

\* recordingWriter: the recording first ...
t2hRecords ==
  /\ t2h = "copy" /\ machine.outQ > 0
  /\ machine' = [machine EXCEPT !.outQ = @ - 1]
  /\ \/ Writes(<<"out">>) /\ t2h' = "hold" /\ UNCHANGED <<human, target>>
     \/ Fails /\ t2h' = "failed" /\ Stop /\ UNCHANGED rec
  /\ UNCHANGED <<main, preview, pump, h2t, stderr, mreqs, closer, bridge, person, shown, taken, sent, lost, revoked, event>>

\* ... then the person.
t2hShows ==
  /\ t2h = "hold"
  /\ IF CanShow THEN shown' = [shown EXCEPT !.out = @ + 1] /\ t2h' = "copy" /\ UNCHANGED human
                ELSE t2h' = "done" /\ CloseWrite /\ UNCHANGED shown
  /\ UNCHANGED <<main, preview, pump, h2t, stderr, mreqs, closer, bridge, rec, person, machine, target, taken, sent, lost, revoked, event, faults>>

\* Mutant: the end of stdout is passed on while stderr is still on its way.
drainedAfterNothing == t2h = "copy"

\* drainedAfter: the end is held back until the stderr copy is done.
drainedAfter == t2h = "copy" /\ stderr = "done"

\* The end of the output is passed on (CloseWrite).
t2hEnds ==
  /\ machine.outQ = 0 /\ machine.eof /\ drainedAfter
  /\ t2h' = "done" /\ CloseWrite
  /\ UNCHANGED <<main, preview, pump, h2t, stderr, mreqs, closer, bridge, rec, person, shown, machine, target, taken, sent, lost, revoked, event, faults>>

\* execRecordingWriter of the stderr copy; what fails closes both channels.
stderrRecords ==
  /\ stderr = "copy" /\ machine.errQ > 0
  /\ machine' = [machine EXCEPT !.errQ = @ - 1]
  /\ \/ Writes(<<"err">>) /\ stderr' = "hold" /\ UNCHANGED <<human, target>>
     \/ Fails /\ stderr' = "done" /\ Stop /\ UNCHANGED rec
  /\ UNCHANGED <<main, preview, pump, h2t, t2h, mreqs, closer, bridge, person, shown, taken, sent, lost, revoked, event>>

stderrShows ==
  /\ stderr = "hold"
  /\ IF CanShow THEN shown' = [shown EXCEPT !.err = @ + 1] /\ stderr' = "copy" /\ UNCHANGED <<human, target>>
                ELSE stderr' = "done" /\ Stop /\ UNCHANGED shown
  /\ UNCHANGED <<main, preview, pump, h2t, t2h, mreqs, closer, bridge, rec, person, machine, taken, sent, lost, revoked, event, faults>>

stderrEnds ==
  /\ stderr = "copy" /\ machine.errQ = 0 /\ machine.eof /\ stderr' = "done"
  /\ UNCHANGED <<main, preview, pump, h2t, t2h, mreqs, closer, bridge, rec, person, human, shown, machine, target, taken, sent, lost, revoked, event, faults>>

-----------------------------------------------------------------------------
(* The machine's requests, and the end. *)

\* Mutant: the exit status does not wait for the output.
outputDrainedAtOnce == TRUE

outputDrained == t2h \in {"done", "failed"} /\ stderr = "done"

\* proxyMachineRequests: the exit status is recorded and passed on after the
\* output; a recording that fails closes both channels.
proxyExit ==
  /\ mreqs = "loop" /\ machine.exit = "queued" /\ outputDrained
  /\ machine' = [machine EXCEPT !.exit = "taken"]
  /\ \/ /\ Writes(<<"exit">>) /\ UNCHANGED <<mreqs, human, target>>
        /\ shown' = [shown EXCEPT !.exit = human # "closed" /\ ~person.gone]
     \/ Fails /\ mreqs' = "done" /\ Stop /\ UNCHANGED <<rec, shown>>
  /\ UNCHANGED <<main, preview, pump, h2t, t2h, stderr, closer, bridge, person, taken, sent, lost, revoked, event>>

\* The requests end with the channel.
proxyEnds ==
  /\ mreqs = "loop" /\ machine.closed /\ machine.exit # "queued" /\ mreqs' = "done"
  /\ UNCHANGED <<main, preview, pump, h2t, t2h, stderr, closer, bridge, rec, person, human, shown, machine, target, taken, sent, lost, revoked, event, faults>>

\* Mutant: the person is left to close the channel.
execOverWaits == closer = "gone" /\ UNCHANGED execVars

\* The command is over and all of it delivered: the channel is closed for the
\* person.
execOver ==
  /\ closer = "wait" /\ outputDrained /\ mreqs = "done"
  /\ closer' = "done" /\ human' = "closed"
  /\ UNCHANGED <<main, preview, pump, h2t, t2h, stderr, mreqs, bridge, rec, person, shown, machine, target, taken, sent, lost, revoked, event, faults>>

CopiesDone == h2t # "copy" /\ t2h \in {"done", "failed"}

\* Bridge: ctx.Done is taken once, and then only results count.
bridgeCancelled ==
  /\ bridge = "run" /\ lost /\ bridge' = "draining" /\ Stop
  /\ UNCHANGED <<main, preview, pump, h2t, t2h, stderr, mreqs, closer, rec, person, shown, machine, taken, sent, lost, revoked, event, faults>>

\* Both copies are done.
bridgeReturns ==
  /\ bridge \in {"run", "draining"} /\ CopiesDone
  /\ IF bridge = "draining" \/ t2h = "failed"
       THEN bridge' = "error" /\ rec' = Finalized(rec, "aborted") /\ Stop /\ main' = "join"
       ELSE bridge' = "clean" /\ main' = "grace" /\ UNCHANGED <<rec, human, target>>
  /\ UNCHANGED <<preview, pump, h2t, t2h, stderr, mreqs, closer, person, shown, machine, taken, sent, lost, revoked, event, faults>>

\* closeAfterMachineDrain: the requests have ended, or ExitStatusGrace is over.
closeAfterMachineDrain ==
  /\ main = "grace" /\ main' = "join" /\ Stop
  /\ UNCHANGED <<preview, goroutines, rec, person, shown, machine, taken, sent, lost, revoked, event, faults>>

\* The stderr copy is waited for, the recording finished, the end journaled: as
\* a drop if it was the keepalive probe that closed the person's connection.
finish ==
  /\ main = "join" /\ stderr = "done"
  /\ \/ bridge # "clean" /\ event' = "drop" /\ UNCHANGED <<rec, faults>>
     \/ /\ bridge = "clean" /\ rec' = Finalized(rec, "completed") /\ UNCHANGED faults
        /\ event' \in {"stop"} \cup (IF person.gone THEN {"drop"} ELSE {})
     \/ bridge = "clean" /\ Fault /\ rec' = Finalized(rec, "aborted") /\ event' = "drop"
  /\ pump' = [pump EXCEPT !.stopped = TRUE] /\ Ends
  /\ UNCHANGED <<preview, h2t, t2h, stderr, mreqs, closer, bridge, person, human, shown, machine, target, taken, sent, lost, revoked>>

\* After the end nobody looks at either channel.
Environment ==
  main # "ended" /\ (PersonEnds \/ PersonCloses \/ revoke \/ endRevokedSession \/ revokeNoticeTimeout
                     \/ MachinePrints \/ MachineExits \/ MachineEOF \/ MachineCloses \/ MachineLost)

Session ==
  \/ pumpReads \/ pumpAppends \/ readScript
  \/ newRecordingFails \/ refuse \/ tellRefused \/ finishLateStdin \/ lateStdinUnread \/ startFails \/ start
  \/ h2tCopies \/ h2tEnds \/ t2hRecords \/ t2hShows \/ t2hEnds \/ stderrRecords \/ stderrShows \/ stderrEnds
  \/ proxyExit \/ proxyEnds \/ execOver \/ bridgeCancelled \/ bridgeReturns \/ closeAfterMachineDrain \/ finish

ExecNext == Environment \/ Session

ExecSpec == ExecInit /\ [][ExecNext]_execVars

\* The goroutines are scheduled, and the timer of a revocation; endLateStdin
\* closes the connection of a person who does not answer a refusal's close.  A
\* write to the person, or a close, comes back for certain only when the person
\* has gone: a client may be alive and not read.
ExecFairSpec ==
  /\ ExecSpec
  /\ WF_execVars(pumpReads) /\ WF_execVars(pumpAppends) /\ WF_execVars(readScript)
  /\ WF_execVars(newRecordingFails \/ refuse \/ startFails \/ start) /\ WF_execVars(person.gone /\ tellRefused) /\ WF_execVars(finishLateStdin)
  /\ WF_execVars(h2tCopies \/ h2tEnds) /\ WF_execVars(t2hRecords \/ t2hEnds) /\ WF_execVars(person.gone /\ t2hShows)
  /\ WF_execVars(stderrRecords \/ stderrEnds) /\ WF_execVars(person.gone /\ stderrShows)
  /\ WF_execVars(proxyExit \/ proxyEnds) /\ WF_execVars(execOver)
  /\ WF_execVars(bridgeCancelled \/ bridgeReturns) /\ WF_execVars(closeAfterMachineDrain) /\ WF_execVars(finish)
  /\ WF_execVars(person.gone /\ endRevokedSession) /\ WF_execVars(revokeNoticeTimeout)
  /\ WF_execVars((target = "closed" \/ lost) /\ MachineCloses)

-----------------------------------------------------------------------------
(* What a session promises. *)

ExecTypeOK ==
  /\ main \in {"script", "judged", "refused", "refusedLate", "late", "bridge", "grace", "join", "ended"} /\ preview \in BOOLEAN
  /\ pump.pc \in {"idle", "inRead", "done"} /\ pump.buf \in 0..MaxIn
  /\ h2t \in {"off", "copy", "done"} /\ t2h \in {"off", "copy", "hold", "done", "failed"}
  /\ stderr \in {"off", "copy", "hold", "done"} /\ mreqs \in {"off", "loop", "done"} /\ closer \in {"off", "wait", "done"}
  /\ bridge \in {"off", "run", "draining", "clean", "error"}
  /\ rec.status \in {"none", "open", "completed", "aborted", "unread"} /\ rec.lines \in Seq({"in", "out", "err", "exit"})
  /\ human \in {"open", "eof", "closed"} /\ target \in {"open", "eof", "closed"}
  /\ shown.out \in 0..MaxOut /\ shown.err \in 0..MaxErr
  /\ taken + person.left <= MaxIn /\ sent + pump.buf <= taken
  /\ event \in {"none", "stop", "drop"} /\ faults \in 0..MaxFaults

\* Nothing reaches the person that is not in the recording (bridge.go Bridge:
\* "there is no unrecorded tail of a session").
SeenIsRecorded == shown.out <= Lines("out") /\ shown.err <= Lines("err")

\* The exit status is the last word of the machine in the recording
\* (proxyMachineRequests): no chunk of output follows it.
ExitAfterOutput ==
  \A i, j \in DOMAIN rec.lines : rec.lines[i] = "exit" /\ i < j => rec.lines[j] \notin {"out", "err"}

\* Every chunk of stdin taken from a person who was then refused is in the
\* recording when it ends, a read in flight at the refusal included, unless the
\* recording itself says it is not (exec_stdin.go seal, drainAfterClose).
RefusedStdinIsRecorded ==
  shown.refused /\ rec.status \in {"completed", "aborted"} /\ ~rec.stdinLost => Lines("in") = taken

\* A recording called completed holds all the stdin that was passed on to the
\* machine (exec_recorder.go finalize).
CompletedIsWhole == rec.status = "completed" /\ ~shown.refused => Lines("in") = sent

\* The recording has all that passed, in both directions, though a write of it
\* fails, a check of stdin reads ahead or the command is refused meanwhile.
RecordingIsTrue == SeenIsRecorded /\ RefusedStdinIsRecorded /\ CompletedIsWhole

\* A session whose only last line is session.stop, of a person who stayed, with
\* a recording that never failed, has shown the person all that the machine sent
\* (human_role.go drainedAfter).  One that was revoked has its session.drop
\* before, and may be journaled as stopped with output that nobody saw.
StopIsComplete ==
  event = "stop" /\ ~revoked /\ ~person.early /\ faults = 0 =>
    machine.outQ = 0 /\ machine.errQ = 0 /\ shown.out = Lines("out") /\ shown.err = Lines("err")

\* The end of a session is its end: no output behind the exit status, none left
\* when the journal says the session stopped of itself.
EndIsLast == ExitAfterOutput /\ StopIsComplete

Over == machine.closed \/ lost \/ main \in {"refused", "refusedLate"}

\* Something was written to the client, or its channel closed, and it has not
\* taken that, nor gone.
ClientAwaited ==
  ~person.gone /\ (t2h = "hold" \/ stderr = "hold" \/ human = "closed" \/ main \in {"refused", "refusedLate"})

\* Once the command is over, or refused, or the machine lost, the session ends,
\* though the person keeps a terminal open (IAMT-306): all that can hold it is a
\* client which is alive and does not take what it is sent.  A revocation ends
\* it whatever the client does (IAMT-448).
SessionEnds == (Over \/ revoked) ~> (main = "ended" \/ (ClientAwaited /\ ~revoked))

\* Not so: a session that was revoked is also journaled as one that stopped "ok"
\* (human_role.go asks the bridge's error alone).
RevokedIsNoStop == ~(revoked /\ event = "stop")

\* PROTOCOL.md 4.2, exec_stdin.go: "Every byte the gateway took from the channel
\* is recorded either way."
TakenIsRecorded == main = "ended" /\ rec.status # "none" /\ ~rec.stdinLost => Lines("in") = taken
=============================================================================
