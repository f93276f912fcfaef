-------------------------------- MODULE Sftp --------------------------------
(***************************************************************************)
(* One sftp session: the proxy of internal/gateway/sftp_session.go between *)
(* the two copies of core/bridge.go, a person's client and the machine's   *)
(* sftp-server, from the first request to the line that ends the session   *)
(* (human_role.go serveHumanSession).                                      *)
(*                                                                         *)
(* Three goroutines move packets.  The writer is the bridge's copy of the  *)
(* person's stream: it judges, refuses or forwards.  The pump reads the    *)
(* machine's answers and writes the journal.  The reader is the bridge's   *)
(* copy to the person; it takes whole packets from the pump and from a     *)
(* writer that refuses, one at a time, over the channel toHuman.           *)
(*                                                                         *)
(* A packet is a request or an answer; the framing, the paths and the text *)
(* of a refusal are left out.  What the judge says is RiskGate's.  A chunk *)
(* of a file is one unit long.  A request carries its number, which only   *)
(* the properties look at.  A packet without an id, INIT among them, is    *)
(* taken for one the gateway does not read, its id free: it holds none.    *)
(***************************************************************************)
EXTENDS Naturals, Sequences, FiniteSets

CONSTANTS
  RequestIds,   \* request ids of the client
  Handles,      \* handles the sftp-server mints
  NoHandle,
  MaxRequests,  \* requests in a session
  MaxNaming,    \* the last of them that may be about anything; later ones name an open file, or create one ...
  MaxWork,      \* ... and the last that may be anything but a CLOSE
  MaxAt,        \* the greatest offset of a chunk
  MaxLogFaults  \* lines of a live session that a log which took the ones before it fails to take

ASSUME SftpAssumption == {MaxRequests, MaxNaming, MaxWork, MaxAt, MaxLogFaults} \subseteq Nat /\ NoHandle \notin Handles

VARIABLES
  session,   \* "bridge", "finish", "ended"
  bridging,  \* Bridge: "run", "draining" after ctx.Done, "clean", "error"
  writer,    \* the copy from the person: "copy", "judge", "reply", "done", "failed"
  request,   \* the request it is at
  puller,    \* the pump: "read", "send", "eof", "error"
  packet,    \* the packet it is at
  reader,    \* the copy to the person: "copy", "hold", "done", "failed"
  holding,   \* the packet it is at
  stopped,   \* the proxy's channel of that name is closed
  pending,   \* what each outstanding id was forwarded for
  files,     \* handles: what the proxy knows of each open file
  lines,     \* per request: its lines, with the logs that took each
  recording, \* "open", "completed", "aborted"
  near, far, \* our side of the person's and of the nested channel
  client,    \* the person: requests sent, at the end, gone
  seen,      \* numbers of the requests whose answer the person has
  given,     \* handle the person holds for a request, by its number
  server,    \* the sftp-server: inbox, outbox, open files, those open for writing, ended
  did,       \* requests by which it has changed something; for a chunk, its file's opening
  behind,    \* changes the gateway is not told of: <<request, file, kind>>
  allowed,   \* requests the judge has let through
  moved,     \* per opening request: the chunks that were passed on
  cancelled, \* mc.ctx
  logFaults

writerVars == <<writer, request>>
pumpVars == <<puller, packet>>
readerVars == <<reader, holding>>
tables == <<pending, files>>
proxyVars == <<writerVars, pumpVars, readerVars, stopped, tables>>
logVars == <<lines, recording, logFaults>>
channels == <<near, far>>
personVars == <<client, seen, given>>
ghosts == <<did, behind, allowed, moved>>
sftpVars == <<session, bridging, proxyVars, logVars, channels, personVars, server, ghosts, cancelled>>

None == [n |-> 0]
Numbers == 1..MaxRequests

SftpInit ==
  /\ session = "bridge" /\ bridging = "run"
  /\ writer = "copy" /\ request = None /\ puller = "read" /\ packet = None /\ reader = "copy" /\ holding = None
  /\ stopped = FALSE /\ pending = [i \in RequestIds |-> None] /\ files = [h \in Handles |-> None]
  /\ lines = [n \in Numbers |-> <<>>] /\ recording = "open" /\ logFaults = 0
  /\ near = "open" /\ far = "open"
  /\ client = [sent |-> 0, closed |-> {}, end |-> FALSE, gone |-> FALSE]
  /\ seen = {} /\ given = [n \in Numbers |-> NoHandle]
  /\ server = [inbox |-> <<>>, outbox |-> <<>>, open |-> [h \in Handles |-> 0], writable |-> {}, eof |-> FALSE]
  /\ did = {} /\ behind = {} /\ allowed = {} /\ moved = [n \in Numbers |-> <<>>] /\ cancelled = FALSE

-----------------------------------------------------------------------------
(* The journal: journalFile writes the line of a file operation to the      *)
(* recording, and to the event journal whatever became of that.  A          *)
(* recording that fails ends the session; what became of the event is not   *)
(* looked at: the session goes on, and the audit's health says so.          *)

FileLine(out, hash, size) == [out |-> out, sha |-> hash, size |-> size]
Logged(line, rec, log) == [out |-> line.out, sha |-> line.sha, size |-> line.size, recorded |-> rec, journaled |-> log]
LogFault == logFaults < MaxLogFaults /\ logFaults' = logFaults + 1
LineTo(n, line, recorded, journaled) == lines' = [lines EXCEPT ![n] = Append(@, Logged(line, recorded, journaled))]
Entered(n, line, recorded) ==
  \/ LineTo(n, line, recorded, TRUE) /\ UNCHANGED logFaults
  \/ LineTo(n, line, recorded, FALSE) /\ LogFault
Written(n, line) == recording = "open" /\ Entered(n, line, TRUE)
NotWritten(n, line) ==
  \/ recording # "open" /\ Entered(n, line, FALSE)
  \/ recording = "open" /\ LineTo(n, line, FALSE, TRUE) /\ LogFault

\* A file on its way, from the OPEN that named it.
newSFTPHandle(r) ==
  [n |-> r.n, dir |-> IF r.kind = "create" THEN "up" ELSE "down", moved |-> FALSE,
   size |-> 0, next |-> 0, sequential |-> TRUE, copied |-> FALSE]

\* Mutant: the hash goes on whatever the order.
observeAnyOrder(f, dir, at) ==
  [f EXCEPT !.moved = TRUE, !.dir = IF f.moved THEN @ ELSE dir, !.size = IF at + 1 > @ THEN at + 1 ELSE @, !.next = @ + 1]

\* A chunk passes: the first one settles the direction, and the hash goes on
\* while the chunks come in order, in that direction.
observe(f, dir, at) ==
  LET d == IF f.moved THEN f.dir ELSE dir
      inOrder == f.sequential /\ at = f.next /\ dir = d
  IN [f EXCEPT !.moved = TRUE, !.dir = d, !.size = IF at + 1 > @ THEN at + 1 ELSE @,
               !.sequential = inOrder, !.next = IF inOrder THEN @ + 1 ELSE @]

Observed(h, dir, at) == IF files[h] = None THEN files ELSE [files EXCEPT ![h] = observe(@, dir, at)]

sha(f) == IF f.copied THEN "copied" ELSE IF f.sequential THEN "hash" ELSE "none"

\* The line of a file that is closed, or was left open.
fileClosed(f, out) == FileLine(out, sha(f), IF f.copied THEN 0 ELSE f.size)

-----------------------------------------------------------------------------
(* The channels.  stop of the bridge closes both; sftpTargetStream.Close     *)
(* stops the proxy too.                                                      *)

CloseTarget == far' = "closed" /\ stopped' = TRUE

bridgeStop == near' = "closed" /\ CloseTarget
CanReach == near = "open" /\ ~client.gone
NearEOF == IF near = "open" THEN "eof" ELSE near
FarEOF == IF far = "open" THEN "eof" ELSE far

clientEnds ==
  /\ ~client.end /\ client' = [client EXCEPT !.end = TRUE]
  /\ UNCHANGED <<session, bridging, proxyVars, logVars, channels, seen, given, server, ghosts, cancelled>>

\* The client goes, or answers our close.  What it sent may still arrive.
clientCloses ==
  /\ ~client.gone /\ client' = [client EXCEPT !.end = TRUE, !.gone = TRUE]
  /\ UNCHANGED <<session, bridging, proxyVars, logVars, channels, seen, given, server, ghosts, cancelled>>

\* What the proxy takes for a change is judged.  "change" is any request that
\* names paths only, and an extension nobody has reviewed.
Judged == {"create", "change", "copy"}

\* "unread" is what it hands on without reading it: STAT and its like, a type it
\* does not know, or a CLOSE, READ or WRITE that does not parse.
Kinds == Judged \cup {"open", "close", "read", "write", "unread", "malformed"}
NeedsHandle == {"close", "read", "write", "copy"}

\* The lowest id that is free, or one that is still outstanding.
NextIds == {i \in RequestIds : pending[i] # None \/ \A j \in RequestIds : pending[j] = None => i <= j}

\* A client names the handles it was given and has not closed.
Holds(h) == \E m \in Numbers : given[m] = h /\ m \notin client.closed
Requests(n) ==
  {r \in [n : {n}, id : NextIds, kind : Kinds, h : Handles \cup {NoHandle}, at : 0..MaxAt] :
     /\ r.kind \in NeedsHandle <=> r.h # NoHandle
     /\ r.h # NoHandle => Holds(r.h)
     /\ n > MaxNaming => r.h # NoHandle \/ r.kind = "create"
     /\ n > MaxWork => r.kind = "close"
     /\ r.kind \notin {"read", "write"} => r.at = 0}

-----------------------------------------------------------------------------
(* sftpTargetStream.Write. *)

Other(r) == [n |-> r.n, kind |-> "other", h |-> NoHandle, at |-> 0]

\* Mutant: an id that is still outstanding is taken for another request.
reservedNever(r) == FALSE

\* reserve: an id may not be used again before its answer.
reserved(r) == pending[r.id] # None

\* setPending, and the packet goes to the machine.  A channel that has ended
\* gives io.EOF, which the bridge takes for the end of its copy.
forward(r, what) ==
  /\ pending' = [pending EXCEPT ![r.id] = what]
  /\ IF far = "open" /\ ~server.eof
       THEN /\ server' = [server EXCEPT !.inbox = Append(@, r)] /\ writer' = "copy" /\ UNCHANGED far
            /\ moved' = IF r.kind = "write" /\ files[r.h] # None
                          THEN [moved EXCEPT ![files[r.h].n] = Append(@, <<"up", r.at>>)] ELSE moved
       ELSE writer' = "done" /\ far' = FarEOF /\ UNCHANGED <<server, moved>>

\* Mutant: copy-data changes no file that the gateway would see.
judgedButCopies == Judged \ {"copy"}

judgedKinds == Judged

\* handleClientPacket.
handleClientPacket ==
  /\ writer = "copy" /\ ~client.end /\ client.sent < MaxRequests
  /\ \E r \in Requests(client.sent + 1) :
       /\ client' = [client EXCEPT !.sent = @ + 1,
                                  !.closed = IF r.kind = "close" THEN @ \cup {m \in Numbers : given[m] = r.h} ELSE @]
       /\ \/ /\ reserved(r) /\ writer' = "failed" /\ bridgeStop
             /\ UNCHANGED <<request, tables, server, moved>>
          \/ /\ ~reserved(r) /\ r.kind \in judgedKinds
             /\ pending' = [pending EXCEPT ![r.id] = Other(r)] /\ request' = r /\ writer' = "judge"
             /\ UNCHANGED <<files, server, moved, channels, stopped>>
          \/ /\ ~reserved(r) /\ r.kind = "malformed" /\ request' = r /\ writer' = "reply"
             /\ UNCHANGED <<tables, server, moved, channels, stopped>>
          \/ /\ ~reserved(r) /\ r.kind \notin judgedKinds \cup {"malformed"}
             /\ files' = IF r.kind = "write" THEN Observed(r.h, "up", r.at) ELSE files
             /\ forward(r, IF r.kind \in {"write", "unread"} THEN Other(r) ELSE r)
             /\ UNCHANGED <<request, near, stopped>>
  /\ UNCHANGED <<session, bridging, pumpVars, readerVars, logVars, seen, given, did, behind, allowed, cancelled>>

\* judge lets the request through ...
judgeAllows ==
  /\ writer = "judge" /\ forward(request, request)
  /\ allowed' = allowed \cup {request.n} /\ request' = None
  /\ UNCHANGED <<session, bridging, pumpVars, readerVars, stopped, files, logVars, near, personVars, did, behind, cancelled>>

\* ... or not: the refusal is journaled, the person told on stderr, through the
\* recording, and the id is free again.
judgeRefuses ==
  /\ writer = "judge"
  /\ pending' = [pending EXCEPT ![request.id] = None]
  /\ LET line == FileLine("denied", "none", 0)
     IN \/ /\ Written(request.n, line) /\ CanReach
           /\ writer' = "reply" /\ UNCHANGED <<request, channels, stopped>>
        \/ /\ Written(request.n, line) /\ ~CanReach
           /\ writer' = "done" /\ far' = FarEOF /\ request' = None /\ UNCHANGED <<near, stopped>>
        \/ /\ NotWritten(request.n, line)
           /\ writer' = "failed" /\ bridgeStop /\ request' = None
  /\ UNCHANGED <<session, bridging, pumpVars, readerVars, files, recording, personVars, server, ghosts, cancelled>>

\* sendToHuman of a refusal ends without a reader once the proxy is stopped.
refusalGivenUp ==
  /\ writer = "reply" /\ stopped /\ writer' = "failed" /\ request' = None /\ bridgeStop
  /\ UNCHANGED <<session, bridging, pumpVars, readerVars, tables, logVars, personVars, server, ghosts, cancelled>>

\* The person's end is passed on.
writerEnds ==
  /\ writer = "copy" /\ client.end
  /\ writer' = "done" /\ far' = FarEOF
  /\ UNCHANGED <<session, bridging, request, pumpVars, readerVars, stopped, tables, logVars, near, personVars, server, ghosts, cancelled>>

-----------------------------------------------------------------------------
(* The machine's sftp-server takes requests in order and answers each once.   *)

Reply(r, type) == [n |-> r.n, id |-> r.id, type |-> type, h |-> r.h]

\* The head of the inbox is answered and the opened, or closed, file noted.
Replies(a, open) ==
  server' = [server EXCEPT !.inbox = Tail(@), !.outbox = Append(@, a), !.open = open]

Passed(n, dir, at) == moved' = [moved EXCEPT ![n] = Append(@, <<dir, at>>)]
Changes(n) == did' = did \cup {n} /\ UNCHANGED behind
Behind(r, file) == behind' = behind \cup {<<r.n, file, r.kind>>} /\ UNCHANGED did
Spares == UNCHANGED <<did, behind>>

\* The head of the inbox is answered with the handle of a file it opens.
Opens(r, h) ==
  server' = [server EXCEPT !.inbox = Tail(@), !.outbox = Append(@, [Reply(r, "handle") EXCEPT !.h = h]), !.open[h] = r.n,
                           !.writable = IF r.kind = "create" THEN @ \cup {h} ELSE @ \ {h}]

\* What it carries out.  It writes only through a handle that was opened for
\* writing, even where it answers that it could not write all; what the gateway
\* has not read may change any file, but opens and closes none.
carriesOut(r) ==
  LET file == IF r.h = NoHandle THEN 0 ELSE server.open[r.h]
  IN \/ /\ r.kind = "open" /\ Spares /\ UNCHANGED moved
        /\ \E h \in Handles : server.open[h] = 0 /\ Opens(r, h)
     \/ /\ r.kind = "create" /\ Changes(r.n) /\ UNCHANGED moved
        /\ \E h \in Handles : server.open[h] = 0 /\ Opens(r, h)
     \/ /\ r.kind = "close" /\ file # 0 /\ Spares /\ UNCHANGED moved
        /\ Replies(Reply(r, "ok"), [server.open EXCEPT ![r.h] = 0])
     \/ /\ r.kind = "read" /\ file # 0 /\ Spares /\ Passed(file, "down", r.at)
        /\ Replies(Reply(r, "data"), server.open)
     \/ /\ r.kind = "copy" /\ file # 0 /\ r.h \in server.writable /\ Changes(r.n) /\ Passed(file, "copy", 0)
        /\ Replies(Reply(r, "ok"), server.open)
     \/ /\ r.kind = "write" /\ file # 0 /\ r.h \in server.writable /\ Changes(file) /\ UNCHANGED moved
        /\ \E type \in {"ok", "fail"} : Replies(Reply(r, type), server.open)
     \/ /\ r.kind = "change" /\ Changes(r.n) /\ UNCHANGED moved
        /\ \E type \in {"ok", "reply"} : Replies(Reply(r, type), server.open)
     \/ /\ r.kind = "unread" /\ UNCHANGED moved /\ Replies(Reply(r, "ok"), server.open)
        /\ Spares \/ \E f \in {server.open[h] : h \in Handles} : Behind(r, f)

\* A copy, or another change, that fails half-way.
failsHalfway(r) ==
  /\ r.kind \in {"copy", "change"} /\ (r.kind = "copy" => server.open[r.h] # 0 /\ r.h \in server.writable)
  /\ Behind(r, IF r.kind = "copy" THEN server.open[r.h] ELSE 0)
  /\ UNCHANGED moved /\ Replies(Reply(r, "fail"), server.open)

refuses(r) == Replies(Reply(r, "fail"), server.open) /\ Spares /\ UNCHANGED moved

serve ==
  /\ server.inbox # <<>> /\ ~server.eof
  /\ LET r == Head(server.inbox) IN carriesOut(r) \/ failsHalfway(r) \/ refuses(r)
  /\ UNCHANGED <<session, bridging, proxyVars, logVars, channels, personVars, allowed, cancelled>>

\* It ends: by itself, or when its channel is closed.
serverEnds ==
  /\ ~server.eof /\ server' = [server EXCEPT !.eof = TRUE, !.inbox = <<>>]
  /\ UNCHANGED <<session, bridging, proxyVars, logVars, channels, personVars, ghosts, cancelled>>

\* The machine's transport is lost, and mc.ctx cancelled with it.
transportLost ==
  /\ ~cancelled /\ cancelled' = TRUE
  /\ server' = [server EXCEPT !.eof = TRUE, !.inbox = <<>>]
  /\ UNCHANGED <<session, bridging, proxyVars, logVars, channels, personVars, ghosts>>

-----------------------------------------------------------------------------
(* pump and handleServerPacket. *)

\* finishOp: the line of a resolved request, if it gets one.
finishOp(p, out) ==
  IF p.kind \in {"open"} \cup Judged THEN [n |-> p.n, line |-> FileLine(out, "none", 0)]
  ELSE IF p.kind = "close" /\ files[p.h] # None THEN [n |-> files[p.h].n, line |-> fileClosed(files[p.h], out)]
  ELSE None

opOutcome(a) == IF a.type = "fail" THEN "failed" ELSE "ok"
Resolves(p, a) == a.type \in {"ok", "fail"} \/ (a.type = "reply" /\ p.kind = "change")

\* Mutant: a copy leaves the hash of its destination as it was.
copyForgotten(p) == files[p.h]

\* copy-data has written to a file behind the gateway's back.
copyDone(p) == [files[p.h] EXCEPT !.copied = TRUE, !.dir = "up"]

\* The file table after an answer.
filesAfter(p, a) ==
  CASE a.type = "handle" /\ p.kind \in {"open", "create"} -> [files EXCEPT ![a.h] = newSFTPHandle(p)]
    [] a.type = "data" /\ p.kind = "read" -> Observed(p.h, "down", p.at)
    [] Resolves(p, a) /\ p.kind = "close" -> [files EXCEPT ![p.h] = None]
    [] a.type = "ok" /\ p.kind = "copy" /\ files[p.h] # None -> [files EXCEPT ![p.h] = copyDone(p)]
    [] OTHER -> files

\* The id is free, the file table follows, and what is complete is journaled; a
\* recording that fails ends the pump.
handleServerPacket(a) ==
  LET p == pending[a.id]
      done == IF p # None /\ Resolves(p, a) THEN finishOp(p, opOutcome(a)) ELSE None
  IN /\ pending' = [pending EXCEPT ![a.id] = None]
     /\ files' = IF p = None THEN files ELSE filesAfter(p, a)
     /\ \/ done = None /\ puller' = "send" /\ UNCHANGED <<lines, logFaults>>
        \/ done # None /\ puller' = "send" /\ Written(done.n, done.line)
        \/ done # None /\ puller' = "error" /\ NotWritten(done.n, done.line)

pumpTakes ==
  /\ puller = "read" /\ server.outbox # <<>>
  /\ handleServerPacket(Head(server.outbox)) /\ server' = [server EXCEPT !.outbox = Tail(@)]
  /\ packet' = IF puller' = "send" THEN Head(server.outbox) ELSE None
  /\ UNCHANGED <<session, bridging, writerVars, readerVars, stopped, recording, channels, personVars, ghosts, cancelled>>

pumpEnds ==
  /\ \/ puller = "read" /\ server.outbox = <<>> /\ server.eof /\ puller' = "eof"
     \/ puller = "send" /\ stopped /\ puller' = "error"
  /\ packet' = None
  /\ UNCHANGED <<session, bridging, writerVars, readerVars, stopped, tables, logVars, channels, personVars, server, ghosts, cancelled>>

-----------------------------------------------------------------------------
(* sftpTargetStream.Read in the copy to the person. *)

Refusal(r) == [n |-> r.n, id |-> r.id, type |-> "refusal", h |-> NoHandle]

readerTakesAnswer ==
  /\ reader = "copy" /\ puller = "send"
  /\ reader' = "hold" /\ holding' = packet /\ puller' = "read" /\ packet' = None
  /\ UNCHANGED <<session, bridging, writerVars, stopped, tables, logVars, channels, personVars, server, ghosts, cancelled>>

readerTakesRefusal ==
  /\ reader = "copy" /\ writer = "reply"
  /\ reader' = "hold" /\ holding' = Refusal(request) /\ writer' = "copy" /\ request' = None
  /\ UNCHANGED <<session, bridging, pumpVars, stopped, tables, logVars, channels, personVars, server, ghosts, cancelled>>

\* The person has the packet; or the channel has ended, and with it the copy.
readerShows ==
  /\ reader = "hold" /\ holding' = None
  /\ IF CanReach
       THEN /\ reader' = "copy" /\ seen' = seen \cup {holding.n} /\ UNCHANGED near
            /\ given' = IF holding.type = "handle" THEN [given EXCEPT ![holding.n] = holding.h] ELSE given
       ELSE reader' = "done" /\ near' = NearEOF /\ UNCHANGED <<seen, given>>
  /\ UNCHANGED <<session, bridging, writerVars, pumpVars, stopped, tables, logVars, far, client, server, ghosts, cancelled>>

\* pumpDone: the end of the machine's stream, or why the pump gave up.
readerEnds ==
  /\ reader = "copy" /\ puller \in {"eof", "error"}
  /\ IF puller = "eof" THEN reader' = "done" /\ near' = NearEOF /\ UNCHANGED <<far, stopped>>
                       ELSE reader' = "failed" /\ bridgeStop
  /\ UNCHANGED <<session, bridging, writerVars, pumpVars, holding, tables, logVars, personVars, server, ghosts, cancelled>>

-----------------------------------------------------------------------------
(* Bridge and the end of the session. *)

cancel ==
  /\ bridging = "run" /\ cancelled /\ bridging' = "draining" /\ bridgeStop
  /\ UNCHANGED <<session, writerVars, pumpVars, readerVars, tables, logVars, personVars, server, ghosts, cancelled>>

\* Both copies are done.  A clean end closes the channels after the machine's
\* requests have drained (closeAfterMachineDrain), not through the proxy.
bridgeDone ==
  /\ bridging \in {"run", "draining"} /\ writer \in {"done", "failed"} /\ reader \in {"done", "failed"}
  /\ session' = "finish"
  /\ IF bridging = "draining" \/ writer = "failed" \/ reader = "failed"
       THEN bridging' = "error" /\ recording' = "aborted" /\ bridgeStop
       ELSE bridging' = "clean" /\ near' = "closed" /\ far' = "closed" /\ UNCHANGED <<recording, stopped>>
  /\ UNCHANGED <<writerVars, pumpVars, readerVars, tables, lines, logFaults, personVars, server, ghosts, cancelled>>

\* Mutant: files that are still open are forgotten.
finishForgets == UNCHANGED lines

\* Every file still open gets its line, with what the gateway has counted; what
\* either log makes of it is not looked at.
unclosedLine(n) ==
  LET f == CHOOSE f \in {files[h] : h \in Handles} : f # None /\ f.n = n
  IN FileLine("unclosed", sha(f), f.size)

unclosed == {files[h].n : h \in {k \in Handles : files[k] # None}}
leftOpen ==
  \E recorded \in SUBSET (IF recording = "open" THEN unclosed ELSE {}), journaled \in SUBSET unclosed :
    lines' = [n \in Numbers |->
      IF n \in unclosed THEN Append(lines[n], Logged(unclosedLine(n), n \in recorded, n \in journaled)) ELSE lines[n]]

\* finish of the proxy, Finish of the recording, and the session's last line.
sessionFinish ==
  /\ session = "finish" /\ session' = "ended" /\ stopped' = TRUE
  /\ leftOpen /\ files' = [h \in Handles |-> None]
  /\ recording' = IF recording = "open" THEN "completed" ELSE recording
  /\ UNCHANGED <<bridging, writerVars, pumpVars, readerVars, pending, logFaults, channels, personVars, server, ghosts, cancelled>>

Peers ==
  session # "ended" /\ (clientEnds \/ clientCloses \/ serve \/ serverEnds \/ transportLost)

Goroutines ==
  \/ handleClientPacket \/ judgeAllows \/ judgeRefuses \/ refusalGivenUp \/ writerEnds
  \/ pumpTakes \/ pumpEnds
  \/ readerTakesAnswer \/ readerTakesRefusal \/ readerShows \/ readerEnds
  \/ cancel \/ bridgeDone \/ sessionFinish

SftpNext == Peers \/ Goroutines

SftpSpec == SftpInit /\ [][SftpNext]_sftpVars

\* The goroutines are scheduled, the judge answers, and a peer answers a close
\* or is found dead by the keepalive probe.
SftpFairness ==
  /\ WF_sftpVars(judgeAllows \/ judgeRefuses) /\ WF_sftpVars(refusalGivenUp) /\ WF_sftpVars(writerEnds)
  /\ WF_sftpVars(pumpTakes) /\ WF_sftpVars(pumpEnds)
  /\ WF_sftpVars(readerTakesAnswer \/ readerTakesRefusal \/ readerShows \/ readerEnds)
  /\ WF_sftpVars(cancel \/ bridgeDone) /\ WF_sftpVars(sessionFinish)
  /\ WF_sftpVars(near = "closed" /\ clientCloses)
  /\ WF_sftpVars(far = "closed" /\ serverEnds)

SftpFairSpec == SftpSpec /\ SftpFairness

-----------------------------------------------------------------------------
\* Types; a goroutine has a packet exactly where it needs one, and the hash has
\* never taken in more than the file is long.
SftpTypeOK ==
  /\ session \in {"bridge", "finish", "ended"} /\ bridging \in {"run", "draining", "clean", "error"}
  /\ writer \in {"copy", "judge", "reply", "done", "failed"} /\ puller \in {"read", "send", "eof", "error"}
  /\ reader \in {"copy", "hold", "done", "failed"} /\ recording \in {"open", "completed", "aborted"}
  /\ (writer \in {"judge", "reply"}) = (request # None) /\ (puller = "send") = (packet # None) /\ (reader = "hold") = (holding # None)
  /\ near \in {"open", "eof", "closed"} /\ far \in {"open", "eof", "closed"}
  /\ \A h \in Handles : files[h] # None => files[h].next <= files[h].size
  /\ did \cup allowed \cup seen \subseteq Numbers /\ logFaults \in 0..MaxLogFaults

\* Nothing on the machine is changed, whole or half-way, but by a request the
\* judge has let through, or by a chunk of a file it has let somebody open for
\* writing; what the gateway hands on without reading it is the exception
\* (sftp_session.go decideClientPacket).
NothingChangesUnjudged ==
  /\ did \subseteq allowed
  /\ \A b \in behind : b[1] \in allowed \/ b[3] = "unread"

\* What the person has seen done, or failing half-way, is in the recording with
\* the machine's outcome, whatever ids the client uses: the answer comes after
\* its line, and not at all if the recording fails.  The journal has it too,
\* unless that append failed.
Recorded(n, out) == \E i \in DOMAIN lines[n] : lines[n][i].out = out /\ lines[n][i].recorded
SeenIsRecorded ==
  \A n \in seen :
    /\ n \in did /\ given[n] = NoHandle => Recorded(n, "ok")
    /\ (\E b \in behind : b[1] = n /\ b[3] # "unread") => Recorded(n, "failed")

\* A file whose handle the person was given has one line once the session is
\* over, closed or not ("a partial upload is never silent"), and never two; what
\* misses it is a journal whose append failed and a recording that had failed.
FilesAreAccounted ==
  \A n \in Numbers :
    /\ Len(lines[n]) <= 1
    /\ session = "ended" /\ given[n] # NoHandle => Len(lines[n]) = 1

\* A closed file's hash is of all the bytes that went through the gateway, in
\* one direction and in order, whatever the machine made of a write; and no copy
\* the machine answered for has written to the file as well (sha).
HashIsWhole ==
  \A n \in Numbers : \A i \in DOMAIN lines[n] :
    lines[n][i].out = "ok" /\ lines[n][i].sha = "hash" =>
      /\ Len(moved[n]) = lines[n][i].size
      /\ \E dir \in {"up", "down"} : \A j \in DOMAIN moved[n] : moved[n][j] = <<dir, j - 1>>

\* The lines tell of a session's files what happened to them: a line for what
\* was seen, one line for a file, a hash only of the whole file.
LinesAreTrue == SeenIsRecorded /\ FilesAreAccounted /\ HashIsWhole

\* When the machine's transport is lost the session ends, a refusal nobody
\* reads any more included (stop of the proxy).
SftpEnds == cancelled ~> session = "ended"

\* stop "releases the pump and any refusal waiting to be read, once nobody will
\* read from this proxy again".
RefusalReleased == reader \in {"done", "failed"} ~> writer # "reply"

\* What the gateway would have to read for these: no packet changes the machine
\* unjudged, and a hash is of what is in the file, a failed copy included.
EveryChangeIsJudged == \A b \in behind : b[1] \in allowed
HashIsOfTheFile ==
  \A n \in Numbers : \A i \in DOMAIN lines[n] :
    lines[n][i].out = "ok" /\ lines[n][i].sha = "hash" => \A b \in behind : b[2] # n
=============================================================================
