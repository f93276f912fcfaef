------------------------------ MODULE LiveTail ------------------------------
(***************************************************************************)
(* Watching a session while it happens: the registry of live recordings    *)
(* (internal/gateway/live_tail.go) between the session that writes one, the *)
(* administrators who follow it with sessions.tail, and the machine it      *)
(* happens on, which asks over its control channel (control_inbound.go).    *)
(*                                                                         *)
(* One session is enough: its end, the requests of its watchers, and the    *)
(* sweeps that any other session's requests make run beside each other.     *)
(* A watcher may have several requests going at once.  A chunk of the       *)
(* recording is one unit long and a request takes all there is.             *)
(***************************************************************************)
EXTENDS Naturals

CONSTANTS
  Asks,           \* requests: each is made once
  Admins,         \* who makes them: administrators,
  OwnMachine,     \* or the machine the session is on
  Grace,          \* drainGrace
  MaxChunks,      \* chunks of the recording, its last line included
  MaxClock,
  MaxEpochs,      \* connections of the machine
  MaxLostWatches  \* appends to the journal that fail

ASSUME LiveTailAssumption ==
  /\ OwnMachine \notin Admins
  /\ {Grace, MaxChunks, MaxClock, MaxEpochs, MaxLostWatches} \subseteq Nat
  /\ MaxEpochs > 0 /\ MaxChunks > 0

VARIABLES
  serving,    \* serveHumanSession: "start", "bridge", "finished", "closed", "over"
  chunks,     \* what the recording holds
  entry,      \* its entry of the registry: when the session ended, who is marked
  clock,
  epoch,      \* the machine's connection
  marked,    \* the connections that are marked as watching
  asker,      \* per request: who makes it
  ask,        \* per request: where it stands, and its answer
  watches,    \* per asker: session.watch lines the journal answered for
  spoilt,     \* per asker: lines whose write failed in its sync, all there
  lostWatches

liveVars == <<serving, chunks, entry, clock, epoch, marked, asker, ask, watches, spoilt, lostWatches>>

Askers == Admins \cup {OwnMachine}

NoEntry == [known |-> FALSE]
NotOver == MaxClock + 1
Running(e) == IF e.known THEN e.ended = NotOver ELSE FALSE

Unasked == [at |-> "no", live |-> FALSE, known |-> FALSE, total |-> 0, epoch |-> 0]

LiveTailInit ==
  /\ serving = "start" /\ chunks = 0 /\ entry = NoEntry /\ clock = 0
  /\ epoch = 1 /\ marked = {}
  /\ asker \in [Asks -> Askers] /\ ask = [a \in Asks |-> Unasked]
  /\ watches = [w \in Askers |-> 0] /\ spoilt = [w \in Askers |-> 0] /\ lostWatches = 0

-----------------------------------------------------------------------------
(* The session (human_role.go serveHumanSession). *)

addFile ==
  /\ serving = "start" /\ serving' = "bridge"
  /\ entry' = [known |-> TRUE, ended |-> NotOver, watchers |-> {}]
  /\ UNCHANGED <<chunks, clock, epoch, marked, ask, watches, spoilt, lostWatches, asker>>

Records ==
  /\ serving = "bridge" /\ chunks + 1 < MaxChunks /\ chunks' = chunks + 1
  /\ UNCHANGED <<serving, entry, clock, epoch, marked, ask, watches, spoilt, lostWatches, asker>>

\* Mutant: the registry lets go of the session before its last line is written.
FinishForgotten ==
  /\ serving = "bridge" /\ serving' = "finished" /\ chunks' = chunks + 1
  /\ entry' = [entry EXCEPT !.ended = clock]
  /\ UNCHANGED <<clock, epoch, marked, ask, watches, spoilt, lostWatches, asker>>

\* Finish of the recording writes its last line; then the ACL forgets the
\* session.
Finish ==
  /\ serving = "bridge" /\ serving' = "finished" /\ chunks' = chunks + 1
  /\ UNCHANGED <<entry, clock, epoch, marked, ask, watches, spoilt, lostWatches, asker>>

aclClose ==
  /\ serving = "finished" /\ serving' = "closed"
  /\ UNCHANGED <<chunks, entry, clock, epoch, marked, ask, watches, spoilt, lostWatches, asker>>

\* sweepLocked: whoever looks at the registry drops what has been over for
\* longer than the grace.
Over(e) == IF e.known THEN e.ended # NotOver /\ clock - e.ended > Grace ELSE FALSE
Swept(e) == IF Over(e) THEN NoEntry ELSE e

\* The deferred remove is the last thing the session does.
remove ==
  /\ serving = "closed" /\ serving' = "over"
  /\ entry' = Swept([entry EXCEPT !.ended = clock])
  /\ UNCHANGED <<chunks, clock, epoch, marked, ask, watches, spoilt, lostWatches, asker>>

\* A request about another session.
sweep ==
  /\ entry' = Swept(entry)
  /\ UNCHANGED <<serving, chunks, clock, epoch, marked, ask, watches, spoilt, lostWatches, asker>>

LiveTick ==
  /\ clock < MaxClock /\ clock' = clock + 1
  /\ UNCHANGED <<serving, chunks, entry, epoch, marked, ask, watches, spoilt, lostWatches, asker>>

\* The machine comes back on a new connection, which has marked nothing.
reconnect ==
  /\ epoch < MaxEpochs /\ epoch' = epoch + 1
  /\ UNCHANGED <<serving, chunks, entry, clock, marked, ask, watches, spoilt, lostWatches, asker>>

-----------------------------------------------------------------------------
(* cmdSessionsTail, and tailForMachine before it. *)

Goes(a, to) == ask' = [ask EXCEPT ![a].at = to]
Journaled(w) == watches' = [watches EXCEPT ![w] = @ + 1] /\ UNCHANGED <<spoilt, lostWatches>>

\* A failed append leaves no line, or the whole of it if the sync failed.
Lost(w) ==
  /\ lostWatches < MaxLostWatches /\ lostWatches' = lostWatches + 1
  /\ UNCHANGED spoilt \/ spoilt' = [spoilt EXCEPT ![w] = @ + 1]
  /\ UNCHANGED watches

\* Mutant: a session that is unknown is answered as one that goes on.
NothingYet(a) == ask' = [ask EXCEPT ![a].at = "answered", ![a].live = TRUE]

\* Nothing to follow: total is the offset that was asked for, live is false.
\* That is also the answer about a session that the ACL has and addFile has not.
Nothing(a) == Goes(a, IF serving = "start" THEN "early" ELSE "answered")

\* The machine's own rule: the session is on it, by the ACL or, for as long as
\* the grace lasts, by the registry.
Listed == serving \in {"start", "bridge", "finished"}

ownsSession(a) ==
  /\ ask[a].at = "no" /\ asker[a] = OwnMachine
  /\ entry' = IF Listed THEN entry ELSE Swept(entry)
  /\ IF Listed \/ entry'.known
       THEN ask' = [ask EXCEPT ![a].at = "note", ![a].epoch = epoch] ELSE Nothing(a)
  /\ UNCHANGED <<serving, chunks, clock, epoch, marked, watches, spoilt, lostWatches, asker>>

\* While the journal is not written nothing that must leave a trace is done:
\* the machine is asked for it here, an administrator before the command.
refusedForAudit(a) ==
  /\ lostWatches > 0
  /\ ask[a].at = IF asker[a] = OwnMachine THEN "note" ELSE "no"
  /\ Goes(a, "refused")
  /\ UNCHANGED <<serving, chunks, entry, clock, epoch, marked, watches, spoilt, lostWatches, asker>>

\* Mutant: a second request that waited for watchMu does not look again.
stillUnwatched(e) == TRUE

unwatched(e) == e \notin marked

\* noteWatching: one look at the mark ...
noteWatching(a) ==
  /\ ask[a].at = "note"
  /\ Goes(a, IF ask[a].epoch \in marked THEN "lookup" ELSE "noteLocked")
  /\ UNCHANGED <<serving, chunks, entry, clock, epoch, marked, watches, spoilt, lostWatches, asker>>

\* ... and one under watchMu, held across the write; marked once it is on disk.
\* A connection that has gone keeps its own mark.
noteLocked(a) ==
  /\ ask[a].at = "noteLocked"
  /\ \/ ~unwatched(ask[a].epoch) /\ Goes(a, "lookup") /\ UNCHANGED <<marked, watches, spoilt, lostWatches>>
     \/ /\ unwatched(ask[a].epoch) /\ Journaled(OwnMachine) /\ Goes(a, "lookup")
        /\ marked' = marked \cup {ask[a].epoch}
     \/ unwatched(ask[a].epoch) /\ Lost(OwnMachine) /\ Goes(a, "refused") /\ UNCHANGED marked
  /\ UNCHANGED <<serving, chunks, entry, clock, epoch, asker>>

\* file: the path, and whether the session is still running, at one moment.
lookup(a) ==
  /\ ask[a].at = IF asker[a] = OwnMachine THEN "lookup" ELSE "no"
  /\ entry' = Swept(entry)
  /\ IF entry'.known
       THEN ask' = [ask EXCEPT ![a].at = IF asker[a] = OwnMachine THEN "read" ELSE "check",
                               ![a].known = TRUE, ![a].live = Running(entry')]
       ELSE Nothing(a)
  /\ UNCHANGED <<serving, chunks, clock, epoch, marked, watches, spoilt, lostWatches, asker>>

\* A session that the registry does not know counts as recorded.
watchRecorded(w) == IF entry.known THEN w \in entry.watchers ELSE TRUE

check(a) ==
  /\ ask[a].at = "check"
  /\ Goes(a, IF watchRecorded(asker[a]) THEN "read" ELSE "locked")
  /\ UNCHANGED <<serving, chunks, entry, clock, epoch, marked, watches, spoilt, lostWatches, asker>>

\* Mutant: the watcher is marked before the line is on disk.
markedFirst(a, ok) == [entry EXCEPT !.watchers = @ \cup {asker[a]}]

markWatchRecorded(a, ok) == IF ok THEN [entry EXCEPT !.watchers = @ \cup {asker[a]}] ELSE entry

\* The second look, under recordMu, and the line; a failed write refuses.
recordWatch(a) ==
  /\ ask[a].at = "locked"
  /\ \/ watchRecorded(asker[a]) /\ Goes(a, "read") /\ UNCHANGED <<entry, watches, spoilt, lostWatches>>
     \/ /\ ~watchRecorded(asker[a]) /\ Journaled(asker[a]) /\ Goes(a, "read")
        /\ entry' = markWatchRecorded(a, TRUE)
     \/ /\ ~watchRecorded(asker[a]) /\ Lost(asker[a]) /\ Goes(a, "refused")
        /\ entry' = markWatchRecorded(a, FALSE)
  /\ UNCHANGED <<serving, chunks, clock, epoch, marked, asker>>

\* The file is opened, its size taken, and the bytes read.
readFile(a) ==
  /\ ask[a].at = "read" /\ ask' = [ask EXCEPT ![a].at = "answered", ![a].total = chunks]
  /\ UNCHANGED <<serving, chunks, entry, clock, epoch, marked, watches, spoilt, lostWatches, asker>>

LiveTailNext ==
  \/ addFile \/ Records \/ Finish \/ aclClose \/ remove \/ sweep \/ LiveTick \/ reconnect
  \/ \E a \in Asks :
       \/ ownsSession(a) \/ refusedForAudit(a) \/ noteWatching(a) \/ noteLocked(a)
       \/ lookup(a) \/ check(a) \/ recordWatch(a) \/ readFile(a)

LiveTailSpec == LiveTailInit /\ [][LiveTailNext]_liveVars

-----------------------------------------------------------------------------
\* Types; an answer says live only of a recording it has found.
LiveTailTypeOK ==
  /\ serving \in {"start", "bridge", "finished", "closed", "over"} /\ chunks \in 0..MaxChunks
  /\ entry = NoEntry \/ (entry.ended \in 0..NotOver /\ entry.watchers \subseteq Admins)
  /\ clock \in 0..MaxClock /\ epoch \in 1..MaxEpochs /\ marked \subseteq 1..epoch
  /\ asker \in [Asks -> Askers]
  /\ \A a \in Asks :
       /\ ask[a].at \in {"no", "note", "noteLocked", "lookup", "check", "locked", "read", "refused", "early", "answered"}
       /\ ask[a].live => ask[a].known
  /\ \A w \in Askers : watches[w] \in Nat /\ spoilt[w] \in Nat
  /\ lostWatches \in 0..MaxLostWatches

\* Nobody reads on in a recording that the registry still names, and the machine
\* in none at all, unless a session.watch of theirs was answered for: a failed
\* append refuses, and leaves no mark behind (cmdSessionsTail, noteWatching).
LiveBytesAreJournaled ==
  \A a \in Asks :
    ask[a].at = "read" /\ (entry.known \/ asker[a] = OwnMachine) => watches[asker[a]] > 0

\* Requests that arrive together write one line between them: one for each
\* administrator, one for each connection of the machine (recordMu, watchMu).  A
\* line more is there only where an append failed: in its sync, with the line
\* already in the file, so that the next request writes it again.
OneWatchLine ==
  /\ \A w \in Admins : watches[w] <= 1
  /\ watches[OwnMachine] <= epoch
  /\ \A w \in Askers : spoilt[w] <= lostWatches

\* Watching leaves a line before the first byte and no second one but after a
\* failed append, whatever requests arrive together.
WatchIsRecordedOnce == LiveBytesAreJournaled /\ OneWatchLine

\* A recording counts as live for as long as anything is still written to it,
\* and an answer that says it is over is true and gives its whole length: a
\* watcher may read to total and stop asking (cmdSessionsTail; remove is the
\* session's last act).  The one answer that is not true is given before addFile.
EndIsWhole ==
  /\ serving \in {"bridge", "finished", "closed"} => Running(entry)
  /\ \A a \in Asks :
       ask[a].at = "answered" /\ ~ask[a].live =>
         serving = "over" /\ (ask[a].known => ask[a].total = chunks)

\* What a watcher is told is true, and what is said of watching is too.
WatchingIsTrue == WatchIsRecordedOnce /\ EndIsWhole

\* What live_tail.go says of an answer that is not live: "nothing more will ever
\* be appended".
NoneIsTooEarly == \A a \in Asks : ask[a].at # "early"

\* What noteWatching and recordMu are for: "one session.watch between them".
OneLineEver == \A w \in Admins : watches[w] + spoilt[w] <= 1

\* What watchRecorded assumes of a session it does not know: "nothing is read
\* from it, so there is nothing to record".
UnknownIsNotRead ==
  \A a \in Asks : ask[a].at = "answered" /\ ask[a].total > 0 => watches[asker[a]] > 0
=============================================================================
