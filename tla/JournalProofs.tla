--------------------------- MODULE JournalProofs ---------------------------
(***************************************************************************)
(* What is written down, for any number of requests, watchers, connections *)
(* and failed writes: the lines that watching a session leaves (LiveTail), *)
(* the machine's own journal through rotations, deaths of its server and   *)
(* failed operations (DoorJournal), and the gateway's journal with the     *)
(* answers that rest on it, through torn tails, rotations, a second writer *)
(* and crashes (Journal).                                                  *)
(***************************************************************************)
EXTENDS Journal, LiveTail, DoorJournal, FiniteSetTheorems, SequenceTheorems, TLAPS

-----------------------------------------------------------------------------
(* Watching: the session, the lines, and each request.                      *)

Entry == {NoEntry} \cup [known : {TRUE}, ended : 0..NotOver, watchers : SUBSET Admins]
Asked == [at : {"no", "note", "noteLocked", "lookup", "check", "locked", "read", "refused", "early", "answered"},
            live : BOOLEAN, known : BOOLEAN, total : Nat, epoch : Nat]

\* The registry has the session from its first chunk to its last.
SessionOK ==
  /\ serving \in {"start", "bridge", "finished", "closed", "over"}
  /\ chunks \in 0..MaxChunks /\ (serving \in {"start", "bridge"} => chunks < MaxChunks)
  /\ clock \in 0..MaxClock /\ epoch \in 1..MaxEpochs /\ entry \in Entry
  /\ serving = "start" => ~entry.known
  /\ serving \in {"bridge", "finished", "closed"} => entry.known /\ entry.ended = NotOver
  /\ serving = "over" /\ entry.known => entry.ended # NotOver

\* One line for each connection that is marked, one for each administrator whom
\* the entry knows.
WatchesOK ==
  /\ watches \in [Askers -> Nat] /\ lostWatches \in 0..MaxLostWatches
  /\ spoilt \in [Askers -> Nat] /\ \A w \in Askers : spoilt[w] <= lostWatches
  /\ marked \subseteq 1..epoch /\ watches[OwnMachine] = Cardinality(marked)
  /\ \A w \in Admins : watches[w] \in {0, 1}
  /\ \A w \in Admins : entry.known => (watches[w] = 1 <=> w \in entry.watchers)
  /\ \A w \in Admins : serving = "start" => watches[w] = 0

\* Where a request of w may stand with what it has found out.
Has(r, w) ==
  /\ r \in Asked
  /\ r.at \in {"note", "noteLocked", "lookup"} => w = OwnMachine
  /\ r.at \in {"check", "locked"} => w # OwnMachine
  /\ r.at \in {"no", "note", "noteLocked", "lookup"} => ~r.known /\ ~r.live
  /\ r.at \in {"check", "locked", "read"} => r.known
  /\ r.live => r.known

\* What it has found out is still so.
StillSo(r, w) ==
  /\ r.at \in {"note", "noteLocked"} => r.epoch \in 1..epoch
  /\ r.known => serving # "start"
  /\ r.known /\ ~r.live => serving = "over"
  /\ r.at = "answered" /\ ~r.live => serving = "over"
  /\ r.at = "answered" /\ r.known /\ ~r.live => r.total = chunks
  /\ r.at \in {"lookup", "read"} /\ w = OwnMachine => watches[w] > 0
  /\ r.at = "read" /\ w # OwnMachine /\ entry.known => w \in entry.watchers

RequestsOK ==
  /\ asker \in [Asks -> Askers] /\ ask \in [Asks -> Asked]
  /\ \A a \in Asks : Has(ask[a], asker[a]) /\ StillSo(ask[a], asker[a])

WatchInv == SessionOK /\ WatchesOK /\ RequestsOK

LEMMA EntryFields ==
  ASSUME NEW e \in Entry
  PROVE  /\ e.known \in BOOLEAN
         /\ ~e.known => e = NoEntry
         /\ e.known => e.ended \in 0..NotOver /\ e.watchers \subseteq Admins
<1>1. CASE e = NoEntry
  BY <1>1 DEF NoEntry
<1>2. CASE e \in [known : {TRUE}, ended : 0..NotOver, watchers : SUBSET Admins]
  BY <1>2
<1>3. QED
  BY <1>1, <1>2 DEF Entry

LEMMA NoEntryIsUnknown == NoEntry \in Entry /\ ~NoEntry.known
  BY DEF Entry, NoEntry

\* What a sweep leaves of an entry: all of it, or nothing once it is over.
LEMMA SweptEntry ==
  ASSUME NEW e \in Entry
  PROVE  /\ Swept(e) \in Entry
         /\ Swept(e) = e \/ (Swept(e) = NoEntry /\ e.known /\ e.ended # NotOver)
  BY NoEntryIsUnknown, EntryFields DEF Swept, Over

-----------------------------------------------------------------------------
(* What the steps of others leave of a request. *)

LEMMA StillSoStays ==
  ASSUME WatchInv, NEW r \in Asked, NEW w \in Askers, Has(r, w), StillSo(r, w),
         epoch \in Nat, epoch' \in Nat, epoch <= epoch',
         watches[w] > 0 => watches'[w] > 0,
         serving # "start" => serving' # "start",
         serving = "over" => serving' = "over" /\ chunks' = chunks,
         serving # "start" /\ entry'.known => entry.known /\ entry.watchers \subseteq entry'.watchers
  PROVE  StillSo(r, w)'
<1>1. r.at \in {"note", "noteLocked"} => r.epoch \in 1..epoch'
  BY DEF StillSo, Asked
<1>2. /\ r.known => serving' # "start"
      /\ r.known /\ ~r.live => serving' = "over"
      /\ r.at = "answered" /\ ~r.live => serving' = "over"
      /\ r.at = "answered" /\ r.known /\ ~r.live => r.total = chunks'
  BY DEF StillSo
<1>3. r.at \in {"lookup", "read"} /\ w = OwnMachine => watches'[w] > 0
  BY DEF StillSo
<1>4. r.at = "read" /\ w # OwnMachine /\ entry'.known => w \in entry'.watchers
  BY DEF StillSo, Has
<1>5. QED
  BY <1>1, <1>2, <1>3, <1>4 DEF StillSo

\* A step that touches no request.
LEMMA RequestsStay ==
  ASSUME WatchInv, UNCHANGED <<ask, asker>>,
         epoch \in Nat, epoch' \in Nat, epoch <= epoch', UNCHANGED watches,
         serving # "start" => serving' # "start",
         serving = "over" => serving' = "over" /\ chunks' = chunks,
         serving # "start" /\ entry'.known => entry.known /\ entry.watchers \subseteq entry'.watchers
  PROVE  RequestsOK'
<1>1. ASSUME NEW a \in Asks PROVE Has(ask[a], asker[a]) /\ StillSo(ask[a], asker[a])'
  <2>1. ask[a] \in Asked /\ asker[a] \in Askers /\ Has(ask[a], asker[a]) /\ StillSo(ask[a], asker[a])
    BY DEF WatchInv, RequestsOK
  <2>2. QED
    BY <2>1, StillSoStays
<1>2. QED
  BY <1>1 DEF WatchInv, RequestsOK, Has, StillSo

\* The step of a request: what it owes is what is said of itself.
LEMMA RequestMoves ==
  ASSUME WatchInv, NEW a \in Asks, NEW r \in Asked,
         ask' = [ask EXCEPT ![a] = r], UNCHANGED <<asker, serving, chunks, clock, epoch>>,
         Has(r, asker[a]), StillSo(r, asker[a])',
         \A w \in Askers : watches[w] > 0 => watches'[w] > 0,
         serving # "start" /\ entry'.known => entry.known /\ entry.watchers \subseteq entry'.watchers
  PROVE  RequestsOK'
<1>1. ask' \in [Asks -> Asked] /\ ask'[a] = r /\ \A b \in Asks : b # a => ask'[b] = ask[b]
  BY DEF WatchInv, RequestsOK
<1>2. epoch \in Nat /\ epoch <= epoch'
  BY LiveTailAssumption DEF WatchInv, SessionOK
<1>3. ASSUME NEW b \in Asks PROVE Has(ask'[b], asker[b]) /\ StillSo(ask[b], asker[b])'
  <2>1. CASE b = a
    BY <1>1, <2>1 DEF StillSo
  <2>2. CASE b # a
    <3>1. ask[b] \in Asked /\ asker[b] \in Askers /\ Has(ask[b], asker[b]) /\ StillSo(ask[b], asker[b])
      BY DEF WatchInv, RequestsOK
    <3>2. QED
      BY <1>1, <1>2, <2>2, <3>1, StillSoStays DEF StillSo
  <2>3. QED
    BY <2>1, <2>2
<1>4. QED
  BY <1>1, <1>3 DEF WatchInv, RequestsOK, Has, StillSo

-----------------------------------------------------------------------------
(* The session's own steps, the clock, the sweeps and the connections. *)

LEMMA SessionTypes ==
  ASSUME WatchInv
  PROVE  /\ epoch \in Nat /\ clock \in Nat /\ clock <= MaxClock /\ chunks \in Nat /\ entry \in Entry
         /\ NotOver \in Nat /\ clock # NotOver /\ clock \in 0..NotOver
         /\ OwnMachine \notin Admins /\ OwnMachine \in Askers /\ Admins \subseteq Askers
  BY LiveTailAssumption DEF WatchInv, SessionOK, NotOver, Askers

LEMMA AddFileKeeps == WatchInv /\ addFile => WatchInv'
<1> SUFFICES ASSUME WatchInv, addFile PROVE WatchInv'
  OBVIOUS
<1> DEFINE new == [known |-> TRUE, ended |-> NotOver, watchers |-> {}]
<1>1. new \in Entry /\ new.known /\ new.ended = NotOver /\ new.watchers = {}
  BY SessionTypes DEF Entry
<1>2. entry' = new /\ serving = "start" /\ serving' = "bridge"
      /\ UNCHANGED <<chunks, clock, epoch, marked, ask, watches, spoilt, lostWatches, asker>>
  BY DEF addFile
<1> HIDE DEF new
<1>3. SessionOK'
  BY <1>1, <1>2 DEF WatchInv, SessionOK
<1>4. WatchesOK'
  BY <1>1, <1>2, SessionTypes DEF WatchInv, WatchesOK
<1>5. RequestsOK'
  BY <1>2, SessionTypes, RequestsStay
<1>6. QED
  BY <1>3, <1>4, <1>5 DEF WatchInv

\* The session goes on, up to what it does last.
LEMMA SessionKeeps == WatchInv /\ (Records \/ Finish \/ aclClose) => WatchInv'
<1> SUFFICES ASSUME WatchInv, Records \/ Finish \/ aclClose PROVE WatchInv'
  OBVIOUS
<1>1. /\ UNCHANGED <<entry, clock, epoch, marked, ask, watches, spoilt, lostWatches, asker>>
      /\ serving \in {"bridge", "finished"} /\ serving' \in {"bridge", "finished", "closed"}
  BY DEF Records, Finish, aclClose
<1>2. chunks' \in 0..MaxChunks /\ (serving' = "bridge" => chunks' < MaxChunks)
  BY LiveTailAssumption DEF WatchInv, SessionOK, Records, Finish, aclClose
<1>3. SessionOK'
  BY <1>1, <1>2 DEF WatchInv, SessionOK
<1>4. WatchesOK'
  BY <1>1 DEF WatchInv, WatchesOK
<1>5. RequestsOK'
  BY <1>1, SessionTypes, RequestsStay
<1>6. QED
  BY <1>3, <1>4, <1>5 DEF WatchInv

\* An entry that is gone, or lost its place for good, says nothing of anybody.
LEMMA EntrySwept ==
  ASSUME WatchInv, entry' \in {entry, NoEntry}, entry' # entry => serving \in {"start", "over"},
         UNCHANGED <<serving, chunks, epoch, marked, watches, spoilt, lostWatches>>, clock' \in 0..MaxClock
  PROVE  /\ SessionOK' /\ WatchesOK'
         /\ serving # "start" /\ entry'.known => entry.known /\ entry.watchers \subseteq entry'.watchers
<1>1. SessionOK'
  BY NoEntryIsUnknown DEF WatchInv, SessionOK
<1>2. WatchesOK'
  BY NoEntryIsUnknown DEF WatchInv, WatchesOK
<1>3. entry'.known => entry.known /\ entry.watchers \subseteq entry'.watchers
  BY NoEntryIsUnknown
<1>4. QED
  BY <1>1, <1>2, <1>3

\* A sweep finds only the session that is over.
LEMMA SweepSpares ==
  ASSUME WatchInv
  PROVE  /\ Swept(entry) \in {entry, NoEntry}
         /\ Swept(entry) # entry => serving \in {"start", "over"}
         /\ entry.known /\ ~Swept(entry).known => serving = "over"
<1>1. Swept(entry) = entry \/ (Swept(entry) = NoEntry /\ entry.known /\ entry.ended # NotOver)
  BY SessionTypes, SweptEntry
<1>2. entry.known /\ entry.ended # NotOver => serving = "over"
  BY DEF WatchInv, SessionOK
<1>3. QED
  BY <1>1, <1>2

LEMMA RemoveKeeps == WatchInv /\ remove => WatchInv'
<1> SUFFICES ASSUME WatchInv, remove PROVE WatchInv'
  OBVIOUS
<1> DEFINE last == [entry EXCEPT !.ended = clock]
<1>1. /\ serving = "closed" /\ serving' = "over" /\ entry' = Swept(last)
      /\ UNCHANGED <<chunks, clock, epoch, marked, ask, watches, spoilt, lostWatches, asker>>
  BY DEF remove
<1>2. entry \in [known : {TRUE}, ended : 0..NotOver, watchers : SUBSET Admins]
  BY <1>1, NoEntryIsUnknown DEF WatchInv, SessionOK, Entry
<1>3. last \in Entry /\ last.known /\ last.ended = clock /\ last.watchers = entry.watchers /\ entry.known
  BY <1>2, SessionTypes DEF Entry
<1> HIDE DEF last
<1>4. entry' \in Entry /\ (entry'.known => entry' = last)
  BY <1>1, <1>3, SweptEntry, NoEntryIsUnknown
<1>5. SessionOK'
  BY <1>1, <1>3, <1>4, SessionTypes DEF WatchInv, SessionOK
<1>6. WatchesOK'
  BY <1>1, <1>3, <1>4 DEF WatchInv, WatchesOK
<1>7. RequestsOK'
  BY <1>1, <1>3, <1>4, SessionTypes, RequestsStay
<1>8. QED
  BY <1>5, <1>6, <1>7 DEF WatchInv

LEMMA SweepKeeps == WatchInv /\ (sweep \/ LiveTick) => WatchInv'
<1> SUFFICES ASSUME WatchInv, sweep \/ LiveTick PROVE WatchInv'
  OBVIOUS
<1>1. /\ entry' \in {entry, NoEntry} /\ (entry' # entry => serving \in {"start", "over"})
      /\ UNCHANGED <<serving, chunks, epoch, marked, watches, spoilt, lostWatches, ask, asker>>
  BY SweepSpares DEF sweep, LiveTick
<1>2. clock' \in 0..MaxClock
  BY LiveTailAssumption DEF sweep, LiveTick, WatchInv, SessionOK
<1>3. SessionOK' /\ WatchesOK'
      /\ (serving # "start" /\ entry'.known => entry.known /\ entry.watchers \subseteq entry'.watchers)
  BY <1>1, <1>2, EntrySwept
<1>4. RequestsOK'
  BY <1>1, <1>3, SessionTypes, RequestsStay
<1>5. QED
  BY <1>3, <1>4 DEF WatchInv

LEMMA ReconnectKeeps == WatchInv /\ reconnect => WatchInv'
<1> SUFFICES ASSUME WatchInv, reconnect PROVE WatchInv'
  OBVIOUS
<1>1. /\ epoch' = epoch + 1 /\ epoch' \in 1..MaxEpochs
      /\ UNCHANGED <<serving, chunks, entry, clock, marked, ask, watches, spoilt, lostWatches, asker>>
  BY LiveTailAssumption DEF reconnect, WatchInv, SessionOK
<1>2. SessionOK'
  BY <1>1 DEF WatchInv, SessionOK
<1>3. marked' \subseteq 1..epoch'
  BY <1>1, SessionTypes DEF WatchInv, WatchesOK
<1>4. WatchesOK'
  BY <1>1, <1>3 DEF WatchInv, WatchesOK
<1>5. RequestsOK'
  BY <1>1, SessionTypes, RequestsStay
<1>6. QED
  BY <1>2, <1>4, <1>5 DEF WatchInv

-----------------------------------------------------------------------------
(* The steps of a request. *)

LEMMA AskedFields ==
  ASSUME WatchInv, NEW a \in Asks
  PROVE  /\ ask[a] \in Asked /\ asker[a] \in Askers /\ Has(ask[a], asker[a]) /\ StillSo(ask[a], asker[a])
         /\ asker[a] # OwnMachine => asker[a] \in Admins
  BY DEF WatchInv, RequestsOK, Askers

\* A request goes on, with what it knows.
LEMMA GoesOn ==
  ASSUME WatchInv, NEW a \in Asks, NEW to, Goes(a, to),
         to \in {"no", "note", "noteLocked", "lookup", "check", "locked", "read", "refused", "early", "answered"}
  PROVE  \E r \in Asked : /\ ask' = [ask EXCEPT ![a] = r] /\ r.at = to
                          /\ r.known = ask[a].known /\ r.live = ask[a].live
                          /\ r.total = ask[a].total /\ r.epoch = ask[a].epoch
<1>1. [ask[a] EXCEPT !.at = to] \in Asked /\ ask' = [ask EXCEPT ![a] = [ask[a] EXCEPT !.at = to]]
  BY AskedFields DEF Goes, Asked, WatchInv, RequestsOK
<1>2. QED
  BY <1>1, AskedFields DEF Asked

\* A mark has a line: the machine that finds one has one.
LEMMA MarkHasLine ==
  ASSUME WatchesOK, epoch \in Nat
  PROVE  /\ IsFiniteSet(marked) /\ \A e \in marked : watches[OwnMachine] > 0
         /\ watches[OwnMachine] <= epoch
<1>1. IsFiniteSet(1..epoch) /\ Cardinality(1..epoch) = epoch
  BY FS_Interval
<1>2. IsFiniteSet(marked) /\ Cardinality(marked) <= epoch
  BY <1>1, FS_Subset, ZenonT(60) DEF WatchesOK
<1>3. Cardinality(marked) \in Nat /\ (Cardinality(marked) = 0 => marked = {})
  BY <1>2, FS_CardinalityType, FS_EmptySet
<1>4. QED
  BY <1>2, <1>3 DEF WatchesOK

\* A step after which nothing but the request is different.
LEMMA OnlyTheRequest ==
  ASSUME WatchInv, NEW a \in Asks, NEW r \in Asked,
         ask' = [ask EXCEPT ![a] = r], Has(r, asker[a]), StillSo(r, asker[a])',
         UNCHANGED <<serving, chunks, entry, clock, epoch, marked, watches, spoilt, lostWatches, asker>>
  PROVE  WatchInv'
<1>1. SessionOK' /\ WatchesOK'
  BY DEF WatchInv, SessionOK, WatchesOK
<1>2. RequestsOK'
  BY RequestMoves
<1>3. QED
  BY <1>1, <1>2 DEF WatchInv

\* A refusal rests on nothing, and neither does the answer that there is
\* nothing to follow.
LEMMA RefusalRests ==
  ASSUME WatchInv, NEW a \in Asks, NEW r \in Asked, UNCHANGED serving,
         \/ r.at = "refused"
         \/ ~ask[a].known /\ r.at = IF serving = "start" THEN "early" ELSE "answered",
         r.at = "answered" => serving = "over",
         r.known = ask[a].known, r.live = ask[a].live
  PROVE  Has(r, asker[a]) /\ StillSo(r, asker[a])'
<1>1. Has(ask[a], asker[a]) /\ StillSo(ask[a], asker[a])
  BY AskedFields
<1>2. QED
  BY <1>1 DEF Has, StillSo

\* A registry that knows nothing knows it too early or rightly.
LEMMA NothingIsOver ==
  ASSUME WatchInv, ~Swept(entry).known PROVE serving = "start" \/ serving = "over"
<1>1. CASE entry.known
  BY <1>1, SweepSpares
<1>2. CASE ~entry.known
  BY <1>2 DEF WatchInv, SessionOK
<1>3. QED
  BY <1>1, <1>2

LEMMA RefusedKeeps ==
  ASSUME WatchInv, NEW a \in Asks, refusedForAudit(a)
  PROVE  WatchInv'
<1>1. PICK r \in Asked : /\ ask' = [ask EXCEPT ![a] = r] /\ r.at = "refused"
                         /\ r.known = ask[a].known /\ r.live = ask[a].live
  BY GoesOn DEF refusedForAudit
<1>2. UNCHANGED <<serving, chunks, entry, clock, epoch, marked, watches, spoilt, lostWatches, asker>>
  BY DEF refusedForAudit
<1>3. Has(r, asker[a]) /\ StillSo(r, asker[a])'
  BY <1>1, <1>2, RefusalRests
<1>4. QED
  BY <1>1, <1>2, <1>3, OnlyTheRequest

LEMMA OwnsSessionKeeps ==
  ASSUME WatchInv, NEW a \in Asks, ownsSession(a)
  PROVE  WatchInv'
<1>1. /\ ask[a].at = "no" /\ asker[a] = OwnMachine /\ ~ask[a].known /\ ~ask[a].live
      /\ entry' \in {entry, NoEntry} /\ (entry' # entry => serving \in {"start", "over"})
      /\ UNCHANGED <<serving, chunks, clock, epoch, marked, watches, spoilt, lostWatches, asker>>
  BY SweepSpares, AskedFields DEF ownsSession, Has
<1>2. clock' \in 0..MaxClock
  BY <1>1 DEF WatchInv, SessionOK
<1>3. SessionOK' /\ WatchesOK'
      /\ (serving # "start" /\ entry'.known => entry.known /\ entry.watchers \subseteq entry'.watchers)
  BY <1>1, <1>2, EntrySwept
<1>4. CASE (Listed \/ entry'.known) /\ ask' = [ask EXCEPT ![a].at = "note", ![a].epoch = epoch]
  <2>0. [ask[a] EXCEPT !.at = "note", !.epoch = epoch] \in Asked
        /\ ask' = [ask EXCEPT ![a] = [ask[a] EXCEPT !.at = "note", !.epoch = epoch]]
    BY <1>4, AskedFields, SessionTypes DEF Asked, WatchInv, RequestsOK
  <2>1. PICK r \in Asked : /\ ask' = [ask EXCEPT ![a] = r]
                           /\ r.at = "note" /\ ~r.known /\ ~r.live /\ r.epoch = epoch
    BY <1>1, <2>0, AskedFields DEF Asked
  <2>2. Has(r, asker[a]) /\ StillSo(r, asker[a])'
    BY <1>1, <2>1 DEF Has, StillSo, WatchInv, SessionOK
  <2>3. QED
    BY <1>1, <1>3, <2>1, <2>2, RequestMoves DEF WatchInv
<1>5. CASE ~(Listed \/ entry'.known) /\ Nothing(a)
  <2> DEFINE to == IF serving = "start" THEN "early" ELSE "answered"
  <2>1. PICK r \in Asked : /\ ask' = [ask EXCEPT ![a] = r] /\ r.at = to
                           /\ r.known = ask[a].known /\ r.live = ask[a].live
    <3>1. Goes(a, to) /\ to \in {"early", "answered"}
      BY <1>5 DEF Nothing
    <3> HIDE DEF to
    <3>2. QED
      BY <3>1, GoesOn
  <2>4. ~Listed /\ ~entry'.known /\ entry' = Swept(entry)
    BY <1>5 DEF ownsSession
  <2>5. r.at = "answered" => serving = "over"
    BY <2>1, <2>4, NothingIsOver DEF Listed, WatchInv, SessionOK
  <2>2. Has(r, asker[a]) /\ StillSo(r, asker[a])'
    BY <1>1, <2>1, <2>5, RefusalRests
  <2>3. QED
    BY <1>1, <1>3, <2>1, <2>2, RequestMoves DEF WatchInv
<1>6. QED
  BY <1>4, <1>5 DEF ownsSession

LEMMA NoteWatchingKeeps ==
  ASSUME WatchInv, NEW a \in Asks, noteWatching(a)
  PROVE  WatchInv'
<1> DEFINE to == IF ask[a].epoch \in marked THEN "lookup" ELSE "noteLocked"
<1>1. /\ ask[a].at = "note" /\ asker[a] = OwnMachine /\ ~ask[a].known /\ ~ask[a].live /\ ask[a].epoch \in 1..epoch
      /\ UNCHANGED <<serving, chunks, entry, clock, epoch, marked, watches, spoilt, lostWatches, asker>>
  BY AskedFields DEF noteWatching, Has, StillSo
<1>2. PICK r \in Asked : /\ ask' = [ask EXCEPT ![a] = r] /\ r.at = to
                         /\ ~r.known /\ ~r.live /\ r.epoch = ask[a].epoch
  BY <1>1, GoesOn DEF noteWatching
<1>3. r.at = "lookup" => watches[OwnMachine] > 0
  BY <1>2, MarkHasLine, SessionTypes DEF WatchInv
<1>4. to \in {"lookup", "noteLocked"}
  OBVIOUS
<1> HIDE DEF to
<1>5. Has(r, asker[a]) /\ StillSo(r, asker[a])'
  BY <1>1, <1>2, <1>3, <1>4 DEF Has, StillSo
<1>6. QED
  BY <1>1, <1>2, <1>5, OnlyTheRequest

\* A failed append leaves one line at most.
LEMMA LostTypes ==
  ASSUME WatchesOK, NEW w \in Askers, Lost(w)
  PROVE  /\ UNCHANGED watches /\ lostWatches' \in 0..MaxLostWatches
         /\ spoilt' \in [Askers -> Nat] /\ \A v \in Askers : spoilt'[v] <= lostWatches'
<1>1. lostWatches' = lostWatches + 1 /\ lostWatches' \in 0..MaxLostWatches /\ UNCHANGED watches
  BY LiveTailAssumption DEF Lost, WatchesOK
<1>2. CASE UNCHANGED spoilt
  BY <1>1, <1>2 DEF WatchesOK
<1>3. CASE spoilt' = [spoilt EXCEPT ![w] = @ + 1]
  BY <1>1, <1>3 DEF WatchesOK
<1>4. QED
  BY <1>1, <1>2, <1>3 DEF Lost

\* Under watchMu: a connection that is not marked gets its line, then its mark.
LEMMA NoteLockedKeeps ==
  ASSUME WatchInv, NEW a \in Asks, noteLocked(a)
  PROVE  WatchInv'
<1>1. /\ ask[a].at = "noteLocked" /\ asker[a] = OwnMachine /\ ~ask[a].known /\ ~ask[a].live
      /\ ask[a].epoch \in 1..epoch
      /\ UNCHANGED <<serving, chunks, entry, clock, epoch, asker>>
  BY AskedFields DEF noteLocked, Has, StillSo
<1>2. SessionOK' /\ epoch \in Nat
  BY <1>1, SessionTypes DEF WatchInv, SessionOK
<1>3. \A r \in Asked : r.at = "lookup" /\ ~r.known /\ ~r.live /\ watches'[OwnMachine] > 0
        => Has(r, asker[a]) /\ StillSo(r, asker[a])'
  BY <1>1 DEF Has, StillSo
<1>4. CASE ~unwatched(ask[a].epoch) /\ Goes(a, "lookup") /\ UNCHANGED <<marked, watches, spoilt, lostWatches>>
  <2>1. PICK r \in Asked : ask' = [ask EXCEPT ![a] = r] /\ r.at = "lookup" /\ ~r.known /\ ~r.live
    BY <1>1, <1>4, GoesOn
  <2>2. watches'[OwnMachine] > 0
    BY <1>2, <1>4, MarkHasLine DEF unwatched, WatchInv
  <2>3. QED
    BY <1>1, <1>3, <1>4, <2>1, <2>2, OnlyTheRequest
<1>5. CASE /\ unwatched(ask[a].epoch) /\ Journaled(OwnMachine) /\ Goes(a, "lookup")
           /\ marked' = marked \cup {ask[a].epoch}
  <2>1. PICK r \in Asked : ask' = [ask EXCEPT ![a] = r] /\ r.at = "lookup" /\ ~r.known /\ ~r.live
    BY <1>1, <1>5, GoesOn
  <2>2. /\ watches' \in [Askers -> Nat] /\ watches'[OwnMachine] = watches[OwnMachine] + 1
        /\ UNCHANGED <<spoilt, lostWatches>> /\ \A w \in Admins : watches'[w] = watches[w]
    BY <1>5, SessionTypes DEF Journaled, WatchInv, WatchesOK
  <2>3. Cardinality(marked') = Cardinality(marked) + 1
    BY <1>2, <1>5, MarkHasLine, FS_AddElement DEF unwatched, WatchInv
  <2>4. WatchesOK'
    BY <1>1, <1>5, <2>2, <2>3 DEF WatchInv, WatchesOK
  <2>5. watches'[OwnMachine] > 0 /\ \A w \in Askers : watches[w] > 0 => watches'[w] > 0
    BY <2>2, SessionTypes DEF WatchInv, WatchesOK, Askers
  <2>6. RequestsOK'
    BY <1>1, <1>3, <2>1, <2>5, RequestMoves
  <2>7. QED
    BY <1>2, <2>4, <2>6 DEF WatchInv
<1>6. CASE unwatched(ask[a].epoch) /\ Lost(OwnMachine) /\ Goes(a, "refused") /\ UNCHANGED marked
  <2>1. PICK r \in Asked : /\ ask' = [ask EXCEPT ![a] = r] /\ r.at = "refused"
                           /\ r.known = ask[a].known /\ r.live = ask[a].live
    BY <1>6, GoesOn
  <2>2. /\ UNCHANGED watches /\ lostWatches' \in 0..MaxLostWatches
        /\ spoilt' \in [Askers -> Nat] /\ \A w \in Askers : spoilt'[w] <= lostWatches'
    <3>1. OwnMachine \in Askers
      BY SessionTypes
    <3>2. QED
      BY <1>6, <3>1, LostTypes DEF WatchInv
  <2>3. WatchesOK'
    BY <1>1, <1>6, <2>2 DEF WatchInv, WatchesOK
  <2>4. Has(r, asker[a]) /\ StillSo(r, asker[a])'
    BY <1>1, <2>1, RefusalRests
  <2>5. RequestsOK'
    BY <1>1, <2>1, <2>2, <2>4, RequestMoves
  <2>6. QED
    BY <1>2, <2>3, <2>5 DEF WatchInv
<1>7. QED
  BY <1>4, <1>5, <1>6 DEF noteLocked

\* What the registry says of a session it knows: it runs until it is over.
LEMMA RunningIsNotOver ==
  ASSUME WatchInv, entry.known
  PROVE  Running(entry) \in BOOLEAN /\ serving # "start" /\ (~Running(entry) => serving = "over")
  BY DEF WatchInv, SessionOK, Running

LEMMA LookupKeeps ==
  ASSUME WatchInv, NEW a \in Asks, lookup(a)
  PROVE  WatchInv'
<1>1. /\ entry' = Swept(entry) /\ entry' \in {entry, NoEntry} /\ (entry' # entry => serving \in {"start", "over"})
      /\ UNCHANGED <<serving, chunks, clock, epoch, marked, watches, spoilt, lostWatches, asker>>
  BY SweepSpares DEF lookup
<1>2. /\ ask[a].at \in {"no", "lookup"} /\ ~ask[a].known /\ ~ask[a].live
      /\ asker[a] = OwnMachine => watches[OwnMachine] > 0
  BY AskedFields DEF lookup, Has, StillSo
<1>3. clock' \in 0..MaxClock
  BY <1>1 DEF WatchInv, SessionOK
<1>4. SessionOK' /\ WatchesOK'
      /\ (serving # "start" /\ entry'.known => entry.known /\ entry.watchers \subseteq entry'.watchers)
  BY <1>1, <1>3, EntrySwept
<1> DEFINE to == IF asker[a] = OwnMachine THEN "read" ELSE "check"
           runs == Running(entry)
<1>5. CASE entry'.known
  <2>1. entry' = entry /\ entry.known
    BY <1>1, <1>5, NoEntryIsUnknown
  <2>2. runs \in BOOLEAN /\ serving # "start" /\ (~runs => serving = "over")
    BY <2>1, RunningIsNotOver
  <2>3. [ask[a] EXCEPT !.at = to, !.known = TRUE, !.live = runs] \in Asked
        /\ ask' = [ask EXCEPT ![a] = [ask[a] EXCEPT !.at = to, !.known = TRUE, !.live = runs]]
    BY <1>5, <2>1, <2>2, AskedFields, ZenonT(60) DEF lookup, Asked, WatchInv, RequestsOK
  <2>4. PICK r \in Asked : ask' = [ask EXCEPT ![a] = r] /\ r.at = to /\ r.known /\ r.live = runs
    BY <2>3, AskedFields DEF Asked
  <2> HIDE DEF runs
  <2>5. Has(r, asker[a]) /\ StillSo(r, asker[a])'
    BY <1>1, <1>2, <2>2, <2>4 DEF Has, StillSo
  <2>6. QED
    BY <1>1, <1>4, <2>4, <2>5, RequestMoves DEF WatchInv
<1>6. CASE ~entry'.known
  <2> HIDE DEF to
  <2> DEFINE end == IF serving = "start" THEN "early" ELSE "answered"
  <2>1. PICK r \in Asked : /\ ask' = [ask EXCEPT ![a] = r] /\ r.at = end
                           /\ r.known = ask[a].known /\ r.live = ask[a].live
    <3>1. Goes(a, end) /\ end \in {"early", "answered"}
      BY <1>6 DEF lookup, Nothing
    <3> HIDE DEF end
    <3>2. QED
      BY <3>1, GoesOn
  <2>4. r.at = "answered" => serving = "over"
    BY <1>1, <1>6, <2>1, NothingIsOver
  <2>2. Has(r, asker[a]) /\ StillSo(r, asker[a])'
    BY <1>1, <1>2, <2>1, <2>4, RefusalRests
  <2>3. QED
    BY <1>1, <1>4, <2>1, <2>2, RequestMoves DEF WatchInv
<1>7. QED
  BY <1>5, <1>6

\* A watcher whom the entry knows reads on; so does whoever finds no entry.
LEMMA CheckKeeps ==
  ASSUME WatchInv, NEW a \in Asks, check(a)
  PROVE  WatchInv'
<1> DEFINE to == IF watchRecorded(asker[a]) THEN "read" ELSE "locked"
<1>1. /\ ask[a].at = "check" /\ asker[a] # OwnMachine /\ ask[a].known
      /\ UNCHANGED <<serving, chunks, entry, clock, epoch, marked, watches, spoilt, lostWatches, asker>>
  BY AskedFields DEF check, Has
<1>2. PICK r \in Asked : /\ ask' = [ask EXCEPT ![a] = r] /\ r.at = to
                         /\ r.known = ask[a].known /\ r.live = ask[a].live
  BY GoesOn DEF check
<1>3. /\ to \in {"read", "locked"}
      /\ to = "read" /\ entry.known => asker[a] \in entry.watchers
  BY DEF watchRecorded
<1>4. Has(ask[a], asker[a]) /\ StillSo(ask[a], asker[a])
  BY AskedFields
<1> HIDE DEF to
<1>5. Has(r, asker[a]) /\ StillSo(r, asker[a])'
  BY <1>1, <1>2, <1>3, <1>4 DEF Has, StillSo
<1>6. QED
  BY <1>1, <1>2, <1>5, OnlyTheRequest

\* Under recordMu: who has no line yet gets one, then the mark.
LEMMA RecordWatchKeeps ==
  ASSUME WatchInv, NEW a \in Asks, recordWatch(a)
  PROVE  WatchInv'
<1>1. /\ ask[a].at = "locked" /\ asker[a] \in Admins /\ asker[a] # OwnMachine /\ ask[a].known
      /\ UNCHANGED <<serving, chunks, clock, epoch, marked, asker>>
  BY AskedFields DEF recordWatch, Has
<1>2. Has(ask[a], asker[a]) /\ StillSo(ask[a], asker[a])
  BY AskedFields
<1>3. \A r \in Asked : /\ r.at = "read" /\ r.known = ask[a].known /\ r.live = ask[a].live
                       /\ entry'.known => asker[a] \in entry'.watchers
        => Has(r, asker[a]) /\ StillSo(r, asker[a])'
  BY <1>1, <1>2 DEF Has, StillSo
<1>4. CASE watchRecorded(asker[a]) /\ Goes(a, "read") /\ UNCHANGED <<entry, watches, spoilt, lostWatches>>
  <2>1. PICK r \in Asked : /\ ask' = [ask EXCEPT ![a] = r] /\ r.at = "read"
                           /\ r.known = ask[a].known /\ r.live = ask[a].live
    BY <1>4, GoesOn
  <2>2. entry'.known => asker[a] \in entry'.watchers
    BY <1>4 DEF watchRecorded
  <2>3. QED
    BY <1>1, <1>3, <1>4, <2>1, <2>2, OnlyTheRequest
<1>5. ASSUME ~watchRecorded(asker[a])
      PROVE  /\ entry \in [known : {TRUE}, ended : 0..NotOver, watchers : SUBSET Admins]
             /\ asker[a] \notin entry.watchers /\ watches[asker[a]] = 0
  <2>1. entry.known /\ asker[a] \notin entry.watchers
    BY <1>5, SessionTypes, EntryFields DEF watchRecorded
  <2>2. entry \in [known : {TRUE}, ended : 0..NotOver, watchers : SUBSET Admins]
    BY <2>1, NoEntryIsUnknown, SessionTypes DEF Entry
  <2>3. QED
    BY <1>1, <2>1, <2>2 DEF WatchInv, WatchesOK
<1>6. CASE /\ ~watchRecorded(asker[a]) /\ Journaled(asker[a]) /\ Goes(a, "read")
           /\ entry' = markWatchRecorded(a, TRUE)
  <2>1. PICK r \in Asked : /\ ask' = [ask EXCEPT ![a] = r] /\ r.at = "read"
                           /\ r.known = ask[a].known /\ r.live = ask[a].live
    BY <1>6, GoesOn
  <2>2. /\ entry' \in Entry /\ entry.known /\ entry'.known /\ entry'.ended = entry.ended
        /\ entry'.watchers = entry.watchers \cup {asker[a]}
    BY <1>1, <1>5, <1>6 DEF markWatchRecorded, Entry
  <2>3. SessionOK'
    BY <1>1, <2>2 DEF WatchInv, SessionOK
  <2>4. /\ watches' \in [Askers -> Nat] /\ watches'[asker[a]] = 1 /\ UNCHANGED <<spoilt, lostWatches>>
        /\ \A w \in Askers : w # asker[a] => watches'[w] = watches[w]
    BY <1>1, <1>5, <1>6, SessionTypes DEF Journaled, WatchInv, WatchesOK
  <2>5. WatchesOK'
    <3>1. watches'[OwnMachine] = Cardinality(marked')
      BY <1>1, <2>4, SessionTypes DEF WatchInv, WatchesOK
    <3>2. \A w \in Admins : w = asker[a] \/ (watches'[w] = watches[w] /\ w # asker[a])
      BY <2>4, SessionTypes
    <3>3. serving' # "start"
      BY <1>1, <1>2 DEF StillSo
    <3>4. QED
      BY <1>1, <2>2, <2>4, <3>1, <3>2, <3>3 DEF WatchInv, WatchesOK
  <2>6. RequestsOK'
    <3>1. \A w \in Askers : watches[w] > 0 => watches'[w] > 0
      BY <2>4
    <3>2. Has(r, asker[a]) /\ StillSo(r, asker[a])'
      BY <1>3, <2>1, <2>2
    <3>3. QED
      BY <1>1, <2>1, <2>2, <3>1, <3>2, RequestMoves
  <2>7. QED
    BY <2>3, <2>5, <2>6 DEF WatchInv
<1>7. CASE /\ ~watchRecorded(asker[a]) /\ Lost(asker[a]) /\ Goes(a, "refused")
           /\ entry' = markWatchRecorded(a, FALSE)
  <2>1. PICK r \in Asked : /\ ask' = [ask EXCEPT ![a] = r] /\ r.at = "refused"
                           /\ r.known = ask[a].known /\ r.live = ask[a].live
    BY <1>7, GoesOn
  <2>2. /\ entry' = entry /\ UNCHANGED watches /\ lostWatches' \in 0..MaxLostWatches
        /\ spoilt' \in [Askers -> Nat] /\ \A w \in Askers : spoilt'[w] <= lostWatches'
    BY <1>7, AskedFields, LostTypes DEF markWatchRecorded, WatchInv
  <2>3. SessionOK' /\ WatchesOK'
    BY <1>1, <2>2 DEF WatchInv, SessionOK, WatchesOK
  <2>4. Has(r, asker[a]) /\ StillSo(r, asker[a])'
    BY <1>1, <2>1, RefusalRests
  <2>5. RequestsOK'
    BY <1>1, <2>1, <2>2, <2>4, RequestMoves
  <2>6. QED
    BY <2>3, <2>5 DEF WatchInv
<1>8. QED
  BY <1>4, <1>6, <1>7 DEF recordWatch

LEMMA ReadFileKeeps ==
  ASSUME WatchInv, NEW a \in Asks, readFile(a)
  PROVE  WatchInv'
<1>1. /\ ask[a].at = "read" /\ ask[a].known /\ (~ask[a].live => serving = "over")
      /\ UNCHANGED <<serving, chunks, entry, clock, epoch, marked, watches, spoilt, lostWatches, asker>>
  BY AskedFields DEF readFile, Has, StillSo
<1>2. Has(ask[a], asker[a]) /\ StillSo(ask[a], asker[a])
  BY AskedFields
<1>3. [ask[a] EXCEPT !.at = "answered", !.total = chunks] \in Asked
      /\ ask' = [ask EXCEPT ![a] = [ask[a] EXCEPT !.at = "answered", !.total = chunks]]
  BY AskedFields, SessionTypes DEF readFile, Asked, WatchInv, RequestsOK
<1>4. PICK r \in Asked : /\ ask' = [ask EXCEPT ![a] = r] /\ r.at = "answered" /\ r.total = chunks
                         /\ r.known = ask[a].known /\ r.live = ask[a].live
  BY <1>3, AskedFields DEF Asked
<1>5. Has(r, asker[a]) /\ StillSo(r, asker[a])'
  BY <1>1, <1>2, <1>4 DEF Has, StillSo
<1>6. QED
  BY <1>1, <1>4, <1>5, OnlyTheRequest

LEMMA WatchStep == WatchInv /\ [LiveTailNext]_liveVars => WatchInv'
<1>1. ASSUME WatchInv, UNCHANGED liveVars PROVE WatchInv'
  BY <1>1 DEF liveVars, WatchInv, SessionOK, WatchesOK, RequestsOK, Has, StillSo
<1>2. ASSUME WatchInv, NEW a \in Asks,
             \/ ownsSession(a) \/ refusedForAudit(a) \/ noteWatching(a) \/ noteLocked(a)
             \/ lookup(a) \/ check(a) \/ recordWatch(a) \/ readFile(a)
      PROVE  WatchInv'
  BY <1>2, OwnsSessionKeeps, RefusedKeeps, NoteWatchingKeeps, NoteLockedKeeps,
     LookupKeeps, CheckKeeps, RecordWatchKeeps, ReadFileKeeps
<1>3. ASSUME WatchInv, addFile \/ Records \/ Finish \/ aclClose \/ remove \/ sweep \/ LiveTick \/ reconnect
      PROVE  WatchInv'
  BY <1>3, AddFileKeeps, SessionKeeps, RemoveKeeps, SweepKeeps, ReconnectKeeps
<1>4. QED
  BY <1>1, <1>2, <1>3 DEF LiveTailNext

LEMMA WatchInit == LiveTailInit => WatchInv
<1> SUFFICES ASSUME LiveTailInit PROVE WatchInv
  OBVIOUS
<1>1. SessionOK
  BY LiveTailAssumption, NoEntryIsUnknown DEF LiveTailInit, SessionOK
<1>2. WatchesOK
  BY LiveTailAssumption, FS_EmptySet, NoEntryIsUnknown DEF LiveTailInit, WatchesOK, Askers
<1>3. Unasked \in Asked /\ Unasked.at = "no" /\ ~Unasked.known /\ ~Unasked.live
  BY DEF Unasked, Asked
<1>4. RequestsOK
  BY <1>3 DEF LiveTailInit, RequestsOK, Has, StillSo
<1>5. QED
  BY <1>1, <1>2, <1>4 DEF WatchInv

\* In every reachable state lines, marks and requests agree (live_tail.go).
THEOREM WatchInvariant == LiveTailSpec => []WatchInv
<1>1. LiveTailInit => WatchInv
  BY WatchInit
<1>2. QED
  BY <1>1, WatchStep, PTL DEF LiveTailSpec

\* Watching leaves a line before the first byte and no second one but after a
\* failed append, and from addFile on a recording is called over only when it is
\* whole (cmdSessionsTail, noteWatching, remove).
THEOREM WatchersAreTrue == LiveTailSpec => []WatchingIsTrue
<1>1. ASSUME WatchInv PROVE WatchIsRecordedOnce
  <2>1. LiveBytesAreJournaled
    <3> SUFFICES ASSUME NEW a \in Asks, ask[a].at = "read", entry.known \/ asker[a] = OwnMachine
                 PROVE  watches[asker[a]] > 0
      BY DEF LiveBytesAreJournaled
    <3>1. StillSo(ask[a], asker[a]) /\ (asker[a] # OwnMachine => asker[a] \in Admins)
      BY <1>1, AskedFields
    <3>2. QED
      BY <1>1, <3>1 DEF StillSo, WatchInv, WatchesOK
  <2>2. OneWatchLine
    <3>1. watches[OwnMachine] <= epoch
      BY <1>1, MarkHasLine, SessionTypes DEF WatchInv
    <3>2. \A w \in Admins : watches[w] <= 1
      BY <1>1 DEF WatchInv, WatchesOK
    <3>3. \A w \in Askers : spoilt[w] <= lostWatches
      BY <1>1 DEF WatchInv, WatchesOK
    <3>4. QED
      BY <3>1, <3>2, <3>3 DEF OneWatchLine
  <2>3. QED
    BY <2>1, <2>2 DEF WatchIsRecordedOnce
<1>2. ASSUME WatchInv PROVE EndIsWhole
  <2>1. serving \in {"bridge", "finished", "closed"} => Running(entry)
    BY <1>2 DEF WatchInv, SessionOK, Running
  <2>2. \A a \in Asks : StillSo(ask[a], asker[a])
    BY <1>2, AskedFields
  <2>3. QED
    BY <2>1, <2>2 DEF EndIsWhole, StillSo
<1>3. WatchInv => WatchingIsTrue
  BY <1>1, <1>2 DEF WatchingIsTrue
<1>4. QED
  BY <1>3, WatchInvariant, PTL

-----------------------------------------------------------------------------
(* The machine's journal of its doors.  A rotation is safe because of three *)
(* facts: an archive that a truncate is owed to is the one the marker names, *)
(* it has every line of the file that was not written while it was owed, and *)
(* nothing else in the archives is in the file.                              *)

Rotating == {"marker", "copy", "publish", "prune", "truncate", "unmark"}
Sink == [at : {"down", "idle", "retry", "finish", "rotate", "write"} \cup Rotating,
         line : Nat, to : Stamps \cup {NoStamp}, pending : Stamps \cup {NoStamp}]
Lines == 1..MaxDoorLines

FilesOK ==
  /\ live \subseteq Lines /\ archive \in [Stamps -> (SUBSET Lines) \cup {Absent}]
  /\ partial \subseteq Stamps /\ marker \in Stamps \cup {NoStamp} /\ draft \in BOOLEAN
  /\ sink \in Sink /\ pruned \subseteq Lines /\ owing \subseteq Lines /\ forgot \in BOOLEAN
  /\ written \in [last : 0..MaxDoorLines, ok : SUBSET Lines]
  /\ sinkFaults \in 0..MaxSinkFaults /\ kills \in 0..MaxKills

\* No line is held, or was written, that has not been numbered; one that is to
\* be written is nowhere yet.
Archived == UNION {archive[s] : s \in Published}
NumbersOK ==
  /\ \A l \in live \cup Archived \cup written.ok : l <= written.last
  /\ sink.at \notin {"down", "idle"} => sink.line = written.last /\ sink.line # 0
                                        /\ sink.line \notin live \cup Archived \cup written.ok

\* Where a rotation stands, with what it owes.
RotationOK ==
  /\ sink.at = "down" => sink.pending = NoStamp
  /\ sink.pending # NoStamp => marker = sink.pending /\ marker \in Published
  /\ sink.at \in {"retry", "finish"} => sink.pending # NoStamp
  /\ sink.at \in Rotating \cup {"rotate"} => sink.pending = NoStamp
  /\ sink.at \in Rotating => sink.to # NoStamp
  /\ sink.at \in Rotating \ {"marker"} => marker = sink.to
  /\ sink.at \in {"marker", "copy", "publish"} => sink.to \notin Published
  /\ sink.at \in {"prune", "truncate", "unmark"} => sink.to \in Published
  /\ sink.at \in {"prune", "truncate"} => live \subseteq archive[sink.to]
  /\ sink.at \in {"finish", "unmark"} => live = {}

\* What the file has that its owed archive has not was written too late.
OwedIsHeld == marker \in Published => live \cap written.ok \subseteq archive[marker] \cup owing

\* The file repeats no archive but the one its truncate is owed to.
RepeatsOwed ==
  ~forgot => \A s \in Published : live \cap archive[s] # {} =>
     s = marker /\ (sink.pending = s \/ sink.at \in {"down", "prune", "truncate"})

SinkInv ==
  /\ FilesOK /\ NumbersOK /\ RotationOK /\ OwedIsHeld /\ RepeatsOwed
  /\ LostOnlyOwed /\ ArchivedOnce

LEMMA SinkTypes ==
  ASSUME FilesOK
  PROVE  /\ NoStamp \notin Stamps /\ NoStamp \notin Published /\ Published \subseteq Stamps
         /\ \A s \in Stamps : s \in Published <=> archive[s] # Absent
         /\ \A s \in Published : archive[s] \subseteq Lines
         /\ Absent \notin SUBSET Lines /\ sink \in Sink
         /\ written.last \in 0..MaxDoorLines /\ written.ok \subseteq Lines
<1>1. NoStamp \notin Stamps /\ Published \subseteq Stamps /\ \A s \in Stamps : s \in Published <=> archive[s] # Absent
  BY DoorJournalAssumption DEF NoStamp, Stamps, Published
<1>2. \A s \in Published : archive[s] \subseteq Lines
  BY <1>1 DEF FilesOK
<1>3. -1 \notin Lines /\ -1 \in Absent
  BY DoorJournalAssumption DEF Lines, Absent
<1>4. QED
  BY <1>1, <1>2, <1>3 DEF FilesOK

\* A step that puts nothing into a file and takes nothing out.
LEMMA SameLines ==
  ASSUME SinkInv, UNCHANGED <<live, archive, pruned, owing>>, forgot' = forgot \/ forgot' = TRUE,
         written'.ok = written.ok
  PROVE  Published' = Published /\ Archived' = Archived /\ LostOnlyOwed' /\ ArchivedOnce'
<1>1. Published' = Published
  BY DEF Published
<1>2. Archived' = Archived /\ LinesHeld' = LinesHeld
  BY <1>1 DEF Archived, LinesHeld
<1>3. LostOnlyOwed' /\ ArchivedOnce'
  BY <1>1, <1>2 DEF SinkInv, LostOnlyOwed, ArchivedOnce
<1>4. QED
  BY <1>1, <1>2, <1>3

\* Where the sink may go without touching a file, if its marker allows.
LEMMA SinkSteps ==
  ASSUME SinkInv, FilesOK', UNCHANGED <<live, archive, written, pruned, owing, forgot>>,
         sink'.at \in {"down", "idle"} \/ (sink.at \notin {"down", "idle"} /\ sink'.line = sink.line),
         RotationOK', marker' = marker \/ marker' \notin Published,
         \A s \in Published : live \cap archive[s] # {} /\ ~forgot
            => s = marker' /\ (sink'.pending = s \/ sink'.at \in {"down", "prune", "truncate"})
  PROVE  SinkInv'
<1>1. Published' = Published /\ Archived' = Archived /\ LostOnlyOwed' /\ ArchivedOnce'
  BY SameLines
<1>2. NumbersOK'
  BY <1>1 DEF SinkInv, NumbersOK
<1>3. OwedIsHeld'
  BY <1>1 DEF SinkInv, OwedIsHeld
<1>4. RepeatsOwed'
  BY <1>1 DEF RepeatsOwed
<1>5. QED
  BY <1>1, <1>2, <1>3, <1>4 DEF SinkInv

\* The sink of a server that has started, with what it found pending.
Started(k, p) == k \in Sink /\ k.at = "idle" /\ k.line = 0 /\ k.to = NoStamp /\ k.pending = p

LEMMA DownFields ==
  /\ Down \in Sink /\ Down.at = "down" /\ Down.line = 0 /\ Down.to = NoStamp /\ Down.pending = NoStamp
  /\ Started([Down EXCEPT !.at = "idle"], NoStamp)
  /\ \A p \in Stamps \cup {NoStamp} : Started([Down EXCEPT !.at = "idle", !.pending = p], p)
<1>1. Down \in Sink /\ Down.at = "down" /\ Down.line = 0 /\ Down.to = NoStamp /\ Down.pending = NoStamp
  BY DEF Down, Sink
<1>2. Started([Down EXCEPT !.at = "idle"], NoStamp)
  BY <1>1 DEF Sink, Started
<1>3. ASSUME NEW p \in Stamps \cup {NoStamp}
      PROVE  Started([Down EXCEPT !.at = "idle", !.pending = p], p)
  BY <1>1, <1>3 DEF Sink, Started
<1>4. QED
  BY <1>1, <1>2, <1>3

LEMMA SinkFaultIsCounted ==
  ASSUME sinkFaults \in 0..MaxSinkFaults, SinkWorks \/ SinkFault
  PROVE  sinkFaults' \in 0..MaxSinkFaults
  BY DoorJournalAssumption DEF SinkWorks, SinkFault

LEMMA RecoveryKeeps == SinkInv /\ recoverRotationOnOpen => SinkInv'
<1> SUFFICES ASSUME SinkInv, recoverRotationOnOpen PROVE SinkInv'
  OBVIOUS
<1>1. /\ sink.at = "down" /\ UNCHANGED <<live, archive, written, kills, pruned, owing>>
      /\ FilesOK /\ RotationOK
  BY DEF recoverRotationOnOpen, Stands, SinkInv
<1>2. /\ sinkFaults' \in 0..MaxSinkFaults /\ draft' \in BOOLEAN /\ partial' \subseteq Stamps
      /\ forgot' \in BOOLEAN /\ (forgot' = forgot \/ forgot' = TRUE)
      /\ marker' \in {marker, NoStamp}
  <2>1. sinkFaults' \in 0..MaxSinkFaults
    BY <1>1, SinkFaultIsCounted DEF recoverRotationOnOpen, FilesOK
  <2>2. draft' \in {draft, FALSE} /\ partial' \subseteq partial
    BY DEF recoverRotationOnOpen
  <2>3. forgot' = forgot \/ forgot' = TRUE
    BY DEF recoverRotationOnOpen
  <2>4. marker' \in {marker, NoStamp}
    BY DEF recoverRotationOnOpen
  <2>5. QED
    BY <1>1, <2>1, <2>2, <2>3, <2>4 DEF FilesOK
<1>3. PICK p \in Stamps \cup {NoStamp} :
        /\ Started(sink', p)
        /\ ~forgot' => p = (IF marker \in Published THEN marker ELSE NoStamp)
        /\ p \in {NoStamp, marker} /\ (p # NoStamp => marker \in Published /\ marker' = marker)
        /\ marker \in Published => marker' = marker \/ forgot' = TRUE
  <2> DEFINE found == IF marker \in Published THEN marker ELSE NoStamp
  <2>1. found \in Nat /\ found \in Stamps \cup {NoStamp} /\ found \in {NoStamp, marker}
    BY <1>1 DEF FilesOK, Stamps, NoStamp
  <2>2. CASE sink' = [Down EXCEPT !.at = "idle", !.pending = found]
              /\ (marker \in Published => marker' = marker)
    <3>1. Started(sink', found)
      BY <2>1, <2>2, DownFields
    <3>2. QED
      BY <2>1, <2>2, <3>1, SinkTypes, <1>1
  <2>3. CASE sink' = [Down EXCEPT !.at = "idle"] /\ forgot' = TRUE
    <3>1. Started(sink', NoStamp)
      BY <2>3, DownFields
    <3>2. QED
      BY <2>3, <3>1
  <2>4. QED
    BY <2>2, <2>3 DEF recoverRotationOnOpen
<1>4. /\ sink' \in Sink /\ sink'.at = "idle" /\ sink'.pending = p /\ sink'.line = 0
  BY <1>3 DEF Started
<1>5. FilesOK'
  BY <1>1, <1>2, <1>4, SinkTypes DEF FilesOK
<1>6. Published' = Published /\ Archived' = Archived /\ LostOnlyOwed' /\ ArchivedOnce'
  BY <1>1, <1>2, SameLines
<1>7. RotationOK'
  BY <1>3, <1>4, <1>6 DEF RotationOK, Rotating
<1>8. NumbersOK'
  BY <1>1, <1>4, <1>6 DEF SinkInv, NumbersOK
<1>9. OwedIsHeld'
  BY <1>1, <1>2, <1>6, SinkTypes DEF SinkInv, OwedIsHeld
<1>10. RepeatsOwed'
  <2> SUFFICES ASSUME ~forgot', NEW s \in Published, live \cap archive[s] # {}
               PROVE  s = marker' /\ sink'.pending = s
    BY <1>1, <1>6 DEF RepeatsOwed
  <2>1. s = marker
    BY <1>2 DEF SinkInv, RepeatsOwed
  <2>2. QED
    BY <1>2, <1>3, <1>4, <2>1
<1>11. QED
  BY <1>5, <1>6, <1>7, <1>8, <1>9, <1>10 DEF SinkInv

Places == {"down", "idle", "retry", "finish", "rotate", "write"} \cup Rotating

\* The sink goes on: its line, its archive and what is pending stay.
OnTo(where) ==
  sink' \in Sink /\ sink'.at = where /\ sink'.line = sink.line /\ sink'.to = sink.to /\ sink'.pending = sink.pending

LEMMA SinkGoesOn ==
  ASSUME SinkInv, NEW where \in Places, SinkGoes(where)
  PROVE  OnTo(where)
  BY DEF SinkInv, FilesOK, SinkGoes, Sink, OnTo, Places

\* Death leaves what is on disk; a line that was being written may be there,
\* and nobody was told of it.
LEMMA DeathKeeps == SinkInv /\ serverDies => SinkInv'
<1> SUFFICES ASSUME SinkInv, serverDies PROVE SinkInv'
  OBVIOUS
<1>1. /\ sink.at # "down" /\ sink' = Down /\ kills' \in 0..MaxKills
      /\ UNCHANGED <<archive, marker, written, sinkFaults, pruned, owing, forgot>>
  BY DoorJournalAssumption DEF serverDies, SinkInv, FilesOK
<1>2. draft' \in BOOLEAN /\ partial' \subseteq Stamps
  <2>1. draft' \in BOOLEAN
    BY DEF serverDies, SinkInv, FilesOK
  <2>2. sink.to \in Stamps \/ sink.at # "copy"
    BY DEF SinkInv, FilesOK, Sink, RotationOK, Rotating
  <2>3. partial' = partial \/ (sink.at = "copy" /\ partial' = partial \cup {sink.to})
    BY DEF serverDies, Stands
  <2>4. QED
    BY <2>1, <2>2, <2>3 DEF SinkInv, FilesOK
<1>3. live' = live \/ (sink.at = "write" /\ live' = live \cup {sink.line})
  BY DEF serverDies, Stands
<1>4. sink.at = "write" => /\ sink.line = written.last /\ sink.line \in Lines
                           /\ sink.line \notin Archived \cup written.ok
  BY DEF SinkInv, NumbersOK, FilesOK, Lines
<1>5. /\ Published' = Published /\ Archived' = Archived /\ sink'.at = "down" /\ sink'.pending = NoStamp
      /\ sink' \in Sink
  BY <1>1, DownFields DEF Published, Archived
<1>6. FilesOK'
  BY <1>1, <1>2, <1>3, <1>4, <1>5 DEF SinkInv, FilesOK
<1>7. NumbersOK'
  <2>1. \A l \in live' : l <= written.last
    BY <1>1, <1>3, <1>4, SinkTypes DEF SinkInv, NumbersOK
  <2>2. QED
    BY <1>1, <1>5, <2>1 DEF SinkInv, NumbersOK
<1>8. RotationOK'
  BY <1>5 DEF RotationOK, Rotating
<1>9. live' \cap written.ok = live \cap written.ok /\ \A s \in Published : live' \cap archive[s] = live \cap archive[s]
  BY <1>3, <1>4 DEF Archived
<1>10. OwedIsHeld'
  BY <1>1, <1>5, <1>9 DEF SinkInv, OwedIsHeld
<1>11. RepeatsOwed'
  BY <1>1, <1>5, <1>9 DEF SinkInv, RepeatsOwed
<1>12. LostOnlyOwed' /\ ArchivedOnce'
  BY <1>1, <1>3, <1>5 DEF SinkInv, LostOnlyOwed, ArchivedOnce, LinesHeld
<1>13. QED
  BY <1>6, <1>7, <1>8, <1>10, <1>11, <1>12 DEF SinkInv

\* A number is taken, or not even that is done.
LEMMA NumberKeeps == SinkInv /\ writeLocked => SinkInv'
<1> SUFFICES ASSUME SinkInv, writeLocked PROVE SinkInv'
  OBVIOUS
<1>1. /\ sink.at = "idle" /\ NextLine \in 1..MaxDoorLines /\ NextLine = written.last + 1
      /\ UNCHANGED <<live, archive, partial, marker, draft, kills, pruned, owing, forgot>>
  BY DEF writeLocked, Stands, NextLine, SinkInv, FilesOK
<1>2. /\ written' \in [last : 0..MaxDoorLines, ok : SUBSET Lines]
      /\ written'.last = NextLine /\ written'.ok = written.ok
  BY <1>1 DEF writeLocked, SinkInv, FilesOK
<1>3. sinkFaults' \in 0..MaxSinkFaults
  BY SinkFaultIsCounted DEF writeLocked, SinkInv, FilesOK
<1>4. \/ sink' = sink
      \/ /\ sink' \in Sink /\ sink'.line = NextLine /\ sink'.to = sink.to /\ sink'.pending = sink.pending
         /\ sink'.at \in {"retry", "rotate", "write"}
         /\ sink'.at = "retry" => sink.pending # NoStamp
         /\ sink'.at = "rotate" => sink.pending = NoStamp
  <2>1. NextLine \in Nat /\ sink \in Sink
    BY <1>1, DoorJournalAssumption DEF SinkInv, FilesOK
  <2>2. CASE sink' = [sink EXCEPT !.line = NextLine,
                                  !.at = IF sink.pending # NoStamp THEN "retry"
                                         ELSE IF Cardinality(live) + 1 > MaxBytes THEN "rotate" ELSE "write"]
    BY <2>1, <2>2 DEF Sink
  <2>3. CASE sink' = [sink EXCEPT !.line = NextLine, !.at = "write"]
    BY <2>1, <2>3 DEF Sink
  <2>4. QED
    BY <2>2, <2>3 DEF writeLocked
<1>5. FilesOK'
  BY <1>1, <1>2, <1>3, <1>4 DEF SinkInv, FilesOK
<1>6. Published' = Published /\ Archived' = Archived /\ LostOnlyOwed' /\ ArchivedOnce'
  BY <1>1, <1>2, SameLines
<1>7. NumbersOK'
  <2>1. \A l \in live \cup Archived \cup written.ok : l \in Nat /\ l <= written.last
    BY SinkTypes DEF SinkInv, FilesOK, NumbersOK, Archived, Lines
  <2>2. \A l \in live \cup Archived \cup written.ok : l <= NextLine /\ l # NextLine
    BY <1>1, <2>1, SinkTypes DEF SinkInv
  <2>3. NextLine # 0
    BY <1>1
  <2>4. sink'.at \notin {"down", "idle"} => sink'.line = NextLine
    BY <1>1, <1>4
  <2>5. QED
    BY <1>1, <1>2, <1>6, <2>2, <2>3, <2>4 DEF NumbersOK
<1>8. RotationOK'
  BY <1>1, <1>4, <1>6 DEF SinkInv, RotationOK, Rotating
<1>9. OwedIsHeld' /\ RepeatsOwed'
  BY <1>1, <1>2, <1>4, <1>6 DEF SinkInv, OwedIsHeld, RepeatsOwed
<1>10. QED
  BY <1>5, <1>6, <1>7, <1>8, <1>9 DEF SinkInv

\* The truncate that was owed: what it takes is in the archive, or was written
\* too late.
LEMMA RetryKeeps == SinkInv /\ retryTruncate => SinkInv'
<1> SUFFICES ASSUME SinkInv, retryTruncate PROVE SinkInv'
  OBVIOUS
<1>1. /\ sink.at = "retry" /\ UNCHANGED <<archive, partial, marker, draft, written, kills, pruned, owing, forgot>>
      /\ sinkFaults' \in 0..MaxSinkFaults /\ sink.pending # NoStamp /\ marker = sink.pending /\ marker \in Published
  BY SinkFaultIsCounted DEF retryTruncate, Stands, History, SinkInv, FilesOK, RotationOK
<1>2. PICK where \in {"finish", "write"} : OnTo(where) /\ live' = (IF where = "finish" THEN {} ELSE live)
  BY SinkGoesOn DEF retryTruncate, Places
<1>3. Published' = Published /\ Archived' = Archived
  BY <1>1 DEF Published, Archived
<1>4. FilesOK'
  BY <1>1, <1>2 DEF SinkInv, FilesOK, OnTo
<1>5. NumbersOK' /\ RotationOK'
  BY <1>1, <1>2, <1>3 DEF SinkInv, NumbersOK, RotationOK, Rotating, OnTo
<1>6. OwedIsHeld' /\ RepeatsOwed'
  BY <1>1, <1>2, <1>3 DEF SinkInv, OwedIsHeld, RepeatsOwed, OnTo
<1>7. ArchivedOnce'
  BY <1>1, <1>3 DEF SinkInv, ArchivedOnce
<1>8. LostOnlyOwed'
  <2>1. live \cap written.ok \subseteq Archived \cup owing
    BY <1>1 DEF SinkInv, OwedIsHeld, Archived
  <2>2. written.ok \ owing \subseteq live \cup Archived \cup pruned
    BY DEF SinkInv, LostOnlyOwed, LinesHeld, Archived
  <2>3. written.ok \ owing \subseteq live' \cup Archived \cup pruned
    BY <2>1, <2>2
  <2>4. QED
    BY <1>1, <1>3, <2>3 DEF LostOnlyOwed, LinesHeld, Archived
<1>9. QED
  BY <1>4, <1>5, <1>6, <1>7, <1>8 DEF SinkInv

\* While the new copy is not published the file repeats no archive.
LEMMA NothingOwed ==
  ASSUME SinkInv, sink.at \in {"rotate", "marker", "copy", "publish"}
  PROVE  /\ sink.pending = NoStamp /\ sink.at \notin {"down", "idle"}
         /\ ~forgot => \A s \in Published : live \cap archive[s] = {}
<1>1. sink.pending = NoStamp /\ sink.at \notin {"down", "idle", "prune", "truncate"}
  BY DEF SinkInv, RotationOK, Rotating
<1>2. \A s \in Published : sink.pending # s
  BY <1>1, SinkTypes DEF SinkInv
<1>3. QED
  BY <1>1, <1>2 DEF SinkInv, RepeatsOwed

LEMMA FinishKeeps == SinkInv /\ finishPending => SinkInv'
<1> SUFFICES ASSUME SinkInv, finishPending PROVE SinkInv'
  OBVIOUS
<1>1. /\ sink.at = "finish" /\ UNCHANGED <<live, archive, partial, draft, written, kills, pruned, owing, forgot>>
      /\ sinkFaults' \in 0..MaxSinkFaults /\ live = {} /\ marker' \in {marker, NoStamp}
  BY SinkFaultIsCounted DEF finishPending, Stands, History, SinkInv, FilesOK, RotationOK
<1>2. /\ sink' \in Sink /\ sink'.at = "write" /\ sink'.line = sink.line /\ sink'.pending = NoStamp
  BY DEF finishPending, SinkInv, FilesOK, Sink, Rotating
<1>3. FilesOK'
  BY <1>1, <1>2 DEF SinkInv, FilesOK
<1>4. RotationOK'
  BY <1>2 DEF RotationOK, Rotating
<1>5. QED
  BY <1>1, <1>2, <1>3, <1>4, SinkSteps, SinkTypes DEF SinkInv

LEMMA NameKeeps == SinkInv /\ nextArchivePath => SinkInv'
<1> SUFFICES ASSUME SinkInv, nextArchivePath PROVE SinkInv'
  OBVIOUS
<1>1. /\ sink.at = "rotate"
      /\ UNCHANGED <<live, archive, partial, marker, draft, sinkFaults, written, kills, pruned, owing, forgot>>
  BY DEF nextArchivePath, Stands, History, SinkWorks
<1>2. PICK s \in Stamps \ Published :
        sink' \in Sink /\ sink'.at = "marker" /\ sink'.line = sink.line /\ sink'.pending = sink.pending /\ sink'.to = s
  BY ZenonT(60) DEF nextArchivePath, SinkInv, FilesOK, Sink, Rotating
<1>3. FilesOK' /\ Published' = Published
  BY <1>1, <1>2 DEF SinkInv, FilesOK, Published
<1>4. RotationOK'
  BY <1>1, <1>2, <1>3, NothingOwed, SinkTypes DEF SinkInv, RotationOK, Rotating
<1>5. QED
  BY <1>1, <1>2, <1>3, <1>4, NothingOwed, SinkSteps

LEMMA MarkerKeeps == SinkInv /\ writeRotationMarkerLocked => SinkInv'
<1> SUFFICES ASSUME SinkInv, writeRotationMarkerLocked PROVE SinkInv'
  OBVIOUS
<1>1. /\ sink.at = "marker" /\ UNCHANGED <<live, archive, partial, written, kills, pruned, owing, forgot>>
      /\ draft' = FALSE /\ sinkFaults' \in 0..MaxSinkFaults
  BY SinkFaultIsCounted DEF writeRotationMarkerLocked, Stands, History, SinkInv, FilesOK
<1>2. PICK where \in {"copy", "write"} : OnTo(where) /\ marker' = (IF where = "copy" THEN sink.to ELSE marker)
  BY SinkGoesOn DEF writeRotationMarkerLocked, Places, Rotating
<1>3. sink.to \in Stamps /\ sink.to \notin Published
  BY <1>1 DEF SinkInv, RotationOK, Rotating, FilesOK, Sink
<1>4. FilesOK' /\ Published' = Published
  BY <1>1, <1>2, <1>3 DEF SinkInv, FilesOK, OnTo, Published
<1>5. RotationOK'
  BY <1>1, <1>2, <1>3, <1>4, NothingOwed DEF SinkInv, RotationOK, Rotating, OnTo
<1>6. QED
  BY <1>1, <1>2, <1>3, <1>4, <1>5, NothingOwed, SinkSteps DEF OnTo

\* A copy or a rename that is taken back leaves the archives as they were.
LEMMA TakenBack ==
  ASSUME SinkInv, TakesBack, sink.at \in {"copy", "publish"},
         UNCHANGED <<live, archive, draft, written, kills, pruned, owing, forgot>>
  PROVE  SinkInv'
<1>1. OnTo("write")
  BY SinkGoesOn DEF TakesBack, Places
<1>2. sink.to \in Stamps /\ marker' \in {marker, NoStamp} /\ sinkFaults' \in 0..MaxSinkFaults
  BY SinkFaultIsCounted DEF TakesBack, SinkInv, RotationOK, Rotating, FilesOK, Sink
<1>3. partial' \subseteq Stamps
  BY <1>2 DEF TakesBack, SinkInv, FilesOK
<1>4. FilesOK' /\ Published' = Published
  BY <1>1, <1>2, <1>3 DEF SinkInv, FilesOK, OnTo, Published
<1>5. RotationOK'
  BY <1>1, NothingOwed DEF RotationOK, Rotating, OnTo
<1>6. QED
  BY <1>1, <1>2, <1>4, <1>5, NothingOwed, SinkSteps, SinkTypes DEF OnTo, SinkInv

LEMMA CopyKeeps == SinkInv /\ copyCurrentToLocked => SinkInv'
<1> SUFFICES ASSUME SinkInv, copyCurrentToLocked PROVE SinkInv'
  OBVIOUS
<1>1. sink.at = "copy" /\ UNCHANGED <<live, archive, draft, written, kills, pruned, owing, forgot>>
  BY DEF copyCurrentToLocked, Stands, History
<1>2. CASE TakesBack
  BY <1>1, <1>2, TakenBack
<1>3. CASE SinkWorks /\ partial' = partial \cup {sink.to} /\ SinkGoes("publish") /\ UNCHANGED marker
  <2>1. OnTo("publish")
    BY <1>3, SinkGoesOn DEF Places, Rotating
  <2>2. sink.to \in Stamps /\ sinkFaults' = sinkFaults
    BY <1>1, <1>3 DEF SinkWorks, SinkInv, RotationOK, Rotating, FilesOK, Sink
  <2>3. FilesOK' /\ Published' = Published
    BY <1>1, <1>3, <2>1, <2>2 DEF SinkInv, FilesOK, OnTo, Published
  <2>4. RotationOK'
    BY <1>1, <1>3, <2>1, <2>3, NothingOwed DEF SinkInv, RotationOK, Rotating, OnTo
  <2>5. QED
    BY <1>1, <1>3, <2>1, <2>3, <2>4, NothingOwed, SinkSteps DEF OnTo
<1>4. QED
  BY <1>2, <1>3 DEF copyCurrentToLocked

\* The archive appears whole: from here a line of the file is in two places,
\* which the marker tells.
LEMMA PublishKeeps == SinkInv /\ publish => SinkInv'
<1> SUFFICES ASSUME SinkInv, publish PROVE SinkInv'
  OBVIOUS
<1>1. sink.at = "publish" /\ UNCHANGED <<live, draft, written, kills, pruned, owing, forgot>>
  BY DEF publish, Stands, History
<1>2. CASE TakesBack /\ UNCHANGED archive
  BY <1>1, <1>2, TakenBack
<1>3. CASE /\ SinkWorks /\ partial' = partial \ {sink.to} /\ SinkGoes("prune") /\ UNCHANGED marker
           /\ archive' = [archive EXCEPT ![sink.to] = live]
  <2>1. OnTo("prune")
    BY <1>3, SinkGoesOn DEF Places, Rotating
  <2>2. sink.to \in Stamps /\ marker = sink.to /\ sink.to \notin Published /\ sink.to # NoStamp
    BY <1>1 DEF SinkInv, RotationOK, Rotating, FilesOK, Sink
  <2>3. /\ archive' \in [Stamps -> (SUBSET Lines) \cup {Absent}] /\ archive'[sink.to] = live
        /\ \A s \in Stamps \ {sink.to} : archive'[s] = archive[s]
    BY <1>3, <2>2 DEF SinkInv, FilesOK
  <2>4. Published' = Published \cup {sink.to}
    <3>1. live # Absent
      BY SinkTypes DEF SinkInv, FilesOK
    <3>2. QED
      BY <2>2, <2>3, <3>1 DEF Published
  <2>5. \A s \in Published : archive'[s] = archive[s] /\ s # sink.to
    BY <2>2, <2>3 DEF Published
  <2>6. Archived' = Archived \cup live
    BY <2>3, <2>4, <2>5 DEF Archived
  <2>7. FilesOK'
    BY <1>1, <1>3, <2>1, <2>3 DEF SinkInv, FilesOK, OnTo, SinkWorks
  <2>8. NumbersOK'
    BY <1>1, <2>1, <2>6 DEF SinkInv, NumbersOK, OnTo
  <2>9. RotationOK'
    BY <1>1, <1>3, <2>1, <2>2, <2>3, <2>4, NothingOwed DEF RotationOK, Rotating, OnTo
  <2>10. OwedIsHeld'
    BY <1>1, <1>3, <2>2, <2>3 DEF OwedIsHeld
  <2>11. RepeatsOwed'
    BY <1>1, <1>3, <2>1, <2>2, <2>4, <2>5, NothingOwed DEF RepeatsOwed, OnTo
  <2>12. LostOnlyOwed'
    BY <1>1, <2>6 DEF SinkInv, LostOnlyOwed, LinesHeld, Archived
  <2>13. ArchivedOnce'
    BY <1>1, <2>3, <2>4, <2>5, NothingOwed DEF SinkInv, ArchivedOnce
  <2>14. QED
    BY <2>7, <2>8, <2>9, <2>10, <2>11, <2>12, <2>13 DEF SinkInv
<1>4. QED
  BY <1>2, <1>3 DEF publish

\* Retention spares the archive of this rotation; what it takes it accounts for.
LEMMA PruneKeeps == SinkInv /\ pruneArchivesLocked => SinkInv'
<1> SUFFICES ASSUME SinkInv, pruneArchivesLocked PROVE SinkInv'
  OBVIOUS
<1>1. /\ sink.at = "prune" /\ UNCHANGED <<live, partial, marker, draft, written, kills, owing, forgot>>
      /\ sinkFaults' \in 0..MaxSinkFaults
  BY SinkFaultIsCounted DEF pruneArchivesLocked, Stands, SinkInv, FilesOK
<1>2. OnTo("truncate")
  BY SinkGoesOn DEF pruneArchivesLocked, Places, Rotating
<1>3. PICK gone \in SUBSET Surplus :
        /\ archive' = [s \in Stamps |-> IF s \in gone THEN Absent ELSE archive[s]]
        /\ pruned' = pruned \cup UNION {archive[s] : s \in gone}
  BY DEF pruneArchivesLocked
<1>4. gone \subseteq Published \ {sink.to}
  BY DEF Surplus
<1>5. Published' = Published \ gone
  BY <1>3 DEF Published
<1>6. \A s \in Published' : archive'[s] = archive[s] /\ s \in Published
  BY <1>3, <1>5 DEF Published
<1>7. Archived' \subseteq Archived /\ Archived \subseteq Archived' \cup pruned'
  <2>1. Archived' \subseteq Archived
    BY <1>6 DEF Archived
  <2>2. ASSUME NEW s \in Published, NEW l \in archive[s] PROVE l \in Archived' \cup pruned'
    BY <1>3, <1>5, <1>6 DEF Archived
  <2>3. QED
    BY <2>1, <2>2 DEF Archived
<1>8. /\ marker = sink.to /\ sink.to \in Published' /\ sink.pending = NoStamp
      /\ live \subseteq archive[sink.to] /\ archive'[sink.to] = archive[sink.to] /\ sink.to # NoStamp
  BY <1>1, <1>4, <1>5, <1>6 DEF SinkInv, RotationOK, Rotating
<1>9. FilesOK'
  <2>1. archive' \in [Stamps -> (SUBSET Lines) \cup {Absent}]
    BY <1>3 DEF SinkInv, FilesOK
  <2>2. pruned' \subseteq Lines
    BY <1>3, <1>4, SinkTypes DEF SinkInv, FilesOK
  <2>3. QED
    BY <1>1, <1>2, <2>1, <2>2 DEF SinkInv, FilesOK, OnTo
<1>10. NumbersOK'
  BY <1>1, <1>2, <1>7 DEF SinkInv, NumbersOK, OnTo
<1>11. RotationOK'
  BY <1>1, <1>2, <1>8 DEF RotationOK, Rotating, OnTo
<1>12. OwedIsHeld'
  BY <1>1, <1>8 DEF OwedIsHeld
<1>13. RepeatsOwed'
  BY <1>1, <1>2, <1>6, <1>8 DEF SinkInv, RepeatsOwed, OnTo
<1>14. LostOnlyOwed'
  <2>1. pruned \subseteq pruned'
    BY <1>3
  <2>2. written.ok \ owing \subseteq live \cup Archived' \cup pruned'
    BY <1>7, <2>1 DEF SinkInv, LostOnlyOwed, LinesHeld, Archived
  <2>3. QED
    BY <1>1, <2>2 DEF LostOnlyOwed, LinesHeld, Archived
<1>15. ArchivedOnce'
  BY <1>1, <1>6 DEF SinkInv, ArchivedOnce
<1>16. QED
  BY <1>9, <1>10, <1>11, <1>12, <1>13, <1>14, <1>15 DEF SinkInv

\* The truncate of this rotation, or the note that it is owed.
LEMMA TruncateKeeps == SinkInv /\ truncateToZero => SinkInv'
<1> SUFFICES ASSUME SinkInv, truncateToZero PROVE SinkInv'
  OBVIOUS
<1>1. /\ sink.at = "truncate" /\ UNCHANGED <<archive, partial, marker, draft, written, kills, pruned, owing, forgot>>
      /\ sinkFaults' \in 0..MaxSinkFaults
  BY SinkFaultIsCounted DEF truncateToZero, Stands, History, SinkInv, FilesOK
<1>2. /\ marker = sink.to /\ sink.to \in Published /\ live \subseteq archive[sink.to]
      /\ sink.to # NoStamp /\ sink.pending = NoStamp /\ sink.at \notin {"down", "idle"}
      /\ sink.to \in Stamps
  BY <1>1 DEF SinkInv, RotationOK, Rotating, Published
<1>3. Published' = Published /\ Archived' = Archived
  BY <1>1 DEF Published, Archived
<1>4. CASE SinkWorks /\ live' = {} /\ SinkGoes("unmark")
  <2>1. OnTo("unmark")
    BY <1>4, SinkGoesOn DEF Places, Rotating
  <2>2. FilesOK'
    BY <1>1, <1>4, <2>1 DEF SinkInv, FilesOK, OnTo
  <2>3. NumbersOK'
    BY <1>1, <1>2, <1>3, <1>4, <2>1 DEF SinkInv, NumbersOK, OnTo
  <2>4. RotationOK'
    BY <1>1, <1>2, <1>3, <1>4, <2>1 DEF RotationOK, Rotating, OnTo
  <2>5. OwedIsHeld' /\ RepeatsOwed'
    BY <1>4 DEF OwedIsHeld, RepeatsOwed
  <2>6. LostOnlyOwed'
    <3>1. live \subseteq Archived
      BY <1>2 DEF Archived
    <3>2. QED
      BY <1>1, <1>3, <3>1 DEF SinkInv, LostOnlyOwed, LinesHeld, Archived
  <2>7. ArchivedOnce'
    BY <1>1, <1>3 DEF SinkInv, ArchivedOnce
  <2>8. QED
    BY <2>2, <2>3, <2>4, <2>5, <2>6, <2>7 DEF SinkInv
<1>5. CASE SinkFault /\ UNCHANGED live /\ sink' = [sink EXCEPT !.at = "write", !.pending = sink.to]
  <2>1. sink' \in Sink /\ sink'.at = "write" /\ sink'.line = sink.line /\ sink'.pending = sink.to
    BY <1>2, <1>5 DEF SinkInv, FilesOK, Sink
  <2>2. FilesOK'
    BY <1>1, <1>5, <2>1 DEF SinkInv, FilesOK
  <2>3. RotationOK'
    BY <1>1, <1>2, <1>3, <2>1 DEF RotationOK, Rotating
  <2>4. \A s \in Published : live \cap archive[s] # {} /\ ~forgot => s = marker
    BY DEF SinkInv, RepeatsOwed
  <2>5. QED
    BY <1>1, <1>2, <1>5, <2>1, <2>2, <2>3, <2>4, SinkSteps
<1>6. QED
  BY <1>4, <1>5 DEF truncateToZero

LEMMA UnmarkKeeps == SinkInv /\ removeMarker => SinkInv'
<1> SUFFICES ASSUME SinkInv, removeMarker PROVE SinkInv'
  OBVIOUS
<1>1. /\ sink.at = "unmark" /\ UNCHANGED <<live, archive, partial, draft, written, kills, pruned, owing, forgot>>
      /\ sinkFaults' \in 0..MaxSinkFaults /\ live = {} /\ marker' \in {marker, NoStamp} /\ sink.pending = NoStamp
  BY SinkFaultIsCounted DEF removeMarker, Stands, History, SinkInv, FilesOK, RotationOK, Rotating
<1>2. OnTo("write")
  BY SinkGoesOn DEF removeMarker, Places
<1>3. FilesOK'
  BY <1>1, <1>2 DEF SinkInv, FilesOK, OnTo
<1>4. RotationOK'
  BY <1>1, <1>2 DEF RotationOK, Rotating, OnTo
<1>5. QED
  BY <1>1, <1>2, <1>3, <1>4, SinkSteps, SinkTypes DEF SinkInv, OnTo

\* A line goes into the file, or may be there after a failure; while a truncate
\* is owed it is one that may be lost.
LEMMA AppendKeeps ==
  ASSUME SinkInv, NEW l \in Lines, Appends(l), l \notin live \cup Archived \cup written.ok, written.last <= l,
         UNCHANGED <<archive, partial, marker, draft, kills, pruned, forgot>>,
         sink' \in Sink, sink.at \in {"down", "idle", "write"}, sink'.pending = sink.pending,
         sink'.at = (IF sink.at = "down" THEN "down" ELSE "idle")
  PROVE  SinkInv'
<1>1. /\ sinkFaults' \in 0..MaxSinkFaults /\ live \subseteq live' /\ live' \subseteq live \cup {l}
      /\ written' \in [last : 0..MaxDoorLines, ok : SUBSET Lines] /\ written'.last = l
      /\ written'.ok \subseteq written.ok \cup {l}
      /\ owing \subseteq owing' /\ owing' \subseteq owing \cup {l}
      /\ l \in written'.ok => l \in live' /\ (Owed => l \in owing')
  <2>1. FilesOK /\ l \in 0..MaxDoorLines
    BY DEF SinkInv, Lines
  <2>2. CASE /\ SinkWorks /\ live' = live \cup {l} /\ written' = [last |-> l, ok |-> written.ok \cup {l}]
             /\ owing' = IF Owed THEN owing \cup {l} ELSE owing
    BY <2>1, <2>2 DEF FilesOK, SinkWorks
  <2>3. CASE /\ SinkFault /\ live' \in {live, live \cup {l}} /\ written' = [written EXCEPT !.last = l]
             /\ UNCHANGED owing
    <3>1. /\ written' \in [last : 0..MaxDoorLines, ok : SUBSET Lines] /\ written'.last = l
          /\ written'.ok = written.ok
      BY <2>1, <2>3 DEF FilesOK
    <3>2. sinkFaults' \in 0..MaxSinkFaults
      BY <2>1, <2>3, SinkFaultIsCounted DEF FilesOK
    <3>3. QED
      BY <2>3, <3>1, <3>2
  <2>4. QED
    BY <2>2, <2>3 DEF Appends
<1>2. Published' = Published /\ Archived' = Archived
  BY DEF Published, Archived
<1>3. FilesOK'
  BY <1>1 DEF SinkInv, FilesOK
<1>4. NumbersOK'
  <2>1. \A m \in live \cup Archived \cup written.ok : m \in Nat /\ m <= written.last
    BY SinkTypes DEF SinkInv, FilesOK, NumbersOK, Archived, Lines
  <2>2. written.last \in Nat /\ l \in Nat
    BY SinkTypes DEF SinkInv, Lines
  <2>3. \A m \in live' \cup Archived \cup written'.ok : m <= l
    <3>1. \A m \in live \cup Archived \cup written.ok : m <= l
      BY <2>1, <2>2
    <3>2. l <= l
      BY <2>2
    <3>3. QED
      BY <1>1, <3>1, <3>2
  <2>4. QED
    BY <1>1, <1>2, <2>3 DEF NumbersOK
<1>5. RotationOK'
  BY <1>2 DEF SinkInv, RotationOK, Rotating
<1>6. OwedIsHeld'
  <2> SUFFICES ASSUME marker \in Published, NEW m \in live' \cap written'.ok
               PROVE  m \in archive[marker] \cup owing'
    BY <1>2 DEF OwedIsHeld
  <2>1. CASE m = l
    BY <1>1, <2>1 DEF Owed
  <2>2. CASE m # l
    BY <1>1, <2>2 DEF SinkInv, OwedIsHeld
  <2>3. QED
    BY <2>1, <2>2
<1>7. \A s \in Published : live' \cap archive[s] = live \cap archive[s]
  BY <1>1 DEF Archived
<1>8. RepeatsOwed'
  BY <1>2, <1>7 DEF SinkInv, RepeatsOwed
<1>9. LostOnlyOwed'
  <2> SUFFICES ASSUME NEW m \in written'.ok \ owing' PROVE m \in live' \cup Archived \cup pruned
    BY <1>2 DEF LostOnlyOwed, LinesHeld, Archived
  <2>1. m = l \/ m \in written.ok \ owing
    BY <1>1
  <2>2. QED
    BY <1>1, <2>1 DEF SinkInv, LostOnlyOwed, LinesHeld, Archived
<1>10. ArchivedOnce'
  BY <1>2 DEF SinkInv, ArchivedOnce
<1>11. QED
  BY <1>3, <1>4, <1>5, <1>6, <1>8, <1>9, <1>10 DEF SinkInv

LEMMA WriteKeeps == SinkInv /\ (writeLine \/ watchdogWrites) => SinkInv'
<1>1. ASSUME SinkInv, writeLine PROVE SinkInv'
  <2>1. /\ sink.at = "write" /\ Appends(sink.line)
        /\ UNCHANGED <<archive, partial, marker, draft, kills, pruned, forgot>>
    BY <1>1 DEF writeLine, Stands
  <2>2. /\ sink' \in Sink /\ sink'.at = "idle" /\ sink'.pending = sink.pending
    BY <1>1 DEF writeLine, SinkInv, FilesOK, Sink, NoStamp
  <2>3. /\ sink.line = written.last /\ sink.line # 0 /\ sink.line \notin live \cup Archived \cup written.ok
    BY <1>1, <2>1 DEF SinkInv, NumbersOK
  <2>4. sink.line \in Lines /\ written.last <= sink.line
    BY <1>1, <2>3, SinkTypes, DoorJournalAssumption DEF Lines, SinkInv
  <2>5. QED
    BY <1>1, <2>1, <2>2, <2>3, <2>4, AppendKeeps
<1>2. ASSUME SinkInv, watchdogWrites PROVE SinkInv'
  <2>1. /\ Appends(NextLine) /\ NextLine <= MaxDoorLines
        /\ UNCHANGED <<archive, partial, marker, draft, sink, kills, pruned, forgot>>
    BY <1>2 DEF watchdogWrites
  <2>2. sink \in Sink /\ sink.at \in {"down", "idle"}
    BY <1>2 DEF watchdogWrites, Locked, SinkInv, FilesOK
  <2>3. written.last \in Nat /\ NextLine = written.last + 1 /\ NextLine \in Lines
    BY <1>2, <2>1, SinkTypes, DoorJournalAssumption DEF NextLine, Lines, SinkInv
  <2>4. \A m \in live \cup Archived \cup written.ok : m \in Nat /\ m <= written.last
    BY <1>2, SinkTypes DEF SinkInv, FilesOK, NumbersOK, Archived, Lines
  <2>5. NextLine \notin live \cup Archived \cup written.ok /\ written.last <= NextLine
    BY <2>3, <2>4
  <2>6. QED
    BY <1>2, <2>1, <2>2, <2>3, <2>5, AppendKeeps
<1>3. QED
  BY <1>1, <1>2

LEMMA SinkInit == DoorJournalInit => SinkInv
<1> SUFFICES ASSUME DoorJournalInit PROVE SinkInv
  OBVIOUS
<1>1. /\ live = {} /\ archive = [s \in Stamps |-> Absent] /\ partial = {} /\ marker = NoStamp /\ draft = FALSE
      /\ sink = Down /\ written = [last |-> 0, ok |-> {}]
      /\ sinkFaults = 0 /\ kills = 0 /\ pruned = {} /\ owing = {} /\ forgot = FALSE
  BY DEF DoorJournalInit
<1>2. Published = {} /\ Archived = {}
  BY <1>1 DEF Published, Archived
<1>3. FilesOK
  <2>1. 0 \in 0..MaxDoorLines /\ 0 \in 0..MaxSinkFaults /\ 0 \in 0..MaxKills
    BY DoorJournalAssumption
  <2>2. written \in [last : 0..MaxDoorLines, ok : SUBSET Lines]
    BY <1>1, <2>1
  <2>3. archive \in [Stamps -> (SUBSET Lines) \cup {Absent}]
    BY <1>1
  <2>4. sink \in Sink
    BY <1>1, DownFields
  <2>5. QED
    BY <1>1, <2>1, <2>2, <2>3, <2>4 DEF FilesOK
<1>4. NumbersOK /\ RotationOK
  BY <1>1, <1>2, DownFields DEF NumbersOK, RotationOK, Rotating
<1>5. OwedIsHeld /\ RepeatsOwed /\ LostOnlyOwed /\ ArchivedOnce
  BY <1>1, <1>2 DEF OwedIsHeld, RepeatsOwed, LostOnlyOwed, ArchivedOnce
<1>6. QED
  BY <1>3, <1>4, <1>5 DEF SinkInv

LEMMA SinkStep == SinkInv /\ [DoorJournalNext]_sinkVars => SinkInv'
<1> SUFFICES ASSUME SinkInv, [DoorJournalNext]_sinkVars PROVE SinkInv'
  OBVIOUS
<1>1. CASE recoverRotationOnOpen \/ serverDies \/ writeLocked \/ retryTruncate \/ finishPending
  BY <1>1, RecoveryKeeps, DeathKeeps, NumberKeeps, RetryKeeps, FinishKeeps
<1>2. CASE nextArchivePath \/ writeRotationMarkerLocked \/ copyCurrentToLocked \/ publish
  BY <1>2, NameKeeps, MarkerKeeps, CopyKeeps, PublishKeeps
<1>3. CASE pruneArchivesLocked \/ truncateToZero \/ removeMarker \/ writeLine \/ watchdogWrites
  BY <1>3, PruneKeeps, TruncateKeeps, UnmarkKeeps, WriteKeeps
<1>4. CASE UNCHANGED sinkVars
  <2>1. Published' = Published
    BY <1>4 DEF sinkVars, Published
  <2>2. FilesOK' /\ NumbersOK' /\ RotationOK'
    BY <1>4, <2>1 DEF sinkVars, SinkInv, FilesOK, NumbersOK, RotationOK, Archived
  <2>3. OwedIsHeld' /\ RepeatsOwed' /\ LostOnlyOwed' /\ ArchivedOnce'
    BY <1>4, <2>1 DEF sinkVars, SinkInv, OwedIsHeld, RepeatsOwed, LostOnlyOwed, ArchivedOnce, LinesHeld
  <2>4. QED
    BY <2>2, <2>3 DEF SinkInv
<1>5. QED
  BY <1>1, <1>2, <1>3, <1>4 DEF DoorJournalNext

\* The invariant the two theorems below rest on: what every file of the journal
\* may hold at each place the server can be killed at.
THEOREM SinkInvariant == DoorJournalSpec => []SinkInv
<1>1. DoorJournalInit => SinkInv
  BY SinkInit
<1>2. SinkInv /\ [DoorJournalNext]_sinkVars => SinkInv'
  BY SinkStep
<1>3. QED
  BY <1>1, <1>2, PTL DEF DoorJournalSpec

\* Whatever fails and whenever the server is killed, in fileSink's rotation and
\* in its recovery: a line written and synced is in the file or in an archive
\* until retention takes it or a truncate that was owed when it was written, the
\* archive such a truncate is owed to stands, and no line is archived twice.
THEOREM RotationIsSafe == DoorJournalSpec => []RotationKeeps
<1>1. SinkInv => RotationKeeps
  <2> SUFFICES ASSUME SinkInv PROVE RotationKeeps
    OBVIOUS
  <2>1. OwedArchiveStands
    BY DEF SinkInv, RotationOK, Rotating, OwedArchiveStands, Stands
  <2>2. QED
    BY <2>1 DEF SinkInv, RotationKeeps
<1>2. QED
  BY <1>1, SinkInvariant, PTL

\* The types of the journal's files and of the server's sink.
THEOREM SinkIsTyped == DoorJournalSpec => []DoorJournalTypeOK
<1>1. SinkInv => DoorJournalTypeOK
  <2> SUFFICES ASSUME SinkInv PROVE DoorJournalTypeOK
    OBVIOUS
  <2>1. \A l \in written.ok : l \in 1..written.last
    BY DEF SinkInv, FilesOK, NumbersOK, Lines
  <2>2. sink.pending \in Stamps \cup {NoStamp} /\ sink.to \in Stamps \cup {NoStamp} /\ written.last <= MaxDoorLines
    BY DoorJournalAssumption DEF SinkInv, FilesOK, Sink
  <2>3. QED
    BY <2>1, <2>2 DEF SinkInv, FilesOK, DoorJournalTypeOK, Lines
<1>2. QED
  BY <1>1, SinkInvariant, PTL

-----------------------------------------------------------------------------
(* The gateway's journal.  A line that was answered for is in a file that a *)
(* reader finds, behind the lines it was written behind; a torn tail was    *)
(* answered for to nobody, so that the line which joins it costs nothing.   *)

Dir == [lines : [Files -> Seq(Line)], torn : SUBSET Files, cur : 0..MaxFiles,
        archives : Seq(Files), gone : SUBSET Files, made : 0..MaxFiles, n : 0..MaxLines]

\* The files of the directory d that a reader finds or found (Kept).
FilesOf(d) == {f \in Files : f = d.cur \/ f \in Range(d.archives) \/ f \in d.gone}

\* Line i of file f, which can be read, is the line n.
Reads(d, f, i, n) == f \in FilesOf(d) /\ i \in 1..Len(d.lines[f]) /\ d.lines[f][i].whole /\ d.lines[f][i].id = n
HasLine(d, n) == \E f \in Files, i \in Nat : Reads(d, f, i, n)
HasRecord(d, A, c) == \E f \in Files, i \in Nat, n \in A : Reads(d, f, i, n) /\ d.lines[f][i].of = c

Chained(s) == \A i \in 2..Len(s) : s[i].whole => s[i].prev = s[i - 1].id

\* The file s with the line l behind.
Longer(s, l, t) ==
  /\ t \in Seq(Line) /\ t # <<>> /\ Last(t) = l /\ Len(t) = Len(s) + 1 /\ t[Len(t)] = l
  /\ \A i \in 1..Len(s) : i \in 1..Len(t) /\ t[i] = s[i]
  /\ Chained(s) /\ (s # <<>> => l.prev = Last(s).id) => Chained(t)

\* A torn tail is the last line of its file, and was answered for to nobody.
TornTail(s, n, A) == s # <<>> /\ Last(s).id <= n /\ Last(s).id \notin A

\* A directory after the appends of A were answered for.
DirOK(d, A) ==
  /\ d \in Dir /\ d.cur <= d.made /\ A \subseteq 1..d.n
  /\ \A f \in Files : f > d.made => d.lines[f] = <<>>
  /\ \A f \in d.torn : TornTail(d.lines[f], d.n, A)
  /\ d.cur # 0 => Chained(d.lines[d.cur])

\* An archive is removed (pruneRemoves).
Pruned(d, i) == [d EXCEPT !.archives = RemoveAt(@, i), !.gone = @ \cup {d.archives[i]}]

\* What was answered for in d is in e where it was.
Keeps(d, e, A) ==
  \A f \in FilesOf(d) :
    /\ f \in FilesOf(e)
    /\ \A i \in 1..Len(d.lines[f]) :
         d.lines[f][i].id \in A => i \in 1..Len(e.lines[f]) /\ e.lines[f][i] = d.lines[f][i]

\* The gateway's file is the one under the name; only a local command may hold
\* another.
HandlesOK ==
  /\ h \in [Writers -> 0..MaxFiles] /\ \A w \in Writers : h[w] <= dir.made
  /\ h[Gw] # 0 => h[Gw] = dir.cur
  /\ lost \in [Writers -> BOOLEAN] /\ arch \in [Writers -> 0..MaxFiles] /\ up \in BOOLEAN

\* A command of which c, w and r are place, answer and record, where its key has
\* been lost m times and had when it was watched been lost n times.
CommandOK(at, says, r, n, m) ==
  /\ at \in {"idle", "watched"} => r = "none"
  /\ at \in {"written", "changed", "noted"} => r # "none"
  /\ at \in {"watched", "written", "changed", "noted"} => n <= m
  /\ at \in {"changed", "noted"} /\ r = "lost" => n < m
  /\ says # "none" => at = "answered"
  /\ says = "ok" => r = "kept"

LostUnder(k) == \E o \in Cmds : KeyOf[o] = k /\ rec[o] = "lost"

Stages == {"idle", "watched", "written", "changed", "noted", "answered", "removed"}
CommandCells ==
  /\ pc \in [Actors -> Stages] /\ rec \in [Actors -> {"none", "kept", "lost"}]
  /\ was \in [Cmds -> Nat] /\ answer \in [Cmds -> {"none", "ok", "lost", "refused"}]

CommandsOK ==
  /\ CommandCells
  /\ watched \in [Keys -> Nat] /\ failing \in BOOLEAN /\ told \in BOOLEAN
  /\ \A c \in Cmds : CommandOK(pc[c], answer[c], rec[c], was[c], watched[KeyOf[c]])
  /\ ~up => \A c \in Cmds : pc[c] \in {"idle", "answered"}
  /\ \A k \in Keys : watched[k] > 0 => LostUnder(k)

AppendsKept ==
  /\ \A n \in acked : HasLine(dir, n)
  /\ \A c \in Cmds : rec[c] = "kept" => HasRecord(dir, acked, c)

JournalInv ==
  /\ DirOK(dir, acked) /\ HandlesOK /\ AppendsKept
  /\ CommandsOK /\ LostIsItsOwn /\ HealthPublished

\* What the write of a line of somebody into file f, with outcome r, does to d.
Wrote(d, e, A, f, of, r) ==
  /\ DirOK(e, A) /\ Keeps(d, e, A) /\ e.cur = d.cur /\ e.made = d.made /\ e.n \in d.n..(d.n + 1)
  /\ r = "ok" /\ f = d.cur =>
       /\ e.n = d.n + 1 /\ \A g \in e.torn : Last(e.lines[g]).id # e.n
       /\ \E i \in Nat : Reads(e, f, i, e.n) /\ e.lines[f][i].of = of


-----------------------------------------------------------------------------
(* What the operators on the directory give. *)

LEMMA Bounds == RotateAt \in Nat /\ MaxFiles \in Nat /\ MaxLines \in Nat /\ 0 \in 0..MaxFiles
  BY JournalAssumption

LEMMA DirParts ==
  ASSUME NEW d \in Dir
  PROVE  /\ d.lines \in [Files -> Seq(Line)] /\ d.torn \subseteq Files /\ d.cur \in 0..MaxFiles
         /\ d.archives \in Seq(Files) /\ d.gone \subseteq Files /\ d.made \in 0..MaxFiles /\ d.n \in 0..MaxLines
  BY DEF Dir

LEMMA KeepsOn ==
  ASSUME NEW d, NEW e, NEW A, Keeps(d, e, A)
  PROVE  /\ \A n \in A : HasLine(d, n) => HasLine(e, n)
         /\ \A c : HasRecord(d, A, c) => HasRecord(e, A, c)
<1>1. \A f \in Files, i \in Nat, n \in A : Reads(d, f, i, n) => Reads(e, f, i, n) /\ e.lines[f][i] = d.lines[f][i]
  BY DEF Keeps, Reads
<1>2. QED
  BY <1>1 DEF HasLine, HasRecord

LEMMA KeepsFurther ==
  ASSUME NEW d, NEW e, NEW g, NEW A, Keeps(d, e, A), Keeps(e, g, A)
  PROVE  Keeps(d, g, A)
  BY SMTT(30) DEF Keeps

\* The answer for one more line.
LEMMA AnsweredFor ==
  ASSUME NEW e, NEW A, DirOK(e, A), e.n >= 1, \A f \in e.torn : Last(e.lines[f]).id # e.n
  PROVE  DirOK(e, A \cup {e.n})
<1>1. e.n \in Nat /\ A \cup {e.n} \subseteq 1..e.n
  <2>1. e \in Dir /\ A \subseteq 1..e.n
    BY DEF DirOK
  <2>2. e.n \in 0..MaxLines
    BY <2>1, DirParts
  <2>3. e.n \in Nat /\ e.n \in 1..e.n
    BY <2>2, Bounds
  <2>4. QED
    BY <2>1, <2>3
<1>2. \A f \in e.torn : TornTail(e.lines[f], e.n, A \cup {e.n})
  BY DEF DirOK, TornTail
<1>3. QED
  BY <1>1, <1>2 DEF DirOK

\* A torn tail gets its newline.
LEMMA Ended ==
  ASSUME NEW d, NEW A, DirOK(d, A), NEW f, NEW e, e = [d EXCEPT !.torn = @ \ {f}]
  PROVE  /\ DirOK(e, A) /\ Keeps(d, e, A) /\ f \notin e.torn
         /\ e.lines = d.lines /\ e.cur = d.cur /\ e.made = d.made /\ e.n = d.n
<1>1. /\ e \in Dir /\ e.torn = d.torn \ {f} /\ e.lines = d.lines /\ e.cur = d.cur /\ e.made = d.made
      /\ e.n = d.n /\ e.archives = d.archives /\ e.gone = d.gone
  BY DEF DirOK, Dir
<1>2. QED
  BY <1>1 DEF DirOK, Keeps, FilesOf

LEMMA OpenedDir ==
  ASSUME NEW d, NEW A, DirOK(d, A), d.cur # 0 \/ d.made < MaxFiles, NEW e, e = OpenDataFile(d)
  PROVE  /\ DirOK(e, A) /\ Keeps(d, e, A) /\ e.n = d.n /\ e.lines = d.lines /\ e.torn = d.torn
         /\ e.cur \in 1..e.made /\ d.made <= e.made /\ (d.cur # 0 => e.cur = d.cur)
         /\ d.cur = 0 => e.lines[e.cur] = <<>>
<1>1. CASE d.cur # 0
  BY <1>1 DEF OpenDataFile, DirOK, Dir, Keeps, FilesOf
<1>2. CASE d.cur = 0
  <2>1. /\ e \in Dir /\ e.torn = d.torn /\ e.lines = d.lines /\ e.cur = d.made + 1 /\ e.made = d.made + 1
        /\ e.n = d.n /\ e.archives = d.archives /\ e.gone = d.gone
    <3>1. d.made \in 0..MaxFiles /\ d.made < MaxFiles /\ d \in Dir
      BY <1>2, DirParts DEF DirOK
    <3>2. d.made + 1 \in 0..MaxFiles
      BY <3>1, Bounds
    <3>3. e = [d EXCEPT !.cur = d.made + 1, !.made = d.made + 1]
      BY <1>2 DEF OpenDataFile
    <3>4. QED
      BY <3>1, <3>2, <3>3 DEF Dir
  <2>2. e.cur \in Files /\ e.lines[e.cur] = <<>>
    BY <1>2, <2>1, JournalAssumption DEF DirOK, Dir, Files
  <2>3. 0 \notin Files
    BY DEF Files
  <2>4. Keeps(d, e, A)
    BY <1>2, <2>1, <2>3 DEF Keeps, FilesOf
  <2>5. Chained(e.lines[e.cur])
    BY <2>2 DEF Chained
  <2>6. DirOK(e, A)
    BY <2>1, <2>5, JournalAssumption, SMTT(30) DEF DirOK, Files, Dir
  <2>7. QED
    BY <1>2, <2>1, <2>2, <2>4, <2>6, JournalAssumption DEF Files, DirOK, Dir
<1>3. QED
  BY <1>1, <1>2

LEMMA ArchivedDir ==
  ASSUME NEW d, NEW A, DirOK(d, A), d.cur # 0, NEW e, e = archived(d)
  PROVE  DirOK(e, A) /\ Keeps(d, e, A) /\ e.cur = 0 /\ e.made = d.made /\ e.n = d.n /\ e.lines = d.lines
<1>1. d.cur \in Files /\ d.archives \in Seq(Files)
  BY JournalAssumption DEF DirOK, Dir, Files
<1>2. Append(d.archives, d.cur) \in Seq(Files) /\ Range(Append(d.archives, d.cur)) = Range(d.archives) \cup {d.cur}
  <2>1. DOMAIN Append(d.archives, d.cur) = 1..(Len(d.archives) + 1) /\ DOMAIN d.archives = 1..Len(d.archives)
    BY <1>1
  <2>2. /\ Append(d.archives, d.cur) \in Seq(Files) /\ Append(d.archives, d.cur)[Len(d.archives) + 1] = d.cur
        /\ \A i \in 1..Len(d.archives) : Append(d.archives, d.cur)[i] = d.archives[i]
        /\ Len(d.archives) \in Nat
    BY <1>1
  <2>3. \A x : x \in Range(Append(d.archives, d.cur)) <=> x \in Range(d.archives) \/ x = d.cur
    BY <2>1, <2>2 DEF Range
  <2>4. QED
    BY <2>2, <2>3
<1>3. /\ e \in Dir /\ e.archives = Append(d.archives, d.cur) /\ e.cur = 0 /\ e.lines = d.lines /\ e.torn = d.torn
      /\ e.made = d.made /\ e.n = d.n /\ e.gone = d.gone
  <2>1. e = [d EXCEPT !.archives = Append(d.archives, d.cur), !.cur = 0] /\ d \in Dir
    BY DEF archived, DirOK
  <2>2. QED
    BY <1>2, <2>1, Bounds DEF Dir
<1>4. QED
  BY <1>2, <1>3 DEF DirOK, Keeps, FilesOf, Dir

LEMMA PrunedDir ==
  ASSUME NEW d, NEW A, DirOK(d, A), NEW i \in 1..Len(d.archives), NEW e, e = Pruned(d, i)
  PROVE  DirOK(e, A) /\ Keeps(d, e, A) /\ e.cur = d.cur /\ e.made = d.made /\ e.n = d.n
<1>1. d.archives \in Seq(Files) /\ d.archives[i] \in Files
  BY DEF DirOK, Dir
<1> DEFINE s == d.archives
           t == RemoveAt(s, i)
<1>2. /\ t \in Seq(Files) /\ Len(t) = Len(s) - 1
      /\ \A j \in 1..Len(t) : t[j] = IF j < i THEN s[j] ELSE s[j + 1]
  <2> DEFINE a == SubSeq(s, 1, i - 1)
             b == SubSeq(s, i + 1, Len(s))
  <2>1. Len(s) \in Nat /\ i \in Nat /\ 1 <= i /\ i <= Len(s)
    BY <1>1
  <2>2. a \in Seq(Files) /\ Len(a) = i - 1 /\ \A j \in 1..Len(a) : a[j] = s[j]
    BY <1>1, <2>1
  <2>3. b \in Seq(Files) /\ Len(b) = Len(s) - i /\ \A j \in 1..Len(b) : b[j] = s[i + j]
    BY <1>1, <2>1, SMTT(30)
  <2>4. t = a \o b
    BY DEF RemoveAt
  <2> HIDE DEF a, b, t, s
  <2>5. t \in Seq(Files) /\ Len(t) = Len(a) + Len(b)
    BY <2>2, <2>3, <2>4, ConcatProperties
  <2>6. \A j \in 1..Len(t) : t[j] = IF j <= Len(a) THEN a[j] ELSE b[j - Len(a)]
    BY <2>2, <2>3, <2>4, <2>5, ConcatProperties
  <2>7. Len(t) = Len(s) - 1
    BY <2>1, <2>2, <2>3, <2>5
  <2>8. ASSUME NEW j \in 1..Len(t) PROVE t[j] = IF j < i THEN s[j] ELSE s[j + 1]
    <3>1. CASE j < i
      BY <2>1, <2>2, <2>6, <2>7, <3>1
    <3>2. CASE j >= i
      <4>1. j - Len(a) \in 1..Len(b) /\ i + (j - Len(a)) = j + 1 /\ ~(j <= Len(a))
        BY <2>1, <2>2, <2>3, <2>7, <3>2, SMTT(30)
      <4>2. QED
        BY <2>1, <2>3, <2>6, <3>2, <4>1, SMTT(30)
    <3>3. QED
      BY <2>1, <3>1, <3>2
  <2>9. QED
    BY <2>5, <2>7, <2>8
<1>3. \A f \in Range(s) : f \in Range(t) \/ f = s[i]
  <2> SUFFICES ASSUME NEW j \in 1..Len(s), j # i PROVE \E k \in 1..Len(t) : t[k] = s[j]
    <3>1. DOMAIN s = 1..Len(s) /\ DOMAIN t = 1..Len(t)
      BY <1>1, <1>2
    <3>2. QED
      BY <3>1 DEF Range
  <2>1. CASE j < i
    BY <1>1, <1>2, <2>1
  <2>2. CASE j > i
    <3>1. j - 1 \in 1..Len(t) /\ t[j - 1] = s[j]
      BY <1>1, <1>2, <2>2
    <3>2. QED
      BY <3>1
  <2>3. QED
    BY <1>1, <2>1, <2>2
<1> HIDE DEF t
<1>4. /\ e \in Dir /\ e.archives = t /\ e.gone = d.gone \cup {s[i]} /\ e.cur = d.cur /\ e.lines = d.lines
      /\ e.torn = d.torn /\ e.made = d.made /\ e.n = d.n
  BY <1>1, <1>2 DEF DirOK, Dir, t, Pruned
<1>5. QED
  BY <1>3, <1>4 DEF DirOK, Keeps, FilesOf

LEMMA FrontOf ==
  ASSUME NEW s \in Seq(Line), Len(s) >= 1
  PROVE  Front(s) \in Seq(Line) /\ Len(Front(s)) = Len(s) - 1 /\ \A i \in 1..Len(Front(s)) : Front(s)[i] = s[i]
<1>1. Front(s) = SubSeq(s, 1, Len(s) - 1)
  BY DEF Front
<1>2. Len(s) \in Nat /\ Len(s) - 1 \in Nat
  OBVIOUS
<1>3. \A i \in 1..(Len(s) - 1) : s[i] \in Line
  OBVIOUS
<1> DEFINE m == Len(s) - 1
           t == SubSeq(s, 1, m)
<1>4. /\ t \in Seq(Line) /\ Len(t) = IF 1 <= m THEN m - 1 + 1 ELSE 0
      /\ \A i \in 1..(m - 1 + 1) : t[i] = s[1 + i - 1]
  <2> HIDE DEF m
  <2>1. m \in Int /\ 1 \in Int /\ \A i \in 1..m : s[i] \in Line
    BY <1>2, <1>3 DEF m
  <2>2. QED
    BY <2>1, SubSeqProperties
<1>5. t \in Seq(Line) /\ Len(t) = Len(s) - 1 /\ \A i \in 1..Len(t) : t[i] = s[i]
  <2> HIDE DEF t
  <2>1. m \in Nat
    BY <1>2
  <2> HIDE DEF m
  <2>2. Len(t) = m /\ \A i \in 1..m : t[i] = s[i]
    BY <1>4, <2>1
  <2>3. QED
    BY <1>4, <2>2 DEF m
<1>6. QED
  BY <1>1, <1>5

\* What a write leaves of a file.
LEMMA LineWritten ==
  ASSUME NEW s \in Seq(Line), NEW l \in Line
  PROVE  Longer(s, l, Append(s, l))
<1> DEFINE t == Append(s, l)
<1>1. t \in Seq(Line) /\ Len(t) = Len(s) + 1 /\ t[Len(t)] = l /\ \A i \in 1..Len(s) : i \in 1..Len(t) /\ t[i] = s[i]
  OBVIOUS
<1> HIDE DEF t
<1>2. ASSUME Chained(s), s # <<>> => l.prev = Last(s).id PROVE Chained(t)
  <2> SUFFICES ASSUME NEW i \in 2..Len(t), t[i].whole PROVE t[i].prev = t[i - 1].id
    BY DEF Chained
  <2>1. CASE i <= Len(s)
    <3>1. i \in 2..Len(s) /\ i - 1 \in 1..Len(s) /\ i \in 1..Len(s)
      BY <1>1, <2>1
    <3>2. QED
      BY <1>1, <1>2, <3>1 DEF Chained
  <2>2. CASE i > Len(s)
    <3>1. i = Len(t) /\ i - 1 = Len(s) /\ Len(s) \in 1..Len(s) /\ s # <<>>
      BY <1>1, <2>2
    <3>2. QED
      BY <1>1, <1>2, <3>1 DEF Last
  <2>3. QED
    BY <1>1, <2>1, <2>2
<1>3. QED
  <2>1. t # <<>> /\ Last(t) = l
    BY <1>1 DEF Last
  <2>2. Longer(s, l, t)
    BY <1>1, <1>2, <2>1 DEF Longer
  <2>3. QED
    BY <2>2 DEF t


LEMMA LastLineTyped ==
  ASSUME NEW d, NEW A, DirOK(d, A), NEW f \in 0..MaxFiles
  PROVE  /\ lastLine(d, f) \in 0..MaxLines
         /\ f # 0 /\ d.lines[f] # <<>> => lastLine(d, f) = Last(d.lines[f]).id
<1>1. CASE f = 0 \/ d.lines[f] = <<>>
  BY <1>1, JournalAssumption DEF lastLine, Genesis
<1>2. CASE f # 0 /\ d.lines[f] # <<>>
  <2>1. d.lines[f] \in Seq(Line)
    BY <1>2, JournalAssumption DEF DirOK, Dir, Files
  <2>2. Last(d.lines[f]) \in Line
    BY <1>2, <2>1 DEF Last
  <2>3. QED
    BY <1>2, <2>2, JournalAssumption DEF lastLine, Line
<1>3. QED
  BY <1>1, <1>2

LEMMA WrittenDir ==
  ASSUME NEW d, NEW A, DirOK(d, A), NEW f \in 1..d.made, NEW of \in Actors \cup Writers, NEW prev \in 0..MaxLines,
         NEW r \in Outcomes, d.n < MaxLines,
         f = d.cur => f \notin d.torn /\ (d.lines[f] # <<>> => prev = Last(d.lines[f]).id),
         NEW e, e = Write(d, f, of, prev, r)
  PROVE  Wrote(d, e, A, f, of, r)
<1>1. f \in Files /\ d \in Dir /\ d.lines[f] \in Seq(Line) /\ d.n \in Nat /\ d.n + 1 \in 1..MaxLines /\ A \subseteq 1..d.n
  <2>1. d \in Dir /\ A \subseteq 1..d.n
    BY DEF DirOK
  <2>2. d.made \in 0..MaxFiles /\ d.n \in 0..MaxLines /\ d.lines \in [Files -> Seq(Line)]
    BY <2>1, DirParts
  <2>3. f \in Files
    BY <2>2, Bounds DEF Files
  <2>4. QED
    BY <2>1, <2>2, <2>3, Bounds
<1>2. CASE r \in {"none", "blank"}
  BY <1>1, <1>2 DEF Write, Wrote, Keeps
<1> DEFINE line == [id |-> d.n + 1, prev |-> prev, whole |-> r # "cut" /\ f \notin d.torn, of |-> of]
           before == IF f \in d.torn THEN Front(d.lines[f]) ELSE d.lines[f]
           after == Append(before, line)
           torn == IF r \in {"cut", "bare"} THEN d.torn \cup {f} ELSE d.torn \ {f}
<1>3. CASE r \notin {"none", "blank"}
  <2>1. e = [d EXCEPT !.n = d.n + 1, !.lines[f] = after, !.torn = torn]
    BY <1>3 DEF Write
  <2>2. line \in Line /\ line.id = d.n + 1 /\ line.prev = prev /\ line.of = of /\ (line.whole <=> r # "cut" /\ f \notin d.torn)
    BY <1>1 DEF Line
  <2>3. /\ before \in Seq(Line)
        /\ \A i \in 1..Len(d.lines[f]) : d.lines[f][i].id \in A => i \in 1..Len(before) /\ before[i] = d.lines[f][i]
    <3>1. CASE f \notin d.torn
      BY <1>1, <3>1
    <3>2. CASE f \in d.torn
      <4>1. d.lines[f] # <<>> /\ d.lines[f][Len(d.lines[f])].id \notin A
        BY <3>2 DEF DirOK, TornTail, Last
      <4>2. Len(d.lines[f]) >= 1
        BY <1>1, <4>1
      <4>3. before = Front(d.lines[f])
        BY <3>2
      <4>4. before \in Seq(Line) /\ Len(before) = Len(d.lines[f]) - 1 /\ \A i \in 1..Len(before) : before[i] = d.lines[f][i]
        BY <1>1, <4>2, <4>3, FrontOf
      <4>5. QED
        BY <1>1, <4>1, <4>2, <4>4, SMTT(30)
    <3>3. QED
      BY <3>1, <3>2
  <2> HIDE DEF line, before
  <2>4. /\ after \in Seq(Line) /\ after # <<>> /\ Last(after) = line /\ after[Len(after)] = line
        /\ \A i \in 1..Len(before) : i \in 1..Len(after) /\ after[i] = before[i]
        /\ Chained(before) /\ (before # <<>> => line.prev = Last(before).id) => Chained(after)
    <3>1. before \in Seq(Line) /\ line \in Line /\ after = Append(before, line)
      BY <2>2, <2>3
    <3>2. QED
      <4>1. Longer(before, line, after)
        BY <3>1, LineWritten
      <4>2. QED
        BY <4>1 DEF Longer
  <2> HIDE DEF after
  <2>5. torn \subseteq Files /\ (f \in torn <=> r \in {"cut", "bare"}) /\ \A g \in Files \ {f} : g \in torn <=> g \in d.torn
    BY <1>1 DEF Dir
  <2> HIDE DEF torn
  <2>6. /\ e \in Dir /\ e.n = d.n + 1 /\ e.lines = [d.lines EXCEPT ![f] = after] /\ e.torn = torn /\ e.cur = d.cur
        /\ e.archives = d.archives /\ e.gone = d.gone /\ e.made = d.made
    <3> DEFINE ll == [d.lines EXCEPT ![f] = after]
    <3>1. ll \in [Files -> Seq(Line)]
      BY <1>1, <2>4, DirParts
    <3>2. e = [d EXCEPT !.n = d.n + 1, !.lines = ll, !.torn = torn]
      BY <2>1
    <3> HIDE DEF ll
    <3>3. d.n + 1 \in 0..MaxLines
      BY <1>1
    <3>4. /\ e \in Dir /\ e.n = d.n + 1 /\ e.lines = ll /\ e.torn = torn /\ e.cur = d.cur
          /\ e.archives = d.archives /\ e.gone = d.gone /\ e.made = d.made
      BY <1>1, <2>5, <3>1, <3>2, <3>3 DEF Dir
    <3>5. QED
      BY <3>4 DEF ll
  <2>7. e.lines[f] = after /\ \A g \in Files \ {f} : e.lines[g] = d.lines[g]
    BY <1>1, <2>6 DEF Dir
  <2>8. Keeps(d, e, A)
    <3>1. FilesOf(e) = FilesOf(d)
      BY <2>6 DEF FilesOf
    <3>2. \A g \in FilesOf(d) : g \in Files
      BY DEF FilesOf
    <3>3. SUFFICES ASSUME NEW g \in FilesOf(d), NEW i \in 1..Len(d.lines[g]), d.lines[g][i].id \in A
                   PROVE  i \in 1..Len(e.lines[g]) /\ e.lines[g][i] = d.lines[g][i]
      BY <3>1 DEF Keeps
    <3>4. CASE g = f
      <4>1. i \in 1..Len(before) /\ before[i] = d.lines[f][i]
        BY <2>3, <3>3, <3>4
      <4>2. i \in 1..Len(after) /\ after[i] = before[i]
        BY <2>4, <4>1
      <4>3. QED
        BY <2>7, <3>4, <4>1, <4>2
    <3>5. CASE g # f
      <4>1. e.lines[g] = d.lines[g]
        BY <2>7, <3>2, <3>5
      <4>2. QED
        BY <4>1
    <3>6. QED
      BY <3>4, <3>5
  <2>9. \A g \in e.torn : TornTail(e.lines[g], e.n, A)
    <3> SUFFICES ASSUME NEW g \in e.torn PROVE TornTail(e.lines[g], e.n, A)
      OBVIOUS
    <3>1. CASE g = f
      BY <1>1, <2>2, <2>4, <2>6, <2>7, <3>1 DEF TornTail
    <3>2. CASE g # f
      <4>1. g \in d.torn /\ g \in Files /\ e.lines[g] = d.lines[g]
        BY <2>5, <2>6, <2>7, <3>2
      <4>2. Last(d.lines[g]) \in Line
        BY <4>1 DEF DirOK, Dir, TornTail, Last
      <4>3. QED
        BY <1>1, <2>6, <4>1, <4>2, SMTT(30) DEF DirOK, TornTail, Line
    <3>3. QED
      BY <3>1, <3>2
  <2>10. e.cur # 0 => Chained(e.lines[e.cur])
    <3>1. CASE d.cur = f
      <4>1. before = d.lines[f]
        BY <3>1 DEF before
      <4>2. Chained(d.lines[f])
        BY <1>1, <3>1 DEF DirOK, Files
      <4>3. QED
        BY <2>2, <2>4, <2>6, <2>7, <3>1, <4>1, <4>2
    <3>2. CASE d.cur # f
      <4>1. d.cur # 0 => d.cur \in Files
        BY <1>1 DEF Dir, Files
      <4>2. QED
        BY <2>6, <2>7, <3>2, <4>1 DEF DirOK
    <3>3. QED
      BY <3>1, <3>2
  <2>11. \A g \in Files : g > e.made => e.lines[g] = <<>>
    BY <1>1, <2>6, <2>7, JournalAssumption, SMTT(30) DEF DirOK, Files, Dir
  <2>12. A \subseteq 1..e.n /\ e.cur <= e.made
    BY <1>1, <2>6 DEF DirOK
  <2>13. DirOK(e, A)
    BY <2>6, <2>9, <2>10, <2>11, <2>12 DEF DirOK
  <2>14. ASSUME r = "ok", f = d.cur
         PROVE  /\ \A g \in e.torn : Last(e.lines[g]).id # e.n
                /\ \E i \in Nat : Reads(e, f, i, e.n) /\ e.lines[f][i].of = of
    <3>1. \A g \in e.torn : g \in d.torn /\ e.lines[g] = d.lines[g]
      BY <2>5, <2>6, <2>7, <2>14
    <3>2. \A g \in e.torn : Last(e.lines[g]).id # e.n
      <4> SUFFICES ASSUME NEW g \in e.torn PROVE Last(d.lines[g]).id # d.n + 1
        BY <2>6, <3>1
      <4>1. Last(d.lines[g]) \in Line /\ Last(d.lines[g]).id <= d.n
        BY <3>1 DEF DirOK, Dir, TornTail, Last
      <4>2. QED
        BY <1>1, <4>1 DEF Line
    <3>3. Len(after) \in Nat /\ Len(after) \in 1..Len(after)
      BY <2>4
    <3>4. f \in FilesOf(e)
      BY <1>1, <2>6, <2>14 DEF FilesOf
    <3>5. Reads(e, f, Len(after), e.n) /\ e.lines[f][Len(after)].of = of
      BY <2>2, <2>4, <2>6, <2>7, <2>14, <3>3, <3>4 DEF Reads
    <3>6. QED
      BY <3>2, <3>3, <3>5
  <2>15. QED
    BY <1>1, <2>6, <2>8, <2>13, <2>14 DEF Wrote
<1>4. QED
  BY <1>2, <1>3

LEMMA ChainedDir ==
  ASSUME NEW d, NEW A, DirOK(d, A), NEW f \in 1..d.made, NEW of \in Actors \cup Writers,
         NEW r \in Outcomes, d.n < MaxLines, NEW e, e = writeChainedLocked(d, f, of, r)
  PROVE  Wrote(d, e, A, f, of, r)
<1> DEFINE ended == IF d.cur \in d.torn /\ r # "none" THEN [d EXCEPT !.torn = @ \ {f}] ELSE d
           prev == lastLine(d, d.cur)
<1>1. e = Write(ended, f, of, prev, r)
  BY DEF writeChainedLocked
<1>2. /\ DirOK(ended, A) /\ Keeps(d, ended, A) /\ ended.lines = d.lines /\ ended.cur = d.cur /\ ended.made = d.made
      /\ ended.n = d.n /\ (d.cur = f /\ r # "none" => f \notin ended.torn)
  BY Ended DEF Keeps
<1>3. d.cur \in 0..MaxFiles
  BY DEF DirOK, Dir
<1>4. prev \in 0..MaxLines /\ (d.cur # 0 /\ d.lines[d.cur] # <<>> => prev = Last(d.lines[d.cur]).id)
  BY <1>3, LastLineTyped
<1> HIDE DEF ended, prev
<1>5. CASE r = "none"
  BY <1>1, <1>2, <1>5 DEF Write, Wrote, DirOK, Dir
<1>6. CASE r # "none"
  <2>1. f # 0
    OBVIOUS
  <2>2. Wrote(ended, e, A, f, of, r)
    BY <1>1, <1>2, <1>4, <1>6, <2>1, WrittenDir
  <2>3. QED
    BY <1>2, <2>2, KeepsFurther DEF Wrote
<1>7. QED
  BY <1>5, <1>6

-----------------------------------------------------------------------------
(* The directory and the logs. *)

\* What a write was answered for is on record.
LEMMA AckedDir ==
  ASSUME NEW d, NEW w \in Writers, NEW of, NEW r \in Outcomes, NEW ok, ok = (r = "ok"),
         Wrote(d, dir', acked, h'[w], of, r), d.cur # 0, d.n \in Nat, Acked(w, ok)
  PROVE  /\ DirOK(dir', acked') /\ acked \subseteq acked' /\ \A n \in acked' \ acked : HasLine(dir', n)
         /\ ok /\ h'[w] = dir'.cur => HasRecord(dir', acked', of)
<1>1. CASE ok /\ h'[w] = dir'.cur
  <2>1. acked' = acked \cup {dir'.n}
    BY <1>1 DEF Acked
  <2>2. /\ DirOK(dir', acked) /\ dir'.n = d.n + 1 /\ \A g \in dir'.torn : Last(dir'.lines[g]).id # dir'.n
        /\ \E i \in Nat : Reads(dir', dir'.cur, i, dir'.n) /\ dir'.lines[dir'.cur][i].of = of
    BY <1>1 DEF Wrote
  <2>3. DirOK(dir', acked')
    BY <2>1, <2>2, AnsweredFor
  <2>4. dir'.cur \in Files
    BY <2>2 DEF Reads, FilesOf
  <2>5. HasLine(dir', dir'.n) /\ HasRecord(dir', acked', of)
    BY <2>1, <2>2, <2>4 DEF HasLine, HasRecord
  <2>6. QED
    BY <2>1, <2>3, <2>5
<1>2. CASE ~(ok /\ h'[w] = dir'.cur)
  BY <1>2 DEF Acked, Wrote
<1>3. QED
  BY <1>1, <1>2

LEMMA AppendSound ==
  ASSUME DirOK(dir, acked), HandlesOK, NEW w \in Writers, NEW of \in Actors \cup Writers, NEW ok \in BOOLEAN,
         appendLocked(w, of, ok)
  PROVE  /\ DirOK(dir', acked') /\ Keeps(dir, dir', acked) /\ HandlesOK' /\ up' = up
         /\ acked \subseteq acked' /\ \A n \in acked' \ acked : HasLine(dir', n)
         /\ ok /\ w = Gw => HasRecord(dir', acked', of)
<1>1. Acked(w, ok) /\ dir.n + 2 <= MaxLines /\ dir \in Dir /\ dir.n \in Nat /\ dir.made \in 0..MaxFiles /\ dir.cur \in 0..MaxFiles
  BY DEF appendLocked, DirOK, Dir
<1>2. dir.n < MaxLines
  BY <1>1, JournalAssumption
<1>3. CASE h[w] # 0 /\ UNCHANGED log /\ \E r \in Outcomes : ok = (r = "ok") /\ dir' = writeChainedLocked(dir, h[w], of, r)
  <2>1. PICK r \in Outcomes : ok = (r = "ok") /\ dir' = writeChainedLocked(dir, h[w], of, r)
    BY <1>3
  <2>2. h' = h /\ lost' = lost /\ arch' = arch /\ up' = up /\ h[w] \in 1..dir.made
    BY <1>1, <1>3 DEF log, HandlesOK
  <2>3. Wrote(dir, dir', acked, h[w], of, r)
    BY <1>2, <2>1, <2>2, ChainedDir
  <2>4. HandlesOK' /\ Keeps(dir, dir', acked)
    BY <2>2, <2>3 DEF Wrote, HandlesOK
  <2>5. w = Gw => h'[w] = dir'.cur
    BY <1>3, <2>2, <2>3 DEF Wrote, HandlesOK
  <2>6. CASE dir.cur # 0
    BY <1>1, <2>1, <2>2, <2>3, <2>4, <2>5, <2>6, AckedDir
  <2>7. CASE dir.cur = 0
    <3>1. dir'.cur = 0 /\ h'[w] # 0
      BY <1>3, <2>2, <2>3, <2>7 DEF Wrote
    <3>2. acked' = acked
      BY <1>1, <3>1 DEF Acked
    <3>3. QED
      BY <2>2, <2>3, <2>4, <2>5, <3>1, <3>2 DEF Wrote
  <2>8. QED
    BY <2>6, <2>7
<1>4. ASSUME ~ok, UNCHANGED <<dir, log>>
      PROVE  /\ DirOK(dir', acked') /\ Keeps(dir, dir', acked) /\ HandlesOK' /\ up' = up /\ acked' = acked
  BY <1>1, <1>4 DEF log, Acked, Keeps, HandlesOK
<1>5. CASE reopenAfterRotationLocked(w, of, ok) /\ h[w] = 0
  <2> DEFINE d == OpenDataFile(dir)
             link == arch[w] # 0 /\ d.lines[d.cur] = <<>>
             linked(r) == IF link THEN Write(d, d.cur, w, lastLine(d, arch[w]), r) ELSE d
  <2>1. CASE ~ok /\ UNCHANGED <<dir, log>>
    BY <1>4, <2>1
  <2>2. CASE /\ dir.cur # 0 \/ dir.made < MaxFiles
             /\ h' = [h EXCEPT ![w] = d.cur]
             /\ \/ /\ link /\ ~ok /\ UNCHANGED <<up, lost, arch>>
                   /\ \E r \in Outcomes \ {"ok"} : dir' = linked(r)
                \/ /\ UNCHANGED up /\ lost' = [lost EXCEPT ![w] = FALSE] /\ arch' = [arch EXCEPT ![w] = 0]
                   /\ \E r \in Outcomes : ok = (r = "ok") /\ dir' = writeChainedLocked(linked("ok"), d.cur, of, r)
    <3>1. /\ DirOK(d, acked) /\ Keeps(dir, d, acked) /\ d.n = dir.n /\ d.cur \in 1..d.made /\ dir.made <= d.made
          /\ dir.cur # 0 => d.cur = dir.cur
      BY <2>2, OpenedDir
    <3>2. d.cur # 0 /\ d.made \in 0..MaxFiles /\ d.cur \in Files
      BY <3>1 DEF DirOK, Dir, Files
    <3>10. h' = [h EXCEPT ![w] = d.cur] /\ d.cur \in 0..MaxFiles
      BY <2>2, <3>1 DEF DirOK, Dir
    <3> HIDE DEF d
    <3>3. \A r \in Outcomes : Wrote(d, linked(r), acked, d.cur, w, r) \/ (~link /\ linked(r) = d)
      <4> SUFFICES ASSUME NEW r \in Outcomes, link PROVE Wrote(d, linked(r), acked, d.cur, w, r)
        OBVIOUS
      <4>1. lastLine(d, arch[w]) \in 0..MaxLines
        BY <3>1, LastLineTyped DEF HandlesOK
      <4>2. d.cur \notin d.torn
        BY <3>1 DEF DirOK, TornTail
      <4>3. QED
        BY <1>2, <3>1, <4>1, <4>2, WrittenDir
    <3>4. \A r \in Outcomes : /\ DirOK(linked(r), acked) /\ Keeps(dir, linked(r), acked) /\ linked(r).cur = d.cur
                              /\ linked(r).made = d.made /\ linked(r).n <= dir.n + 1 /\ linked(r).n \in Nat
      <4> SUFFICES ASSUME NEW r \in Outcomes
                   PROVE  /\ DirOK(linked(r), acked) /\ Keeps(dir, linked(r), acked) /\ linked(r).cur = d.cur
                          /\ linked(r).made = d.made /\ linked(r).n <= dir.n + 1 /\ linked(r).n \in Nat
        OBVIOUS
      <4> DEFINE e == linked(r)
      <4>1. Wrote(d, e, acked, d.cur, w, r) \/ e = d
        BY <3>3
      <4> HIDE DEF e
      <4>2. /\ DirOK(e, acked) /\ Keeps(dir, e, acked) /\ e.cur = d.cur
            /\ e.made = d.made /\ e.n <= dir.n + 1 /\ e.n \in Nat
        BY <1>1, <3>1, <4>1, KeepsFurther DEF Wrote
      <4>3. QED
        BY <4>2 DEF e
    <3> HIDE DEF link, linked
    <3>5. h'[w] = d.cur /\ \A v \in Writers \ {w} : h'[v] = h[v]
      BY <2>2 DEF HandlesOK, d
    <3>6. ASSUME dir'.cur = d.cur, dir'.made = d.made PROVE HandlesOK'
      <4>1. h' = [h EXCEPT ![w] = d.cur] /\ h' \in [Writers -> 0..MaxFiles]
        BY <2>2, <3>1, <3>2, <3>10 DEF HandlesOK
      <4>2. \A v \in Writers : h'[v] <= dir'.made
        <5>1. \A v \in Writers : h[v] <= dir.made /\ h[v] \in 0..MaxFiles
          BY DEF HandlesOK
        <5>2. QED
          BY <1>1, <3>1, <3>2, <3>5, <3>6, <5>1
      <4>3. h'[Gw] # 0 => h'[Gw] = dir'.cur
        <5>1. CASE w = Gw
          BY <3>5, <3>6, <5>1
        <5>2. CASE w # Gw
          BY <3>1, <3>5, <3>6, <5>2 DEF HandlesOK, Writers
        <5>3. QED
          BY <5>1, <5>2
      <4>4. lost' \in [Writers -> BOOLEAN] /\ arch' \in [Writers -> 0..MaxFiles] /\ up' \in BOOLEAN
        <5>1. lost' \in [Writers -> BOOLEAN]
          BY <2>2 DEF HandlesOK
        <5>2. arch' \in [Writers -> 0..MaxFiles]
          BY <2>2, Bounds DEF HandlesOK
        <5>3. QED
          BY <2>2, <5>1, <5>2 DEF HandlesOK
      <4>5. QED
        BY <4>1, <4>2, <4>3, <4>4 DEF HandlesOK
    <3>7. CASE ~ok /\ UNCHANGED up /\ \E r \in Outcomes \ {"ok"} : dir' = linked(r)
      BY <1>1, <3>4, <3>6, <3>7 DEF Acked
    <3>8. CASE UNCHANGED up /\ \E r \in Outcomes : ok = (r = "ok") /\ dir' = writeChainedLocked(linked("ok"), d.cur, of, r)
      <4> DEFINE e == linked("ok")
      <4>1. /\ DirOK(e, acked) /\ Keeps(dir, e, acked) /\ e.cur = d.cur /\ e.made = d.made
            /\ e.n < MaxLines /\ e.n \in Nat
        BY <1>1, <3>4, JournalAssumption DEF Outcomes
      <4>2. PICK r \in Outcomes : ok = (r = "ok") /\ dir' = writeChainedLocked(e, d.cur, of, r)
        BY <3>8
      <4> HIDE DEF e
      <4>3. Wrote(e, dir', acked, d.cur, of, r)
        BY <3>1, <4>1, <4>2, ChainedDir
      <4>4. Keeps(dir, dir', acked) /\ dir'.cur = d.cur /\ dir'.made = d.made
        BY <4>1, <4>3, KeepsFurther DEF Wrote
      <4>5. QED
        BY <1>1, <3>2, <3>5, <3>6, <3>8, <4>1, <4>2, <4>3, <4>4, AckedDir
    <3>9. QED
      BY <2>2, <3>7, <3>8 DEF d, link, linked
  <2>3. QED
    BY <1>5, <2>1, <2>2 DEF reopenAfterRotationLocked
<1>6. QED
  BY <1>3, <1>4, <1>5 DEF appendLocked


-----------------------------------------------------------------------------
(* The commands, and the health. *)

LEMMA NoTick == Tick \notin Cmds /\ Cmds \subseteq Actors /\ Tick \in Actors /\ Gw \in Writers /\ Local \in Writers /\ Gw # Local
              /\ \A c \in Cmds : KeyOf[c] \in Keys
  BY JournalAssumption DEF Actors, Writers, Keys

\* A step that is no command's.
LEMMA CommandsStand ==
  ASSUME CommandsOK, LostIsItsOwn, UNCHANGED <<was, answer, watched, up>>,
         failing' \in BOOLEAN, told' \in BOOLEAN,
         pc' \in [Actors -> Stages],
         rec' \in [Actors -> {"none", "kept", "lost"}],
         \A c \in Cmds : pc'[c] = pc[c] /\ rec'[c] = rec[c]
  PROVE  CommandsOK' /\ LostIsItsOwn'
<1>1. \A k : LostUnder(k) => LostUnder(k)'
  BY DEF LostUnder
<1>2. LostIsItsOwn'
  BY DEF LostIsItsOwn
<1>3. \A c \in Cmds : CommandOK(pc'[c], answer'[c], rec'[c], was'[c], watched'[KeyOf[c]])
  BY DEF CommandsOK, CommandCells, Stages
<1>4. QED
  BY <1>1, <1>2, <1>3 DEF CommandsOK, CommandCells, Stages

\* A step of one command, which leaves what was lost.
LEMMA CommandMoves ==
  ASSUME CommandsOK, LostIsItsOwn, NEW c \in Cmds, CommandCells',
         \A o \in Cmds \ {c} : pc'[o] = pc[o] /\ answer'[o] = answer[o] /\ rec'[o] = rec[o] /\ was'[o] = was[o],
         UNCHANGED <<up, watched>>, failing' \in BOOLEAN, told' \in BOOLEAN,
         CommandOK(pc'[c], answer'[c], rec'[c], was'[c], watched[KeyOf[c]]), rec[c] = "lost" => rec'[c] = "lost",
         answer'[c] = "lost" => answer[c] = "lost" \/ LostUnder(KeyOf[c]),
         ~up => pc'[c] \in {"idle", "answered"}
  PROVE  CommandsOK' /\ LostIsItsOwn'
<1>1. \A o \in Cmds : rec[o] = "lost" => rec'[o] = "lost"
  OBVIOUS
<1>2. \A k : LostUnder(k) => LostUnder(k)'
  BY <1>1 DEF LostUnder
<1>3. \A o \in Cmds : answer'[o] = "lost" => answer[o] = "lost" \/ LostUnder(KeyOf[o])
  OBVIOUS
<1>4. LostIsItsOwn'
  BY <1>1, <1>3 DEF LostIsItsOwn, LostUnder
<1>5. \A o \in Cmds : CommandOK(pc'[o], answer'[o], rec'[o], was'[o], watched'[KeyOf[o]])
  BY DEF CommandsOK
<1>6. watched' \in [Keys -> Nat] /\ \A k \in Keys : watched'[k] > 0 => LostUnder(k)'
  BY <1>2 DEF CommandsOK
<1>7. ~up' => \A o \in Cmds : pc'[o] \in {"idle", "answered"}
  BY DEF CommandsOK
<1>8. QED
  BY <1>4, <1>5, <1>6, <1>7 DEF CommandsOK

\* The health file stays as true as it was when nobody is done with publishing.
LEMMA HealthStands ==
  ASSUME HealthPublished, UNCHANGED <<failing, told, stale>>, up' => up,
         \A a \in Actors : pc[a] = "changed" => pc'[a] = "changed"
  PROVE  HealthPublished'
  BY DEF HealthPublished

\* What is on record stays, when the directory goes on to one that keeps it.
LEMMA AppendsStand ==
  ASSUME AppendsKept, Keeps(dir, dir', acked), acked \subseteq acked',
         \A n \in acked' \ acked : HasLine(dir', n),
         \A c \in Cmds : rec'[c] = "kept" => rec[c] = "kept" \/ HasRecord(dir', acked', c)
  PROVE  AppendsKept'
<1>1. \A n \in acked' : HasLine(dir', n)
  BY KeepsOn DEF AppendsKept
<1>2. \A c \in Cmds : HasRecord(dir, acked, c) => HasRecord(dir', acked', c)
  BY KeepsOn DEF HasRecord
<1>3. QED
  BY <1>1, <1>2 DEF AppendsKept

LEMMA SameDir == \A A : Keeps(dir, dir, A)
  BY DEF Keeps

\* The part of the directory, where it is not touched.
LEMMA DirStands ==
  ASSUME DirOK(dir, acked), HandlesOK, AppendsKept, UNCHANGED <<dir, acked, h, lost, arch>>, up' \in BOOLEAN,
         \A c \in Cmds : rec'[c] = rec[c]
  PROVE  DirOK(dir', acked') /\ HandlesOK' /\ AppendsKept'
  BY DEF HandlesOK, AppendsKept

-----------------------------------------------------------------------------
(* The actions. *)

LEMMA JournalStart == Init => JournalInv
<1> SUFFICES ASSUME Init PROVE JournalInv
  OBVIOUS
<1>1. dir \in Dir /\ \A f \in Files : dir.lines[f] = <<>>
  BY JournalAssumption DEF Init, Dir
<1>2. DirOK(dir, acked)
  BY <1>1 DEF Init, DirOK
<1>3. HandlesOK
  <2>1. h \in [Writers -> 0..MaxFiles] /\ arch \in [Writers -> 0..MaxFiles] /\ dir.made = 0
    BY Bounds DEF Init
  <2>2. \A w \in Writers : h[w] = 0
    BY DEF Init
  <2>3. lost \in [Writers -> BOOLEAN] /\ up \in BOOLEAN
    BY DEF Init
  <2>4. QED
    BY <2>1, <2>2, <2>3, NoTick DEF HandlesOK
<1>4. AppendsKept
  BY NoTick DEF Init, AppendsKept
<1>5. CommandsOK
  <2>1. CommandCells
    BY DEF Init, CommandCells, Stages
  <2>2. \A c \in Cmds : pc[c] = "idle" /\ answer[c] = "none" /\ rec[c] = "none"
    BY NoTick DEF Init
  <2>3. watched \in [Keys -> Nat] /\ \A k \in Keys : ~(watched[k] > 0)
    BY DEF Init
  <2>4. failing \in BOOLEAN /\ told \in BOOLEAN
    BY DEF Init
  <2>5. QED
    BY <2>1, <2>2, <2>3, <2>4 DEF CommandsOK, CommandOK
<1>6. LostIsItsOwn /\ HealthPublished
  BY DEF Init, LostIsItsOwn, HealthPublished
<1>7. QED
  BY <1>2, <1>3, <1>4, <1>5, <1>6 DEF JournalInv

LEMMA OpenLogKeeps == ASSUME JournalInv, NEW w \in Writers, OpenLog(w) PROVE JournalInv'
<1> DEFINE d == [dir EXCEPT !.torn = @ \ {dir.cur}]
<1>1. /\ IF w = Gw THEN ~up ELSE h[w] = 0
      /\ dir.cur # 0 \/ dir.made < MaxFiles
      /\ dir' = OpenDataFile(d)
      /\ h' = [h EXCEPT ![w] = dir'.cur] /\ up' = (up \/ w = Gw)
      /\ UNCHANGED <<lost, arch, pc, was, rec, answer, acked>>
  BY DEF OpenLog
<1>2. DirOK(d, acked) /\ Keeps(dir, d, acked) /\ d.cur = dir.cur /\ d.made = dir.made
  BY Ended DEF JournalInv
<1> HIDE DEF d
<1>3. /\ DirOK(dir', acked) /\ Keeps(d, dir', acked) /\ dir'.cur \in 1..dir'.made /\ dir.made <= dir'.made
      /\ dir.cur # 0 => dir'.cur = dir.cur
  BY <1>1, <1>2, OpenedDir
<1>4. HandlesOK'
  <2>1. dir'.made \in 0..MaxFiles /\ dir'.cur \in 0..MaxFiles /\ dir.made \in 0..MaxFiles
    BY <1>3 DEF JournalInv, DirOK, Dir
  <2>2. /\ h' \in [Writers -> 0..MaxFiles] /\ h'[w] = dir'.cur /\ \A v \in Writers \ {w} : h'[v] = h[v]
        /\ \A v \in Writers : h[v] \in 0..MaxFiles /\ h[v] <= dir.made
    BY <1>1, <2>1 DEF JournalInv, HandlesOK
  <2>3. \A v \in Writers : h'[v] <= dir'.made
    BY <1>3, <2>1, <2>2, JournalAssumption
  <2>4. h'[Gw] # 0 => h'[Gw] = dir'.cur
    BY <1>3, <2>2, NoTick DEF JournalInv, HandlesOK
  <2>5. QED
    BY <1>1, <2>2, <2>3, <2>4 DEF JournalInv, HandlesOK
<1>5. Keeps(dir, dir', acked)
  BY <1>2, <1>3, KeepsFurther
<1>6. AppendsKept'
  BY <1>1, <1>5, AppendsStand DEF JournalInv
<1>7. CommandsOK' /\ LostIsItsOwn' /\ HealthPublished'
  <2>1. CASE w = Gw
    <3>1. failing' = FALSE /\ watched' = [k \in Keys |-> 0] /\ told' = TRUE /\ stale' = FALSE /\ up' = TRUE /\ ~up
      BY <1>1, <2>1 DEF OpenLog
    <3>2. HealthPublished'
      BY <3>1 DEF HealthPublished
    <3>3. LostIsItsOwn'
      BY <1>1 DEF JournalInv, LostIsItsOwn
    <3>4. \A c \in Cmds : /\ pc[c] \in {"idle", "answered"}
                          /\ CommandOK(pc[c], answer[c], rec[c], was[c], watched[KeyOf[c]])
      BY <3>1 DEF JournalInv, CommandsOK, CommandCells, Stages
    <3>5. \A c \in Cmds : CommandOK(pc'[c], answer'[c], rec'[c], was'[c], watched'[KeyOf[c]])
      BY <1>1, <3>4 DEF CommandOK
    <3>6. CommandsOK'
      <4>1. CommandCells'
        BY <1>1 DEF JournalInv, CommandsOK, CommandCells
      <4>2. watched' \in [Keys -> Nat] /\ \A k \in Keys : ~(watched'[k] > 0)
        BY <3>1
      <4>3. failing' \in BOOLEAN /\ told' \in BOOLEAN
        BY <3>1
      <4>4. QED
        BY <3>1, <3>5, <4>1, <4>2, <4>3 DEF CommandsOK
    <3>7. QED
      BY <3>2, <3>3, <3>6
  <2>2. CASE w # Gw
    <3>1. UNCHANGED <<failing, watched, told, stale, up>>
      BY <1>1, <2>2 DEF OpenLog, health, file, JournalInv, HandlesOK
    <3>2. CommandsOK' /\ LostIsItsOwn'
      BY <1>1, <3>1, CommandsStand DEF JournalInv, CommandsOK, CommandCells, Stages
    <3>3. HealthPublished'
      BY <1>1, <3>1, HealthStands DEF JournalInv
    <3>4. QED
      BY <3>2, <3>3
  <2>3. QED
    BY <2>1, <2>2
<1>8. QED
  BY <1>1, <1>3, <1>4, <1>6, <1>7 DEF JournalInv

\* The writes of the gateway's own events and of a local command.
LEMMA OthersWriteKeeps ==
  ASSUME JournalInv, tickWrites \/ localWrites PROVE JournalInv'
<1>1. PICK w \in Writers, of \in Actors \cup Writers, ok \in BOOLEAN :
        /\ appendLocked(w, of, ok)
        /\ UNCHANGED <<was, answer, health, file>>
        /\ \/ UNCHANGED <<pc, rec>>
           \/ /\ pc' = [pc EXCEPT ![Tick] = "written"] /\ pc[Tick] # "changed"
              /\ rec' = [rec EXCEPT ![Tick] = IF ok THEN "kept" ELSE "lost"]
  <2>1. CASE tickWrites
    BY <2>1, NoTick DEF tickWrites
  <2>2. CASE localWrites
    BY <2>2, NoTick DEF localWrites
  <2>3. QED
    BY <2>1, <2>2
<1>2. /\ DirOK(dir', acked') /\ Keeps(dir, dir', acked) /\ HandlesOK' /\ up' = up
      /\ acked \subseteq acked' /\ \A n \in acked' \ acked : HasLine(dir', n)
  BY <1>1, AppendSound DEF JournalInv
<1>3. /\ pc' \in [Actors -> Stages]
      /\ rec' \in [Actors -> {"none", "kept", "lost"}]
      /\ \A c \in Cmds : pc'[c] = pc[c] /\ rec'[c] = rec[c]
      /\ \A a \in Actors : pc[a] = "changed" => pc'[a] = "changed"
  BY <1>1, NoTick DEF JournalInv, CommandsOK, CommandCells, Stages
<1>4. UNCHANGED <<failing, watched, told, stale>>
  BY <1>1 DEF health, file
<1>5. CommandsOK' /\ LostIsItsOwn'
  BY <1>1, <1>2, <1>3, <1>4, CommandsStand DEF JournalInv, CommandsOK, CommandCells, Stages
<1>6. HealthPublished'
  BY <1>2, <1>3, <1>4, HealthStands DEF JournalInv
<1>7. AppendsKept'
  BY <1>2, <1>3, AppendsStand DEF JournalInv
<1>8. QED
  BY <1>2, <1>5, <1>6, <1>7 DEF JournalInv


\* The gateway's log takes another file, or none.
LEMMA GatewayTakes ==
  ASSUME HandlesOK, h' \in [Writers -> 0..MaxFiles], \A w \in Writers \ {Gw} : h'[w] = h[w],
         h'[Gw] # 0 => h'[Gw] = dir'.cur, h'[Gw] <= dir'.made,
         dir.made \in 0..MaxFiles, dir'.made \in 0..MaxFiles, dir.made <= dir'.made,
         lost' \in [Writers -> BOOLEAN], arch' \in [Writers -> 0..MaxFiles], up' \in BOOLEAN
  PROVE  HandlesOK'
<1>1. h'[Gw] \in 0..MaxFiles
  BY NoTick
<1>2. \A w \in Writers : h[w] \in 0..MaxFiles /\ h[w] <= dir.made
  BY DEF HandlesOK
<1>3. \A w \in Writers : h'[w] <= dir'.made
  <2> SUFFICES ASSUME NEW w \in Writers PROVE h'[w] <= dir'.made
    OBVIOUS
  <2>1. CASE w = Gw
    BY <2>1
  <2>2. CASE w # Gw
    BY <1>2, <2>2
  <2>3. QED
    BY <2>1, <2>2
<1>4. QED
  BY <1>3 DEF HandlesOK

LEMMA RotateKeeps == ASSUME JournalInv, rotateJournalIfLarge PROVE JournalInv'
<1>1. h[Gw] # 0 /\ dir.made < MaxFiles /\ dir.n < MaxLines /\ UNCHANGED <<up, pc, was, rec, answer, failing, watched, told, stale>>
  BY DEF rotateJournalIfLarge, health, file
<1>2. /\ DirOK(dir, acked) /\ HandlesOK /\ AppendsKept
      /\ dir.cur # 0 /\ dir.cur \in 0..MaxFiles /\ dir.made \in 0..MaxFiles /\ dir.n \in Nat
  BY <1>1 DEF JournalInv, HandlesOK, DirOK, Dir
<1>3. CommandsOK' /\ LostIsItsOwn' /\ HealthPublished'
  BY <1>1, CommandsStand, HealthStands DEF JournalInv, CommandsOK, CommandCells, Stages
<1>4. /\ lost \in [Writers -> BOOLEAN] /\ [lost EXCEPT ![Gw] = TRUE] \in [Writers -> BOOLEAN]
      /\ [lost EXCEPT ![Gw] = FALSE] \in [Writers -> BOOLEAN] /\ up' \in BOOLEAN
  BY <1>1, <1>2 DEF HandlesOK
<1>10. /\ arch \in [Writers -> 0..MaxFiles] /\ [arch EXCEPT ![Gw] = dir.cur] \in [Writers -> 0..MaxFiles]
       /\ [arch EXCEPT ![Gw] = 0] \in [Writers -> 0..MaxFiles] /\ 0 \in 0..MaxFiles
  BY <1>2, Bounds DEF HandlesOK
<1>11. \A f \in 0..MaxFiles : h' = [h EXCEPT ![Gw] = f] =>
         h' \in [Writers -> 0..MaxFiles] /\ h'[Gw] = f /\ \A w \in Writers \ {Gw} : h'[w] = h[w]
  BY <1>2, NoTick DEF HandlesOK
<1> DEFINE e == archived(dir)
           d == OpenDataFile(e)
<1>5. DirOK(e, acked) /\ Keeps(dir, e, acked) /\ e.cur = 0 /\ e.made = dir.made /\ e.n = dir.n
  BY <1>2, ArchivedDir
<1> HIDE DEF e
<1>6. CASE /\ UNCHANGED <<dir, acked, arch>> /\ h' = [h EXCEPT ![Gw] = 0]
           /\ lost' = lost \/ lost' = [lost EXCEPT ![Gw] = TRUE]
  <2>1. HandlesOK'
    <3>1. h' \in [Writers -> 0..MaxFiles] /\ h'[Gw] = 0 /\ \A w \in Writers \ {Gw} : h'[w] = h[w]
      BY <1>6, <1>10, <1>11
    <3>2. dir' = dir /\ dir.made <= dir'.made /\ 0 <= dir'.made
      BY <1>2, <1>6, Bounds
    <3>3. lost' \in [Writers -> BOOLEAN] /\ arch' \in [Writers -> 0..MaxFiles]
      BY <1>4, <1>6, <1>10
    <3>4. QED
      BY <1>2, <1>4, <3>1, <3>2, <3>3, GatewayTakes
  <2>2. AppendsKept'
    BY <1>1, <1>2, <1>6 DEF AppendsKept
  <2>3. QED
    BY <1>2, <1>3, <1>6, <2>1, <2>2 DEF JournalInv
<1>7. CASE /\ h' = [h EXCEPT ![Gw] = 0] /\ lost' = [lost EXCEPT ![Gw] = TRUE] /\ arch' = [arch EXCEPT ![Gw] = dir.cur]
           /\ dir' = e /\ UNCHANGED acked
  <2>1. HandlesOK'
    <3>1. h' \in [Writers -> 0..MaxFiles] /\ h'[Gw] = 0 /\ \A w \in Writers \ {Gw} : h'[w] = h[w]
      BY <1>7, <1>10, <1>11
    <3>2. dir'.made = dir.made /\ dir.made <= dir'.made /\ 0 <= dir'.made
      BY <1>2, <1>5, <1>7, Bounds
    <3>3. lost' \in [Writers -> BOOLEAN] /\ arch' \in [Writers -> 0..MaxFiles]
      BY <1>4, <1>7, <1>10
    <3>4. QED
      BY <1>2, <1>4, <3>1, <3>2, <3>3, GatewayTakes
  <2>2. AppendsKept'
    BY <1>1, <1>2, <1>5, <1>7, AppendsStand
  <2>3. QED
    BY <1>3, <1>5, <1>7, <2>1, <2>2 DEF JournalInv
<1>8. CASE /\ h' = [h EXCEPT ![Gw] = d.cur]
           /\ lost' = [lost EXCEPT ![Gw] = FALSE] /\ arch' = [arch EXCEPT ![Gw] = 0]
           /\ \E r \in Outcomes : dir' = Write(d, d.cur, Gw, lastLine(dir, dir.cur), r) /\ Acked(Gw, r = "ok")
  <2>1. /\ DirOK(d, acked) /\ Keeps(e, d, acked) /\ d.n = dir.n /\ d.cur \in 1..d.made /\ dir.made <= d.made
        /\ d.lines[d.cur] = <<>>
    BY <1>1, <1>5, OpenedDir
  <2>2. d.made \in 0..MaxFiles /\ d.cur \in 0..MaxFiles /\ d.cur # 0 /\ d.n \in Nat
    BY <2>1 DEF DirOK, Dir
  <2> HIDE DEF d
  <2>3. PICK r \in Outcomes : dir' = Write(d, d.cur, Gw, lastLine(dir, dir.cur), r) /\ Acked(Gw, r = "ok")
    BY <1>8
  <2>4. lastLine(dir, dir.cur) \in 0..MaxLines /\ d.cur \notin d.torn
    BY <1>2, <2>1, LastLineTyped DEF DirOK, TornTail
  <2>5. Wrote(d, dir', acked, d.cur, Gw, r)
    BY <1>1, <2>1, <2>3, <2>4, NoTick, WrittenDir
  <2>6. h'[Gw] = d.cur
    BY <1>8, NoTick DEF HandlesOK, JournalInv
  <2>7. Keeps(dir, dir', acked) /\ dir'.cur = d.cur /\ dir'.made = d.made
    BY <1>5, <2>1, <2>5, KeepsFurther DEF Wrote
  <2>8. /\ DirOK(dir', acked') /\ acked \subseteq acked' /\ \A n \in acked' \ acked : HasLine(dir', n)
    BY <2>2, <2>3, <2>5, <2>6, NoTick, AckedDir
  <2>9. HandlesOK'
    <3>1. h' \in [Writers -> 0..MaxFiles] /\ h'[Gw] = d.cur /\ \A w \in Writers \ {Gw} : h'[w] = h[w]
      BY <1>8, <1>11, <2>2
    <3>2. dir'.made = d.made /\ dir.made <= dir'.made /\ h'[Gw] <= dir'.made /\ h'[Gw] = dir'.cur
      BY <2>1, <2>2, <2>7, <3>1
    <3>3. lost' \in [Writers -> BOOLEAN] /\ arch' \in [Writers -> 0..MaxFiles]
      BY <1>4, <1>8, <1>10
    <3>4. QED
      BY <1>2, <1>4, <2>2, <3>1, <3>2, <3>3, GatewayTakes
  <2>10. AppendsKept'
    BY <1>1, <1>2, <2>7, <2>8, AppendsStand
  <2>11. QED
    BY <1>3, <2>8, <2>9, <2>10 DEF JournalInv
<1>9. QED
  BY <1>6, <1>7, <1>8 DEF rotateJournalIfLarge, e

LEMMA RemovalKeeps == ASSUME JournalInv, pruneRemoves PROVE JournalInv'
<1>1. PICK i \in 1..Len(dir.archives) :
        dir' = Pruned(dir, i)
  BY DEF pruneRemoves, Pruned
<1>2. /\ pc[Tick] = "idle" /\ pc' = [pc EXCEPT ![Tick] = "removed"]
      /\ UNCHANGED <<up, h, lost, arch, was, rec, answer, failing, watched, told, stale, acked>>
  BY DEF pruneRemoves, log, health, file
<1>3. DirOK(dir', acked) /\ Keeps(dir, dir', acked) /\ dir'.cur = dir.cur /\ dir'.made = dir.made
  BY <1>1, PrunedDir DEF JournalInv
<1>4. HandlesOK'
  BY <1>2, <1>3 DEF JournalInv, HandlesOK
<1>5. AppendsKept'
  BY <1>2, <1>3, AppendsStand DEF JournalInv
<1>6. /\ pc' \in [Actors -> Stages]
      /\ \A c \in Cmds : pc'[c] = pc[c]
      /\ \A a \in Actors : pc[a] = "changed" => pc'[a] = "changed"
  BY <1>2, NoTick DEF JournalInv, CommandsOK, CommandCells, Stages
<1>7. CommandsOK' /\ LostIsItsOwn'
  BY <1>2, <1>6, CommandsStand DEF JournalInv, CommandsOK, CommandCells, Stages
<1>8. HealthPublished'
  BY <1>2, <1>6, HealthStands DEF JournalInv
<1>9. QED
  BY <1>2, <1>3, <1>4, <1>5, <1>7, <1>8 DEF JournalInv

LEMMA CloseKeeps == ASSUME JournalInv, Close PROVE JournalInv'
<1>1. /\ h' = [h EXCEPT ![Local] = 0]
      /\ UNCHANGED <<dir, up, lost, arch, pc, was, rec, answer, failing, watched, told, stale, acked>>
  BY DEF Close, health, file
<1>2. 0 \in 0..MaxFiles /\ dir.made \in 0..MaxFiles
  BY JournalAssumption DEF JournalInv, DirOK, Dir
<1>3. h' \in [Writers -> 0..MaxFiles] /\ h'[Local] = 0 /\ \A w \in Writers \ {Local} : h'[w] = h[w]
  BY <1>1, <1>2, NoTick DEF JournalInv, HandlesOK
<1>4. HandlesOK'
  BY <1>1, <1>2, <1>3, NoTick DEF JournalInv, HandlesOK
<1>5. AppendsKept'
  BY <1>1 DEF JournalInv, AppendsKept
<1>6. CommandsOK' /\ LostIsItsOwn' /\ HealthPublished'
  BY <1>1, CommandsStand, HealthStands DEF JournalInv, CommandsOK, CommandCells, Stages
<1>7. QED
  BY <1>1, <1>4, <1>5, <1>6 DEF JournalInv

\* A command's own steps.
LEMMA CommandTypes ==
  ASSUME JournalInv, NEW c \in Cmds
  PROVE  /\ pc[c] \in Stages
         /\ answer[c] \in {"none", "ok", "lost", "refused"} /\ rec[c] \in {"none", "kept", "lost"}
         /\ was[c] \in Nat /\ watched[KeyOf[c]] \in Nat /\ failing \in BOOLEAN /\ told \in BOOLEAN
         /\ CommandOK(pc[c], answer[c], rec[c], was[c], watched[KeyOf[c]])
         /\ ~up => pc[c] \in {"idle", "answered"}
  BY NoTick DEF JournalInv, CommandsOK, CommandCells, Stages

LEMMA RunCommandKeeps == ASSUME JournalInv, NEW c \in Cmds, runCommand(c) PROVE JournalInv'
<1>1. /\ up /\ pc[c] = "idle" /\ UNCHANGED <<dir, up, h, lost, arch, rec, failing, watched, told, stale, acked>>
      /\ \/ pc' = [pc EXCEPT ![c] = "answered"] /\ answer' = [answer EXCEPT ![c] = "refused"] /\ was' = was
         \/ pc' = [pc EXCEPT ![c] = "watched"] /\ was' = [was EXCEPT ![c] = watched[KeyOf[c]]] /\ answer' = answer
  BY DEF runCommand, log, health, file
<1>2. DirOK(dir', acked') /\ HandlesOK' /\ AppendsKept'
  BY <1>1, DirStands DEF JournalInv, HandlesOK
<1>3. /\ CommandOK("answered", "refused", rec[c], was[c], watched[KeyOf[c]])
      /\ CommandOK("watched", answer[c], rec[c], watched[KeyOf[c]], watched[KeyOf[c]])
  BY <1>1, CommandTypes DEF CommandOK
<1>4. CommandsOK' /\ LostIsItsOwn'
  <2>1. CASE pc' = [pc EXCEPT ![c] = "answered"] /\ answer' = [answer EXCEPT ![c] = "refused"] /\ was' = was
    <3>1. /\ CommandCells' /\ pc'[c] = "answered" /\ answer'[c] = "refused" /\ rec'[c] = rec[c] /\ was'[c] = was[c]
          /\ \A o \in Cmds \ {c} : pc'[o] = pc[o] /\ answer'[o] = answer[o] /\ rec'[o] = rec[o] /\ was'[o] = was[o]
      BY <1>1, <2>1, NoTick DEF JournalInv, CommandsOK, CommandCells, Stages
    <3>2. QED
      BY <1>1, <1>3, <3>1, CommandTypes, CommandMoves DEF JournalInv
  <2>2. CASE pc' = [pc EXCEPT ![c] = "watched"] /\ was' = [was EXCEPT ![c] = watched[KeyOf[c]]] /\ answer' = answer
    <3>1. /\ CommandCells' /\ pc'[c] = "watched" /\ answer'[c] = answer[c] /\ rec'[c] = rec[c]
          /\ was'[c] = watched[KeyOf[c]]
          /\ \A o \in Cmds \ {c} : pc'[o] = pc[o] /\ answer'[o] = answer[o] /\ rec'[o] = rec[o] /\ was'[o] = was[o]
      BY <1>1, <2>2, NoTick, CommandTypes DEF JournalInv, CommandsOK, CommandCells, Stages
    <3>2. QED
      BY <1>1, <1>3, <3>1, CommandTypes, CommandMoves DEF JournalInv
  <2>3. QED
    BY <1>1, <2>1, <2>2
<1>5. \A a \in Actors : pc[a] = "changed" => pc'[a] = "changed"
  BY <1>1, NoTick DEF JournalInv, CommandsOK, CommandCells, Stages
<1>6. HealthPublished'
  BY <1>1, <1>5, HealthStands DEF JournalInv
<1>7. QED
  BY <1>2, <1>4, <1>6 DEF JournalInv

LEMMA AppendEventKeeps == ASSUME JournalInv, NEW c \in Cmds, appendEvent(c) PROVE JournalInv'
<1>1. PICK ok \in BOOLEAN : appendLocked(Gw, c, ok) /\ rec' = [rec EXCEPT ![c] = IF ok THEN "kept" ELSE "lost"]
  BY DEF appendEvent
<1>2. pc[c] = "watched" /\ pc' = [pc EXCEPT ![c] = "written"] /\ UNCHANGED <<was, answer, failing, watched, told, stale>>
  BY DEF appendEvent, health, file
<1>3. /\ DirOK(dir', acked') /\ Keeps(dir, dir', acked) /\ HandlesOK' /\ up' = up
      /\ acked \subseteq acked' /\ \A n \in acked' \ acked : HasLine(dir', n)
      /\ ok => HasRecord(dir', acked', c)
  BY <1>1, NoTick, AppendSound DEF JournalInv
<1> DEFINE r == IF ok THEN "kept" ELSE "lost"
<1>4. r \in {"none", "kept", "lost"} /\ CommandOK("written", answer[c], r, was[c], watched[KeyOf[c]]) /\ rec[c] = "none" /\ up
  BY <1>2, CommandTypes DEF CommandOK
<1> HIDE DEF r
<1>5. CommandsOK' /\ LostIsItsOwn'
  <2>1. /\ CommandCells' /\ pc'[c] = "written" /\ answer'[c] = answer[c] /\ rec'[c] = r /\ was'[c] = was[c]
        /\ \A o \in Cmds \ {c} : pc'[o] = pc[o] /\ answer'[o] = answer[o] /\ rec'[o] = rec[o] /\ was'[o] = was[o]
    BY <1>1, <1>2, <1>4, NoTick DEF JournalInv, CommandsOK, CommandCells, Stages, r
  <2>2. QED
    BY <1>2, <1>3, <1>4, <2>1, CommandTypes, CommandMoves DEF JournalInv
<1>6. \A o \in Cmds : rec'[o] = "kept" => rec[o] = "kept" \/ HasRecord(dir', acked', o)
  BY <1>1, <1>3, NoTick DEF JournalInv, CommandsOK, CommandCells, Stages
<1>7. AppendsKept'
  BY <1>3, <1>6, AppendsStand DEF JournalInv
<1>8. \A a \in Actors : pc[a] = "changed" => pc'[a] = "changed"
  BY <1>2, NoTick DEF JournalInv, CommandsOK, CommandCells, Stages
<1>9. HealthPublished'
  BY <1>2, <1>3, <1>8, HealthStands DEF JournalInv
<1>10. QED
  BY <1>3, <1>5, <1>7, <1>9 DEF JournalInv

LEMMA AnswerKeeps == ASSUME JournalInv, NEW c \in Cmds, Answer(c) PROVE JournalInv'
<1> DEFINE says == IF lostSince(c) THEN "lost" ELSE "ok"
<1>1. /\ pc[c] = "noted" /\ pc' = [pc EXCEPT ![c] = "answered"] /\ answer' = [answer EXCEPT ![c] = says]
      /\ UNCHANGED <<dir, up, h, lost, arch, was, rec, failing, watched, told, stale, acked>>
  BY DEF Answer, log, health, file
<1>2. DirOK(dir', acked') /\ HandlesOK' /\ AppendsKept'
  BY <1>1, DirStands DEF JournalInv, HandlesOK
<1>3. CommandOK("answered", says, rec[c], was[c], watched[KeyOf[c]]) /\ says \in {"none", "ok", "lost", "refused"}
  BY <1>1, CommandTypes DEF CommandOK, lostSince
<1>4. ASSUME says = "lost" PROVE LostUnder(KeyOf[c])
  BY <1>4, NoTick, CommandTypes DEF JournalInv, CommandsOK, CommandCells, Stages, lostSince
<1> HIDE DEF says
<1>5. CommandsOK' /\ LostIsItsOwn'
  <2>1. /\ CommandCells' /\ pc'[c] = "answered" /\ answer'[c] = says /\ rec'[c] = rec[c] /\ was'[c] = was[c]
        /\ \A o \in Cmds \ {c} : pc'[o] = pc[o] /\ answer'[o] = answer[o] /\ rec'[o] = rec[o] /\ was'[o] = was[o]
    BY <1>1, <1>3, NoTick DEF JournalInv, CommandsOK, CommandCells, Stages
  <2>2. QED
    BY <1>1, <1>3, <1>4, <2>1, CommandTypes, CommandMoves DEF JournalInv
<1>6. \A a \in Actors : pc[a] = "changed" => pc'[a] = "changed"
  BY <1>1, NoTick DEF JournalInv, CommandsOK, CommandCells, Stages
<1>7. HealthPublished'
  BY <1>1, <1>6, HealthStands DEF JournalInv
<1>8. QED
  BY <1>2, <1>5, <1>7 DEF JournalInv

\* Whoever notes a change of the health is on the way to publish it.
LEMMA NoteKeeps == ASSUME JournalInv, NEW a \in Actors, noteAudit(a) PROVE JournalInv'
<1> DEFINE at == IF failing # failing' THEN "changed" ELSE Noted(a)
<1>1. /\ pc[a] = "written" /\ pc' = [pc EXCEPT ![a] = at] /\ failing' = (rec[a] = "lost")
      /\ IF rec[a] = "lost" THEN noteLostLocked(a) ELSE UNCHANGED watched
      /\ UNCHANGED <<dir, up, h, lost, arch, was, rec, answer, told, stale, acked>>
  BY DEF noteAudit, log, file
<1>2. DirOK(dir', acked') /\ HandlesOK' /\ AppendsKept'
  BY <1>1, DirStands DEF JournalInv, HandlesOK
<1>3. failing' \in BOOLEAN /\ at \in {"idle", "changed", "noted"} /\ (a # Tick => at # "idle")
  BY <1>1 DEF Noted
<1>4. HealthPublished'
  <2> SUFFICES ASSUME up, \A b \in Actors : pc'[b] # "changed", ~stale PROVE told = ~failing'
    BY <1>1 DEF HealthPublished
  <2>1. at # "changed" /\ \A b \in Actors : pc[b] # "changed"
    BY <1>1 DEF JournalInv, CommandsOK, CommandCells, Stages
  <2>2. failing' = failing
    BY <2>1
  <2>3. QED
    BY <2>1, <2>2 DEF JournalInv, HealthPublished
<1> HIDE DEF at
<1>5. CommandsOK' /\ LostIsItsOwn'
  <2>1. CASE a = Tick
    <3>1. watched' = watched
      BY <1>1, <2>1, NoTick DEF noteLostLocked
    <3>2. pc' \in [Actors -> Stages]
          /\ \A c \in Cmds : pc'[c] = pc[c]
      BY <1>1, <1>3, <2>1, NoTick DEF JournalInv, CommandsOK, CommandCells, Stages
    <3>3. QED
      BY <1>1, <1>3, <3>1, <3>2, CommandsStand DEF JournalInv, CommandsOK, CommandCells, Stages
  <2>2. CASE a \in Cmds /\ rec[a] # "lost"
    <3>1. watched' = watched /\ at \in {"changed", "noted"}
      BY <1>1, <1>3, <2>2, NoTick
    <3>2. CommandOK(at, answer[a], rec[a], was[a], watched[KeyOf[a]])
      BY <1>1, <2>2, <3>1, CommandTypes DEF CommandOK
    <3>3. ~up => at \in {"idle", "answered"}
      BY <1>1, <2>2, CommandTypes
    <3>4. /\ CommandCells' /\ pc'[a] = at /\ answer'[a] = answer[a] /\ rec'[a] = rec[a] /\ was'[a] = was[a]
          /\ \A o \in Cmds \ {a} : pc'[o] = pc[o] /\ answer'[o] = answer[o] /\ rec'[o] = rec[o] /\ was'[o] = was[o]
      BY <1>1, <2>2, <3>1, NoTick DEF JournalInv, CommandsOK, CommandCells, Stages
    <3>5. QED
      BY <1>1, <1>3, <2>2, <3>1, <3>2, <3>3, <3>4, CommandTypes, CommandMoves DEF JournalInv
  <2>3. CASE a \in Cmds /\ rec[a] = "lost"
    <3>1. watched' = [watched EXCEPT ![KeyOf[a]] = @ + 1] /\ at \in {"changed", "noted"}
      BY <1>1, <1>3, <2>3, NoTick DEF noteLostLocked
    <3>2. /\ watched' \in [Keys -> Nat]
          /\ \A k \in Keys : watched[k] \in Nat /\ watched'[k] = IF k = KeyOf[a] THEN watched[k] + 1 ELSE watched[k]
      BY <2>3, <3>1, NoTick DEF JournalInv, CommandsOK, CommandCells, Stages
    <3>3. LostIsItsOwn'
      BY <1>1 DEF JournalInv, LostIsItsOwn
    <3>4. \A k : LostUnder(k) => LostUnder(k)'
      BY <1>1 DEF LostUnder
    <3>5. LostUnder(KeyOf[a])'
      BY <1>1, <2>3 DEF LostUnder
    <3>6. \A k \in Keys : watched'[k] > 0 => LostUnder(k)'
      BY <3>2, <3>4, <3>5 DEF JournalInv, CommandsOK, CommandCells, Stages
    <3>7. pc' \in [Actors -> Stages]
          /\ pc'[a] = at /\ \A c \in Cmds \ {a} : pc'[c] = pc[c]
      BY <1>1, <2>3, <3>1, NoTick DEF JournalInv, CommandsOK, CommandCells, Stages
    <3>8. \A c \in Cmds : CommandOK(pc'[c], answer'[c], rec'[c], was'[c], watched'[KeyOf[c]])
      <4> SUFFICES ASSUME NEW c \in Cmds PROVE CommandOK(pc'[c], answer[c], rec[c], was[c], watched'[KeyOf[c]])
        BY <1>1
      <4>1. /\ CommandOK(pc[c], answer[c], rec[c], was[c], watched[KeyOf[c]]) /\ was[c] \in Nat
            /\ watched[KeyOf[c]] \in Nat /\ watched'[KeyOf[c]] \in Nat /\ watched[KeyOf[c]] <= watched'[KeyOf[c]]
        BY <3>2, NoTick, CommandTypes
      <4>2. CASE c = a
        <5>1. watched'[KeyOf[c]] = watched[KeyOf[c]] + 1
          BY <3>2, <4>2, NoTick
        <5>2. QED
          BY <1>1, <2>3, <3>1, <3>7, <4>1, <4>2, <5>1 DEF CommandOK
      <4>3. CASE c # a
        BY <3>7, <4>1, <4>3 DEF CommandOK
      <4>4. QED
        BY <4>2, <4>3
    <3>9. up
      BY <1>1, <2>3, CommandTypes
    <3>10. QED
      BY <1>1, <1>3, <3>2, <3>3, <3>6, <3>7, <3>8, <3>9 DEF JournalInv, CommandsOK, CommandCells, Stages
  <2>4. QED
    BY <2>1, <2>2, <2>3, CommandTypes DEF Actors
<1>6. QED
  BY <1>2, <1>4, <1>5 DEF JournalInv

LEMMA AnnounceKeeps == ASSUME JournalInv, NEW a \in Actors, publishAudit(a) PROVE JournalInv'
<1>1. /\ pc[a] = "changed" /\ pc' = [pc EXCEPT ![a] = Noted(a)]
      /\ (told' = ~failing /\ stale' = FALSE) \/ (stale' = TRUE /\ told' = told)
      /\ UNCHANGED <<dir, up, h, lost, arch, was, rec, answer, failing, watched, acked>>
  BY DEF publishAudit, log, health
<1>2. DirOK(dir', acked') /\ HandlesOK' /\ AppendsKept'
  BY <1>1, DirStands DEF JournalInv, HandlesOK
<1>3. HealthPublished'
  BY <1>1 DEF HealthPublished
<1>4. told' \in BOOLEAN
  BY <1>1 DEF JournalInv, CommandsOK, CommandCells, Stages
<1>5. CommandsOK' /\ LostIsItsOwn'
  <2>1. CASE a = Tick
    <3>1. pc' \in [Actors -> Stages]
          /\ \A c \in Cmds : pc'[c] = pc[c]
      BY <1>1, <2>1, NoTick DEF JournalInv, CommandsOK, CommandCells, Stages, Noted
    <3>2. QED
      BY <1>1, <1>4, <3>1, CommandsStand DEF JournalInv, CommandsOK, CommandCells, Stages
  <2>2. CASE a \in Cmds
    <3>1. pc' = [pc EXCEPT ![a] = "noted"]
      BY <1>1, <2>2, NoTick DEF Noted
    <3>2. CommandOK("noted", answer[a], rec[a], was[a], watched[KeyOf[a]]) /\ up
      BY <1>1, <2>2, CommandTypes DEF CommandOK
    <3>3. /\ CommandCells' /\ pc'[a] = "noted" /\ answer'[a] = answer[a] /\ rec'[a] = rec[a] /\ was'[a] = was[a]
          /\ \A o \in Cmds \ {a} : pc'[o] = pc[o] /\ answer'[o] = answer[o] /\ rec'[o] = rec[o] /\ was'[o] = was[o]
      BY <1>1, <2>2, <3>1, NoTick DEF JournalInv, CommandsOK, CommandCells, Stages
    <3>4. QED
      BY <1>1, <1>4, <2>2, <3>1, <3>2, <3>3, CommandTypes, CommandMoves DEF JournalInv
  <2>3. QED
    BY <2>1, <2>2 DEF Actors
<1>6. QED
  BY <1>2, <1>3, <1>5 DEF JournalInv

LEMMA CrashKeeps == ASSUME JournalInv, Crash PROVE JournalInv'
<1>1. /\ up' = FALSE /\ h' = [h EXCEPT ![Gw] = 0] /\ lost' = [lost EXCEPT ![Gw] = FALSE] /\ arch' = [arch EXCEPT ![Gw] = 0]
      /\ pc' = [a \in Actors |-> IF a = Tick THEN "idle" ELSE "answered"]
      /\ failing' = FALSE /\ watched' = [k \in Keys |-> 0] /\ was' = [c \in Cmds |-> 0]
      /\ UNCHANGED <<rec, answer, told, stale, acked>>
  BY DEF Crash, file
<1>2. \/ dir' = dir
      \/ h[Gw] # 0 /\ dir.n < MaxLines /\ \E r \in {"cut", "bare", "unsynced"} : dir' = writeChainedLocked(dir, h[Gw], Tick, r)
      \/ h[Gw] # 0 /\ dir.made < MaxFiles /\ dir' \in {archived(dir), OpenDataFile(archived(dir))}
  BY DEF Crash
<1>3. /\ DirOK(dir, acked) /\ HandlesOK /\ AppendsKept
      /\ h[Gw] # 0 => dir.cur # 0 /\ h[Gw] \in 1..dir.made
  BY JournalAssumption, NoTick, SMTT(30) DEF JournalInv, HandlesOK, DirOK, Dir
<1>4. DirOK(dir', acked) /\ Keeps(dir, dir', acked) /\ dir.made <= dir'.made
  <2>1. CASE dir' = dir
    BY <1>3, <2>1, SameDir DEF DirOK, Dir
  <2>2. CASE h[Gw] # 0 /\ dir.n < MaxLines /\ \E r \in {"cut", "bare", "unsynced"} : dir' = writeChainedLocked(dir, h[Gw], Tick, r)
    <3>1. PICK r \in Outcomes : dir' = writeChainedLocked(dir, h[Gw], Tick, r)
      BY <2>2 DEF Outcomes
    <3>2. Wrote(dir, dir', acked, h[Gw], Tick, r)
      BY <1>3, <2>2, <3>1, NoTick, ChainedDir
    <3>3. QED
      BY <1>3, <3>2, SMTT(30) DEF Wrote, DirOK, Dir
  <2>3. CASE h[Gw] # 0 /\ dir.made < MaxFiles /\ dir' \in {archived(dir), OpenDataFile(archived(dir))}
    <3> DEFINE e == archived(dir)
    <3>1. DirOK(e, acked) /\ Keeps(dir, e, acked) /\ e.cur = 0 /\ e.made = dir.made
      BY <1>3, <2>3, ArchivedDir
    <3> HIDE DEF e
    <3>2. dir' = e \/ dir' = OpenDataFile(e)
      BY <2>3 DEF e
    <3>3. CASE dir' = e
      BY <3>1, <3>3 DEF DirOK, Dir
    <3>4. CASE dir' = OpenDataFile(e)
      <4>1. DirOK(dir', acked) /\ Keeps(e, dir', acked) /\ e.made <= dir'.made
        BY <2>3, <3>1, <3>4, OpenedDir
      <4>2. QED
        BY <3>1, <4>1, KeepsFurther
    <3>5. QED
      BY <3>2, <3>3, <3>4
  <2>4. QED
    BY <1>2, <2>1, <2>2, <2>3
<1>5. HandlesOK'
  <2>1. /\ lost' \in [Writers -> BOOLEAN] /\ arch' \in [Writers -> 0..MaxFiles] /\ 0 \in 0..MaxFiles
        /\ dir.made \in 0..MaxFiles /\ dir'.made \in 0..MaxFiles
    <3>1. lost' \in [Writers -> BOOLEAN]
      BY <1>1, <1>3 DEF HandlesOK
    <3>2. 0 \in 0..MaxFiles /\ arch' \in [Writers -> 0..MaxFiles]
      BY <1>1, <1>3, Bounds DEF HandlesOK
    <3>3. QED
      BY <1>3, <1>4, <3>1, <3>2 DEF DirOK, Dir
  <2>2. h' \in [Writers -> 0..MaxFiles] /\ h'[Gw] = 0 /\ \A w \in Writers \ {Gw} : h'[w] = h[w]
    BY <1>1, <1>3, <2>1, NoTick DEF HandlesOK
  <2>3. QED
    <3>1. 0 <= dir'.made
      BY <2>1, Bounds
    <3>3. up' \in BOOLEAN
      BY <1>1
    <3>2. QED
      BY <1>3, <1>4, <2>1, <2>2, <3>1, <3>3, GatewayTakes
<1>6. AppendsKept'
  BY <1>1, <1>3, <1>4, AppendsStand
<1>7. /\ pc' \in [Actors -> Stages] /\ rec' = rec /\ answer' = answer
      /\ watched' \in [Keys -> Nat] /\ was' \in [Cmds -> Nat]
      /\ \A c \in Cmds : pc'[c] = "answered" /\ was'[c] = 0 /\ watched'[KeyOf[c]] = 0
  BY <1>1, NoTick DEF Stages
<1>8. \A c \in Cmds : CommandOK(pc'[c], answer'[c], rec'[c], was'[c], watched'[KeyOf[c]])
  BY <1>1, <1>7, CommandTypes DEF CommandOK
<1>9. CommandsOK'
  <2>1. CommandCells'
    BY <1>1, <1>7 DEF JournalInv, CommandsOK, CommandCells
  <2>2. \A k \in Keys : ~(watched'[k] > 0)
    BY <1>1
  <2>3. failing' \in BOOLEAN /\ told' \in BOOLEAN
    BY <1>1 DEF JournalInv, CommandsOK
  <2>4. QED
    BY <1>7, <1>8, <2>1, <2>2, <2>3 DEF CommandsOK
<1>10. LostIsItsOwn' /\ HealthPublished'
  BY <1>1 DEF JournalInv, LostIsItsOwn, HealthPublished
<1>11. QED
  BY <1>1, <1>4, <1>5, <1>6, <1>9, <1>10 DEF JournalInv

LEMMA JournalRests == ASSUME JournalInv, UNCHANGED vars PROVE JournalInv'
<1>1. UNCHANGED <<dir, up, h, lost, arch, pc, was, rec, answer, failing, watched, told, stale, acked>>
  BY DEF vars, log, health, file
<1>2. CommandsOK' /\ LostIsItsOwn' /\ HealthPublished'
  BY <1>1, CommandsStand, HealthStands DEF JournalInv, CommandsOK, CommandCells, Stages
<1>3. QED
  BY <1>1, <1>2, DirStands DEF JournalInv, HandlesOK

\* In every reachable state the directory, the logs, the commands and the health
\* agree, whatever writes fail and wherever the gateway is killed.
THEOREM JournalInvariant == Spec => []JournalInv
<1>1. JournalInv /\ [Next]_vars => JournalInv'
  BY OpenLogKeeps, RotateKeeps, RemovalKeeps, OthersWriteKeeps, CloseKeeps, CrashKeeps, RunCommandKeeps,
     AppendEventKeeps, AnswerKeeps, NoteKeeps, AnnounceKeeps, JournalRests DEF Next
<1>2. QED
  BY <1>1, JournalStart, PTL DEF Spec

\* A line that an append answered for can be read as long as its file is kept,
\* and every line of events.jsonl names the one before it (log.go appendLocked,
\* chain.go writeChainedLocked).
THEOREM JournalStays == Spec => []JournalHolds
<1>1. ASSUME JournalInv PROVE RecordedStays
  <2> SUFFICES ASSUME NEW n \in acked PROVE \E r \in Readable : dir.lines[r[2]][r[1]].id = n
    BY DEF RecordedStays
  <2>1. PICK f \in Files, i \in Nat : Reads(dir, f, i, n)
    BY <1>1 DEF JournalInv, AppendsKept, HasLine
  <2>2. <<i, f>> \in Readable
    BY <2>1 DEF Reads, Readable, Kept, FilesOf
  <2>3. dir.lines[<<i, f>>[2]][<<i, f>>[1]].id = n
    BY <2>1 DEF Reads
  <2>4. QED
    BY <2>2, <2>3
<1>2. JournalInv => LiveChain
  BY DEF JournalInv, DirOK, Chained, LiveChain
<1>3. JournalInv => JournalHolds
  BY <1>1, <1>2 DEF JournalHolds
<1>4. QED
  BY <1>3, JournalInvariant, PTL

\* A command that answers ok has its line, one that answers that its record was
\* lost is right, and the health that is published is the one acted on
\* (admin_role.go runCommand, audit_health.go).
THEOREM AnswersAreHonest == Spec => []AuditIsHonest
<1>1. ASSUME JournalInv PROVE OkIsRecorded
  <2> SUFFICES ASSUME NEW c \in Cmds, answer[c] = "ok" PROVE \E r \in Readable : dir.lines[r[2]][r[1]].of = c
    BY DEF OkIsRecorded
  <2>1. rec[c] = "kept"
    BY <1>1, CommandTypes DEF CommandOK
  <2>2. PICK f \in Files, i \in Nat, n \in acked : Reads(dir, f, i, n) /\ dir.lines[f][i].of = c
    BY <1>1, <2>1 DEF JournalInv, AppendsKept, HasRecord
  <2>3. <<i, f>> \in Readable
    BY <2>2 DEF Reads, Readable, Kept, FilesOf
  <2>4. dir.lines[<<i, f>>[2]][<<i, f>>[1]].of = c
    BY <2>2
  <2>5. QED
    BY <2>3, <2>4
<1>2. JournalInv => AuditIsHonest
  BY <1>1 DEF JournalInv, AuditIsHonest
<1>3. QED
  BY <1>2, JournalInvariant, PTL
=============================================================================
