--------------------------- MODULE KeyGateProofs ---------------------------
(***************************************************************************)
(* Key lines, on the gateway and on the machine. Who may write the         *)
(* gateway's record, and that a taken key is always being cut, for any     *)
(* number of names, keys, command logins and sessions (KeyGate). That the  *)
(* lines of the machine's key file and the watchdogs that remove them      *)
(* match, for any number of owners, controllers and doors                  *)
(* (DoorController).                                                       *)
(***************************************************************************)
EXTENDS KeyGate, DoorController, SequenceTheorems, WellFoundedInduction, TLAPS

\* The gate is held from the key check to the end of the cut.
GateHolders == gate = {c \in Commands : pc[c] \in {"checked", "ran", "published", "cutting"}}

\* A command that may take keys shares the gate with nobody.
WriterAlone == \A c, d \in gate : Alone(c) => d = c

\* Between its check and its write a command keeps what was checked.
CheckedMayAct == \A c \in Commands : pc[c] = "checked" => keyHeld(c) /\ person[c] \in admins

\* Once a session has been recorded on its connection it stays there.
SessionIsRecorded == \A s \in Sessions : pc[s] \in {"carried", "bridged"} => s \in carries

\* A connection in service is one the cut looks at, or is closed.
ServedIsTracked == \A c \in Conns : pc[c] \notin {"idle", "shaken"} => c \in tracked \cup closed

\* Only a command at its cut has connections left to cut.
CuttersCut == \A c \in Commands : cutting[c] # {} => pc[c] = "cutting"

GateInv == GateHolders /\ WriterAlone /\ CheckedMayAct

CutInv == SessionIsRecorded /\ ServedIsTracked /\ CuttersCut /\ TakenKeyIsBeingCut

KeyGateInv == TypeOK /\ GateInv /\ CutInv

\* The invariant holds before the first connection.
LEMMA KeyGateInit == Init => KeyGateInv
<1> SUFFICES ASSUME Init PROVE KeyGateInv
  OBVIOUS
<1> USE KeyGateConns DEF Init, Conns
<1>1. TypeOK
  BY DEF TypeOK
<1>2. GateInv
  BY DEF GateInv, GateHolders, WriterAlone, CheckedMayAct
<1>3. CutInv
  BY DEF CutInv, SessionIsRecorded, ServedIsTracked, CuttersCut, TakenKeyIsBeingCut
<1> QED
  BY <1>1, <1>2, <1>3 DEF KeyGateInv

\* What a connection does leaves the invariant alone: its own handler is not past the gate.
LEMMA ConnectionKeeps ==
  ASSUME KeyGateInv, NEW c \in Conns, Connection(c) PROVE KeyGateInv'
<1> USE KeyGateNone, KeyGateConns DEF KeyGateInv, Goes, Conns, record, handler, engine
<1>1. CASE Resolve(c)
  <2>1. TypeOK'
    BY <1>1 DEF Resolve, TypeOK
  <2>2. GateInv'
    BY <1>1 DEF Resolve, GateInv, GateHolders, WriterAlone, CheckedMayAct, Alone, keyHeld, TypeOK
  <2>3. CutInv'
    BY <1>1 DEF Resolve, CutInv, SessionIsRecorded, ServedIsTracked, CuttersCut, TakenKeyIsBeingCut,
         keyHeld, TypeOK, GateInv, GateHolders
  <2> QED
    BY <2>1, <2>2, <2>3
<1>2. CASE trackKeyConn(c)
  <2>1. TypeOK'
    BY <1>2 DEF trackKeyConn, TypeOK
  <2>2. GateInv'
    BY <1>2 DEF trackKeyConn, GateInv, GateHolders, WriterAlone, CheckedMayAct, Alone, keyHeld, TypeOK
  <2>3. CutInv'
    BY <1>2 DEF trackKeyConn, CutInv, SessionIsRecorded, ServedIsTracked, CuttersCut, TakenKeyIsBeingCut,
         keyHeld, TypeOK, GateInv, GateHolders
  <2> QED
    BY <2>1, <2>2, <2>3
<1>3. CASE hangUp(c)
  <2>1. TypeOK'
    BY <1>3 DEF hangUp, TypeOK
  <2>2. GateInv'
    BY <1>3 DEF hangUp, GateInv, GateHolders, WriterAlone, CheckedMayAct, Alone, keyHeld, TypeOK
  <2>3. CutInv'
    BY <1>3 DEF hangUp, CutInv, SessionIsRecorded, ServedIsTracked, CuttersCut, TakenKeyIsBeingCut,
         keyHeld, TypeOK, GateInv, GateHolders
  <2> QED
    BY <2>1, <2>2, <2>3
<1>4. CASE untrack(c)
  <2>1. TypeOK'
    BY <1>4 DEF untrack, TypeOK
  <2>2. GateInv'
    BY <1>4 DEF untrack, GateInv, GateHolders, WriterAlone, CheckedMayAct, Alone, keyHeld, TypeOK
  <2>3. CutInv'
    BY <1>4 DEF untrack, CutInv, SessionIsRecorded, ServedIsTracked, CuttersCut, TakenKeyIsBeingCut,
         keyHeld, TypeOK, GateInv, GateHolders
  <2> QED
    BY <2>1, <2>2, <2>3
<1>5. CASE disconnect(c)
  <2>1. TypeOK'
    BY <1>5 DEF disconnect, TypeOK
  <2>2. GateInv'
    BY <1>5 DEF disconnect, GateInv, GateHolders, WriterAlone, CheckedMayAct, Alone, keyHeld, TypeOK
  <2>3. CutInv'
    BY <1>5 DEF disconnect, CutInv, SessionIsRecorded, ServedIsTracked, CuttersCut, TakenKeyIsBeingCut,
         keyHeld, TypeOK, GateInv, GateHolders
  <2> QED
    BY <2>1, <2>2, <2>3
<1> QED
  BY <1>1, <1>2, <1>3, <1>4, <1>5 DEF Connection

\* Each step of a command keeps the invariant; the write is safe because its gate is held alone.
LEMMA CommandKeeps ==
  ASSUME KeyGateInv, NEW c \in Commands, Command(c) PROVE KeyGateInv'
<1> USE KeyGateNone, KeyGateConns DEF KeyGateInv, Goes, Conns, record, handler, engine
<1>1. CASE Ask(c)
  <2>1. TypeOK'
    BY <1>1 DEF Ask, TypeOK
  <2>2. GateInv'
    BY <1>1 DEF Ask, GateInv, GateHolders, WriterAlone, CheckedMayAct, Alone, keyHeld, TypeOK
  <2>3. CutInv'
    BY <1>1 DEF Ask, CutInv, SessionIsRecorded, ServedIsTracked, CuttersCut, TakenKeyIsBeingCut,
         keyHeld, TypeOK, GateInv, GateHolders
  <2> QED
    BY <2>1, <2>2, <2>3
<1>2. CASE serveCommandSession(c)
  <2>1. TypeOK'
    BY <1>2 DEF serveCommandSession, TypeOK, gateIsFree
  <2>2. GateInv'
    BY <1>2 DEF serveCommandSession, GateInv, GateHolders, WriterAlone, CheckedMayAct, Alone, keyHeld, TypeOK, gateIsFree
  <2>3. CutInv'
    BY <1>2 DEF serveCommandSession, CutInv, SessionIsRecorded, ServedIsTracked, CuttersCut, TakenKeyIsBeingCut,
         keyHeld, TypeOK, GateInv, GateHolders, gateIsFree
  <2> QED
    BY <2>1, <2>2, <2>3
<1>3. CASE refuseTakenKey(c)
  <2>1. TypeOK'
    BY <1>3 DEF refuseTakenKey, TypeOK
  <2>2. GateInv'
    BY <1>3 DEF refuseTakenKey, GateInv, GateHolders, WriterAlone, CheckedMayAct, Alone, keyHeld, TypeOK
  <2>3. CutInv'
    BY <1>3 DEF refuseTakenKey, CutInv, SessionIsRecorded, ServedIsTracked, CuttersCut, TakenKeyIsBeingCut,
         keyHeld, TypeOK, GateInv, GateHolders
  <2> QED
    BY <2>1, <2>2, <2>3
<1>4. CASE runCommand(c)
  <2>1. TypeOK'
    BY <1>4 DEF runCommand, TypeOK, cmdPeopleAdd, cmdPeopleKeysAdd, cmdPeopleKeysRemove, cmdPeopleRemove, cmdPeopleRename
  <2>2. GateInv'
    BY <1>4 DEF runCommand, GateInv, GateHolders, WriterAlone, CheckedMayAct, Alone, keyHeld, TypeOK, commandsThatRevokeKeys, cmdPeopleAdd, cmdPeopleKeysAdd, cmdPeopleKeysRemove, cmdPeopleRemove, cmdPeopleRename
  <2>3. CutInv'
    BY <1>4 DEF runCommand, CutInv, SessionIsRecorded, ServedIsTracked, CuttersCut, TakenKeyIsBeingCut,
         keyHeld, TypeOK, GateInv, GateHolders, cmdPeopleAdd, cmdPeopleKeysAdd, cmdPeopleKeysRemove, cmdPeopleRemove, cmdPeopleRename
  <2> QED
    BY <2>1, <2>2, <2>3
<1>5. CASE applyRevocations(c)
  <2>1. TypeOK'
    BY <1>5 DEF applyRevocations, TypeOK
  <2>2. GateInv'
    BY <1>5 DEF applyRevocations, GateInv, GateHolders, WriterAlone, CheckedMayAct, Alone, keyHeld, TypeOK
  <2>3. CutInv'
    BY <1>5 DEF applyRevocations, CutInv, SessionIsRecorded, ServedIsTracked, CuttersCut, TakenKeyIsBeingCut,
         keyHeld, TypeOK, GateInv, GateHolders
  <2> QED
    BY <2>1, <2>2, <2>3
<1>6. CASE cutRemovedKeys(c)
  <2>1. TypeOK'
    BY <1>6 DEF cutRemovedKeys, TypeOK
  <2>2. GateInv'
    BY <1>6 DEF cutRemovedKeys, GateInv, GateHolders, WriterAlone, CheckedMayAct, Alone, keyHeld, TypeOK
  <2>3. CutInv'
    BY <1>6 DEF cutRemovedKeys, CutInv, SessionIsRecorded, ServedIsTracked, CuttersCut, TakenKeyIsBeingCut,
         keyHeld, TypeOK, GateInv, GateHolders
  <2> QED
    BY <2>1, <2>2, <2>3
<1>7. CASE cutNext(c)
  <2>1. TypeOK'
    BY <1>7 DEF cutNext, TypeOK, cutKeyConn
  <2>2. GateInv'
    BY <1>7 DEF cutNext, GateInv, GateHolders, WriterAlone, CheckedMayAct, Alone, keyHeld, TypeOK, cutKeyConn
  <2>3. CutInv'
    BY <1>7 DEF cutNext, CutInv, SessionIsRecorded, ServedIsTracked, CuttersCut, TakenKeyIsBeingCut,
         keyHeld, TypeOK, GateInv, GateHolders, cutKeyConn
  <2> QED
    BY <2>1, <2>2, <2>3
<1>8. CASE returns(c)
  <2>1. TypeOK'
    BY <1>8 DEF returns, TypeOK
  <2>2. GateInv'
    BY <1>8 DEF returns, GateInv, GateHolders, WriterAlone, CheckedMayAct, Alone, keyHeld, TypeOK
  <2>3. CutInv'
    BY <1>8 DEF returns, CutInv, SessionIsRecorded, ServedIsTracked, CuttersCut, TakenKeyIsBeingCut,
         keyHeld, TypeOK, GateInv, GateHolders
  <2> QED
    BY <2>1, <2>2, <2>3
<1> QED
  BY <1>1, <1>2, <1>3, <1>4, <1>5, <1>6, <1>7, <1>8 DEF Command

\* Each step of a session keeps the invariant; the second look at the key is what the last one needs.
LEMMA SessionKeeps ==
  ASSUME KeyGateInv, NEW s \in Sessions, Session(s) PROVE KeyGateInv'
<1> USE KeyGateNone, KeyGateConns DEF KeyGateInv, Goes, Conns, record, handler, engine
<1>1. CASE serveHumanSession(s)
  <2>1. TypeOK'
    BY <1>1 DEF serveHumanSession, TypeOK
  <2>2. GateInv'
    BY <1>1 DEF serveHumanSession, GateInv, GateHolders, WriterAlone, CheckedMayAct, Alone, keyHeld, TypeOK
  <2>3. CutInv'
    BY <1>1 DEF serveHumanSession, CutInv, SessionIsRecorded, ServedIsTracked, CuttersCut, TakenKeyIsBeingCut,
         keyHeld, TypeOK, GateInv, GateHolders
  <2> QED
    BY <2>1, <2>2, <2>3
<1>2. CASE denyHuman(s)
  <2>1. TypeOK'
    BY <1>2 DEF denyHuman, TypeOK
  <2>2. GateInv'
    BY <1>2 DEF denyHuman, GateInv, GateHolders, WriterAlone, CheckedMayAct, Alone, keyHeld, TypeOK
  <2>3. CutInv'
    BY <1>2 DEF denyHuman, CutInv, SessionIsRecorded, ServedIsTracked, CuttersCut, TakenKeyIsBeingCut,
         keyHeld, TypeOK, GateInv, GateHolders
  <2> QED
    BY <2>1, <2>2, <2>3
<1>3. CASE OpenSession(s)
  <2>1. TypeOK'
    BY <1>3 DEF OpenSession, TypeOK
  <2>2. GateInv'
    BY <1>3 DEF OpenSession, GateInv, GateHolders, WriterAlone, CheckedMayAct, Alone, keyHeld, TypeOK
  <2>3. CutInv'
    BY <1>3 DEF OpenSession, CutInv, SessionIsRecorded, ServedIsTracked, CuttersCut, TakenKeyIsBeingCut,
         keyHeld, TypeOK, GateInv, GateHolders
  <2> QED
    BY <2>1, <2>2, <2>3
<1>4. CASE carry(s)
  <2>1. TypeOK'
    BY <1>4 DEF carry, TypeOK
  <2>2. GateInv'
    BY <1>4 DEF carry, GateInv, GateHolders, WriterAlone, CheckedMayAct, Alone, keyHeld, TypeOK
  <2>3. CutInv'
    BY <1>4 DEF carry, CutInv, SessionIsRecorded, ServedIsTracked, CuttersCut, TakenKeyIsBeingCut,
         keyHeld, TypeOK, GateInv, GateHolders
  <2> QED
    BY <2>1, <2>2, <2>3
<1>5. CASE recheckKey(s)
  <2>1. TypeOK'
    BY <1>5 DEF recheckKey, TypeOK, cutKeyConn
  <2>2. GateInv'
    BY <1>5 DEF recheckKey, GateInv, GateHolders, WriterAlone, CheckedMayAct, Alone, keyHeld, TypeOK, cutKeyConn
  <2>3. CutInv'
    BY <1>5 DEF recheckKey, CutInv, SessionIsRecorded, ServedIsTracked, CuttersCut, TakenKeyIsBeingCut,
         keyHeld, TypeOK, GateInv, GateHolders, cutKeyConn
  <2> QED
    BY <2>1, <2>2, <2>3
<1>6. CASE endSession(s)
  <2>1. TypeOK'
    BY <1>6 DEF endSession, TypeOK
  <2>2. GateInv'
    BY <1>6 DEF endSession, GateInv, GateHolders, WriterAlone, CheckedMayAct, Alone, keyHeld, TypeOK
  <2>3. CutInv'
    BY <1>6 DEF endSession, CutInv, SessionIsRecorded, ServedIsTracked, CuttersCut, TakenKeyIsBeingCut,
         keyHeld, TypeOK, GateInv, GateHolders
  <2> QED
    BY <2>1, <2>2, <2>3
<1> QED
  BY <1>1, <1>2, <1>3, <1>4, <1>5, <1>6 DEF Session

\* The invariant is inductive.
LEMMA KeyGateNext == KeyGateInv /\ [Next]_vars => KeyGateInv'
<1> SUFFICES ASSUME KeyGateInv, [Next]_vars PROVE KeyGateInv'
  OBVIOUS
<1>1. CASE UNCHANGED vars
  BY <1>1 DEF vars, record, handler, engine, KeyGateInv, TypeOK, GateInv, GateHolders, WriterAlone,
       CheckedMayAct, CutInv, SessionIsRecorded, ServedIsTracked, CuttersCut, TakenKeyIsBeingCut,
       keyHeld, Alone
<1>2. CASE Next
  BY <1>2, ConnectionKeeps, CommandKeeps, SessionKeeps DEF Next
<1> QED
  BY <1>1, <1>2

\* The gate is held alone by whoever may take keys, and every taken key is on
\* its way to be cut, in every reachable state.
THEOREM KeyGateInvariant == Spec => []KeyGateInv
  BY KeyGateInit, KeyGateNext, PTL DEF Spec

\* Every reachable state has the shape TypeOK states; in particular no key is
\* registered to somebody who is not on record.
THEOREM KeyGateTypeCorrect == Spec => []TypeOK
<1>1. KeyGateInv => TypeOK
  BY DEF KeyGateInv
<1> QED
  BY <1>1, KeyGateInvariant, PTL

\* A session never runs on with a taken key unless the command that took it
\* has yet to cut it, or its transport is closed (cutRemovedKeys and the
\* second look of serveHumanSession), for any number of commands and sessions.
THEOREM TakenKeysAreCut == Spec => []TakenKeyIsBeingCut
<1>1. KeyGateInv => TakenKeyIsBeingCut
  BY DEF KeyGateInv, CutInv
<1> QED
  BY <1>1, KeyGateInvariant, PTL

\* Only runCommand writes the record, and only for an administrator whose key
\* is still theirs (keyGate), for any number of concurrent commands.
THEOREM KeyHoldersWrite == Spec => OnlyKeyHoldersWrite
<1> DEFINE Held == record' # record =>
             \E c \in Commands : pc[c] = "checked" /\ keyHeld(c) /\ person[c] \in admins
<1>1. KeyGateInv /\ [Next]_vars => [Held]_vars
  <2> SUFFICES ASSUME KeyGateInv, Next, record' # record PROVE Held
    BY DEF vars
  <2>1. ASSUME NEW c \in Conns PROVE ~Connection(c)
    BY DEF Connection, Resolve, trackKeyConn, hangUp, untrack, disconnect, record, handler, engine
  <2>2. ASSUME NEW s \in Sessions PROVE ~Session(s)
    BY DEF Session, serveHumanSession, denyHuman, OpenSession, carry, recheckKey, endSession, record, handler, engine
  <2>3. PICK c \in Commands : Command(c)
    BY <2>1, <2>2 DEF Next
  <2>4. runCommand(c)
    BY <2>3 DEF Command, Ask, serveCommandSession, refuseTakenKey, applyRevocations, cutRemovedKeys, cutNext, returns, record, handler, engine
  <2> QED
    BY <2>4 DEF runCommand, Goes, KeyGateInv, GateInv, CheckedMayAct
<1> QED
  BY <1>1, KeyGateInvariant, PTL DEF Spec, OnlyKeyHoldersWrite

-----------------------------------------------------------------------------
(* The machine's half of a door (DoorController).                           *)

\* The lines of a file, as a set: what the properties look at.
Present(s) == {s[i] : i \in DOMAIN s}
File == Present(lines)

\* The controller a registration has at work: its connection's, or one whose
\* control loop outlives Serve.
AtWork(c) == serving[OwnerOf(c)] = c \/ late[c] # "over"
Turns ==
  /\ \A o \in Owners : serving[o] # NoCtl => OwnerOf(serving[o]) = o /\ \A x \in Ctls : OwnerOf(x) = o => late[x] = "over"
  /\ \A c, x \in Ctls : OwnerOf(c) = OwnerOf(x) /\ late[c] # "over" /\ late[x] # "over" => c = x
  /\ \A c \in Ctls : opening[c] # NoID \/ c \in sweeping => AtWork(c)

\* A door is in the hands of one controller.
Hands ==
  /\ \A c, x \in Ctls : mem[c] = mem[x] /\ mem[c] # NoID => c = x
  /\ \A c, x \in Ctls : opening[c] = opening[x] /\ opening[c] # NoID => c = x
  /\ \A c, x \in Ctls : opening[c] # NoID => mem[x] # opening[c]
  /\ \A c \in Ctls : opening[c] # NoID => mem[c] = NoID /\ c \notin sweeping

\* What the file and the watchdogs have for each door in hand.
Written ==
  /\ \A c \in Ctls : opening[c] # NoID => watch[opening[c]] = "alive" /\ \A l \in File : l.id # opening[c]
  /\ \A c \in Ctls : mem[c] # NoID => watch[mem[c]] # "orphan" /\ \A l \in File : l.id = mem[c] => l.owner = OwnerOf(c)
  /\ \A c \in Ctls : mem[c] # NoID => "hard" \in timers[c] \/ mem[c] \in abandoned
  /\ \A c \in sweeping : \A l \in File : l.owner # OwnerOf(c)

Watched == \A d \in DoorIDs : (\E l \in File : l.id = d /\ l.owner # NoOwner) => watch[d] # "none" \/ d \in abandoned
Served ==
  \A c \in Ctls : serving[OwnerOf(c)] = c /\ mem[c] # NoID /\ c \notin sweeping => Line(mem[c], OwnerOf(c)) \in File

CtlTypes ==
  /\ lines \in Seq(Lines) /\ mem \in [Ctls -> DoorIDs \cup {NoID}] /\ timers \in [Ctls -> SUBSET {"idle", "hard"}]
  /\ opening \in [Ctls -> DoorIDs \cup {NoID}] /\ sweeping \subseteq Ctls /\ serving \in [Owners -> Ctls \cup {NoCtl}]
  /\ late \in [Ctls -> {"reads", "ends", "over"}] /\ watch \in [DoorIDs -> {"none", "alive", "orphan"}]
  /\ abandoned \subseteq DoorIDs

CtlInv == CtlTypes /\ Turns /\ Hands /\ Written /\ Watched /\ NoStrayWatchdog /\ Served

\* Every set of naturals has a least element: what stands in for induction.
Less == {p \in Nat \X Nat : p[1] < p[2]}
LEMMA LeastNatural == ASSUME NEW T, T \subseteq Nat, T # {} PROVE \E x \in T : \A y \in T : ~(y < x)
<1>1. OpToRel(<, Nat) = Less
  BY DEF OpToRel, Less
<1>2. IsWellFoundedOn(Less, Nat)
  BY <1>1, NatLessThanWellFounded
<1>3. PICK x \in T : \A y \in T : ~(<<y, x>> \in Less)
  BY <1>2, WFMin
<1>4. ASSUME NEW y \in T PROVE ~(y < x)
  <2>1. x \in Nat /\ y \in Nat /\ <<y, x>> \notin Less
    BY <1>3
  <2>2. QED
    BY <2>1 DEF Less
<1>5. QED
  BY <1>4

\* The first m steps of Without, and their result.
Steps(g, s, leaving, m) ==
  g = [i \in 0..m |-> IF i = 0 THEN <<>> ELSE IF s[i] \in leaving THEN g[i - 1] ELSE Append(g[i - 1], s[i])]

LEMMA StepsExist ==
  ASSUME NEW s, NEW leaving, NEW n \in Nat
  PROVE  \E g : Steps(g, s, leaving, n)
<1> DEFINE T == {m \in Nat : ~\E g : Steps(g, s, leaving, m)}
<1>1. SUFFICES ASSUME T # {} PROVE FALSE
  OBVIOUS
<1>2. PICK m \in T : \A y \in T : ~(y < m)
  <2>1. T \subseteq Nat
    OBVIOUS
  <2> HIDE DEF T
  <2>2. QED
    BY <1>1, <2>1, LeastNatural
<1>3. m \in Nat /\ ~\E g : Steps(g, s, leaving, m)
  OBVIOUS
<1>4. CASE m = 0
  <2>1. Steps([i \in 0..0 |-> <<>>], s, leaving, 0)
    BY DEF Steps
  <2>2. QED
    BY <1>3, <1>4, <2>1
<1>5. CASE m > 0
  <2>1. m - 1 \in Nat /\ m - 1 < m
    BY <1>3, <1>5
  <2>2. m - 1 \notin T
    BY <1>2, <2>1
  <2>3. PICK g : Steps(g, s, leaving, m - 1)
    BY <2>1, <2>2
  <2> DEFINE h == [i \in 0..m |-> IF i < m THEN g[i] ELSE IF s[m] \in leaving THEN g[m - 1] ELSE Append(g[m - 1], s[m])]
             k == [i \in 0..m |-> IF i = 0 THEN <<>> ELSE IF s[i] \in leaving THEN h[i - 1] ELSE Append(h[i - 1], s[i])]
  <2>4. \A i \in 0..(m - 1) : g[i] = IF i = 0 THEN <<>> ELSE IF s[i] \in leaving THEN g[i - 1] ELSE Append(g[i - 1], s[i])
    BY <2>3 DEF Steps
  <2>5. ASSUME NEW i \in 0..m PROVE h[i] = k[i]
    <3>1. CASE i = 0
      <4>1. h[i] = g[0] /\ 0 \in 0..(m - 1)
        BY <1>3, <1>5, <3>1
      <4>2. g[0] = <<>>
        BY <2>4, <4>1
      <4>3. QED
        BY <3>1, <4>1, <4>2
    <3>2. CASE i > 0
      <4>1. i \in Nat /\ i - 1 \in 0..m /\ i - 1 < m /\ (i < m => i \in 0..(m - 1)) /\ (~(i < m) => i = m)
        BY <1>3, <3>2
      <4>2. h[i - 1] = g[i - 1]
        BY <4>1
      <4>3. k[i] = IF s[i] \in leaving THEN g[i - 1] ELSE Append(g[i - 1], s[i])
        BY <3>2, <4>2
      <4>4. h[i] = IF i < m THEN g[i] ELSE IF s[m] \in leaving THEN g[m - 1] ELSE Append(g[m - 1], s[m])
        OBVIOUS
      <4>5. CASE i < m
        <5>1. g[i] = IF s[i] \in leaving THEN g[i - 1] ELSE Append(g[i - 1], s[i])
          BY <2>4, <3>2, <4>1, <4>5
        <5> HIDE DEF h, k
        <5>2. QED
          BY <4>3, <4>4, <4>5, <5>1
      <4>6. CASE i = m
        <5> HIDE DEF h, k
        <5>1. QED
          BY <1>3, <4>3, <4>4, <4>6
      <4>7. QED
        BY <4>1, <4>5, <4>6
    <3>3. QED
      BY <3>1, <3>2, <1>3
  <2>6. h = k
    BY <2>5
  <2>7. Steps(h, s, leaving, m)
    BY <2>6 DEF Steps
  <2>8. QED
    BY <1>3, <2>7
<1>6. QED
  BY <1>3, <1>4, <1>5

\* What Without leaves: the lines that are not leaving.
LEMMA WithoutLeaves ==
  ASSUME NEW S, NEW s \in Seq(S), NEW leaving
  PROVE  Without(s, leaving) \in Seq(S) /\ Present(Without(s, leaving)) = Present(s) \ leaving
<1> DEFINE n == Len(s)
           g == CHOOSE f : Steps(f, s, leaving, n)
           At(m) == g[m] \in Seq(S) /\ Present(g[m]) = {s[j] : j \in 1..m} \ leaving
           T == {m \in Nat : m <= n /\ ~At(m)}
<1>1. n \in Nat /\ DOMAIN s = 1..n /\ \A j \in 1..n : s[j] \in S
  OBVIOUS
<1>2. Steps(g, s, leaving, n)
  BY <1>1, StepsExist
<1>3. Without(s, leaving) = g[n]
  BY DEF Without, Steps
<1> HIDE DEF g, n
<1>4. ASSUME NEW i \in 0..n PROVE g[i] = IF i = 0 THEN <<>> ELSE IF s[i] \in leaving THEN g[i - 1] ELSE Append(g[i - 1], s[i])
  BY <1>2 DEF Steps
<1>5. T = {}
  <2>1. SUFFICES ASSUME T # {} PROVE FALSE
    OBVIOUS
  <2>2. PICK m \in T : \A y \in T : ~(y < m)
    <3>1. T \subseteq Nat
      OBVIOUS
    <3> HIDE DEF T
    <3>2. QED
      BY <2>1, <3>1, LeastNatural
  <2>3. m \in Nat /\ m <= n /\ ~At(m) /\ m \in 0..n
    BY <1>1
  <2>4. CASE m = 0
    <3>1. g[m] = <<>> /\ 1..0 = {}
      BY <1>4, <2>3, <2>4
    <3>2. <<>> \in Seq(S) /\ Present(<<>>) = {}
      BY DEF Present
    <3>3. {s[j] : j \in 1..m} = {}
      BY <2>4, <3>1
    <3>4. QED
      BY <2>3, <3>1, <3>2, <3>3
  <2>5. CASE m > 0
    <3>1. m - 1 \in Nat /\ m - 1 <= n /\ m - 1 < m /\ m \in 1..n
      BY <1>1, <2>3, <2>5
    <3>2. At(m - 1)
      BY <2>2, <3>1
    <3>3. g[m] = IF s[m] \in leaving THEN g[m - 1] ELSE Append(g[m - 1], s[m])
      BY <1>4, <2>3, <2>5
    <3>4. 1..m = (1..(m - 1)) \cup {m}
      BY <2>3, <3>1
    <3>5. {s[j] : j \in 1..m} = {s[j] : j \in 1..(m - 1)} \cup {s[m]}
      BY <3>4
    <3>6. s[m] \in S
      BY <1>1, <3>1
    <3>7. ASSUME NEW t \in Seq(S) PROVE Append(t, s[m]) \in Seq(S) /\ Present(Append(t, s[m])) = Present(t) \cup {s[m]}
      <4>1. /\ Append(t, s[m]) \in Seq(S) /\ DOMAIN t = 1..Len(t) /\ Len(t) \in Nat
            /\ DOMAIN Append(t, s[m]) = 1..(Len(t) + 1)
            /\ \A i \in 1..Len(t) : Append(t, s[m])[i] = t[i]
            /\ Append(t, s[m])[Len(t) + 1] = s[m]
        BY <3>6
      <4>2. 1..(Len(t) + 1) = (1..Len(t)) \cup {Len(t) + 1}
        BY <4>1
      <4> DEFINE u == Append(t, s[m])
      <4>3. u \in Seq(S) /\ Present(u) = {u[i] : i \in (1..Len(t)) \cup {Len(t) + 1}}
        BY <4>1, <4>2 DEF Present
      <4>4. (\A i \in 1..Len(t) : u[i] = t[i]) /\ u[Len(t) + 1] = s[m] /\ Present(t) = {t[i] : i \in 1..Len(t)}
        BY <4>1 DEF Present
      <4> HIDE DEF u
      <4>5. Present(u) = Present(t) \cup {s[m]}
        BY <4>3, <4>4
      <4>6. QED
        BY <4>3, <4>5 DEF u
    <3>8. At(m)
      <4>1. CASE s[m] \in leaving
        BY <3>2, <3>3, <3>5, <4>1
      <4>2. CASE s[m] \notin leaving
        <5>1. g[m] = Append(g[m - 1], s[m]) /\ g[m - 1] \in Seq(S)
          BY <3>2, <3>3, <4>2
        <5>2. g[m] \in Seq(S) /\ Present(g[m]) = Present(g[m - 1]) \cup {s[m]}
          BY <3>7, <5>1
        <5>3. QED
          BY <3>2, <3>5, <4>2, <5>2
      <4>3. QED
        BY <4>1, <4>2
    <3>9. QED
      BY <2>3, <3>8
  <2>6. QED
    BY <2>3, <2>4, <2>5
<1>6. At(n)
  <2>1. n \in Nat /\ n <= n
    BY <1>1
  <2>2. n \notin T
    BY <1>5
  <2>3. QED
    BY <2>1, <2>2
<1>7. Present(s) = {s[j] : j \in 1..n}
  BY <1>1 DEF Present
<1>8. QED
  BY <1>3, <1>6, <1>7

-----------------------------------------------------------------------------
(* The operations on the file, as a set of lines.                           *)

LEMMA LinesAre ==
  /\ \A l \in Lines : l = Line(l.id, l.owner) /\ l.id \in DoorIDs \cup {NoID} /\ l.owner \in Owners \cup {NoOwner}
  /\ \A d \in DoorIDs \cup {NoID}, o \in Owners \cup {NoOwner} :
       Line(d, o) \in Lines /\ Line(d, o).id = d /\ Line(d, o).owner = o
  BY DEF Lines, Line

LEMMA FileIsLines == ASSUME CtlTypes PROVE File \subseteq Lines
  BY DEF CtlTypes, File, Present

LEMMA RemovedLeaves ==
  ASSUME CtlTypes, NEW d \in DoorIDs, NEW o, lines' = Removed(d, o)
  PROVE  lines' \in Seq(Lines) /\ File' = File \ {Line(d, o)}
<1>1. lines \in Seq(Lines) /\ lines' = Without(lines, {Line(d, o)})
  BY DEF CtlTypes, Removed
<1>2. lines' \in Seq(Lines) /\ Present(lines') = Present(lines) \ {Line(d, o)}
  BY <1>1, WithoutLeaves
<1>3. QED
  BY <1>2 DEF File

LEMMA SweptLeaves ==
  ASSUME CtlTypes, NEW o, SweepStale(o)
  PROVE  lines' \in Seq(Lines) /\ File' = {l \in File : ~ownsLine(l, o)}
<1>1. lines \in Seq(Lines) /\ lines' = Without(lines, OwnedBy(o)) /\ File \subseteq Lines
  BY FileIsLines DEF CtlTypes, SweepStale
<1>2. lines' \in Seq(Lines) /\ Present(lines') = Present(lines) \ OwnedBy(o)
  BY <1>1, WithoutLeaves
<1>3. QED
  BY <1>1, <1>2 DEF File, OwnedBy

LEMMA UnwatchedLeaves ==
  ASSUME CtlTypes, NEW d \in DoorIDs, lines' = Without(lines, WithID(d))
  PROVE  lines' \in Seq(Lines) /\ File' = {l \in File : l.id # d}
<1>1. lines \in Seq(Lines) /\ File \subseteq Lines
  BY FileIsLines DEF CtlTypes
<1>2. lines' \in Seq(Lines) /\ Present(lines') = Present(lines) \ WithID(d)
  BY <1>1, WithoutLeaves
<1>3. QED
  BY <1>1, <1>2 DEF File, WithID

LEMMA EndsPresent ==
  ASSUME NEW t \in Seq(Lines), NEW l \in Lines
  PROVE  /\ Append(t, l) \in Seq(Lines) /\ Present(Append(t, l)) = Present(t) \cup {l}
         /\ <<l>> \o t \in Seq(Lines) /\ Present(<<l>> \o t) = Present(t) \cup {l}
<1> DEFINE n == Len(t)
           u == Append(t, l)
           v == <<l>> \o t
<1>1. n \in Nat /\ DOMAIN t = 1..n /\ Present(t) = {t[i] : i \in 1..n}
  BY DEF Present
<1>2. u \in Seq(Lines) /\ DOMAIN u = 1..(n + 1) /\ (\A i \in 1..n : u[i] = t[i]) /\ u[n + 1] = l
  OBVIOUS
<1>3. v \in Seq(Lines) /\ DOMAIN v = 1..(n + 1) /\ v[1] = l /\ \A i \in 1..n : v[i + 1] = t[i]
  <2>1. <<l>> \in Seq(Lines) /\ Len(<<l>>) = 1 /\ <<l>>[1] = l
    OBVIOUS
  <2>2. v \in Seq(Lines) /\ Len(v) = 1 + n /\ \A i \in 1..(1 + n) : v[i] = IF i <= 1 THEN <<l>>[i] ELSE t[i - 1]
    BY <2>1, ConcatProperties
  <2> HIDE DEF v
  <2>3. DOMAIN v = 1..(n + 1)
    BY <1>1, <2>2
  <2>4. v[1] = l
    BY <1>1, <2>1, <2>2
  <2>5. ASSUME NEW i \in 1..n PROVE v[i + 1] = t[i]
    <3>1. i + 1 \in 1..(1 + n) /\ ~(i + 1 <= 1) /\ (i + 1) - 1 = i
      BY <1>1
    <3>2. QED
      BY <2>2, <3>1
  <2>6. QED
    BY <2>2, <2>3, <2>4, <2>5
<1> HIDE DEF u, v, n
<1>4. Present(u) = Present(t) \cup {l}
  <2>1. 1..(n + 1) = (1..n) \cup {n + 1}
    BY <1>1
  <2>2. Present(u) = {u[i] : i \in (1..n) \cup {n + 1}}
    BY <1>2, <2>1 DEF Present
  <2>3. QED
    BY <1>1, <1>2, <2>2
<1>5. Present(v) = Present(t) \cup {l}
  <2>1. ASSUME NEW x \in Present(v) PROVE x \in Present(t) \cup {l}
    <3>1. PICK j \in 1..(n + 1) : x = v[j]
      BY <1>3, <2>1 DEF Present
    <3>2. j = 1 \/ (j - 1 \in 1..n /\ j = (j - 1) + 1)
      BY <1>1
    <3>3. j = 1 \/ x = t[j - 1]
      BY <1>3, <3>1, <3>2
    <3>4. QED
      BY <1>1, <1>3, <3>1, <3>2, <3>3
  <2>2. ASSUME NEW x \in Present(t) \cup {l} PROVE x \in Present(v)
    <3>1. CASE x = l
      <4>1. 1 \in 1..(n + 1)
        BY <1>1
      <4>2. QED
        BY <1>3, <3>1, <4>1 DEF Present
    <3>2. CASE x \in Present(t)
      <4>1. PICK j \in 1..n : x = t[j]
        BY <1>1, <3>2
      <4>2. j + 1 \in 1..(n + 1)
        BY <1>1
      <4>3. QED
        BY <1>3, <4>1, <4>2 DEF Present
    <3>3. QED
      BY <2>2, <3>1, <3>2
  <2>3. QED
    BY <2>1, <2>2
<1>6. QED
  BY <1>2, <1>3, <1>4, <1>5 DEF u, v

LEMMA InstalledIs ==
  ASSUME CtlTypes, NEW d \in DoorIDs, NEW o \in Owners, Install(d, o)
  PROVE  lines' \in Seq(Lines) /\ File' = {l \in File : l.id # d} \cup {Line(d, o)}
<1> DEFINE t == Without(lines, WithID(d))
<1>1. lines \in Seq(Lines) /\ File \subseteq Lines /\ Line(d, o) \in Lines
  BY FileIsLines, LinesAre DEF CtlTypes
<1>2. t \in Seq(Lines) /\ Present(t) = Present(lines) \ WithID(d)
  BY <1>1, WithoutLeaves
<1>3. lines' = Append(t, Line(d, o)) \/ lines' = <<Line(d, o)>> \o t
  BY DEF Install
<1> HIDE DEF t
<1>4. lines' \in Seq(Lines) /\ Present(lines') = Present(t) \cup {Line(d, o)}
  <2> DEFINE l == Line(d, o)
  <2>1. l \in Lines /\ t \in Seq(Lines) /\ (lines' = Append(t, l) \/ lines' = <<l>> \o t)
    BY <1>1, <1>2, <1>3
  <2> HIDE DEF l
  <2>2. lines' \in Seq(Lines) /\ Present(lines') = Present(t) \cup {l}
    BY <2>1, EndsPresent
  <2>3. QED
    BY <2>2 DEF l
<1>5. QED
  BY <1>1, <1>2, <1>4 DEF File, WithID
-----------------------------------------------------------------------------
(* What the steps of the machine share.                                     *)

\* A registration has one controller at work.
LEMMA OneAtWork ==
  ASSUME CtlTypes, Turns, NEW c \in Ctls, NEW x \in Ctls, OwnerOf(c) = OwnerOf(x), AtWork(c), AtWork(x)
  PROVE  c = x
  BY CtlIDs, CtlOwners DEF CtlTypes, Turns, AtWork

LEMMA ReceivesTurns ==
  ASSUME CtlInv, NEW c \in Ctls, Receives(c), UNCHANGED serving,
         \A x \in Ctls : x # c => /\ opening'[x] # NoID => opening[x] # NoID
                                  /\ x \in sweeping' => x \in sweeping
  PROVE  Turns' /\ AtWork(c) /\ opening[c] = NoID /\ c \notin sweeping /\ late' \in [Ctls -> {"reads", "ends", "over"}]
<1>1. /\ opening[c] = NoID /\ c \notin sweeping /\ serving' = serving
      /\ \/ serving[OwnerOf(c)] = c /\ late' = late
         \/ late[c] = "reads" /\ late' = [late EXCEPT ![c] = "ends"]
  BY DEF Receives, Idle
<1>2. late \in [Ctls -> {"reads", "ends", "over"}] /\ OwnerOf(c) \in Owners
  BY CtlOwners DEF CtlInv, CtlTypes
<1>3. late' \in [Ctls -> {"reads", "ends", "over"}] /\ \A x \in Ctls : late'[x] = "over" <=> late[x] = "over"
  BY <1>1, <1>2
<1>4. AtWork(c)
  BY <1>1 DEF AtWork
<1>5. Turns'
  BY <1>1, <1>3, <1>4 DEF CtlInv, Turns, AtWork
<1>6. QED
  BY <1>1, <1>3, <1>4, <1>5

\* Lines leave the file and nothing else changes.
LEMMA LinesLeave ==
  ASSUME CtlInv, File' \subseteq File, UNCHANGED <<mem, timers, opening, sweeping, watch>>, abandoned \subseteq abandoned'
  PROVE  Hands' /\ Written' /\ Watched' /\ NoStrayWatchdog'
  BY DEF CtlInv, Hands, Written, Watched, NoStrayWatchdog

\* What stopSelfLocked leaves.
Stops(c) ==
  /\ mem' \in [Ctls -> DoorIDs \cup {NoID}] /\ timers' \in [Ctls -> SUBSET {"idle", "hard"}]
  /\ watch' \in [DoorIDs -> {"none", "alive", "orphan"}]
  /\ mem'[c] = NoID /\ \A x \in Ctls : x # c => mem'[x] = mem[x] /\ timers'[x] = timers[x]
  /\ \A d \in DoorIDs : watch'[d] = IF mem[c] = d THEN "none" ELSE watch[d]

LEMMA StopsIs == ASSUME CtlTypes, NEW c \in Ctls, stopSelfLocked(c) PROVE Stops(c)
<1>1. /\ mem \in [Ctls -> DoorIDs \cup {NoID}] /\ timers \in [Ctls -> SUBSET {"idle", "hard"}]
      /\ watch \in [DoorIDs -> {"none", "alive", "orphan"}] /\ NoID \notin DoorIDs
  BY CtlIDs DEF CtlTypes
<1>2. /\ mem' = [mem EXCEPT ![c] = NoID] /\ timers' = [timers EXCEPT ![c] = {}]
      /\ watch' = IF mem[c] = NoID THEN watch ELSE [watch EXCEPT ![mem[c]] = "none"]
  BY DEF stopSelfLocked
<1>3. /\ mem' \in [Ctls -> DoorIDs \cup {NoID}] /\ timers' \in [Ctls -> SUBSET {"idle", "hard"}]
      /\ mem'[c] = NoID /\ \A x \in Ctls : x # c => mem'[x] = mem[x] /\ timers'[x] = timers[x]
  BY <1>1, <1>2
<1>4. /\ watch' \in [DoorIDs -> {"none", "alive", "orphan"}]
      /\ \A d \in DoorIDs : watch'[d] = IF mem[c] = d THEN "none" ELSE watch[d]
  BY <1>1, <1>2
<1>5. QED
  BY <1>3, <1>4 DEF Stops

\* A controller lets go of its door, whose line is leaving.
LEMMA StopKeeps ==
  ASSUME CtlInv, NEW c \in Ctls, Stops(c), File' \subseteq File, opening' = opening, sweeping' \subseteq sweeping,
         abandoned \subseteq abandoned', mem[c] # NoID => \A l \in File' : l.id # mem[c]
  PROVE  Hands' /\ Written' /\ Watched' /\ NoStrayWatchdog'
<1>1. mem \in [Ctls -> DoorIDs \cup {NoID}] /\ opening \in [Ctls -> DoorIDs \cup {NoID}] /\ NoID \notin DoorIDs
  BY CtlIDs DEF CtlInv, CtlTypes
<1>2. \A x \in Ctls : mem'[x] # NoID => x # c /\ mem'[x] = mem[x] /\ timers'[x] = timers[x]
  BY DEF Stops
<1>3. Hands'
  BY <1>1, <1>2 DEF Stops, CtlInv, Hands
<1>4. Written'
  <2>1. ASSUME NEW x \in Ctls, opening'[x] # NoID
        PROVE  watch'[opening'[x]] = "alive" /\ \A l \in File' : l.id # opening'[x]
    BY <1>1, <2>1 DEF Stops, CtlInv, Hands, Written
  <2>2. ASSUME NEW x \in Ctls, mem'[x] # NoID
        PROVE  /\ watch'[mem'[x]] # "orphan" /\ \A l \in File' : l.id = mem'[x] => l.owner = OwnerOf(x)
               /\ "hard" \in timers'[x] \/ mem'[x] \in abandoned'
    BY <1>1, <1>2, <2>2 DEF Stops, CtlInv, Written
  <2>3. \A x \in sweeping' : \A l \in File' : l.owner # OwnerOf(x)
    BY DEF CtlInv, Written
  <2>4. QED
    BY <2>1, <2>2, <2>3 DEF Written
<1>5. Watched'
  BY <1>1 DEF Stops, CtlInv, Watched
<1>6. NoStrayWatchdog'
  BY <1>1, <1>2 DEF Stops, CtlInv, NoStrayWatchdog
<1>7. QED
  BY <1>3, <1>4, <1>5, <1>6

\* The line of a door in hand is the only one of its id.
LEMMA HeldLineGoes ==
  ASSUME CtlInv, NEW c \in Ctls, mem[c] # NoID, lines' = Removed(mem[c], OwnerOf(c))
  PROVE  /\ lines' \in Seq(Lines) /\ File' \subseteq File /\ mem[c] \in DoorIDs
         /\ \A l \in File' : l.id # mem[c]
         /\ \A x \in Ctls : x # c /\ mem[x] # NoID /\ Line(mem[x], OwnerOf(x)) \in File => Line(mem[x], OwnerOf(x)) \in File'
<1>1. /\ CtlTypes /\ mem[c] \in DoorIDs /\ OwnerOf(c) \in Owners /\ File \subseteq Lines
      /\ \A x \in Ctls : mem[x] \in DoorIDs \cup {NoID} /\ OwnerOf(x) \in Owners
  BY FileIsLines, CtlOwners DEF CtlInv, CtlTypes
<1>2. lines' \in Seq(Lines) /\ File' = File \ {Line(mem[c], OwnerOf(c))}
  BY <1>1, RemovedLeaves
<1>3. \A l \in File' : l.id # mem[c]
  <2>1. \A l \in File : l.id = mem[c] => l = Line(mem[c], OwnerOf(c))
    BY <1>1, LinesAre DEF CtlInv, Written
  <2>2. QED
    BY <1>2, <2>1
<1>4. \A x \in Ctls : x # c /\ mem[x] # NoID => Line(mem[x], OwnerOf(x)) # Line(mem[c], OwnerOf(c))
  <2>1. \A x \in Ctls : x # c /\ mem[x] # NoID => mem[x] # mem[c]
    BY DEF CtlInv, Hands
  <2>2. \A x \in Ctls : Line(mem[x], OwnerOf(x)).id = mem[x]
    BY <1>1, LinesAre
  <2>3. QED
    BY <2>1, <2>2
<1>5. QED
  BY <1>1, <1>2, <1>3, <1>4

\* The door the controller still holds goes, or it stays.
LEMMA TeardownKeeps ==
  ASSUME CtlInv, NEW c \in Ctls, teardown(c), UNCHANGED <<opening, sweeping, abandoned>>
  PROVE  /\ lines' \in Seq(Lines) /\ mem' \in [Ctls -> DoorIDs \cup {NoID}] /\ timers' \in [Ctls -> SUBSET {"idle", "hard"}]
         /\ watch' \in [DoorIDs -> {"none", "alive", "orphan"}]
         /\ Hands' /\ Written' /\ Watched' /\ NoStrayWatchdog'
         /\ \A x \in Ctls : x # c => /\ mem'[x] = mem[x]
                                     /\ mem[x] # NoID /\ Line(mem[x], OwnerOf(x)) \in File => Line(mem[x], OwnerOf(x)) \in File'
<1>1. CASE UNCHANGED <<lines, mem, timers, watch>>
  <2>1. File' = File
    BY <1>1 DEF File
  <2>2. Hands' /\ Written' /\ Watched' /\ NoStrayWatchdog'
    BY <1>1, <2>1, LinesLeave
  <2>3. QED
    BY <1>1, <2>1, <2>2 DEF CtlInv, CtlTypes
<1>2. CASE mem[c] # NoID /\ lines' = Removed(mem[c], OwnerOf(c)) /\ stopSelfLocked(c)
  <2>1. Stops(c)
    BY <1>2, StopsIs DEF CtlInv
  <2>2. /\ lines' \in Seq(Lines) /\ File' \subseteq File /\ \A l \in File' : l.id # mem[c]
        /\ \A x \in Ctls : x # c /\ mem[x] # NoID /\ Line(mem[x], OwnerOf(x)) \in File => Line(mem[x], OwnerOf(x)) \in File'
    BY <1>2, HeldLineGoes
  <2>3. Hands' /\ Written' /\ Watched' /\ NoStrayWatchdog'
    BY <2>1, <2>2, StopKeeps
  <2>4. QED
    BY <2>1, <2>2, <2>3 DEF Stops
<1>3. QED
  BY <1>1, <1>2 DEF teardown
-----------------------------------------------------------------------------
(* The handlers and the machine's own steps.                                *)

LEMMA OpenSpawnKeeps ==
  ASSUME CtlInv, NEW c \in Ctls, NEW d \in DoorIDs, Fresh(d) \/ mem[c] = d, openSpawn(c, d)
  PROVE  CtlInv'
<1>1. /\ Receives(c) /\ UNCHANGED <<lines, mem, timers, sweeping, serving, abandoned>> /\ File' = File
      /\ \/ UNCHANGED <<opening, watch>>
         \/ mem[c] = NoID /\ opening' = [opening EXCEPT ![c] = d] /\ watch' = [watch EXCEPT ![d] = "alive"]
  BY DEF openSpawn, File
<1>2. /\ opening \in [Ctls -> DoorIDs \cup {NoID}] /\ watch \in [DoorIDs -> {"none", "alive", "orphan"}] /\ NoID \notin DoorIDs
  BY CtlIDs DEF CtlInv, CtlTypes
<1>3. /\ opening' \in [Ctls -> DoorIDs \cup {NoID}] /\ watch' \in [DoorIDs -> {"none", "alive", "orphan"}]
      /\ \A x \in Ctls : x # c => opening'[x] = opening[x]
  BY <1>1, <1>2
<1>4. Turns' /\ AtWork(c) /\ opening[c] = NoID /\ c \notin sweeping /\ late' \in [Ctls -> {"reads", "ends", "over"}]
  BY <1>1, <1>3, ReceivesTurns
<1>5. CtlTypes'
  BY <1>1, <1>3, <1>4 DEF CtlInv, CtlTypes
<1>6. Served'
  BY <1>1 DEF CtlInv, Served
<1>7. CASE UNCHANGED <<opening, watch>>
  <2>1. Hands' /\ Written' /\ Watched' /\ NoStrayWatchdog'
    BY <1>1, <1>7, LinesLeave
  <2>2. QED
    BY <1>4, <1>5, <1>6, <2>1 DEF CtlInv
<1>8. CASE mem[c] = NoID /\ opening' = [opening EXCEPT ![c] = d] /\ watch' = [watch EXCEPT ![d] = "alive"]
  <2>1. /\ \A x \in Ctls : mem[x] # d /\ opening[x] # d
        /\ \A l \in File : l.id # d
    BY <1>2, <1>8 DEF Fresh, File, Present
  <2>2. /\ opening'[c] = d /\ watch'[d] = "alive" /\ \A e \in DoorIDs : e # d => watch'[e] = watch[e]
    BY <1>2, <1>8
  <2>3. Hands'
    BY <1>1, <1>2, <1>3, <1>4, <1>8, <2>1, <2>2 DEF CtlInv, Hands
  <2>4. Written'
    <3>1. ASSUME NEW x \in Ctls, opening'[x] # NoID
          PROVE  watch'[opening'[x]] = "alive" /\ \A l \in File' : l.id # opening'[x]
      BY <1>1, <1>2, <1>3, <2>1, <2>2, <3>1 DEF CtlInv, Written
    <3>2. ASSUME NEW x \in Ctls, mem'[x] # NoID
          PROVE  /\ watch'[mem'[x]] # "orphan" /\ \A l \in File' : l.id = mem'[x] => l.owner = OwnerOf(x)
                 /\ "hard" \in timers'[x] \/ mem'[x] \in abandoned'
      BY <1>1, <2>1, <2>2, <3>2 DEF CtlInv, CtlTypes, Written
    <3>3. \A x \in sweeping' : \A l \in File' : l.owner # OwnerOf(x)
      BY <1>1 DEF CtlInv, Written
    <3>4. QED
      BY <3>1, <3>2, <3>3 DEF Written
  <2>5. Watched'
    BY <1>1, <2>2 DEF CtlInv, Watched
  <2>6. NoStrayWatchdog'
    BY <1>1, <1>3, <1>4, <2>2 DEF CtlInv, NoStrayWatchdog
  <2>7. QED
    BY <1>4, <1>5, <1>6, <2>3, <2>4, <2>5, <2>6 DEF CtlInv
<1>9. QED
  BY <1>1, <1>7, <1>8

LEMMA OpenInstallKeeps == ASSUME CtlInv, NEW c \in Ctls, openInstall(c) PROVE CtlInv'
<1> DEFINE d == opening[c]
           o == OwnerOf(c)
<1>1. /\ d \in DoorIDs /\ o \in Owners /\ NoID \notin DoorIDs /\ NoOwner \notin Owners /\ File \subseteq Lines
      /\ opening \in [Ctls -> DoorIDs \cup {NoID}] /\ mem \in [Ctls -> DoorIDs \cup {NoID}]
      /\ watch \in [DoorIDs -> {"none", "alive", "orphan"}] /\ timers \in [Ctls -> SUBSET {"idle", "hard"}]
  BY CtlIDs, CtlOwners, FileIsLines DEF openInstall, CtlInv, CtlTypes
<1>2. /\ opening' = [opening EXCEPT ![c] = NoID] /\ UNCHANGED <<sweeping, serving, late, abandoned>>
  BY DEF openInstall
<1>3. /\ mem[c] = NoID /\ c \notin sweeping /\ watch[d] = "alive" /\ AtWork(c) /\ \A l \in File : l.id # d
      /\ \A x \in Ctls : mem[x] # d /\ (x # c => opening[x] # d)
  BY <1>1 DEF CtlInv, Hands, Written, Turns
<1>4. Turns'
  BY <1>1, <1>2 DEF CtlInv, Turns, AtWork
<1>5. opening' \in [Ctls -> DoorIDs \cup {NoID}] /\ opening'[c] = NoID /\ \A x \in Ctls : x # c => opening'[x] = opening[x]
  BY <1>1, <1>2
<1>6. CASE /\ Install(d, o) /\ mem' = [mem EXCEPT ![c] = d] /\ timers' = [timers EXCEPT ![c] = {"idle", "hard"}]
           /\ UNCHANGED watch
  <2>1. lines' \in Seq(Lines) /\ File' = {l \in File : l.id # d} \cup {Line(d, o)}
    BY <1>1, <1>6, InstalledIs DEF CtlInv
  <2>2. File' = File \cup {Line(d, o)} /\ Line(d, o).id = d /\ Line(d, o).owner = o
    BY <1>1, <1>3, <2>1, LinesAre
  <2> HIDE DEF d, o
  <2>3. /\ mem' \in [Ctls -> DoorIDs \cup {NoID}] /\ timers' \in [Ctls -> SUBSET {"idle", "hard"}]
        /\ mem'[c] = d /\ "hard" \in timers'[c]
        /\ \A x \in Ctls : x # c => mem'[x] = mem[x] /\ timers'[x] = timers[x]
    BY <1>1, <1>6
  <2>4. CtlTypes'
    BY <1>2, <1>5, <1>6, <2>1, <2>3 DEF CtlInv, CtlTypes
  <2>5. Hands'
    BY <1>1, <1>2, <1>3, <1>5, <2>3 DEF CtlInv, Hands
  <2>6. Written'
    <3>1. ASSUME NEW x \in Ctls, opening'[x] # NoID
          PROVE  watch'[opening'[x]] = "alive" /\ \A l \in File' : l.id # opening'[x]
      BY <1>3, <1>5, <1>6, <2>2, <3>1 DEF CtlInv, Written
    <3>2. ASSUME NEW x \in Ctls, mem'[x] # NoID
          PROVE  /\ watch'[mem'[x]] # "orphan" /\ \A l \in File' : l.id = mem'[x] => l.owner = OwnerOf(x)
                 /\ "hard" \in timers'[x] \/ mem'[x] \in abandoned'
      <4>1. CASE x = c
        BY <1>3, <1>6, <2>2, <2>3, <4>1 DEF o
      <4>2. CASE x # c
        BY <1>2, <1>3, <1>6, <2>2, <2>3, <3>2, <4>2 DEF CtlInv, Written
      <4>3. QED
        BY <4>1, <4>2
    <3>3. ASSUME NEW x \in sweeping' PROVE \A l \in File' : l.owner # OwnerOf(x)
      <4>1. x \in Ctls /\ x \in sweeping /\ x # c /\ AtWork(x)
        BY <1>2, <1>3 DEF CtlInv, CtlTypes, Turns
      <4>2. OwnerOf(x) # o
        BY <1>3, <4>1, OneAtWork DEF CtlInv, o
      <4>3. QED
        BY <2>2, <4>1, <4>2 DEF CtlInv, Written
    <3>4. QED
      BY <3>1, <3>2, <3>3 DEF Written
  <2>7. Watched'
    BY <1>1, <1>2, <1>3, <1>6, <2>2 DEF CtlInv, Watched
  <2>8. NoStrayWatchdog'
    <3>1. ASSUME NEW e \in DoorIDs, watch'[e] = "alive" PROVE \E x \in Ctls : e \in {mem'[x], opening'[x]}
      <4>1. PICK x \in Ctls : e \in {mem[x], opening[x]}
        BY <1>6, <3>1 DEF CtlInv, NoStrayWatchdog
      <4>2. CASE x = c
        BY <1>1, <1>3, <2>3, <4>1, <4>2 DEF d
      <4>3. CASE x # c
        BY <1>5, <2>3, <4>1, <4>3
      <4>4. QED
        BY <4>2, <4>3
    <3>2. QED
      BY <3>1 DEF NoStrayWatchdog
  <2>9. Served'
    BY <1>2, <2>2, <2>3 DEF CtlInv, Served, o
  <2>10. QED
    BY <1>4, <2>4, <2>5, <2>6, <2>7, <2>8, <2>9 DEF CtlInv
<1>7. CASE watch' = [watch EXCEPT ![d] = "none"] /\ UNCHANGED <<lines, mem, timers>>
  <2>1. File' = File
    BY <1>7 DEF File
  <2> HIDE DEF d, o
  <2>2. /\ watch' \in [DoorIDs -> {"none", "alive", "orphan"}] /\ watch'[d] = "none"
        /\ \A e \in DoorIDs : e # d => watch'[e] = watch[e]
    BY <1>1, <1>7
  <2>3. CtlTypes'
    BY <1>2, <1>5, <1>7, <2>2 DEF CtlInv, CtlTypes
  <2>4. Hands'
    BY <1>1, <1>2, <1>5, <1>7 DEF CtlInv, Hands
  <2>5. Written'
    <3>1. ASSUME NEW x \in Ctls, opening'[x] # NoID
          PROVE  watch'[opening'[x]] = "alive" /\ \A l \in File' : l.id # opening'[x]
      BY <1>1, <1>3, <1>5, <2>1, <2>2, <3>1 DEF CtlInv, Written
    <3>2. ASSUME NEW x \in Ctls, mem'[x] # NoID
          PROVE  /\ watch'[mem'[x]] # "orphan" /\ \A l \in File' : l.id = mem'[x] => l.owner = OwnerOf(x)
                 /\ "hard" \in timers'[x] \/ mem'[x] \in abandoned'
      BY <1>1, <1>2, <1>3, <1>7, <2>1, <2>2, <3>2 DEF CtlInv, Written
    <3>3. \A x \in sweeping' : \A l \in File' : l.owner # OwnerOf(x)
      BY <1>2, <2>1 DEF CtlInv, Written
    <3>4. QED
      BY <3>1, <3>2, <3>3 DEF Written
  <2>6. Watched'
    BY <1>2, <1>3, <2>1, <2>2 DEF CtlInv, Watched
  <2>7. NoStrayWatchdog'
    <3>1. ASSUME NEW e \in DoorIDs, watch'[e] = "alive" PROVE \E x \in Ctls : e \in {mem'[x], opening'[x]}
      <4>1. e # d /\ watch[e] = "alive"
        BY <2>2, <3>1
      <4>2. PICK x \in Ctls : e \in {mem[x], opening[x]}
        BY <4>1 DEF CtlInv, NoStrayWatchdog
      <4>3. x # c \/ e = mem[x]
        BY <4>1, <4>2 DEF d
      <4>4. QED
        BY <1>5, <1>7, <4>2, <4>3
    <3>2. QED
      BY <3>1 DEF NoStrayWatchdog
  <2>8. Served'
    BY <1>2, <1>7, <2>1 DEF CtlInv, Served
  <2>9. QED
    BY <1>4, <2>3, <2>4, <2>5, <2>6, <2>7, <2>8 DEF CtlInv
<1>8. QED
  BY <1>6, <1>7 DEF openInstall

LEMMA DoorCloseKeeps == ASSUME CtlInv, NEW c \in Ctls, NEW d \in DoorIDs, doorClose(c, d) PROVE CtlInv'
<1> DEFINE o == OwnerOf(c)
<1>1. Receives(c) /\ UNCHANGED <<opening, sweeping, serving, abandoned>>
  BY DEF doorClose
<1>2. \/ UNCHANGED <<lines, mem, timers, watch>>
      \/ mem[c] = d /\ lines' = Removed(d, OwnerOf(c)) /\ stopSelfLocked(c)
      \/ mem[c] = NoID /\ lines' = Removed(d, OwnerOf(c)) /\ UNCHANGED <<mem, timers, watch>>
  BY DEF doorClose
<1>3. Turns' /\ AtWork(c) /\ opening[c] = NoID /\ c \notin sweeping /\ late' \in [Ctls -> {"reads", "ends", "over"}]
  BY <1>1, ReceivesTurns
<1>4. d # NoID /\ OwnerOf(c) \in Owners
  BY CtlIDs, CtlOwners
<1>5. CASE UNCHANGED <<lines, mem, timers, watch>>
  <2>1. File' = File
    BY <1>5 DEF File
  <2>2. Hands' /\ Written' /\ Watched' /\ NoStrayWatchdog'
    BY <1>1, <1>5, <2>1, LinesLeave
  <2>3. CtlTypes' /\ Served'
    BY <1>1, <1>3, <1>5, <2>1 DEF CtlInv, CtlTypes, Served
  <2>4. QED
    BY <1>3, <2>2, <2>3 DEF CtlInv
<1>6. CASE mem[c] = d /\ lines' = Removed(d, OwnerOf(c)) /\ stopSelfLocked(c)
  <2>1. Stops(c)
    BY <1>6, StopsIs DEF CtlInv
  <2>2. /\ lines' \in Seq(Lines) /\ File' \subseteq File /\ \A l \in File' : l.id # mem[c]
        /\ \A x \in Ctls : x # c /\ mem[x] # NoID /\ Line(mem[x], OwnerOf(x)) \in File => Line(mem[x], OwnerOf(x)) \in File'
    BY <1>4, <1>6, HeldLineGoes
  <2>3. Hands' /\ Written' /\ Watched' /\ NoStrayWatchdog'
    BY <1>1, <2>1, <2>2, StopKeeps
  <2>4. CtlTypes' /\ Served'
    BY <1>1, <1>3, <2>1, <2>2 DEF CtlInv, CtlTypes, Served, Stops
  <2>5. QED
    BY <1>3, <2>3, <2>4 DEF CtlInv
<1>7. CASE mem[c] = NoID /\ lines' = Removed(d, OwnerOf(c)) /\ UNCHANGED <<mem, timers, watch>>
  <2>1. lines' \in Seq(Lines) /\ File' = File \ {Line(d, OwnerOf(c))}
    BY <1>7, RemovedLeaves DEF CtlInv
  <2>2. Hands' /\ Written' /\ Watched' /\ NoStrayWatchdog'
    BY <1>1, <1>7, <2>1, LinesLeave
  <2>3. Served'
    <3>1. ASSUME NEW x \in Ctls, serving'[OwnerOf(x)] = x, mem'[x] # NoID, x \notin sweeping'
          PROVE  Line(mem'[x], OwnerOf(x)) \in File'
      <4>1. serving[OwnerOf(x)] = x /\ mem[x] # NoID /\ mem'[x] = mem[x] /\ Line(mem[x], OwnerOf(x)) \in File
        BY <1>1, <1>7, <3>1 DEF CtlInv, Served
      <4>2. x # c /\ AtWork(x)
        BY <1>7, <4>1 DEF AtWork
      <4>3. OwnerOf(x) # OwnerOf(c)
        BY <1>3, <4>2, OneAtWork DEF CtlInv
      <4>4. Line(mem[x], OwnerOf(x)) # Line(d, OwnerOf(c))
        BY <4>3 DEF Line
      <4>5. QED
        BY <2>1, <4>1, <4>4
    <3>2. QED
      BY <3>1 DEF Served
  <2>4. CtlTypes'
    BY <1>1, <1>3, <1>7, <2>1 DEF CtlInv, CtlTypes
  <2>5. QED
    BY <1>3, <2>2, <2>3, <2>4 DEF CtlInv
<1>8. QED
  BY <1>2, <1>5, <1>6, <1>7

LEMMA DoorStatusKeeps == ASSUME CtlInv, NEW c \in Ctls, doorStatus(c) PROVE CtlInv'
<1>1. Receives(c) /\ UNCHANGED <<lines, mem, timers, opening, sweeping, serving, watch, abandoned>> /\ File' = File
  BY DEF doorStatus, File
<1>2. Turns' /\ late' \in [Ctls -> {"reads", "ends", "over"}]
  BY <1>1, ReceivesTurns
<1>3. Hands' /\ Written' /\ Watched' /\ NoStrayWatchdog'
  BY <1>1, LinesLeave
<1>4. QED
  BY <1>1, <1>2, <1>3 DEF CtlInv, CtlTypes, Served

\* Another registration's line is not swept.
LEMMA SweepSpares ==
  ASSUME CtlInv, NEW o \in Owners, SweepStale(o)
  PROVE  /\ lines' \in Seq(Lines) /\ File' \subseteq File /\ \A l \in File' : l.owner # o
         /\ \A x \in Ctls : mem[x] # NoID /\ OwnerOf(x) # o /\ Line(mem[x], OwnerOf(x)) \in File => Line(mem[x], OwnerOf(x)) \in File'
<1>1. lines' \in Seq(Lines) /\ File' = {l \in File : ~ownsLine(l, o)}
  BY SweptLeaves DEF CtlInv
<1>2. \A x \in Ctls : /\ mem[x] # NoID /\ OwnerOf(x) # o => ~ownsLine(Line(mem[x], OwnerOf(x)), o)
  BY CtlOwners DEF ownsLine, IsValid, Line
<1>3. \A l \in File' : l.owner # o
  BY <1>1 DEF ownsLine
<1>4. QED
  BY <1>1, <1>2, <1>3

LEMMA SanitizeSweepKeeps == ASSUME CtlInv, NEW c \in Ctls, sanitizeSweep(c) PROVE CtlInv'
<1>1. /\ Receives(c) /\ UNCHANGED <<mem, timers, opening, serving, watch, abandoned>>
      /\ \/ SweepStale(OwnerOf(c)) /\ sweeping' = sweeping \cup {c}
         \/ UNCHANGED <<lines, sweeping>>
  BY DEF sanitizeSweep
<1>2. Turns' /\ AtWork(c) /\ opening[c] = NoID /\ c \notin sweeping /\ late' \in [Ctls -> {"reads", "ends", "over"}]
  BY <1>1, ReceivesTurns
<1>3. CASE UNCHANGED <<lines, sweeping>>
  <2>1. File' = File
    BY <1>3 DEF File
  <2>2. Hands' /\ Written' /\ Watched' /\ NoStrayWatchdog'
    BY <1>1, <1>3, <2>1, LinesLeave
  <2>3. QED
    BY <1>1, <1>2, <1>3, <2>1, <2>2 DEF CtlInv, CtlTypes, Served
<1>4. CASE SweepStale(OwnerOf(c)) /\ sweeping' = sweeping \cup {c}
  <2>1. OwnerOf(c) \in Owners
    BY CtlOwners
  <2>2. /\ lines' \in Seq(Lines) /\ File' \subseteq File /\ \A l \in File' : l.owner # OwnerOf(c)
        /\ \A x \in Ctls : mem[x] # NoID /\ OwnerOf(x) # OwnerOf(c) /\ Line(mem[x], OwnerOf(x)) \in File => Line(mem[x], OwnerOf(x)) \in File'
    BY <1>4, <2>1, SweepSpares
  <2>3. CtlTypes'
    BY <1>1, <1>2, <1>4, <2>2 DEF CtlInv, CtlTypes
  <2>4. Hands'
    BY <1>1, <1>2, <1>4 DEF CtlInv, Hands
  <2>5. Written'
    BY <1>1, <1>4, <2>2 DEF CtlInv, Written
  <2>6. Watched' /\ NoStrayWatchdog'
    BY <1>1, <2>2 DEF CtlInv, Watched, NoStrayWatchdog
  <2>7. Served'
    <3>1. ASSUME NEW x \in Ctls, serving'[OwnerOf(x)] = x, mem'[x] # NoID, x \notin sweeping'
          PROVE  Line(mem'[x], OwnerOf(x)) \in File'
      <4>1. serving[OwnerOf(x)] = x /\ mem[x] # NoID /\ mem'[x] = mem[x] /\ Line(mem[x], OwnerOf(x)) \in File /\ x # c
        BY <1>1, <1>4, <3>1 DEF CtlInv, Served
      <4>2. OwnerOf(x) # OwnerOf(c)
        BY <1>2, <4>1, OneAtWork DEF CtlInv, AtWork
      <4>3. QED
        BY <2>2, <4>1, <4>2
    <3>2. QED
      BY <3>1 DEF Served
  <2>8. QED
    BY <1>2, <2>3, <2>4, <2>5, <2>6, <2>7 DEF CtlInv
<1>5. QED
  BY <1>1, <1>3, <1>4

LEMMA SanitizeStopKeeps == ASSUME CtlInv, NEW c \in Ctls, sanitizeStop(c) PROVE CtlInv'
<1>1. /\ c \in sweeping /\ sweeping' = sweeping \ {c} /\ stopSelfLocked(c)
      /\ UNCHANGED <<lines, opening, serving, late, abandoned>> /\ File' = File
  BY DEF sanitizeStop, File
<1>2. Stops(c)
  BY <1>1, StopsIs DEF CtlInv
<1>3. mem[c] # NoID => \A l \in File' : l.id # mem[c]
  BY <1>1 DEF CtlInv, Written
<1>4. Hands' /\ Written' /\ Watched' /\ NoStrayWatchdog'
  BY <1>1, <1>2, <1>3, StopKeeps
<1>5. CtlTypes' /\ Turns'
  BY <1>1, <1>2 DEF CtlInv, CtlTypes, Stops, Turns, AtWork
<1>6. Served'
  BY <1>1, <1>2 DEF CtlInv, Served, Stops
<1>7. QED
  BY <1>4, <1>5, <1>6 DEF CtlInv

LEMMA SelfCloseKeeps == ASSUME CtlInv, NEW c \in Ctls, NEW timer \in {"idle", "hard"}, selfClose(c, timer) PROVE CtlInv'
<1>1. /\ opening[c] = NoID /\ mem[c] # NoID /\ UNCHANGED <<opening, sweeping, serving, late>>
      /\ \/ lines' = Removed(mem[c], OwnerOf(c)) /\ stopSelfLocked(c) /\ UNCHANGED abandoned
         \/ /\ timers' = [timers EXCEPT ![c] = @ \ {timer}]
            /\ abandoned' = IF timer = "hard" THEN abandoned \cup {mem[c]} ELSE abandoned
            /\ UNCHANGED <<lines, mem, watch>>
  BY DEF selfClose
<1>2. Turns'
  BY <1>1 DEF CtlInv, Turns, AtWork
<1>3. CASE lines' = Removed(mem[c], OwnerOf(c)) /\ stopSelfLocked(c) /\ UNCHANGED abandoned
  <2>1. Stops(c)
    BY <1>3, StopsIs DEF CtlInv
  <2>2. /\ lines' \in Seq(Lines) /\ File' \subseteq File /\ \A l \in File' : l.id # mem[c]
        /\ \A x \in Ctls : x # c /\ mem[x] # NoID /\ Line(mem[x], OwnerOf(x)) \in File => Line(mem[x], OwnerOf(x)) \in File'
    BY <1>1, <1>3, HeldLineGoes
  <2>3. Hands' /\ Written' /\ Watched' /\ NoStrayWatchdog'
    BY <1>1, <1>3, <2>1, <2>2, StopKeeps
  <2>4. CtlTypes' /\ Served'
    BY <1>1, <1>3, <2>1, <2>2 DEF CtlInv, CtlTypes, Served, Stops
  <2>5. QED
    BY <1>2, <2>3, <2>4 DEF CtlInv
<1>4. CASE /\ timers' = [timers EXCEPT ![c] = @ \ {timer}]
           /\ abandoned' = IF timer = "hard" THEN abandoned \cup {mem[c]} ELSE abandoned
           /\ UNCHANGED <<lines, mem, watch>>
  <2>1. mem[c] \in DoorIDs /\ timers \in [Ctls -> SUBSET {"idle", "hard"}] /\ abandoned \subseteq DoorIDs
    BY <1>1 DEF CtlInv, CtlTypes
  <2>2. /\ timers' \in [Ctls -> SUBSET {"idle", "hard"}] /\ abandoned' \subseteq DoorIDs /\ abandoned \subseteq abandoned'
        /\ \A x \in Ctls : "hard" \in timers[x] => "hard" \in timers'[x] \/ (x = c /\ mem[c] \in abandoned')
    BY <1>4, <2>1
  <2>3. File' = File
    BY <1>4 DEF File
  <2>4. CtlTypes' /\ Hands' /\ Watched' /\ NoStrayWatchdog' /\ Served'
    BY <1>1, <1>4, <2>2, <2>3 DEF CtlInv, CtlTypes, Hands, Watched, NoStrayWatchdog, Served
  <2>5. Written'
    BY <1>1, <1>4, <2>2, <2>3 DEF CtlInv, Written
  <2>6. QED
    BY <1>2, <2>4, <2>5 DEF CtlInv
<1>5. QED
  BY <1>1, <1>3, <1>4

LEMMA ServeKeeps == ASSUME CtlInv, NEW c \in Ctls, Serve(c) PROVE CtlInv'
<1> DEFINE o == OwnerOf(c)
<1>1. /\ serving[o] = c /\ opening[c] = NoID /\ serving' = [serving EXCEPT ![o] = NoCtl] /\ teardown(c)
      /\ UNCHANGED <<opening, sweeping, abandoned>>
  BY DEF Serve
<1>2. PICK next \in {"reads", "ends"} : late' = [late EXCEPT ![c] = next]
  BY DEF Serve
<1>3. /\ o \in Owners /\ NoCtl \notin Ctls /\ serving \in [Owners -> Ctls \cup {NoCtl}] /\ late \in [Ctls -> {"reads", "ends", "over"}]
      /\ \A x \in Ctls : OwnerOf(x) \in Owners
  BY CtlIDs, CtlOwners DEF CtlInv, CtlTypes
<1>4. /\ lines' \in Seq(Lines) /\ mem' \in [Ctls -> DoorIDs \cup {NoID}] /\ timers' \in [Ctls -> SUBSET {"idle", "hard"}]
      /\ watch' \in [DoorIDs -> {"none", "alive", "orphan"}]
      /\ Hands' /\ Written' /\ Watched' /\ NoStrayWatchdog'
      /\ \A x \in Ctls : x # c => /\ mem'[x] = mem[x]
                                  /\ mem[x] # NoID /\ Line(mem[x], OwnerOf(x)) \in File => Line(mem[x], OwnerOf(x)) \in File'
  BY <1>1, TeardownKeeps
<1>5. /\ serving' \in [Owners -> Ctls \cup {NoCtl}] /\ serving'[o] = NoCtl /\ \A p \in Owners : p # o => serving'[p] = serving[p]
      /\ late' \in [Ctls -> {"reads", "ends", "over"}] /\ late'[c] # "over" /\ \A x \in Ctls : x # c => late'[x] = late[x]
  BY <1>1, <1>2, <1>3
<1>6. \A x \in Ctls : OwnerOf(x) = o => late[x] = "over"
  BY <1>1, <1>3 DEF CtlInv, Turns
<1> HIDE DEF o
<1>7. Turns'
  <2>1. \A p \in Owners : serving'[p] # NoCtl => OwnerOf(serving'[p]) = p /\ \A x \in Ctls : OwnerOf(x) = p => late'[x] = "over"
    BY <1>5 DEF CtlInv, Turns, o
  <2>2. \A x, y \in Ctls : OwnerOf(x) = OwnerOf(y) /\ late'[x] # "over" /\ late'[y] # "over" => x = y
    BY <1>5, <1>6 DEF CtlInv, Turns, o
  <2>3. ASSUME NEW x \in Ctls, opening'[x] # NoID \/ x \in sweeping' PROVE AtWork(x)'
    <3>1. AtWork(x)
      BY <1>1, <2>3 DEF CtlInv, Turns
    <3>2. QED
      BY <1>1, <1>3, <1>5, <3>1 DEF AtWork
  <2>4. QED
    BY <2>1, <2>2, <2>3 DEF Turns
<1>8. CtlTypes'
  BY <1>1, <1>4, <1>5 DEF CtlInv, CtlTypes
<1>9. Served'
  BY <1>1, <1>3, <1>4, <1>5 DEF CtlInv, Served, o
<1>10. QED
  BY <1>4, <1>7, <1>8, <1>9 DEF CtlInv

LEMMA ServeControlKeeps == ASSUME CtlInv, NEW c \in Ctls, serveControl(c) PROVE CtlInv'
<1>1. /\ late[c] # "over" /\ opening[c] = NoID /\ c \notin sweeping /\ late' = [late EXCEPT ![c] = "over"] /\ teardown(c)
      /\ UNCHANGED <<opening, sweeping, serving, abandoned>>
  BY DEF serveControl, Idle
<1>2. /\ lines' \in Seq(Lines) /\ mem' \in [Ctls -> DoorIDs \cup {NoID}] /\ timers' \in [Ctls -> SUBSET {"idle", "hard"}]
      /\ watch' \in [DoorIDs -> {"none", "alive", "orphan"}]
      /\ Hands' /\ Written' /\ Watched' /\ NoStrayWatchdog'
      /\ \A x \in Ctls : x # c => /\ mem'[x] = mem[x]
                                  /\ mem[x] # NoID /\ Line(mem[x], OwnerOf(x)) \in File => Line(mem[x], OwnerOf(x)) \in File'
  BY <1>1, TeardownKeeps
<1>3. /\ late \in [Ctls -> {"reads", "ends", "over"}] /\ late' \in [Ctls -> {"reads", "ends", "over"}]
      /\ late'[c] = "over" /\ \A x \in Ctls : x # c => late'[x] = late[x]
  BY <1>1 DEF CtlInv, CtlTypes
<1>4. OwnerOf(c) \in Owners /\ NoCtl \notin Ctls /\ serving[OwnerOf(c)] # c
  BY <1>1, CtlIDs, CtlOwners DEF CtlInv, Turns
<1>5. Turns'
  BY <1>1, <1>3 DEF CtlInv, Turns, AtWork
<1>6. CtlTypes'
  BY <1>1, <1>2, <1>3 DEF CtlInv, CtlTypes
<1>7. Served'
  BY <1>1, <1>2, <1>4 DEF CtlInv, Served
<1>8. QED
  BY <1>2, <1>5, <1>6, <1>7 DEF CtlInv

LEMMA RunKeeps == ASSUME CtlInv, NEW c \in Ctls, Run(c) PROVE CtlInv'
<1> DEFINE o == OwnerOf(c)
<1>1. /\ serving[o] = NoCtl /\ mem[c] = NoID /\ \A x \in Ctls : OwnerOf(x) = o => late[x] = "over"
      /\ SweepStale(o) \/ UNCHANGED lines
      /\ serving' = [serving EXCEPT ![o] = c] \/ UNCHANGED serving
      /\ UNCHANGED <<mem, timers, opening, sweeping, late, watch, abandoned>>
  BY DEF Run
<1>2. /\ o \in Owners /\ NoCtl \notin Ctls /\ serving \in [Owners -> Ctls \cup {NoCtl}] /\ \A x \in Ctls : OwnerOf(x) \in Owners
  BY CtlIDs, CtlOwners DEF CtlInv, CtlTypes
<1>3. /\ lines' \in Seq(Lines) /\ File' \subseteq File
      /\ \A x \in Ctls : mem[x] # NoID /\ OwnerOf(x) # o /\ Line(mem[x], OwnerOf(x)) \in File => Line(mem[x], OwnerOf(x)) \in File'
  <2>1. CASE SweepStale(o)
    BY <1>2, <2>1, SweepSpares
  <2>2. CASE UNCHANGED lines
    BY <2>2 DEF File, CtlInv, CtlTypes
  <2>3. QED
    BY <1>1, <2>1, <2>2
<1>4. Hands' /\ Written' /\ Watched' /\ NoStrayWatchdog'
  BY <1>1, <1>3, LinesLeave
<1> HIDE DEF o
<1>5. /\ serving' \in [Owners -> Ctls \cup {NoCtl}] /\ serving'[o] \in {c, NoCtl} /\ \A p \in Owners : p # o => serving'[p] = serving[p]
  BY <1>1, <1>2
<1>6. Turns'
  <2>1. \A p \in Owners : serving'[p] # NoCtl => OwnerOf(serving'[p]) = p /\ \A x \in Ctls : OwnerOf(x) = p => late'[x] = "over"
    BY <1>1, <1>5 DEF CtlInv, Turns, o
  <2>2. \A x, y \in Ctls : OwnerOf(x) = OwnerOf(y) /\ late'[x] # "over" /\ late'[y] # "over" => x = y
    BY <1>1 DEF CtlInv, Turns
  <2>3. ASSUME NEW x \in Ctls, opening'[x] # NoID \/ x \in sweeping' PROVE AtWork(x)'
    <3>1. AtWork(x)
      BY <1>1, <2>3 DEF CtlInv, Turns
    <3>2. OwnerOf(x) # o
      BY <1>1, <1>2, <3>1 DEF AtWork
    <3>3. QED
      BY <1>1, <1>2, <1>5, <3>1, <3>2 DEF AtWork
  <2>4. QED
    BY <2>1, <2>2, <2>3 DEF Turns
<1>7. CtlTypes'
  BY <1>1, <1>3, <1>5 DEF CtlInv, CtlTypes
<1>8. Served'
  <2>1. ASSUME NEW x \in Ctls, serving'[OwnerOf(x)] = x, mem'[x] # NoID, x \notin sweeping'
        PROVE  Line(mem'[x], OwnerOf(x)) \in File'
    <3>1. x # c /\ OwnerOf(x) # o
      BY <1>1, <1>2, <1>5, <2>1
    <3>2. serving[OwnerOf(x)] = x /\ mem'[x] = mem[x] /\ x \notin sweeping
      BY <1>1, <1>2, <1>5, <2>1, <3>1
    <3>3. QED
      BY <1>3, <2>1, <3>1, <3>2 DEF CtlInv, Served
  <2>2. QED
    BY <2>1 DEF Served
<1>9. QED
  BY <1>4, <1>6, <1>7, <1>8 DEF CtlInv

\* A process dies: what its controllers held is left to their watchdogs.
LEMMA CrashKeeps == ASSUME CtlInv, NEW o \in Owners, Crash(o) PROVE CtlInv'
<1> DEFINE Mine(c) == OwnerOf(c) = o
           doors == {mem[c] : c \in {x \in Ctls : Mine(x)}} \cup {opening[c] : c \in {x \in Ctls : Mine(x)}}
<1>1. /\ mem' = [c \in Ctls |-> IF Mine(c) THEN NoID ELSE mem[c]]
      /\ timers' = [c \in Ctls |-> IF Mine(c) THEN {} ELSE timers[c]]
      /\ opening' = [c \in Ctls |-> IF Mine(c) THEN NoID ELSE opening[c]]
      /\ sweeping' = {c \in sweeping : ~Mine(c)}
      /\ serving' = [serving EXCEPT ![o] = NoCtl]
      /\ late' = [c \in Ctls |-> IF Mine(c) THEN "over" ELSE late[c]]
      /\ watch' = [d \in DoorIDs |-> IF d \in doors /\ watch[d] = "alive" THEN "orphan" ELSE watch[d]]
      /\ UNCHANGED <<lines, abandoned>>
  BY DEF Crash
<1>2. CtlTypes /\ NoCtl \notin Ctls /\ NoID \notin DoorIDs /\ \A x \in Ctls : OwnerOf(x) \in Owners
  BY CtlIDs, CtlOwners DEF CtlInv
<1>3. File' = File
  BY <1>1 DEF File
<1>4. \A x \in Ctls : /\ Mine(x) => mem'[x] = NoID /\ opening'[x] = NoID /\ late'[x] = "over" /\ x \notin sweeping'
                      /\ ~Mine(x) => /\ mem'[x] = mem[x] /\ opening'[x] = opening[x] /\ late'[x] = late[x]
                                     /\ timers'[x] = timers[x] /\ (x \in sweeping' <=> x \in sweeping)
  BY <1>1
<1>5. \A d \in DoorIDs : /\ d \in doors => watch'[d] # "alive"
                         /\ watch'[d] = IF d \in doors /\ watch[d] = "alive" THEN "orphan" ELSE watch[d]
  BY <1>1 DEF CtlTypes
<1>6. \A x \in Ctls : ~Mine(x) => (mem[x] # NoID => mem[x] \notin doors) /\ (opening[x] # NoID => opening[x] \notin doors)
  BY DEF CtlInv, Hands
<1>7. \A d \in DoorIDs : d \notin doors => \A x \in Ctls : Mine(x) => mem[x] # d /\ opening[x] # d
  OBVIOUS
<1>8. CtlTypes'
  <2>1. timers' \in [Ctls -> SUBSET {"idle", "hard"}] /\ late' \in [Ctls -> {"reads", "ends", "over"}]
    BY <1>1, <1>2 DEF CtlTypes
  <2>2. mem' \in [Ctls -> DoorIDs \cup {NoID}] /\ opening' \in [Ctls -> DoorIDs \cup {NoID}] /\ sweeping' \subseteq Ctls
    BY <1>1, <1>2 DEF CtlTypes
  <2>3. serving' \in [Owners -> Ctls \cup {NoCtl}]
    BY <1>1, <1>2 DEF CtlTypes
  <2>4. watch' \in [DoorIDs -> {"none", "alive", "orphan"}]
    BY <1>1, <1>2 DEF CtlTypes
  <2>5. QED
    BY <1>1, <1>2, <2>1, <2>2, <2>3, <2>4 DEF CtlTypes
<1>9. /\ serving'[o] = NoCtl /\ \A p \in Owners : p # o => serving'[p] = serving[p]
  BY <1>1, <1>2 DEF CtlTypes
<1>10. sweeping' \subseteq sweeping /\ sweeping \subseteq Ctls
  BY <1>1, <1>2 DEF CtlTypes
<1> HIDE DEF doors
<1>11. Turns'
  <2>1. \A p \in Owners : serving'[p] # NoCtl => OwnerOf(serving'[p]) = p /\ \A x \in Ctls : OwnerOf(x) = p => late'[x] = "over"
    BY <1>4, <1>9 DEF CtlInv, Turns
  <2>2. \A x, y \in Ctls : OwnerOf(x) = OwnerOf(y) /\ late'[x] # "over" /\ late'[y] # "over" => x = y
    BY <1>4 DEF CtlInv, Turns
  <2>3. ASSUME NEW x \in Ctls, opening'[x] # NoID \/ x \in sweeping' PROVE AtWork(x)'
    BY <1>2, <1>4, <1>9, <2>3 DEF CtlInv, Turns, AtWork
  <2>4. QED
    BY <2>1, <2>2, <2>3 DEF Turns
<1>12. Hands'
  BY <1>4 DEF CtlInv, Hands
<1>13. Written'
  <2>1. ASSUME NEW x \in Ctls, opening'[x] # NoID
        PROVE  watch'[opening'[x]] = "alive" /\ \A l \in File' : l.id # opening'[x]
    <3>1. ~Mine(x) /\ opening'[x] = opening[x] /\ opening[x] \in DoorIDs /\ opening[x] \notin doors
      BY <1>2, <1>4, <1>6, <2>1 DEF CtlTypes
    <3>2. QED
      BY <1>3, <1>5, <2>1, <3>1 DEF CtlInv, Written
  <2>2. ASSUME NEW x \in Ctls, mem'[x] # NoID
        PROVE  /\ watch'[mem'[x]] # "orphan" /\ \A l \in File' : l.id = mem'[x] => l.owner = OwnerOf(x)
               /\ "hard" \in timers'[x] \/ mem'[x] \in abandoned'
    <3>1. ~Mine(x) /\ mem'[x] = mem[x] /\ mem[x] \in DoorIDs /\ mem[x] \notin doors /\ timers'[x] = timers[x] /\ abandoned' = abandoned
      BY <1>1, <1>2, <1>4, <1>6, <2>2 DEF CtlTypes
    <3>2. QED
      BY <1>3, <1>5, <2>2, <3>1 DEF CtlInv, Written
  <2>3. \A x \in sweeping' : \A l \in File' : l.owner # OwnerOf(x)
    BY <1>3, <1>10 DEF CtlInv, Written
  <2>4. QED
    BY <2>1, <2>2, <2>3 DEF Written
<1>14. Watched'
  <2>1. abandoned' = abandoned
    BY <1>1
  <2>2. QED
    BY <1>3, <1>5, <2>1 DEF CtlInv, Watched
<1>15. NoStrayWatchdog'
  <2>1. ASSUME NEW d \in DoorIDs, watch'[d] = "alive" PROVE \E x \in Ctls : d \in {mem'[x], opening'[x]}
    <3>1. d \notin doors /\ watch[d] = "alive"
      BY <1>5, <2>1
    <3>2. PICK x \in Ctls : d \in {mem[x], opening[x]}
      BY <3>1 DEF CtlInv, NoStrayWatchdog
    <3>3. ~Mine(x)
      BY <1>7, <3>1, <3>2
    <3>4. QED
      BY <1>4, <3>2, <3>3
  <2>2. QED
    BY <2>1 DEF NoStrayWatchdog
<1>16. Served'
  BY <1>2, <1>3, <1>4, <1>9 DEF CtlInv, Served
<1>17. QED
  BY <1>8, <1>11, <1>12, <1>13, <1>14, <1>15, <1>16 DEF CtlInv

\* An orphaned watchdog has nobody's door any more.
LEMMA RunWatchdogKeeps == ASSUME CtlInv, NEW d \in DoorIDs, RunWatchdog(d) PROVE CtlInv'
<1>1. /\ watch[d] = "orphan" /\ watch' = [watch EXCEPT ![d] = "none"]
      /\ \/ lines' = Without(lines, WithID(d)) /\ UNCHANGED abandoned
         \/ abandoned' = abandoned \cup {d} /\ UNCHANGED lines
      /\ UNCHANGED <<mem, timers, opening, sweeping, serving, late>>
  BY DEF RunWatchdog, processVars
<1>2. /\ watch \in [DoorIDs -> {"none", "alive", "orphan"}] /\ lines \in Seq(Lines) /\ abandoned \subseteq DoorIDs
      /\ mem \in [Ctls -> DoorIDs \cup {NoID}] /\ opening \in [Ctls -> DoorIDs \cup {NoID}] /\ CtlTypes
  BY DEF CtlInv, CtlTypes
<1>3. /\ watch' \in [DoorIDs -> {"none", "alive", "orphan"}] /\ watch'[d] = "none"
      /\ \A e \in DoorIDs : e # d => watch'[e] = watch[e]
  BY <1>1, <1>2
<1>4. \A x \in Ctls : (mem[x] # NoID => mem[x] # d) /\ (opening[x] # NoID => opening[x] # d)
  BY <1>1 DEF CtlInv, Written
<1>5. /\ lines' \in Seq(Lines) /\ File' \subseteq File /\ abandoned \subseteq abandoned' /\ abandoned' \subseteq DoorIDs
      /\ d \in abandoned' \/ \A l \in File' : l.id # d
      /\ \A l \in File : l.id # d => l \in File'
  <2>1. CASE lines' = Without(lines, WithID(d)) /\ UNCHANGED abandoned
    <3>1. lines' \in Seq(Lines) /\ File' = {l \in File : l.id # d}
      BY <1>2, <2>1, UnwatchedLeaves
    <3>2. QED
      BY <1>2, <2>1, <3>1
  <2>2. CASE abandoned' = abandoned \cup {d} /\ UNCHANGED lines
    BY <1>2, <2>2 DEF File
  <2>3. QED
    BY <1>1, <2>1, <2>2
<1>6. CtlTypes' /\ Turns' /\ Hands'
  BY <1>1, <1>3, <1>5 DEF CtlInv, CtlTypes, Turns, AtWork, Hands
<1>7. Written'
  <2>1. ASSUME NEW x \in Ctls, opening'[x] # NoID
        PROVE  watch'[opening'[x]] = "alive" /\ \A l \in File' : l.id # opening'[x]
    BY <1>1, <1>2, <1>3, <1>4, <1>5, <2>1 DEF CtlInv, Written
  <2>2. ASSUME NEW x \in Ctls, mem'[x] # NoID
        PROVE  /\ watch'[mem'[x]] # "orphan" /\ \A l \in File' : l.id = mem'[x] => l.owner = OwnerOf(x)
               /\ "hard" \in timers'[x] \/ mem'[x] \in abandoned'
    BY <1>1, <1>2, <1>3, <1>4, <1>5, <2>2 DEF CtlInv, Written
  <2>3. \A x \in sweeping' : \A l \in File' : l.owner # OwnerOf(x)
    BY <1>1, <1>5 DEF CtlInv, Written
  <2>4. QED
    BY <2>1, <2>2, <2>3 DEF Written
<1>8. Watched' /\ NoStrayWatchdog'
  BY <1>1, <1>3, <1>5 DEF CtlInv, Watched, NoStrayWatchdog
<1>9. Served'
  <2>1. ASSUME NEW x \in Ctls, serving'[OwnerOf(x)] = x, mem'[x] # NoID, x \notin sweeping'
        PROVE  Line(mem'[x], OwnerOf(x)) \in File'
    <3>1. Line(mem[x], OwnerOf(x)) \in File /\ mem[x] # d /\ mem'[x] = mem[x]
      BY <1>1, <1>4, <2>1 DEF CtlInv, Served
    <3>2. QED
      BY <1>5, <3>1 DEF Line
  <2>2. QED
    BY <2>1 DEF Served
<1>10. QED
  BY <1>6, <1>7, <1>8, <1>9 DEF CtlInv

LEMMA WatchdogExpiresKeeps == ASSUME CtlInv, NEW c \in Ctls, WatchdogExpires(c) PROVE CtlInv'
<1>1. /\ mem[c] # NoID /\ "hard" \notin timers[c] /\ watch' = [watch EXCEPT ![mem[c]] = "none"]
      /\ UNCHANGED <<lines, mem, timers, opening, sweeping, serving, late, abandoned>> /\ File' = File
  BY DEF WatchdogExpires, processVars, File
<1>2. mem[c] \in DoorIDs /\ mem[c] \in abandoned /\ watch \in [DoorIDs -> {"none", "alive", "orphan"}]
  BY <1>1 DEF CtlInv, CtlTypes, Written
<1>3. /\ watch' \in [DoorIDs -> {"none", "alive", "orphan"}]
      /\ \A e \in DoorIDs : watch'[e] = IF e = mem[c] THEN "none" ELSE watch[e]
  BY <1>1, <1>2
<1>4. CtlTypes' /\ Turns' /\ Hands' /\ Served'
  BY <1>1, <1>3 DEF CtlInv, CtlTypes, Turns, AtWork, Hands, Served
<1>5. Written'
  <2>1. ASSUME NEW x \in Ctls, opening'[x] # NoID
        PROVE  watch'[opening'[x]] = "alive" /\ \A l \in File' : l.id # opening'[x]
    BY <1>1, <1>3, <2>1 DEF CtlInv, CtlTypes, Hands, Written
  <2>2. ASSUME NEW x \in Ctls, mem'[x] # NoID
        PROVE  /\ watch'[mem'[x]] # "orphan" /\ \A l \in File' : l.id = mem'[x] => l.owner = OwnerOf(x)
               /\ "hard" \in timers'[x] \/ mem'[x] \in abandoned'
    BY <1>1, <1>3, <2>2 DEF CtlInv, CtlTypes, Written
  <2>3. \A x \in sweeping' : \A l \in File' : l.owner # OwnerOf(x)
    BY <1>1 DEF CtlInv, Written
  <2>4. QED
    BY <2>1, <2>2, <2>3 DEF Written
<1>6. Watched' /\ NoStrayWatchdog'
  BY <1>1, <1>2, <1>3 DEF CtlInv, Watched, NoStrayWatchdog
<1>7. QED
  BY <1>4, <1>5, <1>6 DEF CtlInv

LEMMA CtlInitIs == ASSUME CtlInit PROVE CtlInv
<1>1. /\ mem = [c \in Ctls |-> NoID] /\ timers = [c \in Ctls |-> {}] /\ opening = [c \in Ctls |-> NoID] /\ sweeping = {}
      /\ serving = [o \in Owners |-> NoCtl] /\ late = [c \in Ctls |-> "over"] /\ watch = [d \in DoorIDs |-> "none"] /\ abandoned = {}
  BY DEF CtlInit
<1>2. NoID \notin DoorIDs /\ NoCtl \notin Ctls /\ \A c \in Ctls : OwnerOf(c) \in Owners
  BY CtlIDs, CtlOwners
<1>3. lines \in Seq(Lines) /\ \A l \in File : l.owner = NoOwner
  <2>1. lines = <<>> \/ \E l \in Lines : lines = <<l>> /\ l.owner = NoOwner
    <3>1. Corrupt \in Lines /\ Corrupt.owner = NoOwner
      BY LinesAre DEF Corrupt
    <3>2. \A d \in DoorIDs : Line(d, NoOwner) \in Lines /\ Line(d, NoOwner).owner = NoOwner
      BY LinesAre
    <3>3. QED
      BY <3>1, <3>2 DEF CtlInit
  <2>2. CASE lines = <<>>
    BY <2>2 DEF File, Present
  <2>3. CASE \E l \in Lines : lines = <<l>> /\ l.owner = NoOwner
    <3>1. PICK l \in Lines : lines = <<l>> /\ l.owner = NoOwner
      BY <2>3
    <3>2. lines \in Seq(Lines) /\ DOMAIN lines = {1} /\ lines[1] = l
      BY <3>1
    <3>3. QED
      BY <3>1, <3>2 DEF File, Present
  <2>4. QED
    BY <2>1, <2>2, <2>3
<1>4. CtlTypes
  BY <1>1, <1>3 DEF CtlTypes
<1>5. Turns /\ Hands
  BY <1>1, <1>2 DEF Turns, Hands
<1>6. Written /\ Watched /\ NoStrayWatchdog /\ Served
  BY <1>1, <1>2, <1>3 DEF Written, Watched, NoStrayWatchdog, Served
<1>7. QED
  BY <1>4, <1>5, <1>6 DEF CtlInv

\* Every step of a machine keeps lines, watchdogs and controllers in step.
THEOREM MachineInvariant == CtlSpec => []CtlInv
<1>1. CtlInit => CtlInv
  BY CtlInitIs
<1>2. ASSUME CtlInv, [CtlNext]_ctlVars PROVE CtlInv'
  <2>1. CASE \E c \in Ctls, d \in DoorIDs : ((Fresh(d) \/ mem[c] = d) /\ openSpawn(c, d)) \/ doorClose(c, d)
    BY <1>2, <2>1, OpenSpawnKeeps, DoorCloseKeeps
  <2>2. CASE \E c \in Ctls : openInstall(c) \/ doorStatus(c) \/ sanitizeSweep(c) \/ sanitizeStop(c)
    BY <1>2, <2>2, OpenInstallKeeps, DoorStatusKeeps, SanitizeSweepKeeps, SanitizeStopKeeps
  <2>3. CASE \E c \in Ctls : Serve(c) \/ serveControl(c) \/ Run(c) \/ WatchdogExpires(c)
    BY <1>2, <2>3, ServeKeeps, ServeControlKeeps, RunKeeps, WatchdogExpiresKeeps
  <2>4. CASE \E c \in Ctls, timer \in {"idle", "hard"} : selfClose(c, timer)
    BY <1>2, <2>4, SelfCloseKeeps
  <2>5. CASE \/ \E o \in Owners : Crash(o)
             \/ \E d \in DoorIDs : RunWatchdog(d)
    BY <1>2, <2>5, CrashKeeps, RunWatchdogKeeps
  <2>6. CASE UNCHANGED ctlVars
    <3>1. UNCHANGED <<lines, mem, timers, opening, sweeping, serving, late, watch, abandoned>> /\ File' = File
      BY <2>6 DEF ctlVars, processVars, File
    <3>2. Hands' /\ Written' /\ Watched' /\ NoStrayWatchdog'
      BY <1>2, <3>1, LinesLeave
    <3>3. CtlTypes' /\ Turns' /\ Served'
      BY <1>2, <3>1 DEF CtlInv, CtlTypes, Turns, AtWork, Served
    <3>4. QED
      BY <3>2, <3>3 DEF CtlInv
  <2>7. QED
    BY <1>2, <2>1, <2>2, <2>3, <2>4, <2>5, <2>6 DEF CtlNext
<1>3. QED
  BY <1>1, <1>2, PTL DEF CtlSpec

\* A door line some server wrote has a watchdog behind it, crashes included,
\* and no watchdog outlives its door (door.go open, stopSelfLocked), for any
\* number of registrations, connections, ids and failing file operations.
THEOREM LinesAreWatched == CtlSpec => []WatchdogsMatchLines
<1>1. CtlInv => WatchdogsMatchLines
  <2> SUFFICES ASSUME CtlInv PROVE WatchdogsMatchLines
    OBVIOUS
  <2>1. \A d \in DoorIDs : Tagged(d) => \E l \in File : l.id = d /\ l.owner # NoOwner
    BY DEF Tagged, File, Present
  <2>2. GuardedLine
    BY <2>1 DEF GuardedLine, CtlInv, Watched
  <2>3. QED
    BY <2>2 DEF WatchdogsMatchLines, CtlInv
<1>2. QED
  BY <1>1, MachineInvariant, PTL

\* A door the connected server believes it holds is in the file, whatever the
\* other registration does to it (keyfile ownsLine, removeLocked).
THEOREM HeldDoorIsOnDisk == CtlSpec => []ServedDoorIsOnDisk
<1>1. CtlInv => ServedDoorIsOnDisk
  BY DEF CtlInv, Served, ServedDoorIsOnDisk, File, Present
<1>2. QED
  BY <1>1, MachineInvariant, PTL

=============================================================================
