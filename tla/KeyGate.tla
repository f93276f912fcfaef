------------------------------ MODULE KeyGate -------------------------------
(***************************************************************************)
(* A person's connection lasts only as long as the key that opened it is   *)
(* still that person's (internal/gateway/key_conns.go), with the commands  *)
(* that give and take keys (admin_role.go) and the sessions a taken key    *)
(* has to end (human_role.go).                                             *)
(*                                                                         *)
(* The state on record is who owns which key and who administers; grants   *)
(* are not modelled: whoever is on record may open a session.  A command   *)
(* login carries one command at a time.  A command's store write is one    *)
(* transaction, under accessPublishMu; what it checks, writes, publishes,  *)
(* answers and cuts are steps of their own, because session connections    *)
(* take no gate and run between them.                                      *)
(***************************************************************************)
EXTENDS Naturals, FiniteSets

CONSTANTS
  Names, Keys, None,
  Commands,   \* command logins
  Sessions    \* logins that open a session to a machine

ASSUME KeyGateNone == None \notin Names \cup Keys
ASSUME KeyGateConns == Commands \cap Sessions = {}

Conns == Commands \cup Sessions

VARIABLES
  owner,     \* the person each key is registered to, or None
  people,    \* the people on record
  admins,    \* those among them who administer
  pc,        \* where each connection's handler stands
  person,    \* the name its handshake resolved, or None
  key,       \* the key it authenticated with, or None
  tracked,   \* keyConns: the connections cutRemovedKeys looks at
  closed,    \* connections whose transport has been closed
  mode,      \* per command: takes the gate for "read" or "write"
  gate,      \* the connections that hold keyGate
  gone,      \* per command: people whose access its write withdrew
  cutting,   \* per command: connections it has still to cut
  live,      \* sessions the access engine knows
  carries    \* connections that have recorded their session

record == <<owner, people, admins>>
handler == <<pc, person, key, closed>>
engine == <<live, carries>>
vars == <<record, handler, tracked, mode, gate, gone, cutting, engine>>

keyHeld(c) == key[c] # None /\ owner[key[c]] = person[c]
adminKeysInState == {k \in Keys : owner[k] \in admins}

Goes(c, from, to) == pc[c] = from /\ pc' = [pc EXCEPT ![c] = to]

-----------------------------------------------------------------------------
(* The connection: handshake, tracking, and its end. *)

\* Resolve: the handshake proves a key and names its person.
Resolve(c) ==
  /\ Goes(c, "idle", "shaken")
  /\ \E k \in Keys :
       /\ owner[k] # None
       /\ key' = [key EXCEPT ![c] = k]
       /\ person' = [person EXCEPT ![c] = owner[k]]
  /\ closed' = closed \ {c}
  /\ UNCHANGED <<record, tracked, mode, gate, gone, cutting, engine>>

trackKeyConn(c) ==
  /\ Goes(c, "shaken", "served")
  /\ tracked' = tracked \cup {c}
  /\ UNCHANGED <<record, person, key, closed, mode, gate, gone, cutting, engine>>

\* The client goes, or the keepalive gives it up: the transport is closed.
hangUp(c) ==
  /\ pc[c] # "idle" /\ c \notin closed
  /\ closed' = closed \cup {c}
  /\ UNCHANGED <<record, pc, person, key, tracked, mode, gate, gone, cutting, engine>>

\* handleHuman runs out of channels on a closed transport and returns; what
\* it started for the connection may still be running.
untrack(c) ==
  /\ c \in closed \cap tracked
  /\ tracked' = tracked \ {c}
  /\ UNCHANGED <<record, handler, mode, gate, gone, cutting, engine>>

\* Nothing is left of the connection.  Cutting it now would change nothing,
\* so it is dropped from the lists of those who still mean to.
disconnect(c) ==
  /\ c \in closed \ tracked
  /\ Goes(c, "served", "idle")
  /\ person' = [person EXCEPT ![c] = None]
  /\ key' = [key EXCEPT ![c] = None]
  /\ carries' = carries \ {c}
  /\ cutting' = [d \in Commands |-> cutting[d] \ {c}]
  /\ UNCHANGED <<record, tracked, closed, mode, gate, gone, live>>

-----------------------------------------------------------------------------
(* serveCommandSession. *)

\* Mutant: revoking commands share the gate with the rest.
revokingCommandsShare == {}

\* A command that may leave a key no longer its person's wants the gate alone.
commandsThatRevokeKeys == {"write"}

Ask(c) ==
  /\ c \notin closed
  /\ Goes(c, "served", "asked")
  /\ \E m \in {"read", "write"} : mode' = [mode EXCEPT ![c] = m]
  /\ UNCHANGED <<record, person, key, tracked, closed, gate, gone, cutting, engine>>

Alone(c) == mode[c] \in commandsThatRevokeKeys

\* keyGate is a sync.RWMutex: a waiting writer keeps new readers out.
gateIsFree(c) ==
  IF Alone(c) THEN gate = {}
  ELSE /\ \A d \in gate : ~Alone(d)
       /\ \A d \in Commands : pc[d] = "asked" => ~Alone(d)

\* With the gate in hand the key is checked against the state as it is now,
\* and then the role.  Who may not run the command is only told so.
serveCommandSession(c) ==
  /\ keyHeld(c)
  /\ gateIsFree(c)
  /\ gate' = gate \cup {c}
  /\ Goes(c, "asked", IF person[c] \in admins THEN "checked" ELSE "published")
  /\ UNCHANGED <<record, person, key, tracked, closed, mode, gone, cutting, engine>>

\* A key that was taken gets no answer, and its connection is closed.
refuseTakenKey(c) ==
  /\ ~keyHeld(c)
  /\ gateIsFree(c)
  /\ Goes(c, "asked", "served")
  /\ closed' = closed \cup {c}
  /\ mode' = [mode EXCEPT ![c] = "read"]
  /\ UNCHANGED <<record, person, key, tracked, gate, gone, cutting, engine>>

cmdPeopleAdd ==
  \E n \in Names \ people, k \in Keys :
    /\ owner[k] = None
    /\ people' = people \cup {n}
    /\ owner' = [owner EXCEPT ![k] = n]
    /\ admins' \in {admins, admins \cup {n}}

cmdPeopleKeysAdd ==
  \E n \in people, k \in Keys :
    /\ owner[k] = None
    /\ owner' = [owner EXCEPT ![k] = n]
    /\ UNCHANGED <<people, admins>>

\* Refused for the last administrator key and for a key that is not there.
cmdPeopleKeysRemove ==
  \E k \in Keys :
    /\ owner[k] # None
    /\ owner[k] \in admins => Cardinality(adminKeysInState) > 1
    /\ owner' = [owner EXCEPT ![k] = None]
    /\ UNCHANGED <<people, admins>>

\* Mutant: the keys of a removed person stay registered.
cmdPeopleRemoveLeavesKeys(n) ==
  /\ n \in people
  /\ n \in admins => Cardinality(admins) > 1
  /\ people' = people \ {n}
  /\ admins' = admins \ {n}
  /\ UNCHANGED owner

\* The last administrator stays.  Keys go with their person.
cmdPeopleRemove(n) ==
  /\ n \in people
  /\ n \in admins => Cardinality(admins) > 1
  /\ people' = people \ {n}
  /\ admins' = admins \ {n}
  /\ owner' = [k \in Keys |-> IF owner[k] = n THEN None ELSE owner[k]]

cmdPeopleRename(n, to) ==
  /\ n \in people /\ to \notin people
  /\ people' = (people \ {n}) \cup {to}
  /\ admins' = IF n \in admins THEN (admins \ {n}) \cup {to} ELSE admins
  /\ owner' = [k \in Keys |-> IF owner[k] = n THEN to ELSE owner[k]]

\* runCommand: one transaction.  A command that is refused, or that does not
\* touch people, leaves the record alone.
runCommand(c) ==
  /\ Goes(c, "checked", "ran")
  /\ \/ /\ mode[c] = "read"
        /\ cmdPeopleAdd \/ cmdPeopleKeysAdd
        /\ UNCHANGED gone
     \/ mode[c] = "write" /\ cmdPeopleKeysRemove /\ UNCHANGED gone
     \/ /\ mode[c] = "write"
        /\ \E n \in Names :
             /\ cmdPeopleRemove(n) \/ \E to \in Names : cmdPeopleRename(n, to)
             /\ gone' = [gone EXCEPT ![c] = {n}]
     \/ UNCHANGED <<record, gone>>
  /\ UNCHANGED <<person, key, closed, tracked, mode, gate, cutting, engine>>

\* applyRevocations, or the revocations of a rename: the engine ends every
\* session of the name that lost its grants.
applyRevocations(c) ==
  /\ Goes(c, "ran", "published")
  /\ live' = {s \in live : person[s] \notin gone[c]}
  /\ gone' = [gone EXCEPT ![c] = {}]
  /\ UNCHANGED <<record, person, key, closed, tracked, mode, gate, cutting, carries>>

\* finishCommand writes the answer to the client's channel, which takes the
\* client's part: the step happens when it has read, or its connection died.
\* Only then does cutRemovedKeys look for connections to end.
cutRemovedKeys(c) ==
  /\ Goes(c, "published", "cutting")
  /\ cutting' = [cutting EXCEPT ![c] = {d \in tracked : ~keyHeld(d)}]
  /\ UNCHANGED <<record, person, key, closed, tracked, mode, gate, gone, engine>>

\* Mutant: a connection that carries a session is left to the session's end.
cutKeyConnSparesSession(d) ==
  IF d \in carries THEN UNCHANGED <<live, closed>>
  ELSE closed' = closed \cup {d} /\ UNCHANGED live

\* A connection that carries a session loses it through the engine, which
\* closes the connection after telling the person; any other is closed.
cutKeyConn(d) ==
  IF d \in carries THEN live' = live \ {d} /\ UNCHANGED closed
  ELSE closed' = closed \cup {d} /\ UNCHANGED live

cutNext(c) ==
  /\ pc[c] = "cutting"
  /\ \E d \in cutting[c] :
       /\ cutKeyConn(d)
       /\ cutting' = [cutting EXCEPT ![c] = @ \ {d}]
  /\ UNCHANGED <<record, pc, person, key, tracked, mode, gate, gone, carries>>

\* The handler returns: the deferred unlock lets the gate go.
returns(c) ==
  /\ cutting[c] = {}
  /\ Goes(c, "cutting", "served")
  /\ gate' = gate \ {c}
  /\ mode' = [mode EXCEPT ![c] = "read"]
  /\ UNCHANGED <<record, person, key, closed, tracked, gone, cutting, engine>>

-----------------------------------------------------------------------------
(* serveHumanSession, as far as the key is concerned. *)

\* The setup does not watch the transport, so it may finish on a closed one.
serveHumanSession(s) ==
  /\ s \notin closed
  /\ Goes(s, "served", "setup")
  /\ UNCHANGED <<record, person, key, closed, tracked, mode, gate, gone, cutting, engine>>

\* A refusal on the way, the engine's included, ends the connection.
denyHuman(s) ==
  /\ Goes(s, "setup", "served")
  /\ closed' = closed \cup {s}
  /\ UNCHANGED <<record, person, key, tracked, mode, gate, gone, cutting, engine>>

OpenSession(s) ==
  /\ Goes(s, "setup", "opened")
  /\ person[s] \in people
  /\ live' = live \cup {s}
  /\ UNCHANGED <<record, person, key, closed, tracked, mode, gate, gone, cutting, carries>>

carry(s) ==
  /\ Goes(s, "opened", "carried")
  /\ carries' = carries \cup {s}
  /\ UNCHANGED <<record, person, key, closed, tracked, mode, gate, gone, cutting, live>>

\* Mutant: the session starts without looking at the key again.
recheckKeyNever(s) ==
  /\ Goes(s, "carried", "bridged")
  /\ UNCHANGED <<record, person, key, closed, tracked, mode, gate, gone, cutting, engine>>

\* A removal that landed during the setup found no session to kill.
recheckKey(s) ==
  /\ Goes(s, "carried", "bridged")
  /\ IF keyHeld(s) THEN UNCHANGED <<live, closed>> ELSE cutKeyConn(s)
  /\ UNCHANGED <<record, person, key, tracked, mode, gate, gone, cutting, carries>>

\* The session is over for any reason; its connection ends with it.
endSession(s) ==
  /\ Goes(s, "bridged", "served")
  /\ live' = live \ {s}
  /\ closed' = closed \cup {s}
  /\ UNCHANGED <<record, person, key, tracked, mode, gate, gone, cutting, carries>>

\* The bridge does not outlive its transport, nor a session the engine ended.
bridgeStops(s) == (s \in closed \/ s \notin live) /\ endSession(s)

-----------------------------------------------------------------------------
\* Everybody on record administers and holds at least one key.
Init ==
  /\ owner \in [Keys -> Names \cup {None}]
  /\ people = {owner[k] : k \in Keys} \ {None}
  /\ people # {}
  /\ admins = people
  /\ pc = [c \in Conns |-> "idle"]
  /\ person = [c \in Conns |-> None]
  /\ key = [c \in Conns |-> None]
  /\ tracked = {} /\ closed = Conns
  /\ mode = [c \in Commands |-> "read"]
  /\ gate = {}
  /\ gone = [c \in Commands |-> {}]
  /\ cutting = [c \in Commands |-> {}]
  /\ live = {} /\ carries = {}

Connection(c) == Resolve(c) \/ trackKeyConn(c) \/ hangUp(c) \/ untrack(c) \/ disconnect(c)

Command(c) ==
  \/ Ask(c) \/ serveCommandSession(c) \/ refuseTakenKey(c) \/ runCommand(c)
  \/ applyRevocations(c) \/ cutRemovedKeys(c) \/ cutNext(c) \/ returns(c)

Session(s) ==
  \/ serveHumanSession(s) \/ denyHuman(s) \/ OpenSession(s) \/ carry(s)
  \/ recheckKey(s) \/ endSession(s)

Next ==
  \/ \E c \in Conns : Connection(c)
  \/ \E c \in Commands : Command(c)
  \/ \E s \in Sessions : Session(s)

Spec == Init /\ [][Next]_vars

\* A handler that can go on does.  Nothing is assumed of clients: none has to
\* come, ask, hang up or take the answer it is sent.
FairSpec ==
  /\ Spec
  /\ \A c \in Conns : WF_vars(trackKeyConn(c)) /\ WF_vars(untrack(c)) /\ WF_vars(disconnect(c))
  /\ \A c \in Commands :
       /\ WF_vars(serveCommandSession(c)) /\ WF_vars(refuseTakenKey(c)) /\ WF_vars(runCommand(c))
       /\ WF_vars(applyRevocations(c)) /\ WF_vars(cutNext(c)) /\ WF_vars(returns(c))
  /\ \A s \in Sessions :
       /\ WF_vars(OpenSession(s) \/ denyHuman(s)) /\ WF_vars(carry(s))
       /\ WF_vars(recheckKey(s)) /\ WF_vars(bridgeStops(s))

\* With callers that take their answer, or whose connection dies.
ReadingSpec == FairSpec /\ \A c \in Commands : WF_vars(cutRemovedKeys(c))

-----------------------------------------------------------------------------
TypeOK ==
  /\ owner \in [Keys -> Names \cup {None}]
  /\ admins \subseteq people /\ people \subseteq Names
  /\ pc \in [Conns -> {"idle", "shaken", "served", "asked", "checked", "ran",
                       "published", "cutting", "setup", "opened", "carried", "bridged"}]
  /\ person \in [Conns -> Names \cup {None}]
  /\ key \in [Conns -> Keys \cup {None}]
  /\ tracked \subseteq Conns /\ closed \subseteq Conns
  /\ mode \in [Commands -> {"read", "write"}]
  /\ gate \subseteq Commands
  /\ gone \in [Commands -> SUBSET Names]
  /\ cutting \in [Commands -> SUBSET Conns]
  /\ live \subseteq Sessions /\ carries \subseteq Sessions
  /\ \A k \in Keys : owner[k] \in people \cup {None}

\* Nothing changes the record but a command of an administrator whose key is
\* still theirs at the moment of the write: no revocation lands between a
\* command's key check and what it does (keyGate in key_conns.go).
OnlyKeyHoldersWrite ==
  [][record' # record =>
       \E c \in Commands : pc[c] = "checked" /\ keyHeld(c) /\ person[c] \in admins]_vars

\* A session never runs on with a key that was taken: the command that took it
\* is still at work and has yet to cut it, or its transport is closed already
\* (cutRemovedKeys, and the second look serveHumanSession takes).
TakenKeyIsBeingCut ==
  \A s \in live : pc[s] = "bridged" /\ ~keyHeld(s) =>
    \/ s \in closed
    \/ \E c \in gate : pc[c] \in {"ran", "published"} \/ s \in cutting[c]

\* A session whose key was taken ends, unless the key is given back first
\* (key_conns.go, the head comment).
TakenKeyEnds ==
  \A s \in Sessions : (s \in live /\ ~keyHeld(s)) ~> (s \notin live \/ keyHeld(s))

\* Somebody can always sign in and administer: the gateway keeps the last
\* administrator key (cmdPeopleKeysRemove) and the last administrator
\* (cmdPeopleRemove).
SomebodyCanAdminister == adminKeysInState # {}

=============================================================================
