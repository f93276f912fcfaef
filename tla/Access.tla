------------------------------- MODULE Access -------------------------------
(***************************************************************************)
(* Who may be on which machine.  The grants on record (the state store)    *)
(* are mirrored in the access engine (internal/gateway/acl/acl.go), which  *)
(* admits sessions and ends them; the commands of admin_role.go change the *)
(* record first and the engine after it, under accessPublishMu.            *)
(*                                                                         *)
(* A command is its store write, in one step, and what it then owes the    *)
(* engine: pairs to revoke, pairs to add, sessions to kill.  The mutex is  *)
(* free when nothing is owed.  Sessions, the expiry sweep and restarts do  *)
(* not take it.                                                            *)
(*                                                                         *)
(* A command reads the clock before it waits for the mutex, so its `now'   *)
(* may lie behind.  Whether a machine is online and the limits on sessions *)
(* can only make the engine refuse, which a session meets in deny.         *)
(***************************************************************************)
EXTENDS Naturals

CONSTANTS
  People, Machines, Sessions,
  Users, NoUser,    \* accounts of the machines
  MaxTime           \* the clock stops here

ASSUME AccessTime == MaxTime \in Nat
ASSUME AccessNoUser == NoUser \notin Users

VARIABLES
  clock,
  people, machines,      \* on record
  requested, verified,   \* per machine: the account asked for, the one probed
  grants,                \* on record: the deadline and capability of each pair
  eGrants,               \* the engine's grants
  toRevoke, toAdd,       \* what the command inside the mutex owes the engine
  toKill,
  pc, pair, user, shell, \* per session: where it stands, and what it is
  live                   \* sessions the engine has registered

record == <<people, machines, requested, verified, grants>>
owed == <<toRevoke, toAdd, toKill>>
sessions == <<pc, pair, user, shell, live>>
vars == <<clock, record, eGrants, owed, sessions>>

Never == MaxTime + 1
Pairs == People \X Machines
Deadlines == 1..Never
Caps == {"shell", "exec"}
NoGrant == [until |-> 0, caps |-> "exec", revoked |-> FALSE]
Grant(until, caps) == [until |-> until, caps |-> caps, revoked |-> FALSE]
Granted == [until : Deadlines, caps : Caps, revoked : {FALSE}] \cup {NoGrant}

Unlocked == toRevoke = {} /\ toAdd = {} /\ toKill = {}
Held(p) == grants[p] # NoGrant
LiveOf(n) == {s \in live : pair[s][1] = n}
InForce(g) == ~g.revoked /\ g.until > clock

-----------------------------------------------------------------------------
(* What the operations of the store leave of the grants. *)

GrantAccess(p, until, caps) == [grants EXCEPT ![p] = Grant(until, caps)]
RevokeAccess(p) == [grants EXCEPT ![p] = NoGrant]
SetGrantCaps(p, caps) == [grants EXCEPT ![p].caps = caps]
SetGrantUntil(p, until) == [grants EXCEPT ![p].until = until]

RenamePerson(n, to) ==
  [p \in Pairs |-> IF p[1] = n THEN NoGrant
                   ELSE IF p[1] = to THEN grants[<<n, p[2]>>] ELSE grants[p]]

\* A grant goes with its person and with its machine.
reconcileGrants(ppl, ms) ==
  [p \in Pairs |-> IF p[1] \in ppl /\ p[2] \in ms THEN grants[p] ELSE NoGrant]

\* What reconcileGrants has withdrawn, applyRevocations hands to the engine.
Withdrawn == {p \in Pairs : Held(p) /\ grants'[p] = NoGrant}

-----------------------------------------------------------------------------
(* The commands.  Each is refused, and changes nothing, when its guard fails. *)

cmdPeopleAdd(n) ==
  /\ Unlocked /\ n \notin people
  /\ people' = people \cup {n}
  /\ UNCHANGED <<clock, machines, requested, verified, grants, eGrants, owed, sessions>>

\* Mutant: the person's grants stay on record.
cmdPeopleRemoveLeavesGrants(n) ==
  /\ Unlocked /\ n \in people
  /\ people' = people \ {n}
  /\ UNCHANGED <<clock, machines, requested, verified, grants, eGrants, owed, sessions>>

\* The sessions end with their keys as well as with their grants: the cut comes after the mutex and before the next command
\* (KeyGate), and enrolments and probes wait for it here.
cmdPeopleRemove(n) ==
  /\ Unlocked /\ n \in people
  /\ people' = people \ {n}
  /\ grants' = reconcileGrants(people', machines)
  /\ toRevoke' = Withdrawn
  /\ toKill' = LiveOf(n)
  /\ UNCHANGED <<clock, machines, requested, verified, eGrants, toAdd, sessions>>

\* Mutant: the grants are not activated under the new name.
cmdPeopleRenameForgets(n, to, now) ==
  /\ Unlocked /\ n \in people /\ to \in People \ people
  /\ people' = (people \ {n}) \cup {to}
  /\ grants' = RenamePerson(n, to)
  /\ toRevoke' = {p \in Pairs : p[1] = n /\ grants[p].until > now}
  /\ toKill' = LiveOf(n)
  /\ UNCHANGED <<clock, machines, requested, verified, eGrants, toAdd, sessions>>

\* Every grant moves on record; those that had expired by `now' are not
\* revoked under the old name nor activated under the new one.
cmdPeopleRename(n, to, now) ==
  /\ Unlocked /\ n \in people /\ to \in People \ people
  /\ people' = (people \ {n}) \cup {to}
  /\ grants' = RenamePerson(n, to)
  /\ LET moved == {m \in Machines : grants[<<n, m>>].until > now}
     IN toRevoke' = {n} \X moved /\ toAdd' = {to} \X moved
  /\ toKill' = LiveOf(n)
  /\ UNCHANGED <<clock, machines, requested, verified, eGrants, sessions>>

\* A machine that enrols is not verified yet.
enrol(m, u) ==
  /\ Unlocked /\ m \notin machines
  /\ machines' = machines \cup {m}
  /\ requested' = [requested EXCEPT ![m] = u]
  /\ UNCHANGED <<clock, people, verified, grants, eGrants, owed, sessions>>

cmdMachinesRemove(m) ==
  /\ Unlocked /\ m \in machines
  /\ machines' = machines \ {m}
  /\ requested' = [requested EXCEPT ![m] = NoUser]
  /\ verified' = [verified EXCEPT ![m] = NoUser]
  /\ grants' = reconcileGrants(people, machines')
  /\ toRevoke' = Withdrawn
  /\ UNCHANGED <<clock, people, eGrants, toAdd, toKill, sessions>>

\* The machine is unverified until a probe has logged in to the new account;
\* its sessions are killed one by one.
cmdMachinesSetUser(m, u) ==
  /\ Unlocked /\ m \in machines
  /\ requested' = [requested EXCEPT ![m] = u]
  /\ verified' = [verified EXCEPT ![m] = NoUser]
  /\ toKill' = {s \in live : pair[s][2] = m}
  /\ UNCHANGED <<clock, people, machines, grants, eGrants, toRevoke, toAdd, sessions>>

\* A probe ends.  One that set out for another account changes nothing.
finishSSHDProbe(m) ==
  /\ Unlocked /\ m \in machines
  /\ \E u \in {requested[m], NoUser} : verified' = [verified EXCEPT ![m] = u]
  /\ UNCHANGED <<clock, people, machines, requested, grants, eGrants, owed, sessions>>

cmdGrantsGrant(p, until, caps, now) ==
  /\ Unlocked /\ p[1] \in people /\ p[2] \in machines /\ ~Held(p)
  /\ until > now
  /\ grants' = GrantAccess(p, until, caps)
  /\ toAdd' = {p}
  /\ UNCHANGED <<clock, people, machines, requested, verified, eGrants, toRevoke, toKill, sessions>>

cmdGrantsRevoke(p) ==
  /\ Unlocked /\ Held(p)
  /\ grants' = RevokeAccess(p)
  /\ toRevoke' = {p}
  /\ UNCHANGED <<clock, people, machines, requested, verified, eGrants, toAdd, toKill, sessions>>

\* Mutant: a narrowed grant leaves its sessions alone.
cmdGrantsSetCapsSparing(p, caps, now) ==
  /\ Unlocked /\ Held(p) /\ caps # grants[p].caps
  /\ grants' = SetGrantCaps(p, caps)
  /\ toAdd' = {q \in {p} : grants[q].until > now}
  /\ UNCHANGED <<clock, people, machines, requested, verified, eGrants, toRevoke, toKill, sessions>>

\* Narrowing takes the grant away and puts it back; AddGrant refuses a grant
\* that had expired by `now', and the command ends there.
cmdGrantsSetCaps(p, caps, now) ==
  /\ Unlocked /\ Held(p) /\ caps # grants[p].caps
  /\ grants' = SetGrantCaps(p, caps)
  /\ toRevoke' = IF caps = "exec" THEN {p} ELSE {}
  /\ toAdd' = {q \in {p} : grants[q].until > now}
  /\ UNCHANGED <<clock, people, machines, requested, verified, eGrants, toKill, sessions>>

\* A deadline brought forward ends the sessions that were counting on it.
cmdGrantsExtend(p, until, now) ==
  /\ Unlocked /\ Held(p) /\ until > now
  /\ ~(until = Never /\ grants[p].until = Never)
  /\ grants' = SetGrantUntil(p, until)
  /\ toRevoke' = IF until < grants[p].until THEN {p} ELSE {}
  /\ toAdd' = {p}
  /\ UNCHANGED <<clock, people, machines, requested, verified, eGrants, toKill, sessions>>

-----------------------------------------------------------------------------
(* The engine.  Each call runs under its one mutex. *)

\* Revoking marks the grant and ends its sessions in the same step.
RevokeBecause(p) ==
  /\ p \in toRevoke
  /\ toRevoke' = toRevoke \ {p}
  /\ IF eGrants[p] = NoGrant THEN UNCHANGED <<eGrants, live>>
     ELSE /\ eGrants' = [eGrants EXCEPT ![p].revoked = TRUE]
          /\ live' = {s \in live : pair[s] # p}
  /\ UNCHANGED <<clock, record, toAdd, toKill, pc, pair, user, shell>>

\* Adding replaces whatever the engine had for the pair, a revoked grant too.
AddGrant(p) ==
  /\ toRevoke = {} /\ p \in toAdd
  /\ toAdd' = toAdd \ {p}
  /\ eGrants' = [eGrants EXCEPT ![p] = grants[p]]
  /\ UNCHANGED <<clock, record, toRevoke, toKill, sessions>>

Kill(s) ==
  /\ toRevoke = {} /\ toAdd = {} /\ s \in toKill
  /\ toKill' = toKill \ {s}
  /\ live' = live \ {s}
  /\ UNCHANGED <<clock, record, eGrants, toRevoke, toAdd, pc, pair, user, shell>>

cmdSessionsKill(s) ==
  /\ s \in live
  /\ live' = live \ {s}
  /\ UNCHANGED <<clock, record, eGrants, owed, pc, pair, user, shell>>

\* Mutant: the sweep looks for revoked grants only.
SweepRevoked ==
  /\ live' = {s \in live : ~eGrants[pair[s]].revoked}
  /\ UNCHANGED <<clock, record, eGrants, owed, pc, pair, user, shell>>

\* Sessions whose grant is revoked or has run out; without a grant the sweep
\* passes a session over.
SweepExpired ==
  /\ live' = {s \in live : eGrants[pair[s]] = NoGrant \/ InForce(eGrants[pair[s]])}
  /\ UNCHANGED <<clock, record, eGrants, owed, pc, pair, user, shell>>

Admits(p) ==
  /\ p[1] \in people /\ p[2] \in machines
  /\ InForce(eGrants[p])
  /\ verified[p[2]] # NoUser

-----------------------------------------------------------------------------
(* A session (serveHumanSession): two looks at the engine with a login to the *)
(* machine between them.                                                      *)

Goes(s, from, to) == pc[s] = from /\ pc' = [pc EXCEPT ![s] = to]

Check(s, p) ==
  /\ Admits(p)
  /\ Goes(s, "out", "checked")
  /\ pair' = [pair EXCEPT ![s] = p]
  /\ UNCHANGED <<clock, record, eGrants, owed, user, shell, live>>

\* The account is read once, before the handshake with the machine's sshd.
handshake(s) ==
  /\ pair[s][2] \in machines /\ verified[pair[s][2]] # NoUser
  /\ Goes(s, "checked", "loggedIn")
  /\ user' = [user EXCEPT ![s] = verified[pair[s][2]]]
  /\ UNCHANGED <<clock, record, eGrants, owed, pair, shell, live>>

\* The whole check again, and the registration, in one step.
OpenSession(s) ==
  /\ Admits(pair[s])
  /\ Goes(s, "loggedIn", "inside")
  /\ live' = live \cup {s}
  /\ shell' = [shell EXCEPT ![s] = eGrants[pair[s]].caps = "shell"]
  /\ UNCHANGED <<clock, record, eGrants, owed, pair, user>>

\* The engine, the door or the machine refuses.
deny(s) ==
  /\ pc[s] \in {"checked", "loggedIn"} /\ Goes(s, pc[s], "out")
  /\ UNCHANGED <<clock, record, eGrants, owed, pair, user, shell, live>>

\* The person leaves, or the end of the session reaches its handler.
Close(s) ==
  /\ Goes(s, "inside", "out")
  /\ live' = live \ {s}
  /\ UNCHANGED <<clock, record, eGrants, owed, pair, user, shell>>

-----------------------------------------------------------------------------
Tick ==
  /\ clock < MaxTime /\ clock' = clock + 1
  /\ UNCHANGED <<record, eGrants, owed, sessions>>

Loaded(g) == IF g.until > clock THEN g ELSE NoGrant

\* The gateway dies, inside a command or not, and starts again: the grants on
\* record that have not expired are loaded into a new engine.
New ==
  /\ eGrants' = [p \in Pairs |-> Loaded(grants[p])]
  /\ toRevoke' = {} /\ toAdd' = {} /\ toKill' = {}
  /\ pc' = [s \in Sessions |-> "out"] /\ live' = {}
  /\ UNCHANGED <<clock, record, pair, user, shell>>

Init ==
  /\ clock = 0
  /\ people = {} /\ machines = {}
  /\ requested = [m \in Machines |-> NoUser] /\ verified = requested
  /\ grants = [p \in Pairs |-> NoGrant] /\ eGrants = grants
  /\ toRevoke = {} /\ toAdd = {} /\ toKill = {}
  /\ pc = [s \in Sessions |-> "out"]
  /\ pair \in [Sessions -> Pairs]
  /\ user = [s \in Sessions |-> NoUser]
  /\ shell = [s \in Sessions |-> FALSE]
  /\ live = {}

Command ==
  \/ \E n \in People :
       \/ cmdPeopleAdd(n) \/ cmdPeopleRemove(n)
       \/ \E to \in People, now \in 0..clock : cmdPeopleRename(n, to, now)
  \/ \E m \in Machines :
       \/ cmdMachinesRemove(m) \/ finishSSHDProbe(m)
       \/ \E u \in Users : enrol(m, u) \/ cmdMachinesSetUser(m, u)
  \/ \E p \in Pairs :
       \/ cmdGrantsRevoke(p)
       \/ \E now \in 0..clock :
            \/ \E caps \in Caps : cmdGrantsSetCaps(p, caps, now)
            \/ \E until \in Deadlines :
                 \/ cmdGrantsExtend(p, until, now)
                 \/ \E caps \in Caps : cmdGrantsGrant(p, until, caps, now)

Publish ==
  \/ \E p \in Pairs : RevokeBecause(p) \/ AddGrant(p)
  \/ \E s \in Sessions : Kill(s)

Session(s) ==
  \/ \E p \in Pairs : Check(s, p)
  \/ handshake(s) \/ OpenSession(s) \/ deny(s) \/ Close(s) \/ cmdSessionsKill(s)

Next ==
  \/ Command \/ Publish \/ SweepExpired \/ Tick \/ New
  \/ \E s \in Sessions : Session(s)

\* A command inside the mutex goes on, and the sweep keeps its timer.
Spec == Init /\ [][Next]_vars /\ WF_vars(Publish) /\ WF_vars(SweepExpired)

-----------------------------------------------------------------------------
\* Types, and no grant without its person and its machine on record
\* (reconcileGrants).
TypeOK ==
  /\ clock \in 0..MaxTime
  /\ people \subseteq People /\ machines \subseteq Machines
  /\ requested \in [Machines -> Users \cup {NoUser}]
  /\ verified \in [Machines -> Users \cup {NoUser}]
  /\ grants \in [Pairs -> Granted]
  /\ eGrants \in [Pairs -> [until : 0..Never, caps : Caps, revoked : BOOLEAN]]
  /\ toRevoke \subseteq Pairs /\ toAdd \subseteq Pairs /\ toKill \subseteq Sessions
  /\ pc \in [Sessions -> {"out", "checked", "loggedIn", "inside"}]
  /\ pair \in [Sessions -> Pairs]
  /\ user \in [Sessions -> Users \cup {NoUser}]
  /\ shell \in [Sessions -> BOOLEAN]
  /\ live \subseteq {s \in Sessions : pc[s] = "inside"}
  /\ \A p \in Pairs : Held(p) => p[1] \in people /\ p[2] \in machines

\* Whenever no command is inside the mutex, record and engine give the same
\* access, to the same deadline and with the same capability: no order of
\* commands, delays and crashes resurrects a grant or loses one
\* (accessPublishMu, New).
EngineAgrees ==
  Unlocked => \A p \in Pairs :
    InForce(grants[p]) \/ InForce(eGrants[p]) => eGrants[p] = grants[p]

\* A live session stands on a grant of its pair on record, and is a shell only
\* where the grant allows one, unless the command that took this away has yet
\* to end it (Revoke, grants.set-caps, people.rename, people.remove).
LiveSessionPermitted ==
  \A s \in live :
    \/ pair[s] \in toRevoke \/ s \in toKill
    \/ Held(pair[s]) /\ (shell[s] => grants[pair[s]].caps = "shell")

\* A session does not outlast its grant: once the deadline has passed, the
\* session ends or the deadline is moved (sweepExpired).
ExpiredEnds ==
  \A s \in Sessions :
    (s \in live /\ eGrants[pair[s]].until <= clock)
      ~> (s \notin live \/ eGrants[pair[s]].until > clock)

\* A session runs as the account the machine is verified for, or waits to be
\* killed (SPEC.md: "the gateway only ever logs in as `verifiedOsUser`").
OnlyVerifiedUser ==
  \A s \in live : s \in toKill \/ verified[pair[s][2]] \in {NoUser, user[s]}

=============================================================================
