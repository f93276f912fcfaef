---------------------------- MODULE Identities ----------------------------
(***************************************************************************)
(* How people and machines come into the gateway's record and leave it:    *)
(* the administration commands on people, machines, grants and goals       *)
(* (internal/gateway/admin_role.go, state/model.go, state/validate.go),    *)
(* machine invitations (enrol_role.go), pairing windows (pairing_role.go), *)
(* the bootstrap token (bootstrap_role.go) and the logins these and the    *)
(* machines need (gateway.go, lookup.go, machine_role.go); and what a      *)
(* command leaves under the names it ran with: the history written when    *)
(* its session has drained (human_role.go, recent_commands.go) and the     *)
(* approval it was held for (risk_approval.go).                            *)
(*                                                                         *)
(* Every change of the record is one store update made under               *)
(* accessPublishMu (StateStore has what an update is made of, Access what  *)
(* it means for sessions, KeyGate who may run a command), so it is one     *)
(* step; a login and the command that follows it are two.  Secrets are     *)
(* numbers: an invitation, a pairing window or a bootstrap token has one   *)
(* of its own.  Each person and each machine has a birth number, which the *)
(* record does not keep: it tells a name from the name reused.             *)
(***************************************************************************)
EXTENDS Naturals, FiniteSets

CONSTANTS
  Persons, Machines, \* names of people, ids and names of machines
  Keys, NoKey,       \* public keys
  Logins, NoLogin,   \* SSH connections of machines and of people on their way in
  MissLimit,         \* PairingWindowMissLimit
  MaxTime, MaxBirths, MaxSecrets,
  MaxExecs           \* bounds the commands that are run, a held one and its repetition together

Secrets == 1..MaxSecrets
Births == 0..MaxBirths

ASSUME IdentitiesAssumption ==
  /\ NoKey \notin Keys /\ NoLogin \notin Logins
  /\ {MissLimit, MaxSecrets} \subseteq Nat \ {0} /\ {MaxTime, MaxBirths, MaxExecs} \subseteq Nat

VARIABLES
  people,    \* State.People: role, keys; role "none" where there is no such person
  machines,  \* State.Machines by id: key, name; NoKey where there is none
  refs,      \* State.Grants, Goals, CommandHistory: what names both
  invites,   \* State.PendingEnrolments: the name each secret is for, its deadline
  window,    \* State.PairingPending; secret 0 is none
  boot,      \* State.BootstrapPending; secret 0 is none
  login,     \* the connections
  online,    \* registry.byID
  removing,  \* machines.remove has committed and not yet torn down
  execs,     \* commands forwarded whose session has not drained: names and births
  approvals, \* riskApprovals, by names: the births of who was held, the deadline
  now,
  births, issued,  \* birth numbers and secrets given
  bought,    \* <<secret, birth>>: what a secret was redeemed for
  missed,    \* wrong PINs of logins that each window let in
  hadAdmin,  \* there was an administrator once
  ran        \* commands run

record == <<people, machines, refs>>
pending == <<invites, window, boot>>
ssh == <<login, online, removing>>
ghost == <<births, issued, bought, missed, hadAdmin>>
sessions == <<execs, approvals, ran>>
vars == <<record, pending, ssh, sessions, now, ghost>>

Nobody == [role |-> "none", keys |-> {}, born |-> 0]
NoMachine(m) == [key |-> NoKey, name |-> m, born |-> 0]
NoSecret == [secret |-> 0, till |-> 0, misses |-> 0]
Closed == [role |-> "closed", id |-> 0, key |-> NoKey]

Present == {p \in Persons : people[p].role # "none"}
Enrolled == {m \in Machines : machines[m].key # NoKey}
Ref == [kind : {"grant", "goal", "history"}, person : Persons, machine : Machines,
        pin : Keys, pb : Births, mb : Births, late : BOOLEAN]
Exec == [person : Persons, machine : Machines, pb : Births, mb : Births]
Approval == [person : Persons, machine : Machines, pb : Births, mb : Births,
             till : 0..MaxTime + 1, approved : BOOLEAN]

Init ==
  /\ people = [p \in Persons |-> Nobody]
  /\ machines = [m \in Machines |-> NoMachine(m)]
  /\ refs = {} /\ invites = {} /\ window = NoSecret
  /\ boot = [secret |-> 1, till |-> 1, misses |-> 0]
  /\ login = [l \in Logins |-> Closed]
  /\ online = [m \in Machines |-> NoLogin] /\ removing = {}
  /\ execs = {} /\ approvals = {} /\ ran = 0
  /\ now = 0 /\ births = 0 /\ issued = 1
  /\ bought = {} /\ missed = [s \in Secrets |-> 0] /\ hadAdmin = FALSE

-----------------------------------------------------------------------------
(* A store update: the draft is reconciled, and refused if it is not valid. *)

hasAnyAdmin(pp) == \E p \in Persons : pp[p].role = "admin"

\* reconcileGrants, reconcileGoals, reconcileRecentCommands.
reconcile(pp, mm, rr) ==
  {r \in rr : /\ pp[r.person].role # "none" /\ mm[r.machine].key # NoKey
              /\ r.kind = "grant" => r.pin = mm[r.machine].key}

\* A key has one owner, a machine's name is no other's name or id, and what a
\* reference names is there, a grant and a goal once (a history has entries).
validate(pp, mm, rr) ==
  /\ \A p, q \in Persons : p # q => pp[p].keys \cap pp[q].keys = {}
  /\ \A p \in Persons, m \in Machines : mm[m].key \notin pp[p].keys
  /\ \A m, n \in Machines : m # n /\ mm[m].key # NoKey /\ mm[n].key # NoKey =>
        mm[m].key # mm[n].key /\ mm[m].name \notin {mm[n].name, n}
  /\ \A r \in rr : /\ pp[r.person].role # "none" /\ mm[r.machine].key # NoKey
                   /\ r.kind = "grant" => r.pin = mm[r.machine].key
                   /\ r.kind # "history" => \A q \in rr : <<q.kind, q.person, q.machine>> = <<r.kind, r.person, r.machine>> => q = r

\* Mutant: the draft is committed as it is.
commitDraft(pp, mm, rr) ==
  people' = pp /\ machines' = mm /\ refs' = rr /\ hadAdmin' = (hadAdmin \/ hasAnyAdmin(pp))

\* commitLocked; a draft that is refused changes nothing, in the rest of the
\* record either, which is why the callers' other changes are guarded by it.
commitLocked(pp, mm, rr) ==
  /\ validate(pp, mm, reconcile(pp, mm, rr))
  /\ people' = pp /\ machines' = mm /\ refs' = reconcile(pp, mm, rr)
  /\ hadAdmin' = (hadAdmin \/ hasAnyAdmin(pp))

\* accessPublishMu is free.
Update == removing = {}

\* An administrator with a key runs a command.
Command == Update /\ \E p \in Persons : people[p].role = "admin" /\ people[p].keys # {}

Born == births < MaxBirths /\ births' = births + 1
Issued == issued < MaxSecrets /\ issued' = issued + 1
Buys(s) == bought' = bought \cup {<<s, births + 1>>}

-----------------------------------------------------------------------------
(* Commands on people. *)

\* Mutant: a name that is taken is overwritten.
peopleUpsert(p, role, k) ==
  /\ Command /\ people[p].role \in {"none", role} /\ Born
  /\ commitLocked([people EXCEPT ![p] = [role |-> role, keys |-> {k}, born |-> births + 1]],
                  machines, refs)
  /\ UNCHANGED <<pending, ssh, sessions, now, issued, bought, missed>>

cmdPeopleAdd(p, role, k) ==
  /\ Command /\ people[p].role = "none" /\ Born
  /\ commitLocked([people EXCEPT ![p] = [role |-> role, keys |-> {k}, born |-> births + 1]],
                  machines, refs)
  /\ UNCHANGED <<pending, ssh, sessions, now, issued, bought, missed>>

\* Mutant: the victim is not counted among the administrators.
removeLastAdmin(p) ==
  /\ Command /\ people[p].role # "none"
  /\ commitLocked([people EXCEPT ![p] = Nobody], machines, refs)
  /\ UNCHANGED <<pending, ssh, sessions, now, births, issued, bought, missed>>

cmdPeopleRemove(p) ==
  /\ Command /\ people[p].role # "none"
  /\ people[p].role = "admin" => \E q \in Persons \ {p} : people[q].role = "admin"
  /\ commitLocked([people EXCEPT ![p] = Nobody], machines, refs)
  /\ UNCHANGED <<pending, ssh, sessions, now, births, issued, bought, missed>>

\* RenamePerson takes grants and goals along; the command history stays behind
\* and is reconciled away.
cmdPeopleRename(p, q) ==
  /\ Command /\ people[p].role # "none" /\ people[q].role = "none"
  /\ commitLocked([people EXCEPT ![q] = people[p], ![p] = Nobody], machines,
        {IF r.person = p /\ r.kind # "history" THEN [r EXCEPT !.person = q] ELSE r : r \in refs})
  /\ UNCHANGED <<pending, ssh, sessions, now, births, issued, bought, missed>>

cmdPeopleKeysAdd(p, k) ==
  /\ Command /\ people[p].role # "none" /\ k \notin people[p].keys
  /\ commitLocked([people EXCEPT ![p].keys = @ \cup {k}], machines, refs)
  /\ UNCHANGED <<pending, ssh, sessions, now, births, issued, bought, missed>>

cmdPeopleKeysRemove(p, k) ==
  /\ Command /\ k \in people[p].keys
  /\ people[p].role = "admin" => \E q \in Persons, j \in Keys :
        people[q].role = "admin" /\ j \in people[q].keys /\ <<q, j>> # <<p, k>>
  /\ commitLocked([people EXCEPT ![p].keys = @ \ {k}], machines, refs)
  /\ UNCHANGED <<pending, ssh, sessions, now, births, issued, bought, missed>>

-----------------------------------------------------------------------------
(* What names a person and a machine. *)

\* grants.grant and goal.set, which keep one record for the pair.
Refer(kind, p, m) ==
  /\ Command /\ kind # "history" /\ p \in Present /\ m \in Enrolled
  /\ \A r \in refs : ~(r.kind = kind /\ r.person = p /\ r.machine = m)
  /\ commitLocked(people, machines,
        refs \cup {[kind |-> kind, person |-> p, machine |-> m, pin |-> machines[m].key,
                    pb |-> people[p].born, mb |-> machines[m].born, late |-> FALSE]})
  /\ UNCHANGED <<pending, ssh, sessions, now, births, issued, bought, missed>>

cmdGrantsRevoke(r) ==
  /\ Command /\ r.kind = "grant" /\ commitLocked(people, machines, refs \ {r})
  /\ UNCHANGED <<pending, ssh, sessions, now, births, issued, bought, missed>>

-----------------------------------------------------------------------------
(* What a person's commands leave under the two names.  A session keeps the *)
(* names it began with, whatever becomes of them, and waits for no lock of  *)
(* the administration.                                                      *)

Granted(p, m) ==
  people[p].keys # {} /\ \E r \in refs : r.kind = "grant" /\ r.person = p /\ r.machine = m
New == ran < MaxExecs /\ ran' = ran + 1
Named(p, m) == {a \in approvals : a.person = p /\ a.machine = m /\ now < a.till}
Expired == {a \in approvals : a.till <= now}

\* The exec is held, and the same one held before is held on: its deadline moves.
createRiskApproval(p, m) ==
  LET waiting == {a \in Named(p, m) : ~a.approved}
  IN  /\ Granted(p, m)
      /\ \/ /\ waiting = {} /\ New
            /\ approvals' = (approvals \ Expired) \cup
                 {[person |-> p, machine |-> m, pb |-> people[p].born, mb |-> machines[m].born,
                   till |-> now + 1, approved |-> FALSE]}
         \/ /\ waiting # {} /\ UNCHANGED ran
            /\ approvals' = ((approvals \ Expired) \ waiting) \cup {[a EXCEPT !.till = now + 1] : a \in waiting}
      /\ UNCHANGED <<record, pending, ssh, execs, now, ghost>>

\* By the person it is for, whoever has the name now.
approveRiskApproval(a) ==
  /\ a.person \in Present
  /\ approvals' = (approvals \ {a}) \cup
       IF now < a.till THEN {[a EXCEPT !.approved = TRUE]} ELSE {}
  /\ UNCHANGED <<record, pending, ssh, execs, ran, now, ghost>>

\* The exec is forwarded, a new one that needs no approval or the one that was held.
forward(p, m) ==
  /\ Granted(p, m)
  /\ execs' = execs \cup {[person |-> p, machine |-> m, pb |-> people[p].born, mb |-> machines[m].born]}
  /\ \/ New /\ UNCHANGED approvals
     \/ \E a \in Named(p, m) :  \* consumeRiskApproval
          a.approved /\ approvals' = (approvals \ Expired) \ {a} /\ UNCHANGED ran
  /\ UNCHANGED <<record, pending, ssh, now, ghost>>

\* Its session has drained: RecordCommand asks that there are such names, not
\* whose they are.
recordRecentCommand(e) ==
  /\ execs' = execs \ {e}
  /\ IF people[e.person].role # "none" /\ machines[e.machine].key # NoKey
       THEN commitLocked(people, machines,
              refs \cup {[kind |-> "history", person |-> e.person, machine |-> e.machine,
                          pin |-> machines[e.machine].key, pb |-> e.pb, mb |-> e.mb,
                          late |-> <<e.pb, e.mb>> # <<people[e.person].born, machines[e.machine].born>>]})
       ELSE UNCHANGED <<record, hadAdmin>>
  /\ UNCHANGED <<pending, ssh, approvals, ran, now, births, issued, bought, missed>>

-----------------------------------------------------------------------------
(* Commands on machines. *)

\* An invitation needs a name no machine and no live invitation has; one that
\* has expired stays in the record.
cmdMachinesEnrolCode(m) ==
  /\ Command /\ Issued
  /\ \A n \in Enrolled : m # n /\ m # machines[n].name
  /\ \A i \in invites : i.name = m => i.till <= now
  /\ invites' = invites \cup {[name |-> m, secret |-> issued + 1, till |-> now + 1]}
  /\ UNCHANGED <<record, window, boot, ssh, sessions, now, births, bought, missed, hadAdmin>>

cmdMachinesRename(m, name) ==
  /\ Command /\ m \in Enrolled
  /\ \A n \in Enrolled \ {m} : name \notin {n, machines[n].name}
  /\ commitLocked(people, [machines EXCEPT ![m].name = name], refs)
  /\ UNCHANGED <<pending, ssh, sessions, now, births, issued, bought, missed>>

\* The record first ...
cmdMachinesRemove(m) ==
  /\ Command /\ m \in Enrolled
  /\ commitLocked(people, [machines EXCEPT ![m] = NoMachine(m)], refs)
  /\ removing' = {m}
  /\ UNCHANGED <<pending, login, online, sessions, now, births, issued, bought, missed>>

\* ... then the connection the registry has, if it has one.
tearDownRemoved(m) ==
  /\ m \in removing /\ removing' = {}
  /\ login' = [l \in Logins |-> IF online[m] = l THEN Closed ELSE login[l]]
  /\ online' = [online EXCEPT ![m] = NoLogin]
  /\ UNCHANGED <<record, pending, sessions, now, ghost>>

-----------------------------------------------------------------------------
(* Logins.  Who a key belongs to is read when the key is offered. *)

Opens(l, as) == login[l] = Closed /\ login' = [login EXCEPT ![l] = as]

\* lookup.go Resolve: a machine's key.
loginMachine(l, m) ==
  /\ m \in Enrolled /\ Opens(l, [role |-> "machine", id |-> m, key |-> machines[m].key])
  /\ UNCHANGED <<record, pending, online, removing, sessions, now, ghost>>

\* registerIfVacant.
handleMachine(l) ==
  /\ login[l].role = "machine" /\ \A m \in Machines : online[m] # l
  /\ IF online[login[l].id] = NoLogin
       THEN online' = [online EXCEPT ![login[l].id] = l] /\ UNCHANGED login
       ELSE login' = [login EXCEPT ![l] = Closed] /\ UNCHANGED online
  /\ UNCHANGED <<record, pending, removing, sessions, now, ghost>>

\* The key derived from an invitation's secret, expired or not; that of the
\* bootstrap token; any key at all for a pairing window that is open, and the
\* login is bound to it.
loginEnrol(l, i) ==
  /\ Opens(l, [role |-> "enrol", id |-> i.secret, key |-> NoKey])
  /\ UNCHANGED <<record, pending, online, removing, sessions, now, ghost>>

loginBootstrap(l) ==
  /\ boot.secret # 0 /\ Opens(l, [role |-> "bootstrap", id |-> boot.secret, key |-> NoKey])
  /\ UNCHANGED <<record, pending, online, removing, sessions, now, ghost>>

pairingKeyCallback(l) ==
  /\ window.secret # 0 /\ now < window.till
  /\ Opens(l, [role |-> "pairing", id |-> window.secret, key |-> NoKey])
  /\ UNCHANGED <<record, pending, online, removing, sessions, now, ghost>>

disconnect(l) ==
  /\ login[l] # Closed /\ login' = [login EXCEPT ![l] = Closed]
  /\ online' = [m \in Machines |-> IF online[m] = l THEN NoLogin ELSE online[m]]
  /\ UNCHANGED <<record, pending, removing, sessions, now, ghost>>

\* A role login serves one command.
Served(l) == login' = [login EXCEPT ![l] = Closed] /\ UNCHANGED <<online, removing>>

-----------------------------------------------------------------------------
(* Redeeming. *)

\* Mutant: the invitation stays.
removeNothing(s) == invites

removePendingByHash(s) == {i \in invites : i.secret # s}

\* runEnrol with the secret of invitation i and a machine key; without a live
\* invitation, or with a name or a key that is taken, it is refused.
runEnrol(l, i, k) ==
  /\ Update /\ login[l].role = "enrol"
  /\ \/ /\ i.till > now /\ \A n \in Enrolled : i.name # n /\ i.name # machines[n].name
        /\ Born /\ Buys(i.secret)
        /\ commitLocked(people, [machines EXCEPT ![i.name] =
                          [key |-> k, name |-> i.name, born |-> births + 1]], refs)
        /\ invites' = removePendingByHash(i.secret)
     \/ UNCHANGED <<record, invites, births, bought, hadAdmin>>
  /\ Served(l) /\ UNCHANGED <<window, boot, sessions, now, issued, missed>>

\* pairing.start of an administrator, or "gateway pair" on the host: it takes
\* the place of a window that is open.
cmdAdminPairingStart ==
  /\ Update /\ Issued
  /\ window' = [secret |-> issued + 1, till |-> now + 1, misses |-> 0]
  /\ UNCHANGED <<record, invites, boot, ssh, sessions, now, births, bought, missed, hadAdmin>>

cmdAdminPairingStop ==
  /\ Command /\ window' = NoSecret
  /\ UNCHANGED <<record, invites, boot, ssh, sessions, now, ghost>>

\* Mutant: a login may use the window that took the place of its own.
bindingIgnored(l) == FALSE

pairingBindingStale(l) == login[l].id # window.secret

\* Mutant: the window is burned one miss late.
burnLate ==
  window' = IF window.misses >= MissLimit THEN NoSecret
            ELSE [window EXCEPT !.misses = @ + 1]

\* pairingWindowMissLocked, and the window that is burned.
pairingWindowMiss ==
  window' = IF window.misses + 1 >= MissLimit THEN NoSecret
            ELSE [window EXCEPT !.misses = @ + 1]

\* runPairing: a wrong or malformed PIN, the right one, or a refusal.
runPairing(l, k, p) ==
  /\ Update /\ login[l].role = "pairing"
  /\ \/ /\ window.secret # 0 /\ now < window.till /\ ~pairingBindingStale(l)
        /\ \/ /\ pairingWindowMiss
              /\ missed' = [missed EXCEPT ![login[l].id] = @ + 1]
              /\ UNCHANGED <<record, births, bought, hadAdmin>>
           \/ /\ people[p].role = "none" /\ Born /\ Buys(window.secret)
              /\ commitLocked([people EXCEPT ![p] = [role |-> "admin", keys |-> {k}, born |-> births + 1]],
                              machines, refs)
              /\ window' = NoSecret /\ UNCHANGED missed
     \/ UNCHANGED <<record, window, births, bought, missed, hadAdmin>>
  /\ Served(l) /\ UNCHANGED <<invites, boot, sessions, now, issued>>

\* Mutant: that there is no administrator is not asked again.
runBootstrapAnyway(l, k, p) ==
  /\ Update /\ login[l].role = "bootstrap"
  /\ \/ /\ boot.secret = login[l].id /\ now < boot.till
        /\ people[p].role = "none" /\ Born /\ Buys(boot.secret)
        /\ commitLocked([people EXCEPT ![p] = [role |-> "admin", keys |-> {k}, born |-> births + 1]],
                        machines, refs)
        /\ boot' = NoSecret
     \/ UNCHANGED <<record, boot, births, bought, hadAdmin>>
  /\ Served(l) /\ UNCHANGED <<invites, window, sessions, now, issued, missed>>

runBootstrap(l, k, p) ==
  /\ Update /\ login[l].role = "bootstrap"
  /\ \/ /\ ~hasAnyAdmin(people)
        /\ boot.secret # 0 /\ now < boot.till /\ boot.secret = login[l].id
        /\ people[p].role = "none" /\ Born /\ Buys(boot.secret)
        /\ commitLocked([people EXCEPT ![p] = [role |-> "admin", keys |-> {k}, born |-> births + 1]],
                        machines, refs)
        /\ boot' = NoSecret
     \/ UNCHANGED <<record, boot, births, bought, hadAdmin>>
  /\ Served(l) /\ UNCHANGED <<invites, window, sessions, now, issued, missed>>

\* "gateway install --rebootstrap", with the gateway stopped.
rebootstrap ==
  /\ ~hasAnyAdmin(people) /\ Issued /\ removing = {}
  /\ boot' = [secret |-> issued + 1, till |-> now + 1, misses |-> 0]
  /\ login' = [l \in Logins |-> Closed] /\ online' = [m \in Machines |-> NoLogin]
  /\ execs' = {} /\ approvals' = {}
  /\ UNCHANGED <<record, invites, window, removing, ran, now, births, bought, missed, hadAdmin>>

Tick == now < MaxTime /\ now' = now + 1 /\ UNCHANGED <<record, pending, ssh, sessions, ghost>>

Next ==
  \/ Tick \/ rebootstrap \/ cmdAdminPairingStart \/ cmdAdminPairingStop
  \/ \E p \in Persons, k \in Keys :
       \/ \E role \in {"user", "admin"} : cmdPeopleAdd(p, role, k)
       \/ cmdPeopleKeysAdd(p, k) \/ cmdPeopleKeysRemove(p, k)
  \/ \E p \in Persons : cmdPeopleRemove(p) \/ \E q \in Persons : cmdPeopleRename(p, q)
  \/ \E p \in Persons, m \in Machines, kind \in {"grant", "goal"} : Refer(kind, p, m)
  \/ \E p \in Persons, m \in Machines : createRiskApproval(p, m) \/ forward(p, m)
  \/ \E a \in approvals : approveRiskApproval(a)
  \/ \E e \in execs : recordRecentCommand(e)
  \/ \E r \in refs : cmdGrantsRevoke(r)
  \/ \E m \in Machines : \/ cmdMachinesEnrolCode(m) \/ cmdMachinesRemove(m) \/ tearDownRemoved(m)
                         \/ \E name \in Machines : cmdMachinesRename(m, name)
  \/ \E l \in Logins :
       \/ handleMachine(l) \/ loginBootstrap(l) \/ pairingKeyCallback(l) \/ disconnect(l)
       \/ \E m \in Machines : loginMachine(l, m)
       \/ \E i \in invites : loginEnrol(l, i) \/ \E k \in Keys : runEnrol(l, i, k)
       \/ \E k \in Keys, p \in Persons : runPairing(l, k, p) \/ runBootstrap(l, k, p)

Spec == Init /\ [][Next]_vars

-----------------------------------------------------------------------------
(* What the record promises. *)

\* One owner for each key, known roles, references that lead somewhere.
TypeOK ==
  /\ people \in [Persons -> [role : {"none", "user", "admin"}, keys : SUBSET Keys, born : Births]]
  /\ machines \in [Machines -> [key : Keys \cup {NoKey}, name : Machines, born : Births]]
  /\ refs \subseteq Ref /\ validate(people, machines, refs)
  /\ execs \subseteq Exec /\ approvals \subseteq Approval /\ ran \in 0..MaxExecs
  /\ invites \subseteq [name : Machines, secret : Secrets, till : 0..MaxTime + 1]
  /\ window.secret \in 0..MaxSecrets /\ boot.secret \in 0..MaxSecrets
  /\ \A m \in Machines : online[m] \in Logins \cup {NoLogin} /\
        (online[m] # NoLogin => login[online[m]].role = "machine" /\ login[online[m]].id = m)
  /\ removing \subseteq Machines /\ now \in 0..MaxTime
  /\ births \in Births /\ issued \in 0..MaxSecrets
  /\ bought \subseteq Secrets \X Births /\ missed \in [Secrets -> Nat] /\ hadAdmin \in BOOLEAN

\* A grant or a goal made for one person on one machine, and a history that was
\* written while they were those, is never met by another of the same name:
\* removal takes it away before the name can come back (model.go
\* reconcileGrants, reconcileGoals, reconcileRecentCommands), and a rename takes
\* a grant and a goal along.  What a session writes late, after its own name was
\* given again, is the exception: HistoryIsItsOwn.
NothingInherited ==
  \A r \in refs : ~r.late => people[r.person].born = r.pb /\ machines[r.machine].born = r.mb

\* Not so: a session that drains after its person's name was given again writes
\* its command into the newcomer's history (recent_commands.go
\* recordRecentCommand goes by the name alone).
HistoryIsItsOwn == \A r \in refs : ~r.late

\* Not so either: what a person was held for, approved or not, stays under the
\* name for its time (risk_approval.go), and who has the name next may use it.
ApprovalsAreItsOwn ==
  \A a \in approvals : a.approved /\ now < a.till /\ a.person \in Present => people[a.person].born = a.pb

\* An invitation, a PIN and a bootstrap token make one identity each, however
\* many logins they let in (enrol_role.go, pairing_role.go, bootstrap_role.go).
SecretBuysOne == \A a, b \in bought : a[1] = b[1] => a = b

\* No more than PairingWindowMissLimit wrong PINs are ever tried on a window.
GuessesBounded == \A s \in Secrets : missed[s] <= MissLimit

\* A window's misses are those of the logins it let in: a login of an earlier
\* window cannot spend the next one (pairing_role.go pairingBindingStale).
MissesAreItsOwn == window.secret # 0 => window.misses = missed[window.secret]

\* A secret is spent by its own logins: it makes one identity, and a window
\* burns after its limit of wrong PINs, neither later, over several
\* connections, nor sooner, through logins of the window before it.
SecretsAreSpent == SecretBuysOne /\ GuessesBounded /\ MissesAreItsOwn

\* The bootstrap token makes nobody an administrator once there has been one,
\* whatever came between its login and its redemption.
BootstrapIsFirst ==
  \A l \in Logins : login[l].role = "bootstrap" /\ bought' # bought /\ login'[l] # login[l] => ~hadAdmin

\* Once there is an administrator there always is one (admin_role.go
\* cmdPeopleRemove), and bootstrap comes first or not at all.
AdministratorIsKept == [][BootstrapIsFirst /\ (hadAdmin' => hasAnyAdmin(people'))]_vars

\* docs/THREATS.md: removing a machine closes its tunnel and keeps its key out.
RemovedMachineIsGone ==
  \A m \in Machines : online[m] # NoLogin /\ removing = {} => login[online[m]].key = machines[m].key
=============================================================================
