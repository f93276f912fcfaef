-------------------------- MODULE IdentitiesProofs --------------------------
(***************************************************************************)
(* Nothing is inherited, a secret makes one identity, an administrator is  *)
(* kept: for any number of people, machines, keys, connections, secrets    *)
(* and re-used names.                                                      *)
(*                                                                         *)
(* The invariant has three parts that speak of different variables: the    *)
(* record, the secrets and the logins.  A step of the record is always a   *)
(* commit, so what a command owes is that its draft carries references     *)
(* only to those they were made for.                                       *)
(***************************************************************************)
EXTENDS Identities, TLAPS

Person == [role : {"none", "user", "admin"}, keys : SUBSET Keys, born : Births]
Machine == [key : Keys \cup {NoKey}, name : Machines, born : Births]
Window == [secret : 0..MaxSecrets, till : Nat, misses : Nat]
Login == [role : {"closed", "machine", "enrol", "bootstrap", "pairing"},
          id : Machines \cup (0..MaxSecrets), key : Keys \cup {NoKey}]

\* The record is valid, nothing in it is another's, and the administrator whom
\* there was is still one of those there are.
RecordOK ==
  /\ people \in [Persons -> Person] /\ machines \in [Machines -> Machine]
  /\ refs \subseteq Ref /\ validate(people, machines, refs)
  /\ hadAdmin \in BOOLEAN
RecordInv == RecordOK /\ NothingInherited /\ (hadAdmin => hasAnyAdmin(people))

\* A secret that can still be redeemed has been given, to one purpose, and has
\* bought nothing; a window that is open has misses left.
SecretsOK ==
  /\ invites \subseteq [name : Machines, secret : Secrets, till : 0..MaxTime + 1]
  /\ window \in Window /\ boot \in Window
  /\ issued \in 0..MaxSecrets
  /\ bought \subseteq Secrets \X Births /\ missed \in [Secrets -> Nat]
Redeemable == {i.secret : i \in invites} \cup ({window.secret, boot.secret} \ {0})
Apart ==
  /\ \A i \in invites : i.secret \notin {window.secret, boot.secret}
  /\ window.secret # 0 => window.secret # boot.secret
SecretsInv ==
  /\ SecretsOK /\ Apart
  /\ \A s \in Redeemable : s <= issued
  /\ \A b \in bought : b[1] <= issued /\ b[1] \notin Redeemable
  /\ \A s \in Secrets : s > issued => missed[s] = 0
  /\ window.secret # 0 => window.misses < MissLimit
  /\ SecretsAreSpent

\* The registry holds connections of the machines it says.
LoginsInv ==
  /\ login \in [Logins -> Login]
  /\ \A l \in Logins : login[l].role = "machine" => login[l].id \in Machines
  /\ online \in [Machines -> Logins \cup {NoLogin}]
  /\ \A m \in Machines : online[m] # NoLogin => login[online[m]].role = "machine" /\ login[online[m]].id = m

CountersOK == removing \subseteq Machines /\ now \in 0..MaxTime /\ births \in Births

\* A session has the names and the births it began with.
SessionsOK == execs \subseteq Exec /\ approvals \subseteq Approval /\ ran \in 0..MaxExecs

IdInv == RecordInv /\ SecretsInv /\ LoginsInv /\ SessionsOK /\ CountersOK

LEMMA IdInvSuffices == IdInv => TypeOK /\ NothingInherited /\ SecretsAreSpent
<1>1. IdInv => NothingInherited /\ SecretsAreSpent
  BY DEF IdInv, RecordInv, SecretsInv
<1>2. ASSUME IdInv PROVE TypeOK
  <2>1. /\ people \in [Persons -> [role : {"none", "user", "admin"}, keys : SUBSET Keys, born : Births]]
        /\ machines \in [Machines -> [key : Keys \cup {NoKey}, name : Machines, born : Births]]
        /\ refs \subseteq Ref /\ validate(people, machines, refs) /\ hadAdmin \in BOOLEAN
    BY <1>2 DEF IdInv, RecordInv, RecordOK, Person, Machine
  <2>2. /\ invites \subseteq [name : Machines, secret : Secrets, till : 0..MaxTime + 1]
        /\ window.secret \in 0..MaxSecrets /\ boot.secret \in 0..MaxSecrets /\ issued \in 0..MaxSecrets
        /\ bought \subseteq Secrets \X Births /\ missed \in [Secrets -> Nat]
    BY <1>2 DEF IdInv, SecretsInv, SecretsOK, Window
  <2>3. \A m \in Machines : online[m] \in Logins \cup {NoLogin} /\
          (online[m] # NoLogin => login[online[m]].role = "machine" /\ login[online[m]].id = m)
    BY <1>2 DEF IdInv, LoginsInv
  <2>4. QED
    BY <1>2, <2>1, <2>2, <2>3 DEF IdInv, SessionsOK, CountersOK, TypeOK
<1>3. QED
  BY <1>1, <1>2

-----------------------------------------------------------------------------
(* The record. *)

\* What a reference names is there.
LEMMA RefsLead ==
  ASSUME RecordInv, NEW r \in refs
  PROVE  /\ r \in Ref /\ r.person \in Persons /\ r.machine \in Machines
         /\ people[r.person].role # "none" /\ machines[r.machine].key # NoKey
         /\ (r.late \/ (people[r.person].born = r.pb /\ machines[r.machine].born = r.mb))
<1>1. r \in Ref /\ r.person \in Persons /\ r.machine \in Machines
  BY DEF RecordInv, RecordOK, Ref
<1>2. people[r.person].role # "none" /\ machines[r.machine].key # NoKey
  BY DEF RecordInv, RecordOK, validate
<1>3. (r.late \/ (people[r.person].born = r.pb /\ machines[r.machine].born = r.mb))
  BY DEF RecordInv, NothingInherited
<1>4. QED
  BY <1>1, <1>2, <1>3

\* A draft is committed whose references that survive the reconciliation are
\* their own, and which keeps an administrator.
LEMMA CommitKeeps ==
  ASSUME RecordInv, NEW pp \in [Persons -> Person], NEW mm \in [Machines -> Machine], NEW rr \in SUBSET Ref,
         commitLocked(pp, mm, rr),
         \A r \in rr : pp[r.person].role # "none" /\ mm[r.machine].key # NoKey
                         => (r.late \/ (pp[r.person].born = r.pb /\ mm[r.machine].born = r.mb)),
         hasAnyAdmin(people) => hasAnyAdmin(pp)
  PROVE  RecordInv'
<1>1. /\ people' = pp /\ machines' = mm /\ refs' = reconcile(pp, mm, rr)
      /\ validate(pp, mm, reconcile(pp, mm, rr)) /\ hadAdmin' = (hadAdmin \/ hasAnyAdmin(pp))
  BY DEF commitLocked
<1>2. hadAdmin' \in BOOLEAN /\ (hadAdmin' => hasAnyAdmin(people'))
  BY <1>1 DEF RecordInv, RecordOK
<1>3. refs' \subseteq rr /\ \A r \in refs' : pp[r.person].role # "none" /\ mm[r.machine].key # NoKey
  BY <1>1 DEF reconcile
<1>4. RecordOK'
  BY <1>1, <1>2, <1>3 DEF RecordOK
<1>5. NothingInherited'
  BY <1>1, <1>3 DEF NothingInherited
<1>6. QED
  BY <1>2, <1>4, <1>5 DEF RecordInv

LEMMA RecordUnchanged ==
  ASSUME RecordInv, UNCHANGED <<record, hadAdmin>>
  PROVE  RecordInv'
  BY DEF RecordInv, RecordOK, NothingInherited, record, hasAnyAdmin, validate

-----------------------------------------------------------------------------
(* The commands keep the record.                                           *)

\* A person is put where there was none: no reference named one there.
LEMMA PersonComes ==
  ASSUME IdInv, NEW p \in Persons, NEW as \in Person, people[p].role = "none",
         commitLocked([people EXCEPT ![p] = as], machines, refs)
  PROVE  RecordInv'
<1> DEFINE pp == [people EXCEPT ![p] = as]
<1>1. RecordInv /\ refs \in SUBSET Ref /\ people \in [Persons -> Person] /\ machines \in [Machines -> Machine]
  BY DEF IdInv, RecordInv, RecordOK
<1>2. pp \in [Persons -> Person] /\ pp[p] = as /\ \A q \in Persons : q # p => pp[q] = people[q]
  BY <1>1
<1>3. ASSUME NEW r \in refs
      PROVE  (r.late \/ (pp[r.person].born = r.pb /\ machines[r.machine].born = r.mb))
  <2>1. r.person \in Persons /\ r.person # p
    BY <1>1, <1>3, RefsLead
  <2>2. QED
    BY <2>1, <1>1, <1>2, <1>3, RefsLead
<1>4. hasAnyAdmin(people) => hasAnyAdmin(pp)
  BY <1>2 DEF hasAnyAdmin
<1>5. commitLocked(pp, machines, refs)
  OBVIOUS
<1> HIDE DEF pp
<1>6. QED
  BY <1>1, <1>2, <1>3, <1>4, <1>5, CommitKeeps

LEMMA AddKeeps ==
  ASSUME IdInv, NEW p \in Persons, NEW role \in {"user", "admin"}, NEW k \in Keys,
         cmdPeopleAdd(p, role, k)
  PROVE  RecordInv'
<1>1. births + 1 \in Births
  BY IdentitiesAssumption DEF cmdPeopleAdd, Born, IdInv, CountersOK, Births
<1>2. [role |-> role, keys |-> {k}, born |-> births + 1] \in Person
  BY <1>1 DEF Person
<1>3. QED
  BY <1>2, PersonComes DEF cmdPeopleAdd

\* A person goes: the references that named them do not survive.
LEMMA RemoveKeeps ==
  ASSUME IdInv, NEW p \in Persons, cmdPeopleRemove(p)
  PROVE  RecordInv'
<1> DEFINE pp == [people EXCEPT ![p] = Nobody]
<1>1. RecordInv /\ refs \in SUBSET Ref /\ people \in [Persons -> Person] /\ machines \in [Machines -> Machine]
  BY DEF IdInv, RecordInv, RecordOK
<1>2. Nobody \in Person
  BY IdentitiesAssumption DEF Nobody, Person, Births
<1>3. pp \in [Persons -> Person] /\ pp[p] = Nobody /\ \A q \in Persons : q # p => pp[q] = people[q]
  BY <1>1, <1>2
<1>4. ASSUME NEW r \in refs, pp[r.person].role # "none"
      PROVE  (r.late \/ (pp[r.person].born = r.pb /\ machines[r.machine].born = r.mb))
  <2>1. r.person \in Persons /\ r.person # p
    BY <1>1, <1>3, <1>4, RefsLead DEF Nobody
  <2>2. QED
    BY <2>1, <1>1, <1>3, <1>4, RefsLead
<1>5. ASSUME hasAnyAdmin(people) PROVE hasAnyAdmin(pp)
  <2>1. PICK a \in Persons : people[a].role = "admin"
    BY <1>5 DEF hasAnyAdmin
  <2>2. CASE a = p
    BY <1>3, <2>1, <2>2 DEF cmdPeopleRemove, hasAnyAdmin
  <2>3. CASE a # p
    BY <1>3, <2>1, <2>3 DEF hasAnyAdmin
  <2>4. QED
    BY <2>2, <2>3
<1>6. commitLocked(pp, machines, refs)
  BY DEF cmdPeopleRemove
<1> HIDE DEF pp
<1>7. QED
  BY <1>1, <1>3, <1>4, <1>5, <1>6, CommitKeeps

\* A rename takes the grants and goals along; nobody's name was the new one.
LEMMA RenameKeeps ==
  ASSUME IdInv, NEW p \in Persons, NEW q \in Persons, cmdPeopleRename(p, q)
  PROVE  RecordInv'
<1> DEFINE pp == [people EXCEPT ![q] = people[p], ![p] = Nobody]
           to(r) == IF r.person = p /\ r.kind # "history" THEN [r EXCEPT !.person = q] ELSE r
           rr == {to(r) : r \in refs}
<1>1. RecordInv /\ refs \in SUBSET Ref /\ people \in [Persons -> Person] /\ machines \in [Machines -> Machine]
  BY DEF IdInv, RecordInv, RecordOK
<1>2. Nobody \in Person
  BY IdentitiesAssumption DEF Nobody, Person, Births
<1>3. p # q /\ people[p].role # "none" /\ people[q].role = "none"
  BY DEF cmdPeopleRename
<1>4. /\ pp \in [Persons -> Person] /\ pp[p] = Nobody /\ pp[q] = people[p]
      /\ \A o \in Persons : o \notin {p, q} => pp[o] = people[o]
  BY <1>1, <1>2, <1>3
<1>5. ASSUME NEW r \in refs
      PROVE  /\ to(r) \in Ref
             /\ pp[to(r).person].role # "none"
                  => (to(r).late \/ (pp[to(r).person].born = to(r).pb /\ machines[to(r).machine].born = to(r).mb))
  <2>1. /\ r \in Ref /\ r.person \in Persons /\ people[r.person].role # "none"
        /\ (r.late \/ (people[r.person].born = r.pb /\ machines[r.machine].born = r.mb))
    BY <1>1, RefsLead
  <2>2. r.person # q
    BY <1>3, <2>1
  <2>3. CASE r.person = p /\ r.kind # "history"
    <3>1. /\ to(r) \in Ref /\ to(r).person = q
          /\ to(r).late = r.late /\ to(r).pb = r.pb
          /\ to(r).machine = r.machine /\ to(r).mb = r.mb
      BY <2>1, <2>3 DEF Ref
    <3>2. QED
      BY <2>1, <2>3, <3>1, <1>4
  <2>4. CASE ~(r.person = p /\ r.kind # "history")
    <3>1. to(r) = r
      BY <2>4
    <3>2. CASE r.person = p
      BY <2>1, <3>1, <3>2, <1>4 DEF Nobody
    <3>3. CASE r.person # p
      BY <2>1, <2>2, <3>1, <3>3, <1>4
    <3>4. QED
      BY <3>2, <3>3
  <2>5. QED
    BY <2>3, <2>4
<1>6. rr \in SUBSET Ref
  BY <1>5
<1>7. ASSUME NEW r \in rr, pp[r.person].role # "none"
      PROVE  (r.late \/ (pp[r.person].born = r.pb /\ machines[r.machine].born = r.mb))
  BY <1>5, <1>7
<1>8. hasAnyAdmin(people) => hasAnyAdmin(pp)
  BY <1>3, <1>4 DEF hasAnyAdmin
<1>9. commitLocked(pp, machines, rr)
  BY DEF cmdPeopleRename
<1> HIDE DEF pp, rr
<1>10. QED
  BY <1>1, <1>4, <1>6, <1>7, <1>8, <1>9, CommitKeeps

\* A person's keys change, and neither who they are nor what they may be.
LEMMA KeysKeep ==
  ASSUME IdInv, NEW p \in Persons, NEW ks \in SUBSET Keys,
         commitLocked([people EXCEPT ![p].keys = ks], machines, refs)
  PROVE  RecordInv'
<1> DEFINE pp == [people EXCEPT ![p].keys = ks]
<1>1. RecordInv /\ refs \in SUBSET Ref /\ people \in [Persons -> Person] /\ machines \in [Machines -> Machine]
  BY DEF IdInv, RecordInv, RecordOK
<1>2. /\ pp \in [Persons -> Person]
      /\ \A q \in Persons : pp[q].role = people[q].role /\ pp[q].born = people[q].born
  BY <1>1 DEF Person
<1>3. \A r \in refs : (r.late \/ (pp[r.person].born = r.pb /\ machines[r.machine].born = r.mb))
  BY <1>1, <1>2, RefsLead
<1>4. hasAnyAdmin(people) => hasAnyAdmin(pp)
  BY <1>2 DEF hasAnyAdmin
<1>5. commitLocked(pp, machines, refs)
  OBVIOUS
<1> HIDE DEF pp
<1>6. QED
  BY <1>1, <1>2, <1>3, <1>4, <1>5, CommitKeeps

LEMMA KeysCommandsKeep ==
  ASSUME IdInv, NEW p \in Persons, NEW k \in Keys, cmdPeopleKeysAdd(p, k) \/ cmdPeopleKeysRemove(p, k)
  PROVE  RecordInv'
<1>1. people[p].keys \in SUBSET Keys
  BY DEF IdInv, RecordInv, RecordOK, Person
<1>2. CASE cmdPeopleKeysAdd(p, k)
  BY <1>1, <1>2, KeysKeep DEF cmdPeopleKeysAdd
<1>3. CASE cmdPeopleKeysRemove(p, k)
  BY <1>1, <1>3, KeysKeep DEF cmdPeopleKeysRemove
<1>4. QED
  BY <1>2, <1>3

\* References are made to those who are there, for those they are.
LEMMA RefsKeep ==
  ASSUME IdInv, NEW rr \in SUBSET Ref, commitLocked(people, machines, rr),
         \A r \in rr : (r.late \/ (people[r.person].born = r.pb /\ machines[r.machine].born = r.mb))
  PROVE  RecordInv'
<1>1. RecordInv /\ people \in [Persons -> Person] /\ machines \in [Machines -> Machine]
  BY DEF IdInv, RecordInv, RecordOK
<1>2. QED
  BY <1>1, CommitKeeps

LEMMA ReferKeeps ==
  ASSUME IdInv, NEW p \in Persons, NEW m \in Machines, NEW kind \in {"grant", "goal"},
         Refer(kind, p, m)
  PROVE  RecordInv'
<1> DEFINE new == [kind |-> kind, person |-> p, machine |-> m, pin |-> machines[m].key,
                   pb |-> people[p].born, mb |-> machines[m].born, late |-> FALSE]
<1>1. RecordInv /\ refs \in SUBSET Ref /\ people \in [Persons -> Person] /\ machines \in [Machines -> Machine]
  BY DEF IdInv, RecordInv, RecordOK
<1>2. machines[m].key \in Keys
  BY <1>1 DEF Refer, Enrolled, Machine
<1>3. people[p].born \in Births /\ machines[m].born \in Births
  BY <1>1 DEF Person, Machine
<1>4. new \in Ref /\ new.person = p /\ new.machine = m /\ new.pb = people[p].born /\ new.mb = machines[m].born
  BY <1>2, <1>3 DEF Ref
<1>5. commitLocked(people, machines, refs \cup {new})
  BY DEF Refer
<1> HIDE DEF new
<1>6. \A r \in refs \cup {new} : (r.late \/ (people[r.person].born = r.pb /\ machines[r.machine].born = r.mb))
  BY <1>1, <1>4, RefsLead
<1>7. QED
  BY <1>1, <1>4, <1>5, <1>6, RefsKeep

\* A session that has drained adds what its exec was, under the names there are.
LEMMA HistoryKeeps ==
  ASSUME IdInv, NEW e \in execs, recordRecentCommand(e)
  PROVE  RecordInv'
<1> DEFINE p == e.person
           m == e.machine
           new == [kind |-> "history", person |-> p, machine |-> m, pin |-> machines[m].key,
                   pb |-> e.pb, mb |-> e.mb,
                   late |-> <<e.pb, e.mb>> # <<people[p].born, machines[m].born>>]
<1>1. RecordInv /\ refs \in SUBSET Ref /\ people \in [Persons -> Person] /\ machines \in [Machines -> Machine]
  BY DEF IdInv, RecordInv, RecordOK
<1>2. p \in Persons /\ m \in Machines /\ e.pb \in Births /\ e.mb \in Births
  BY DEF IdInv, SessionsOK, Exec
<1>3. CASE ~(people[p].role # "none" /\ machines[m].key # NoKey)
  BY <1>1, <1>3, RecordUnchanged DEF recordRecentCommand
<1>4. CASE people[p].role # "none" /\ machines[m].key # NoKey
  <2>1. machines[m].key \in Keys
    BY <1>1, <1>2, <1>4 DEF Machine
  <2>2. /\ new \in Ref /\ new.person = p /\ new.machine = m
        /\ new.late \/ (people[p].born = new.pb /\ machines[m].born = new.mb)
    BY <1>2, <2>1 DEF Ref
  <2>3. commitLocked(people, machines, refs \cup {new})
    BY <1>4 DEF recordRecentCommand
  <2> HIDE DEF new
  <2>4. \A r \in refs \cup {new} : (r.late \/ (people[r.person].born = r.pb /\ machines[r.machine].born = r.mb))
    BY <1>1, <2>2, RefsLead
  <2>5. QED
    BY <1>1, <2>2, <2>3, <2>4, RefsKeep
<1>5. QED
  BY <1>3, <1>4

LEMMA RevokeKeeps ==
  ASSUME IdInv, NEW r \in refs, cmdGrantsRevoke(r)
  PROVE  RecordInv'
<1>1. RecordInv /\ refs \ {r} \in SUBSET Ref /\ commitLocked(people, machines, refs \ {r})
  BY DEF IdInv, RecordInv, RecordOK, cmdGrantsRevoke
<1>2. \A o \in refs \ {r} : (o.late \/ (people[o.person].born = o.pb /\ machines[o.machine].born = o.mb))
  BY <1>1, RefsLead
<1>3. QED
  BY <1>1, <1>2, RefsKeep

\* A machine's entry changes, and whoever had its id is still who they were, or
\* nothing is said of them any more.
LEMMA MachineKeeps ==
  ASSUME IdInv, NEW m \in Machines, NEW as \in Machine,
         commitLocked(people, [machines EXCEPT ![m] = as], refs),
         machines[m].key = NoKey \/ as.key = NoKey \/ as.born = machines[m].born
  PROVE  RecordInv'
<1> DEFINE mm == [machines EXCEPT ![m] = as]
<1>1. RecordInv /\ refs \in SUBSET Ref /\ people \in [Persons -> Person] /\ machines \in [Machines -> Machine]
  BY DEF IdInv, RecordInv, RecordOK
<1>2. mm \in [Machines -> Machine] /\ mm[m] = as /\ \A n \in Machines : n # m => mm[n] = machines[n]
  BY <1>1
<1>3. ASSUME NEW r \in refs, mm[r.machine].key # NoKey
      PROVE  (r.late \/ (people[r.person].born = r.pb /\ mm[r.machine].born = r.mb))
  <2>1. /\ r.machine \in Machines /\ machines[r.machine].key # NoKey
        /\ (r.late \/ (people[r.person].born = r.pb /\ machines[r.machine].born = r.mb))
    BY <1>1, RefsLead
  <2>2. CASE r.machine = m
    BY <1>2, <1>3, <2>1, <2>2
  <2>3. CASE r.machine # m
    BY <1>2, <2>1, <2>3
  <2>4. QED
    BY <2>1, <2>2, <2>3
<1>4. commitLocked(people, mm, refs)
  OBVIOUS
<1> HIDE DEF mm
<1>5. QED
  BY <1>1, <1>2, <1>3, <1>4, CommitKeeps

LEMMA MachineCommandsKeep ==
  ASSUME IdInv, NEW m \in Machines, NEW name \in Machines, cmdMachinesRename(m, name) \/ cmdMachinesRemove(m)
  PROVE  RecordInv'
<1>1. machines \in [Machines -> Machine]
  BY DEF IdInv, RecordInv, RecordOK
<1>2. CASE cmdMachinesRename(m, name)
  <2> DEFINE as == [machines[m] EXCEPT !.name = name]
  <2>1. as \in Machine /\ as.born = machines[m].born
    BY <1>1 DEF Machine
  <2>2. [machines EXCEPT ![m].name = name] = [machines EXCEPT ![m] = as]
    BY <1>1
  <2>3. commitLocked(people, [machines EXCEPT ![m] = as], refs)
    BY <1>2, <2>2 DEF cmdMachinesRename
  <2> HIDE DEF as
  <2>4. QED
    BY <2>1, <2>3, MachineKeeps
<1>3. CASE cmdMachinesRemove(m)
  <2>1. NoMachine(m) \in Machine /\ NoMachine(m).key = NoKey
    BY IdentitiesAssumption DEF NoMachine, Machine, Births
  <2>2. QED
    BY <1>3, <2>1, MachineKeeps DEF cmdMachinesRemove
<1>4. QED
  BY <1>2, <1>3

-----------------------------------------------------------------------------
(* Redeeming keeps the record. *)

LEMMA BornIsABirth ==
  ASSUME IdInv, Born
  PROVE  births + 1 \in Births /\ births' \in Births /\ births' = births + 1
  BY IdentitiesAssumption DEF Born, IdInv, CountersOK, Births

LEMMA EnrolKeeps ==
  ASSUME IdInv, NEW l \in Logins, NEW i \in invites, NEW k \in Keys, runEnrol(l, i, k)
  PROVE  RecordInv'
<1>1. i.name \in Machines
  BY DEF IdInv, SecretsInv, SecretsOK
<1>2. CASE UNCHANGED <<record, hadAdmin>>
  BY <1>2, RecordUnchanged DEF IdInv
<1>3. CASE /\ \A n \in Enrolled : i.name # n /\ i.name # machines[n].name
           /\ Born
           /\ commitLocked(people, [machines EXCEPT ![i.name] =
                             [key |-> k, name |-> i.name, born |-> births + 1]], refs)
  <2>1. [key |-> k, name |-> i.name, born |-> births + 1] \in Machine
    BY <1>1, <1>3, BornIsABirth DEF Machine
  <2>2. machines[i.name].key = NoKey
    BY <1>1, <1>3 DEF Enrolled
  <2>3. QED
    BY <1>1, <1>3, <2>1, <2>2, MachineKeeps
<1>4. QED
  BY <1>2, <1>3 DEF runEnrol

\* What a PIN and a bootstrap token make.
LEMMA NewAdminKeeps ==
  ASSUME IdInv, NEW p \in Persons, NEW k \in Keys, people[p].role = "none", Born,
         commitLocked([people EXCEPT ![p] = [role |-> "admin", keys |-> {k}, born |-> births + 1]],
                      machines, refs)
  PROVE  RecordInv'
<1>1. [role |-> "admin", keys |-> {k}, born |-> births + 1] \in Person
  BY BornIsABirth DEF Person
<1>2. QED
  BY <1>1, PersonComes

LEMMA PairingKeeps ==
  ASSUME IdInv, NEW l \in Logins, NEW k \in Keys, NEW p \in Persons, runPairing(l, k, p)
  PROVE  RecordInv'
<1>1. CASE UNCHANGED <<record, hadAdmin>>
  BY <1>1, RecordUnchanged DEF IdInv
<1>2. CASE /\ people[p].role = "none" /\ Born
           /\ commitLocked([people EXCEPT ![p] = [role |-> "admin", keys |-> {k}, born |-> births + 1]],
                           machines, refs)
  BY <1>2, NewAdminKeeps
<1>3. QED
  BY <1>1, <1>2 DEF runPairing

LEMMA BootstrapKeeps ==
  ASSUME IdInv, NEW l \in Logins, NEW k \in Keys, NEW p \in Persons, runBootstrap(l, k, p)
  PROVE  RecordInv'
<1>1. CASE UNCHANGED <<record, hadAdmin>>
  BY <1>1, RecordUnchanged DEF IdInv
<1>2. CASE /\ people[p].role = "none" /\ Born
           /\ commitLocked([people EXCEPT ![p] = [role |-> "admin", keys |-> {k}, born |-> births + 1]],
                           machines, refs)
  BY <1>2, NewAdminKeeps
<1>3. QED
  BY <1>1, <1>2 DEF runBootstrap

-----------------------------------------------------------------------------
(* The secrets. *)

secretVars == <<pending, issued, bought, missed>>

LEMMA SecretsUnchanged ==
  ASSUME SecretsInv, UNCHANGED secretVars
  PROVE  SecretsInv'
<1>1. /\ invites' = invites /\ window' = window /\ boot' = boot /\ issued' = issued
      /\ bought' = bought /\ missed' = missed
  BY DEF secretVars, pending
<1>2. SecretsOK' /\ Apart' /\ Redeemable' = Redeemable
  BY <1>1 DEF SecretsInv, SecretsOK, Apart, Redeemable
<1>3. SecretsAreSpent'
  BY <1>1 DEF SecretsInv, SecretsAreSpent, SecretBuysOne, GuessesBounded, MissesAreItsOwn
<1>4. QED
  BY <1>1, <1>2, <1>3 DEF SecretsInv

\* The next secret has never been given, so nothing was bought with it.
LEMMA NextSecret ==
  ASSUME SecretsInv, Issued
  PROVE  /\ issued + 1 \in Secrets /\ issued' = issued + 1 /\ issued' \in 0..MaxSecrets
         /\ issued + 1 \notin Redeemable
         /\ \A b \in bought : b[1] # issued + 1
         /\ missed[issued + 1] = 0
<1>1. issued \in 0..MaxSecrets /\ issued < MaxSecrets /\ issued' = issued + 1
  BY DEF SecretsInv, SecretsOK, Issued
<1>2. issued + 1 \in Secrets /\ issued' \in 0..MaxSecrets
  BY <1>1, IdentitiesAssumption DEF Secrets
<1>3. issued + 1 \notin Redeemable
  BY <1>1 DEF SecretsInv
<1>4. \A b \in bought : b[1] # issued + 1
  BY <1>1 DEF SecretsInv
<1>5. missed[issued + 1] = 0
  BY <1>1, <1>2 DEF SecretsInv
<1>6. QED
  BY <1>1, <1>2, <1>3, <1>4, <1>5

LEMMA RedeemableAreSecrets == SecretsOK => Redeemable \subseteq Secrets
<1>1. SecretsOK => \A i \in invites : i.secret \in Secrets
  BY DEF SecretsOK
<1>2. SecretsOK => {window.secret, boot.secret} \ {0} \subseteq Secrets
  BY DEF SecretsOK, Window, Secrets
<1>3. QED
  BY <1>1, <1>2 DEF Redeemable

\* A secret is given for one purpose, whatever that is.
LEMMA GivingKeeps ==
  ASSUME SecretsInv, Issued, UNCHANGED <<bought, missed>>,
         SecretsOK', Apart', Redeemable' \subseteq Redeemable \cup {issued + 1},
         window' # window => window'.secret = issued + 1 /\ window'.misses = 0
  PROVE  SecretsInv'
<1>1. /\ issued + 1 \in Secrets /\ issued' = issued + 1 /\ issued' \in 0..MaxSecrets
      /\ issued + 1 \notin Redeemable /\ (\A b \in bought : b[1] # issued + 1) /\ missed[issued + 1] = 0
  BY NextSecret
<1>2. issued \in Nat /\ Redeemable \subseteq Secrets /\ bought \subseteq Secrets \X Births
  BY RedeemableAreSecrets DEF SecretsInv, SecretsOK
<1>3. \A s \in Redeemable' : s <= issued'
  BY <1>1, <1>2 DEF SecretsInv, Secrets
<1>4. \A b \in bought : b[1] \in Secrets
  BY <1>2
<1>5. \A b \in bought' : b[1] <= issued' /\ b[1] \notin Redeemable'
  BY <1>1, <1>2, <1>4 DEF SecretsInv, Secrets
<1>6. \A s \in Secrets : s > issued' => missed'[s] = 0
  BY <1>1, <1>2 DEF SecretsInv, Secrets
<1>7. SecretBuysOne' /\ GuessesBounded'
  BY DEF SecretsInv, SecretsAreSpent, SecretBuysOne, GuessesBounded
<1>8. window'.secret # 0 => window'.misses < MissLimit /\ window'.misses = missed'[window'.secret]
  BY <1>1, IdentitiesAssumption DEF SecretsInv, SecretsAreSpent, MissesAreItsOwn
<1>9. QED
  BY <1>3, <1>5, <1>6, <1>7, <1>8 DEF SecretsInv, SecretsAreSpent, MissesAreItsOwn

LEMMA InvitationKeeps ==
  ASSUME SecretsInv, now \in 0..MaxTime, NEW m \in Machines, Issued,
         invites' = invites \cup {[name |-> m, secret |-> issued + 1, till |-> now + 1]},
         UNCHANGED <<window, boot, bought, missed>>
  PROVE  SecretsInv'
<1> DEFINE new == [name |-> m, secret |-> issued + 1, till |-> now + 1]
<1>1. issued + 1 \in Secrets /\ issued' \in 0..MaxSecrets /\ issued + 1 \notin Redeemable
  BY NextSecret
<1>2. now + 1 \in 0..MaxTime + 1
  BY IdentitiesAssumption
<1>3. new \in [name : Machines, secret : Secrets, till : 0..MaxTime + 1] /\ new.secret = issued + 1
  BY <1>1, <1>2
<1>4. invites' = invites \cup {new}
  OBVIOUS
<1> HIDE DEF new
<1>5. SecretsOK'
  BY <1>1, <1>3, <1>4 DEF SecretsInv, SecretsOK
<1>6. Redeemable' \subseteq Redeemable \cup {issued + 1}
  BY <1>3, <1>4 DEF Redeemable
<1>7. issued + 1 \notin {window.secret, boot.secret}
  BY <1>1 DEF Redeemable, SecretsInv, SecretsOK, Secrets
<1>8. Apart'
  BY <1>3, <1>4, <1>7 DEF SecretsInv, Apart
<1>9. QED
  BY <1>5, <1>6, <1>8, GivingKeeps

\* A window takes the place of the one that is open, and a bootstrap token that
\* of the one before it.
LEMMA FreshKeeps ==
  ASSUME SecretsInv, now \in 0..MaxTime, Issued, NEW fresh,
         fresh = [secret |-> issued + 1, till |-> now + 1, misses |-> 0],
         \/ window' = fresh /\ boot' = boot
         \/ boot' = fresh /\ window' = window,
         UNCHANGED <<invites, bought, missed>>
  PROVE  SecretsInv'
<1>1. issued + 1 \in Secrets /\ issued' \in 0..MaxSecrets /\ issued + 1 \notin Redeemable
  BY NextSecret
<1>2. fresh \in Window /\ fresh.secret = issued + 1 /\ fresh.misses = 0
  BY <1>1 DEF Window, Secrets
<1>3. SecretsOK'
  BY <1>1, <1>2 DEF SecretsInv, SecretsOK
<1>4. Redeemable' \subseteq Redeemable \cup {issued + 1}
  BY <1>2 DEF Redeemable
<1>5. issued + 1 # 0 /\ (\A i \in invites : i.secret # issued + 1) /\ issued + 1 \notin {window.secret, boot.secret}
  BY <1>1 DEF Redeemable, SecretsInv, SecretsOK, Secrets
<1>6. Apart'
  BY <1>2, <1>5 DEF SecretsInv, Apart
<1>7. QED
  BY <1>2, <1>3, <1>4, <1>6, GivingKeeps

\* Nothing is given, and what is bought is bought with a secret that cannot be
\* redeemed again.
LEMMA SpendingKeeps ==
  ASSUME SecretsInv, UNCHANGED <<issued, missed>>, NEW b, NEW s \in Redeemable,
         bought' = bought \cup {<<s, b>>}, SecretsOK', Apart', Redeemable' \subseteq Redeemable \ {s},
         window' = window \/ window'.secret = 0
  PROVE  SecretsInv'
<1>1. s <= issued /\ \A a \in bought : a[1] # s
  BY DEF SecretsInv
<1>2. \A t \in Redeemable' : t <= issued'
  BY DEF SecretsInv
<1>3. \A a \in bought' : a[1] <= issued' /\ a[1] \notin Redeemable'
  BY <1>1 DEF SecretsInv
<1>4. SecretBuysOne'
  BY <1>1 DEF SecretsInv, SecretsAreSpent, SecretBuysOne
<1>5. GuessesBounded' /\ MissesAreItsOwn' /\ (window'.secret # 0 => window'.misses < MissLimit)
  BY DEF SecretsInv, SecretsAreSpent, GuessesBounded, MissesAreItsOwn
<1>6. \A t \in Secrets : t > issued' => missed'[t] = 0
  BY DEF SecretsInv
<1>7. QED
  BY <1>2, <1>3, <1>4, <1>5, <1>6 DEF SecretsInv, SecretsAreSpent

NoWindow == NoSecret \in Window /\ NoSecret.secret = 0
LEMMA NoSecretIsNone == NoWindow
  BY IdentitiesAssumption DEF NoWindow, NoSecret, Window

\* What a redemption buys is a birth.
LEMMA BuysABirth ==
  ASSUME SecretsInv, NEW s \in Redeemable, births + 1 \in Births, Buys(s)
  PROVE  bought' = bought \cup {<<s, births + 1>>} /\ bought' \subseteq Secrets \X Births
  BY RedeemableAreSecrets DEF SecretsInv, SecretsOK, Buys

LEMMA EnrolSpends ==
  ASSUME IdInv, NEW l \in Logins, NEW i \in invites, NEW k \in Keys, runEnrol(l, i, k)
  PROVE  SecretsInv'
<1>1. CASE UNCHANGED <<invites, bought>>
  BY <1>1, SecretsUnchanged DEF IdInv, runEnrol, secretVars, pending
<1>2. CASE Born /\ Buys(i.secret) /\ invites' = removePendingByHash(i.secret)
  <2>1. SecretsInv /\ i.secret \in Redeemable /\ i.secret \notin {window.secret, boot.secret}
    BY DEF IdInv, SecretsInv, Apart, Redeemable
  <2>2. UNCHANGED <<window, boot, issued, missed>>
    BY DEF runEnrol
  <2>3. bought' = bought \cup {<<i.secret, births + 1>>} /\ bought' \subseteq Secrets \X Births
    BY <1>2, <2>1, BornIsABirth, BuysABirth
  <2>4. invites' \subseteq invites /\ \A j \in invites' : j.secret # i.secret
    BY <1>2 DEF removePendingByHash
  <2>5. SecretsOK' /\ Apart'
    BY <2>1, <2>2, <2>3, <2>4 DEF SecretsInv, SecretsOK, Apart
  <2>6. Redeemable' \subseteq Redeemable \ {i.secret}
    BY <2>1, <2>2, <2>4 DEF Redeemable
  <2>7. QED
    BY <2>1, <2>2, <2>3, <2>5, <2>6, SpendingKeeps
<1>3. QED
  BY <1>1, <1>2 DEF runEnrol

LEMMA BootstrapSpends ==
  ASSUME IdInv, NEW l \in Logins, NEW k \in Keys, NEW p \in Persons, runBootstrap(l, k, p)
  PROVE  SecretsInv'
<1>1. CASE UNCHANGED <<boot, bought>>
  BY <1>1, SecretsUnchanged DEF IdInv, runBootstrap, secretVars, pending
<1>2. CASE boot.secret # 0 /\ Born /\ Buys(boot.secret) /\ boot' = NoSecret
  <2>1. /\ SecretsInv /\ boot.secret \in Redeemable /\ boot.secret # window.secret
        /\ \A i \in invites : i.secret # boot.secret
    BY <1>2 DEF IdInv, SecretsInv, Apart, Redeemable
  <2>2. UNCHANGED <<invites, window, issued, missed>> /\ boot' \in Window /\ boot'.secret = 0
    BY <1>2, NoSecretIsNone DEF runBootstrap, NoWindow
  <2>3. bought' = bought \cup {<<boot.secret, births + 1>>} /\ bought' \subseteq Secrets \X Births
    BY <1>2, <2>1, BornIsABirth, BuysABirth
  <2>4. \A i \in invites : i.secret # 0
    BY <2>1 DEF SecretsInv, SecretsOK, Secrets
  <2>5. SecretsOK' /\ Apart'
    BY <2>1, <2>2, <2>3, <2>4 DEF SecretsInv, SecretsOK, Apart
  <2>6. Redeemable' \subseteq Redeemable \ {boot.secret}
    BY <2>1, <2>2 DEF Redeemable
  <2>7. QED
    BY <2>1, <2>2, <2>3, <2>5, <2>6, SpendingKeeps
<1>3. QED
  BY <1>1, <1>2 DEF runBootstrap

\* A window is closed, or burned.
LEMMA ClosingKeeps ==
  ASSUME SecretsInv, window' = NoSecret, UNCHANGED <<invites, boot, issued, bought>>,
         missed' \in [Secrets -> Nat], GuessesBounded',
         \A s \in Secrets : s > issued => missed'[s] = 0
  PROVE  SecretsInv'
<1>1. window' \in Window /\ window'.secret = 0
  BY NoSecretIsNone DEF NoWindow
<1>2. \A i \in invites : i.secret # 0
  BY DEF SecretsInv, SecretsOK, Secrets
<1>3. SecretsOK' /\ Apart'
  BY <1>1, <1>2 DEF SecretsInv, SecretsOK, Apart
<1>4. Redeemable' \subseteq Redeemable
  BY <1>1 DEF Redeemable
<1>5. MissesAreItsOwn' /\ SecretBuysOne'
  BY <1>1 DEF MissesAreItsOwn, SecretsInv, SecretsAreSpent, SecretBuysOne
<1>6. QED
  BY <1>1, <1>3, <1>4, <1>5 DEF SecretsInv, SecretsAreSpent

LEMMA StopKeeps ==
  ASSUME IdInv, cmdAdminPairingStop
  PROVE  SecretsInv'
<1>1. window' = NoSecret /\ UNCHANGED <<invites, boot, issued, bought, missed>>
  BY DEF cmdAdminPairingStop, ghost
<1>2. GuessesBounded' /\ missed' \in [Secrets -> Nat] /\ \A s \in Secrets : s > issued => missed'[s] = 0
  BY <1>1 DEF IdInv, SecretsInv, SecretsOK, SecretsAreSpent, GuessesBounded
<1>3. QED
  BY <1>1, <1>2, ClosingKeeps DEF IdInv

\* A wrong PIN is counted on the window of the login that tried it.
LEMMA MissKeeps ==
  ASSUME SecretsInv, window.secret # 0, pairingWindowMiss,
         missed' = [missed EXCEPT ![window.secret] = @ + 1],
         UNCHANGED <<invites, boot, issued, bought>>
  PROVE  SecretsInv'
<1>1. /\ window.secret \in Secrets /\ window.misses \in Nat /\ window.secret <= issued
      /\ window.misses < MissLimit /\ window.misses = missed[window.secret] /\ missed \in [Secrets -> Nat]
  BY DEF SecretsInv, SecretsOK, Window, Secrets, Redeemable, SecretsAreSpent, MissesAreItsOwn
<1>2. /\ missed' \in [Secrets -> Nat] /\ missed'[window.secret] = window.misses + 1
      /\ \A s \in Secrets : s # window.secret => missed'[s] = missed[s]
  BY <1>1
<1>3. GuessesBounded'
  BY <1>1, <1>2, IdentitiesAssumption DEF SecretsInv, SecretsAreSpent, GuessesBounded
<1>4. \A s \in Secrets : s > issued => missed'[s] = 0
  BY <1>1, <1>2 DEF SecretsInv, SecretsOK, Secrets
<1>5. CASE window' = NoSecret
  BY <1>2, <1>3, <1>4, <1>5, ClosingKeeps
<1>6. CASE ~(window.misses + 1 >= MissLimit) /\ window' = [window EXCEPT !.misses = @ + 1]
  <2>1. /\ window' \in Window /\ window'.secret = window.secret /\ window'.misses = window.misses + 1
        /\ window'.misses < MissLimit
    BY <1>1, <1>6, IdentitiesAssumption DEF SecretsInv, SecretsOK, Window
  <2>2. SecretsOK' /\ Apart'
    BY <1>2, <2>1 DEF SecretsInv, SecretsOK, Apart
  <2>3. Redeemable' = Redeemable
    BY <2>1 DEF Redeemable
  <2>4. MissesAreItsOwn' /\ SecretBuysOne'
    BY <1>2, <2>1 DEF MissesAreItsOwn, SecretsInv, SecretsAreSpent, SecretBuysOne
  <2>5. QED
    BY <1>3, <1>4, <2>1, <2>2, <2>3, <2>4 DEF SecretsInv, SecretsAreSpent
<1>7. QED
  BY <1>5, <1>6 DEF pairingWindowMiss

LEMMA PairingSpends ==
  ASSUME IdInv, NEW l \in Logins, NEW k \in Keys, NEW p \in Persons, runPairing(l, k, p)
  PROVE  SecretsInv'
<1>0. SecretsInv /\ UNCHANGED <<invites, boot, issued>>
  BY DEF IdInv, runPairing
<1>1. CASE UNCHANGED <<window, bought, missed>>
  BY <1>0, <1>1, SecretsUnchanged DEF secretVars, pending
<1>2. CASE /\ window.secret # 0 /\ ~pairingBindingStale(l) /\ pairingWindowMiss /\ UNCHANGED bought
           /\ missed' = [missed EXCEPT ![login[l].id] = @ + 1]
  BY <1>0, <1>2, MissKeeps DEF pairingBindingStale
<1>3. CASE window.secret # 0 /\ Born /\ Buys(window.secret) /\ window' = NoSecret /\ UNCHANGED missed
  <2>1. /\ window.secret \in Redeemable /\ boot.secret # window.secret
        /\ \A i \in invites : i.secret # window.secret
    BY <1>0, <1>3 DEF SecretsInv, Apart, Redeemable
  <2>2. window' \in Window /\ window'.secret = 0
    BY <1>3, NoSecretIsNone DEF NoWindow
  <2>3. bought' = bought \cup {<<window.secret, births + 1>>} /\ bought' \subseteq Secrets \X Births
    BY <1>0, <1>3, <2>1, BornIsABirth, BuysABirth
  <2>4. \A i \in invites : i.secret # 0
    BY <1>0 DEF SecretsInv, SecretsOK, Secrets
  <2>5. SecretsOK' /\ Apart'
    BY <1>0, <1>3, <2>2, <2>3, <2>4 DEF SecretsInv, SecretsOK, Apart
  <2>6. Redeemable' \subseteq Redeemable \ {window.secret}
    BY <1>0, <2>1, <2>2 DEF Redeemable
  <2>7. QED
    BY <1>0, <1>3, <2>1, <2>2, <2>3, <2>5, <2>6, SpendingKeeps
<1>4. QED
  BY <1>1, <1>2, <1>3 DEF runPairing

-----------------------------------------------------------------------------
(* The logins. *)

\* A connection that is not a machine's is in nobody's place in the registry.
LEMMA LoginChanges ==
  ASSUME LoginsInv, NEW l \in Logins, login[l].role # "machine", NEW as \in Login,
         as.role = "machine" => as.id \in Machines,
         login' = [login EXCEPT ![l] = as], UNCHANGED online
  PROVE  LoginsInv'
<1>1. login' \in [Logins -> Login] /\ login'[l] = as /\ \A n \in Logins : n # l => login'[n] = login[n]
  BY DEF LoginsInv
<1>2. \A n \in Logins : login'[n].role = "machine" => login'[n].id \in Machines
  BY <1>1 DEF LoginsInv
<1>3. ASSUME NEW m \in Machines, online[m] # NoLogin
      PROVE  login'[online[m]].role = "machine" /\ login'[online[m]].id = m
  <2>1. online[m] \in Logins /\ login[online[m]].role = "machine" /\ login[online[m]].id = m
    BY <1>3 DEF LoginsInv
  <2>2. online[m] # l
    BY <2>1
  <2>3. QED
    BY <1>1, <2>1, <2>2
<1>4. QED
  BY <1>1, <1>2, <1>3 DEF LoginsInv

LEMMA ClosedIsALogin == Closed \in Login /\ Closed.role = "closed"
  BY IdentitiesAssumption DEF Closed, Login

LEMMA ServedKeeps ==
  ASSUME LoginsInv, NEW l \in Logins, login[l].role # "machine", Served(l)
  PROVE  LoginsInv'
  BY LoginChanges, ClosedIsALogin DEF Served

LEMMA OpensKeeps ==
  ASSUME LoginsInv, NEW l \in Logins, NEW as \in Login, as.role = "machine" => as.id \in Machines,
         Opens(l, as), UNCHANGED online
  PROVE  LoginsInv'
  BY LoginChanges, ClosedIsALogin DEF Opens

LEMMA RoleLoginsKeep ==
  ASSUME IdInv, NEW l \in Logins,
         \/ loginBootstrap(l) \/ pairingKeyCallback(l)
         \/ \E m \in Machines : loginMachine(l, m)
         \/ \E i \in invites : loginEnrol(l, i)
  PROVE  LoginsInv'
<1>1. LoginsInv /\ machines \in [Machines -> Machine] /\ boot.secret \in 0..MaxSecrets
      /\ window.secret \in 0..MaxSecrets /\ \A i \in invites : i.secret \in 0..MaxSecrets
  BY IdentitiesAssumption, SMTT(30) DEF IdInv, RecordInv, RecordOK, SecretsInv, SecretsOK, Window, Secrets
<1>2. CASE loginBootstrap(l)
  <2>1. [role |-> "bootstrap", id |-> boot.secret, key |-> NoKey] \in Login
    BY <1>1 DEF Login
  <2>2. QED
    BY <1>1, <1>2, <2>1, OpensKeeps DEF loginBootstrap
<1>3. CASE pairingKeyCallback(l)
  <2>1. [role |-> "pairing", id |-> window.secret, key |-> NoKey] \in Login
    BY <1>1 DEF Login
  <2>2. QED
    BY <1>1, <1>3, <2>1, OpensKeeps DEF pairingKeyCallback
<1>4. ASSUME NEW m \in Machines, loginMachine(l, m) PROVE LoginsInv'
  <2>1. [role |-> "machine", id |-> m, key |-> machines[m].key] \in Login
    BY <1>1 DEF Login, Machine
  <2>2. QED
    BY <1>1, <1>4, <2>1, OpensKeeps DEF loginMachine
<1>5. ASSUME NEW i \in invites, loginEnrol(l, i) PROVE LoginsInv'
  <2>1. [role |-> "enrol", id |-> i.secret, key |-> NoKey] \in Login
    BY <1>1 DEF Login
  <2>2. QED
    BY <1>1, <1>5, <2>1, OpensKeeps DEF loginEnrol
<1>6. QED
  BY <1>2, <1>3, <1>4, <1>5

LEMMA RegistrationKeeps ==
  ASSUME IdInv, NEW l \in Logins, handleMachine(l)
  PROVE  LoginsInv'
<1> DEFINE m == login[l].id
<1>1. LoginsInv /\ login[l].role = "machine" /\ m \in Machines /\ \A n \in Machines : online[n] # l
  BY DEF IdInv, LoginsInv, handleMachine
<1>2. CASE online' = [online EXCEPT ![m] = l] /\ UNCHANGED login
  BY <1>1, <1>2 DEF LoginsInv
<1>3. CASE login' = [login EXCEPT ![l] = Closed] /\ UNCHANGED online
  <2>1. /\ login' \in [Logins -> Login] /\ login'[l].role = "closed"
        /\ \A n \in Logins : n # l => login'[n] = login[n]
    BY <1>1, <1>3, ClosedIsALogin DEF LoginsInv
  <2>2. QED
    BY <1>1, <1>3, <2>1 DEF LoginsInv
<1>4. QED
  BY <1>2, <1>3 DEF handleMachine

LEMMA DisconnectKeeps ==
  ASSUME IdInv, NEW l \in Logins, disconnect(l)
  PROVE  LoginsInv'
<1>1. LoginsInv
  BY DEF IdInv
<1>2. /\ login' \in [Logins -> Login] /\ login'[l].role = "closed"
      /\ \A n \in Logins : n # l => login'[n] = login[n]
  BY <1>1, ClosedIsALogin DEF LoginsInv, disconnect
<1>3. /\ online' \in [Machines -> Logins \cup {NoLogin}]
      /\ \A m \in Machines : online'[m] # NoLogin => online'[m] = online[m] /\ online'[m] # l
  BY <1>1 DEF LoginsInv, disconnect
<1>4. QED
  BY <1>1, <1>2, <1>3 DEF LoginsInv

LEMMA TearDownKeeps ==
  ASSUME IdInv, NEW m \in Machines, tearDownRemoved(m)
  PROVE  LoginsInv'
<1>1. LoginsInv
  BY DEF IdInv
<1>2. /\ login' \in [Logins -> Login]
      /\ \A n \in Logins : login'[n] = login[n] \/ (n = online[m] /\ login'[n].role = "closed")
  BY <1>1, ClosedIsALogin DEF LoginsInv, tearDownRemoved
<1>3. /\ online' \in [Machines -> Logins \cup {NoLogin}]
      /\ \A n \in Machines : online'[n] # NoLogin => n # m /\ online'[n] = online[n]
  BY <1>1 DEF LoginsInv, tearDownRemoved
<1>4. \A n \in Machines : n # m /\ online[n] # NoLogin => online[n] # online[m]
  BY <1>1 DEF LoginsInv
<1>5. \A n \in Logins : login'[n].role = "machine" => login'[n] = login[n]
  BY <1>2
<1>6. QED
  BY <1>1, <1>2, <1>3, <1>4, <1>5 DEF LoginsInv

LEMMA RebootstrapKeeps ==
  ASSUME IdInv, rebootstrap
  PROVE  LoginsInv'
<1>1. /\ login' \in [Logins -> Login] /\ \A l \in Logins : login'[l].role # "machine"
      /\ online' = [m \in Machines |-> NoLogin]
  BY ClosedIsALogin DEF rebootstrap
<1>2. QED
  BY <1>1 DEF LoginsInv

LEMMA LoginsUnchanged ==
  ASSUME LoginsInv, UNCHANGED <<login, online>>
  PROVE  LoginsInv'
  BY DEF LoginsInv

-----------------------------------------------------------------------------
(* Every step keeps every part.  The actions are grouped by the part that   *)
(* they leave alone.                                                        *)

\* Commands of administrators on people, on what names them and on machines.
RecordCommand ==
  \/ \E p \in Persons, k \in Keys :
       \/ \E role \in {"user", "admin"} : cmdPeopleAdd(p, role, k)
       \/ cmdPeopleKeysAdd(p, k) \/ cmdPeopleKeysRemove(p, k)
  \/ \E p \in Persons : cmdPeopleRemove(p) \/ \E q \in Persons : cmdPeopleRename(p, q)
  \/ \E p \in Persons, m \in Machines, kind \in {"grant", "goal"} : Refer(kind, p, m)
  \/ \E r \in refs : cmdGrantsRevoke(r)
  \/ \E e \in execs : recordRecentCommand(e)
  \/ \E m \in Machines, name \in Machines : cmdMachinesRename(m, name) \/ cmdMachinesRemove(m)

\* What gives a secret, or takes a window back.
SecretCommand ==
  \/ rebootstrap \/ cmdAdminPairingStart \/ cmdAdminPairingStop
  \/ \E m \in Machines : cmdMachinesEnrolCode(m)

\* What happens to connections.
Connection ==
  \/ \E m \in Machines : tearDownRemoved(m)
  \/ \E l \in Logins :
       \/ handleMachine(l) \/ loginBootstrap(l) \/ pairingKeyCallback(l) \/ disconnect(l)
       \/ \E m \in Machines : loginMachine(l, m)
       \/ \E i \in invites : loginEnrol(l, i)

\* What a person runs and approves.
Running ==
  \/ \E p \in Persons, m \in Machines : createRiskApproval(p, m) \/ forward(p, m)
  \/ \E a \in approvals : approveRiskApproval(a)

Redemption ==
  \E l \in Logins, k \in Keys :
    \/ \E i \in invites : runEnrol(l, i, k)
    \/ \E p \in Persons : runPairing(l, k, p) \/ runBootstrap(l, k, p)

LEMMA NextIsGrouped == Next => Tick \/ Running \/ RecordCommand \/ SecretCommand \/ Connection \/ Redemption
<1>1. ASSUME NEW p \in Persons, NEW k \in Keys,
             \/ \E role \in {"user", "admin"} : cmdPeopleAdd(p, role, k)
             \/ cmdPeopleKeysAdd(p, k) \/ cmdPeopleKeysRemove(p, k)
      PROVE  RecordCommand
  BY <1>1 DEF RecordCommand
<1>2. ASSUME NEW p \in Persons, cmdPeopleRemove(p) \/ \E q \in Persons : cmdPeopleRename(p, q)
      PROVE  RecordCommand
  BY <1>2 DEF RecordCommand
<1>3. ASSUME NEW p \in Persons, NEW m \in Machines, NEW kind \in {"grant", "goal"},
             Refer(kind, p, m)
      PROVE  RecordCommand
  BY <1>3 DEF RecordCommand
<1>4. ASSUME NEW r \in refs, cmdGrantsRevoke(r) PROVE RecordCommand
  BY <1>4 DEF RecordCommand
<1>5. ASSUME NEW m \in Machines, cmdMachinesRemove(m) \/ \E name \in Machines : cmdMachinesRename(m, name)
      PROVE  RecordCommand
  BY <1>5 DEF RecordCommand
<1>6. ASSUME NEW m \in Machines, cmdMachinesEnrolCode(m) PROVE SecretCommand
  BY <1>6 DEF SecretCommand
<1>7. ASSUME NEW m \in Machines, tearDownRemoved(m) PROVE Connection
  BY <1>7 DEF Connection
<1>8. ASSUME NEW l \in Logins,
             \/ handleMachine(l) \/ loginBootstrap(l) \/ pairingKeyCallback(l) \/ disconnect(l)
             \/ \E m \in Machines : loginMachine(l, m)
      PROVE  Connection
  BY <1>8 DEF Connection
<1>9. ASSUME NEW l \in Logins, NEW i \in invites, loginEnrol(l, i) \/ \E k \in Keys : runEnrol(l, i, k)
      PROVE  Connection \/ Redemption
  BY <1>9 DEF Connection, Redemption
<1>10. ASSUME NEW l \in Logins, NEW k \in Keys, NEW p \in Persons,
              runPairing(l, k, p) \/ runBootstrap(l, k, p)
       PROVE  Redemption
  BY <1>10 DEF Redemption
<1>11. rebootstrap \/ cmdAdminPairingStart \/ cmdAdminPairingStop => SecretCommand
  BY DEF SecretCommand
<1>12. ASSUME NEW p \in Persons, NEW m \in Machines, createRiskApproval(p, m) \/ forward(p, m)
       PROVE  Running
  BY <1>12 DEF Running
<1>13. ASSUME NEW a \in approvals, approveRiskApproval(a) PROVE Running
  BY <1>13 DEF Running
<1>14. ASSUME NEW e \in execs, recordRecentCommand(e) PROVE RecordCommand
  BY <1>14 DEF RecordCommand
<1>15. QED
  BY <1>1, <1>2, <1>3, <1>4, <1>5, <1>6, <1>7, <1>8, <1>9, <1>10, <1>11, <1>12, <1>13, <1>14 DEF Next

LEMMA FramesOfCommands ==
  ASSUME IdInv
  PROVE  /\ RecordCommand => UNCHANGED <<secretVars, login, online, now>>
         /\ SecretCommand => UNCHANGED <<record, hadAdmin, bought, births, removing, now>>
         /\ Connection => UNCHANGED <<record, hadAdmin, secretVars, births, now>>
         /\ Tick => UNCHANGED <<record, hadAdmin, secretVars, login, online, births, removing>>
         /\ Running => UNCHANGED <<record, hadAdmin, secretVars, login, online, births, removing, now>>
<1>1. RecordCommand => UNCHANGED <<secretVars, login, online, now>>
  BY DEF RecordCommand, cmdPeopleAdd, cmdPeopleKeysAdd, cmdPeopleKeysRemove, cmdPeopleRemove,
         cmdPeopleRename, Refer, cmdGrantsRevoke, recordRecentCommand, cmdMachinesRename, cmdMachinesRemove,
         secretVars, pending, ssh
<1>2. SecretCommand => UNCHANGED <<record, hadAdmin, bought, births, removing, now>>
  BY DEF SecretCommand, rebootstrap, cmdAdminPairingStart, cmdAdminPairingStop, cmdMachinesEnrolCode,
         ssh, ghost
<1>3. Connection => UNCHANGED <<record, hadAdmin, secretVars, births, now>>
  BY DEF Connection, tearDownRemoved, handleMachine, loginBootstrap, pairingKeyCallback, disconnect,
         loginMachine, loginEnrol, secretVars, pending, ghost
<1>4. Tick => UNCHANGED <<record, hadAdmin, secretVars, login, online, births, removing>>
  BY DEF Tick, secretVars, pending, ssh, ghost
<1>5. Running => UNCHANGED <<record, hadAdmin, secretVars, login, online, births, removing, now>>
  BY DEF Running, createRiskApproval, forward, approveRiskApproval, secretVars, pending, ssh, ghost
<1>6. QED
  BY <1>1, <1>2, <1>3, <1>4, <1>5

LEMMA RecordStep ==
  ASSUME IdInv, Next
  PROVE  RecordInv'
<1>1. CASE Tick \/ Running \/ SecretCommand \/ Connection
  BY <1>1, FramesOfCommands, RecordUnchanged DEF IdInv
<1>2. CASE RecordCommand
  <2>1. ASSUME NEW p \in Persons, NEW k \in Keys,
               \/ \E role \in {"user", "admin"} : cmdPeopleAdd(p, role, k)
               \/ cmdPeopleKeysAdd(p, k) \/ cmdPeopleKeysRemove(p, k)
        PROVE  RecordInv'
    BY <2>1, AddKeeps, KeysCommandsKeep
  <2>2. ASSUME NEW p \in Persons, cmdPeopleRemove(p) \/ \E q \in Persons : cmdPeopleRename(p, q)
        PROVE  RecordInv'
    BY <2>2, RemoveKeeps, RenameKeeps
  <2>3. ASSUME NEW p \in Persons, NEW m \in Machines, NEW kind \in {"grant", "goal"},
               Refer(kind, p, m)
        PROVE  RecordInv'
    BY <2>3, ReferKeeps
  <2>4. /\ \A r \in refs : cmdGrantsRevoke(r) => RecordInv'
        /\ \A e \in execs : recordRecentCommand(e) => RecordInv'
    BY RevokeKeeps, HistoryKeeps
  <2>5. ASSUME NEW m \in Machines, NEW name \in Machines, cmdMachinesRename(m, name) \/ cmdMachinesRemove(m)
        PROVE  RecordInv'
    BY <2>5, MachineCommandsKeep
  <2>6. QED
    BY <1>2, <2>1, <2>2, <2>3, <2>4, <2>5 DEF RecordCommand
<1>3. CASE Redemption
  BY <1>3, EnrolKeeps, PairingKeeps, BootstrapKeeps DEF Redemption
<1>4. QED
  BY <1>1, <1>2, <1>3, NextIsGrouped

LEMMA SecretsStep ==
  ASSUME IdInv, Next
  PROVE  SecretsInv'
<1>1. SecretsInv /\ now \in 0..MaxTime
  BY DEF IdInv, CountersOK
<1>2. CASE Tick \/ Running \/ RecordCommand \/ Connection
  BY <1>1, <1>2, FramesOfCommands, SecretsUnchanged
<1>3. CASE SecretCommand
  <2>1. CASE rebootstrap
    BY <1>1, <2>1, FreshKeeps DEF rebootstrap
  <2>2. CASE cmdAdminPairingStart
    BY <1>1, <2>2, FreshKeeps DEF cmdAdminPairingStart
  <2>3. CASE cmdAdminPairingStop
    BY <2>3, StopKeeps
  <2>4. ASSUME NEW m \in Machines, cmdMachinesEnrolCode(m) PROVE SecretsInv'
    BY <1>1, <2>4, InvitationKeeps DEF cmdMachinesEnrolCode
  <2>5. QED
    BY <1>3, <2>1, <2>2, <2>3, <2>4 DEF SecretCommand
<1>4. CASE Redemption
  BY <1>4, EnrolSpends, PairingSpends, BootstrapSpends DEF Redemption
<1>5. QED
  BY <1>2, <1>3, <1>4, NextIsGrouped

LEMMA LoginsStep ==
  ASSUME IdInv, Next
  PROVE  LoginsInv'
<1>1. LoginsInv
  BY DEF IdInv
<1>2. CASE Tick \/ Running \/ RecordCommand
  BY <1>1, <1>2, FramesOfCommands, LoginsUnchanged
<1>3. CASE SecretCommand
  <2>1. CASE rebootstrap
    BY <2>1, RebootstrapKeeps
  <2>2. CASE cmdAdminPairingStart \/ cmdAdminPairingStop \/ \E m \in Machines : cmdMachinesEnrolCode(m)
    BY <1>1, <2>2, LoginsUnchanged DEF cmdAdminPairingStart, cmdAdminPairingStop, cmdMachinesEnrolCode, ssh
  <2>3. QED
    BY <1>3, <2>1, <2>2 DEF SecretCommand
<1>4. CASE Connection
  <2>1. ASSUME NEW m \in Machines, tearDownRemoved(m) PROVE LoginsInv'
    BY <2>1, TearDownKeeps
  <2>2. ASSUME NEW l \in Logins,
               \/ handleMachine(l) \/ loginBootstrap(l) \/ pairingKeyCallback(l) \/ disconnect(l)
               \/ \E m \in Machines : loginMachine(l, m)
               \/ \E i \in invites : loginEnrol(l, i)
        PROVE  LoginsInv'
    BY <2>2, RegistrationKeeps, DisconnectKeeps, RoleLoginsKeep
  <2>3. QED
    BY <1>4, <2>1, <2>2 DEF Connection
<1>5. CASE Redemption
  <2>1. PICK l \in Logins : login[l].role # "machine" /\ Served(l)
    BY <1>5 DEF Redemption, runEnrol, runPairing, runBootstrap
  <2>2. QED
    BY <1>1, <2>1, ServedKeeps
<1>6. QED
  BY <1>2, <1>3, <1>4, <1>5, NextIsGrouped

LEMMA CountersStep ==
  ASSUME IdInv, Next
  PROVE  CountersOK'
<1>1. CountersOK
  BY DEF IdInv
<1>2. UNCHANGED births \/ Born
  <2>1. RecordCommand => UNCHANGED births \/ Born
    BY DEF RecordCommand, cmdPeopleAdd, cmdPeopleKeysAdd, cmdPeopleKeysRemove, cmdPeopleRemove,
           cmdPeopleRename, Refer, cmdGrantsRevoke, recordRecentCommand, cmdMachinesRename, cmdMachinesRemove
  <2>2. Redemption => UNCHANGED births \/ Born
    BY ZenonT(60) DEF Redemption, runEnrol, runPairing, runBootstrap
  <2>3. QED
    BY <2>1, <2>2, FramesOfCommands, NextIsGrouped
<1>3. births' \in Births
  BY <1>1, <1>2, BornIsABirth DEF CountersOK
<1>4. now' \in 0..MaxTime
  <2>1. Redemption => UNCHANGED now
    BY DEF Redemption, runEnrol, runPairing, runBootstrap
  <2>2. Tick => now' \in 0..MaxTime
    BY <1>1, IdentitiesAssumption DEF Tick, CountersOK
  <2>3. QED
    BY <1>1, <2>1, <2>2, FramesOfCommands, NextIsGrouped DEF CountersOK
<1>5. removing' \subseteq Machines
  <2>1. RecordCommand => UNCHANGED removing \/ \E m \in Machines : removing' = {m}
    BY DEF RecordCommand, cmdPeopleAdd, cmdPeopleKeysAdd, cmdPeopleKeysRemove, cmdPeopleRemove,
           cmdPeopleRename, Refer, cmdGrantsRevoke, recordRecentCommand, cmdMachinesRename, cmdMachinesRemove, ssh
  <2>2. Connection => UNCHANGED removing \/ removing' = {}
    BY DEF Connection, tearDownRemoved, handleMachine, loginBootstrap, pairingKeyCallback, disconnect,
           loginMachine, loginEnrol
  <2>3. Redemption => UNCHANGED removing
    BY DEF Redemption, runEnrol, runPairing, runBootstrap, Served
  <2>4. QED
    BY <1>1, <2>1, <2>2, <2>3, FramesOfCommands, NextIsGrouped DEF CountersOK
<1>6. QED
  BY <1>3, <1>4, <1>5 DEF CountersOK

LEMMA SessionsStep ==
  ASSUME IdInv, Next
  PROVE  SessionsOK'
<1>1. /\ SessionsOK /\ now \in 0..MaxTime /\ MaxTime \in Nat /\ MaxExecs \in Nat
      /\ people \in [Persons -> Person] /\ machines \in [Machines -> Machine]
  BY IdentitiesAssumption DEF IdInv, RecordInv, RecordOK, CountersOK
<1>2. now + 1 \in 0..MaxTime + 1
  BY <1>1
<1>3. ASSUME NEW p \in Persons, NEW m \in Machines
      PROVE  /\ people[p].born \in Births /\ machines[m].born \in Births
             /\ New => ran' \in 0..MaxExecs
  BY <1>1 DEF Person, Machine, New, SessionsOK
<1>4. ASSUME NEW p \in Persons, NEW m \in Machines, createRiskApproval(p, m) PROVE SessionsOK'
  <2> DEFINE new == [person |-> p, machine |-> m, pb |-> people[p].born, mb |-> machines[m].born,
                     till |-> now + 1, approved |-> FALSE]
             waiting == {a \in Named(p, m) : ~a.approved}
  <2>1. new \in Approval
    BY <1>2, <1>3 DEF Approval
  <2>2. \A a \in waiting : [a EXCEPT !.till = now + 1] \in Approval
    BY <1>1, <1>2 DEF SessionsOK, Approval, Named
  <2>3. /\ approvals' \subseteq approvals \cup {new} \cup {[a EXCEPT !.till = now + 1] : a \in waiting}
        /\ execs' = execs /\ (ran' = ran \/ New)
    BY <1>4 DEF createRiskApproval
  <2> HIDE DEF new, waiting
  <2>4. QED
    BY <1>1, <1>3, <2>1, <2>2, <2>3 DEF SessionsOK
<1>5. ASSUME NEW p \in Persons, NEW m \in Machines, forward(p, m) PROVE SessionsOK'
  <2> DEFINE new == [person |-> p, machine |-> m, pb |-> people[p].born, mb |-> machines[m].born]
  <2>1. new \in Exec
    BY <1>3 DEF Exec
  <2>2. approvals' \subseteq approvals /\ execs' = execs \cup {new} /\ (ran' = ran \/ New)
    BY <1>5 DEF forward
  <2> HIDE DEF new
  <2>3. QED
    BY <1>1, <1>3, <2>1, <2>2 DEF SessionsOK
<1>6. ASSUME NEW a \in approvals, approveRiskApproval(a) PROVE SessionsOK'
  <2>1. [a EXCEPT !.approved = TRUE] \in Approval
    BY <1>1 DEF SessionsOK, Approval
  <2>2. QED
    BY <1>1, <1>6, <2>1 DEF SessionsOK, approveRiskApproval
<1>7. CASE Running
  BY <1>4, <1>5, <1>6, <1>7 DEF Running
<1>8. CASE Tick \/ Connection
  BY <1>1, <1>8 DEF SessionsOK, Tick, Connection, tearDownRemoved, handleMachine, loginBootstrap,
     pairingKeyCallback, disconnect, loginMachine, loginEnrol, sessions
<1>9. CASE RecordCommand
  <2>1. execs' \subseteq execs /\ UNCHANGED <<approvals, ran>>
    BY <1>9 DEF RecordCommand, cmdPeopleAdd, cmdPeopleKeysAdd, cmdPeopleKeysRemove, cmdPeopleRemove,
       cmdPeopleRename, Refer, cmdGrantsRevoke, recordRecentCommand, cmdMachinesRename, cmdMachinesRemove, sessions
  <2>2. QED
    BY <1>1, <2>1 DEF SessionsOK
<1>10. CASE SecretCommand
  BY <1>1, <1>10 DEF SessionsOK, SecretCommand, rebootstrap, cmdAdminPairingStart, cmdAdminPairingStop,
     cmdMachinesEnrolCode, sessions
<1>11. CASE Redemption
  <2>1. UNCHANGED sessions
    BY <1>11 DEF Redemption, runEnrol, runPairing, runBootstrap
  <2>2. QED
    BY <1>1, <2>1 DEF SessionsOK, sessions
<1>12. QED
  BY <1>7, <1>8, <1>9, <1>10, <1>11, NextIsGrouped

LEMMA StutterKeeps == IdInv /\ UNCHANGED vars => IdInv'
<1>1. ASSUME IdInv, UNCHANGED vars PROVE RecordInv'
  BY <1>1, RecordUnchanged DEF IdInv, vars, ghost
<1>2. ASSUME IdInv, UNCHANGED vars PROVE SecretsInv'
  BY <1>2, SecretsUnchanged DEF IdInv, vars, ghost, secretVars
<1>3. ASSUME IdInv, UNCHANGED vars PROVE LoginsInv'
  BY <1>3, LoginsUnchanged DEF IdInv, vars, ssh
<1>4. ASSUME IdInv, UNCHANGED vars PROVE CountersOK'
  BY <1>4 DEF IdInv, CountersOK, vars, ssh, ghost
<1>5. ASSUME IdInv, UNCHANGED vars PROVE SessionsOK'
  BY <1>5 DEF IdInv, SessionsOK, vars, sessions
<1>6. QED
  BY <1>1, <1>2, <1>3, <1>4, <1>5 DEF IdInv

LEMMA InitRecord == Init => RecordInv
<1> SUFFICES ASSUME Init PROVE RecordInv
  OBVIOUS
<1>1. /\ people = [p \in Persons |-> Nobody] /\ machines = [m \in Machines |-> NoMachine(m)]
      /\ refs = {} /\ hadAdmin = FALSE
  BY DEF Init
<1>2. 0 \in Births /\ NoKey \notin Keys
  BY IdentitiesAssumption DEF Births
<1>3. people \in [Persons -> Person] /\ \A p \in Persons : people[p].keys = {}
  BY <1>1, <1>2 DEF Person, Nobody
<1>4. machines \in [Machines -> Machine] /\ \A m \in Machines : machines[m].key = NoKey
  BY <1>1, <1>2 DEF Machine, NoMachine
<1>5. validate(people, machines, refs)
  BY <1>1, <1>3, <1>4 DEF validate
<1>6. QED
  BY <1>1, <1>3, <1>4, <1>5 DEF RecordInv, RecordOK, NothingInherited

LEMMA InitSecrets == Init => SecretsInv
<1> SUFFICES ASSUME Init PROVE SecretsInv
  OBVIOUS
<1>1. /\ invites = {} /\ window = NoSecret /\ boot = [secret |-> 1, till |-> 1, misses |-> 0]
      /\ issued = 1 /\ bought = {} /\ missed = [s \in Secrets |-> 0]
  BY DEF Init
<1>2. window \in Window /\ window.secret = 0
  BY <1>1, NoSecretIsNone DEF NoWindow
<1>3. 1 \in 0..MaxSecrets
  BY IdentitiesAssumption
<1>4. boot \in Window /\ boot.secret = 1
  BY <1>1, <1>3 DEF Window
<1>5. SecretsOK /\ Apart
  BY <1>1, <1>2, <1>3, <1>4 DEF SecretsOK, Apart
<1>6. Redeemable \subseteq {1}
  BY <1>1, <1>2, <1>4 DEF Redeemable
<1>7. /\ \A s \in Redeemable : s <= issued
      /\ \A s \in Secrets : s > issued => missed[s] = 0
  BY <1>1, <1>6
<1>8. SecretsAreSpent
  BY <1>1, <1>2, IdentitiesAssumption DEF SecretsAreSpent, SecretBuysOne, GuessesBounded, MissesAreItsOwn
<1>9. QED
  BY <1>1, <1>2, <1>5, <1>7, <1>8 DEF SecretsInv

LEMMA InitOK == Init => IdInv
<1> SUFFICES ASSUME Init PROVE IdInv
  OBVIOUS
<1>1. LoginsInv
  BY ClosedIsALogin DEF Init, LoginsInv
<1>2. CountersOK
  BY IdentitiesAssumption DEF Init, CountersOK, Births
<1>3. SessionsOK
  BY IdentitiesAssumption DEF Init, SessionsOK
<1>4. QED
  BY <1>1, <1>2, <1>3, InitRecord, InitSecrets DEF IdInv

\* In every reachable state the record is valid, the secrets are apart and the
\* registry says what the connections are.
THEOREM IdentitiesInvariant == Spec => []IdInv
<1>1. Init => IdInv
  BY InitOK
<1>2. IdInv /\ [Next]_vars => IdInv'
  <2>1. IdInv /\ Next => IdInv'
    BY RecordStep, SecretsStep, LoginsStep, SessionsStep, CountersStep DEF IdInv
  <2>2. QED
    BY <2>1, StutterKeeps
<1>3. QED
  BY <1>1, <1>2, PTL DEF Spec

\* A key has one owner, a machine's name is no other's, every reference leads
\* somewhere (state/validate.go).
THEOREM TypeCorrect == Spec => []TypeOK
<1>1. IdInv => TypeOK
  BY IdInvSuffices
<1>2. QED
  BY <1>1, IdentitiesInvariant, PTL

\* A grant, a goal, and a history written while its person had the name, is
\* never met by another of the same name (state/model.go reconcileGrants,
\* reconcileRecentCommands, RenamePerson); a session that drains late writes
\* under the name it had (recent_commands.go).
THEOREM NamesInheritNothing == Spec => []NothingInherited
<1>1. IdInv => NothingInherited
  BY IdInvSuffices
<1>2. QED
  BY <1>1, IdentitiesInvariant, PTL

\* An invitation, a PIN, a bootstrap token make one identity each, and a window
\* hears no more wrong PINs than its limit, each from a login of its own
\* (enrol_role.go, pairing_role.go, bootstrap_role.go).
THEOREM EachSecretBuysOne == Spec => []SecretsAreSpent
<1>1. IdInv => SecretsAreSpent
  BY IdInvSuffices
<1>2. QED
  BY <1>1, IdentitiesInvariant, PTL

-----------------------------------------------------------------------------
(* Administrators. *)

\* Only a redemption buys, and it ends the connection it was made on and no
\* other.
LEMMA OnlyRedemptionBuys ==
  ASSUME IdInv, Next, bought' # bought
  PROVE  Redemption
<1>1. RecordCommand \/ Connection \/ Running \/ Tick => bought' = bought
  BY FramesOfCommands DEF secretVars
<1>2. SecretCommand => bought' = bought
  BY FramesOfCommands
<1>3. QED
  BY <1>1, <1>2, NextIsGrouped

LEMMA BootstrapComesFirst ==
  ASSUME IdInv, Next
  PROVE  BootstrapIsFirst
<1> SUFFICES ASSUME NEW l \in Logins, login[l].role = "bootstrap", bought' # bought, login'[l] # login[l]
             PROVE  ~hadAdmin
  BY DEF BootstrapIsFirst
<1>1. Redemption
  BY OnlyRedemptionBuys
<1>2. login \in [Logins -> Login] /\ (hadAdmin => hasAnyAdmin(people))
  BY DEF IdInv, LoginsInv, RecordInv
<1>3. ASSUME NEW n \in Logins, Served(n) PROVE n = l
  BY <1>2, <1>3 DEF Served
<1>4. ASSUME NEW n \in Logins, NEW k \in Keys, NEW i \in invites, runEnrol(n, i, k) PROVE FALSE
  <2>1. n = l /\ login[n].role = "enrol"
    BY <1>3, <1>4 DEF runEnrol
  <2>2. QED
    BY <2>1
<1>5. ASSUME NEW n \in Logins, NEW k \in Keys, NEW p \in Persons, runPairing(n, k, p) PROVE FALSE
  <2>1. n = l /\ login[n].role = "pairing"
    BY <1>3, <1>5 DEF runPairing
  <2>2. QED
    BY <2>1
<1>6. ASSUME NEW n \in Logins, NEW k \in Keys, NEW p \in Persons, runBootstrap(n, k, p)
      PROVE  ~hasAnyAdmin(people)
  BY <1>6 DEF runBootstrap
<1>7. QED
  BY <1>1, <1>2, <1>4, <1>5, <1>6 DEF Redemption

\* Once there is an administrator there always is one (admin_role.go
\* cmdPeopleRemove), and the bootstrap token makes the first or none at all.
THEOREM AdministratorStays == Spec => AdministratorIsKept
<1>1. IdInv /\ IdInv' /\ [Next]_vars => [BootstrapIsFirst /\ (hadAdmin' => hasAnyAdmin(people'))]_vars
  <2>1. ASSUME IdInv, IdInv', Next PROVE BootstrapIsFirst /\ (hadAdmin' => hasAnyAdmin(people'))
    <3>1. hadAdmin' => hasAnyAdmin(people')
      BY <2>1 DEF IdInv, RecordInv
    <3>2. QED
      BY <2>1, <3>1, BootstrapComesFirst
  <2>2. QED
    BY <2>1
<1>2. QED
  BY <1>1, IdentitiesInvariant, PTL DEF Spec, AdministratorIsKept
=============================================================================
