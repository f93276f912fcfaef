---------------------------- MODULE SessionProofs ---------------------------
(***************************************************************************)
(* A person's sessions: that none outlives the rights on record, and that  *)
(* the journal tells the truth of the files it moved.                      *)
(*                                                                         *)
(* Record and engine agree, and no live session outlives what is on        *)
(* record, for any people, machines, sessions, accounts and clock.         *)
(***************************************************************************)
EXTENDS Access, Sftp, FiniteSetTheorems, SequenceTheorems, TLAPS

\* A pair nobody works on: whatever side gives access, both give the same.
Agree(p) == InForce(grants[p]) \/ InForce(eGrants[p]) => eGrants[p] = grants[p]

\* What the command inside the mutex has still to do explains every difference
\* between record and engine: a pair only to be revoked is off the record, a
\* pair to be added is on it, and until then the engine allows no more.
Settles ==
  \A p \in Pairs :
    /\ p \notin toRevoke \cup toAdd => Agree(p)
    /\ p \in toRevoke \ toAdd => ~InForce(grants[p])
    /\ p \in toAdd => Held(p)
    /\ p \in toAdd \ toRevoke /\ InForce(eGrants[p]) /\ eGrants[p].caps = "shell"
         => grants[p].caps = "shell"

\* A revocation finds the grant a live session stands on.
LiveIsKnown == \A s \in live : eGrants[pair[s]] # NoGrant

AccessInv == TypeOK /\ Settles /\ LiveIsKnown /\ LiveSessionPermitted

\* The numbers behind the deadlines.
LEMMA Times ==
  /\ MaxTime \in Nat /\ Never \in Nat /\ Never > MaxTime
  /\ \A d \in Deadlines : d \in Nat /\ d > 0
  /\ \A d \in 0..Never : d \in Nat
  /\ \A t \in 0..MaxTime : t \in Nat
BY AccessTime DEF Never, Deadlines

\* A grant on record is a deadline, a capability and no revocation, or nothing,
\* and nothing is in force nowhere.
LEMMA GrantShape ==
  ASSUME TypeOK, NEW p \in Pairs
  PROVE  /\ clock \in Nat
         /\ grants[p].until \in Nat /\ eGrants[p].until \in Nat
         /\ grants[p].caps \in Caps /\ eGrants[p].caps \in Caps
         /\ grants[p].revoked = FALSE
         /\ Held(p) <=> grants[p].until > 0
         /\ InForce(grants[p]) => Held(p)
         /\ InForce(eGrants[p]) => eGrants[p] # NoGrant
<1>1. clock \in Nat
  BY Times DEF TypeOK
<1>2. grants[p] \in Granted /\ eGrants[p] \in [until : 0..Never, caps : Caps, revoked : BOOLEAN]
  BY DEF TypeOK
<1>3. grants[p] # NoGrant => grants[p] \in [until : Deadlines, caps : Caps, revoked : {FALSE}]
  BY <1>2 DEF Granted
<1>4. grants[p] # NoGrant => grants[p].until \in Nat /\ grants[p].until > 0 /\ grants[p].caps \in Caps /\ grants[p].revoked = FALSE
  BY <1>3, Times
<1>5. NoGrant.until = 0 /\ NoGrant.caps \in Caps /\ NoGrant.revoked = FALSE
  BY DEF NoGrant, Caps
<1>6. eGrants[p].until \in Nat /\ eGrants[p].caps \in Caps
  BY <1>2, Times
<1> QED
  BY <1>1, <1>4, <1>5, <1>6 DEF Held, InForce

\* The invariant holds before the first command.
LEMMA AccessInit == Init => AccessInv
<1> SUFFICES ASSUME Init PROVE AccessInv
  OBVIOUS
<1>1. NoGrant \in Granted /\ NoGrant \in [until : 0..Never, caps : Caps, revoked : BOOLEAN]
  BY Times DEF Granted, NoGrant, Caps
<1>2. TypeOK
  BY <1>1, Times DEF Init, TypeOK, Held
<1>3. Settles
  BY <1>2 DEF Init, Settles, Agree
<1> QED
  BY <1>2, <1>3 DEF Init, AccessInv, LiveIsKnown, LiveSessionPermitted

\* Whoever touches neither the record's grants nor the engine's settles nothing.
LEMMA SettlesKept ==
  ASSUME Settles, UNCHANGED <<clock, grants, eGrants, toRevoke, toAdd>>
  PROVE  Settles'
BY DEF Settles, Agree, InForce, Held

\* With the mutex free, record and engine agree and every live session is permitted.
LEMMA AtRest ==
  ASSUME AccessInv, Unlocked
  PROVE  /\ \A p \in Pairs : Agree(p)
         /\ \A s \in live : Held(pair[s]) /\ (shell[s] => grants[pair[s]].caps = "shell")
         /\ toRevoke = {} /\ toAdd = {} /\ toKill = {}
BY DEF AccessInv, Settles, Unlocked, LiveSessionPermitted

\* The commands that leave the grants alone.
LEMMA RecordKeeps ==
  ASSUME AccessInv,
         \/ \E n \in People : cmdPeopleAdd(n)
         \/ \E m \in Machines, u \in Users : enrol(m, u) \/ cmdMachinesSetUser(m, u)
         \/ \E m \in Machines : finishSSHDProbe(m)
  PROVE  AccessInv'
<1> USE DEF AccessInv
<1>1. TypeOK'
  <2>1. CASE \E n \in People : cmdPeopleAdd(n)
    BY <2>1 DEF cmdPeopleAdd, TypeOK, Held, owed, sessions
  <2>2. CASE \E m \in Machines, u \in Users : enrol(m, u)
    BY <2>2 DEF enrol, TypeOK, Held, owed, sessions
  <2>3. CASE \E m \in Machines, u \in Users : cmdMachinesSetUser(m, u)
    BY <2>3 DEF cmdMachinesSetUser, TypeOK, Held, sessions
  <2>4. CASE \E m \in Machines : finishSSHDProbe(m)
    BY <2>4 DEF finishSSHDProbe, TypeOK, Held, owed, sessions
  <2> QED
    BY <2>1, <2>2, <2>3, <2>4
<1>2. Settles'
  BY SettlesKept DEF cmdPeopleAdd, enrol, cmdMachinesSetUser, finishSSHDProbe, owed, sessions
<1>3. LiveIsKnown' /\ LiveSessionPermitted'
  BY AtRest DEF cmdPeopleAdd, enrol, cmdMachinesSetUser, finishSSHDProbe, LiveIsKnown, LiveSessionPermitted, Held, owed, sessions
<1> QED
  BY <1>1, <1>2, <1>3

\* people.remove: what leaves the record is to be revoked.
LEMMA PeopleRemoveKeeps ==
  ASSUME AccessInv, NEW n \in People, cmdPeopleRemove(n) PROVE AccessInv'
<1> USE DEF AccessInv, cmdPeopleRemove, reconcileGrants, Withdrawn, sessions
<1>1. TypeOK'
  BY DEF TypeOK, Held, Pairs, LiveOf, Granted
<1>2. Settles'
  <2> SUFFICES ASSUME NEW p \in Pairs
               PROVE  /\ p \notin toRevoke' => Agree(p)'
                      /\ p \in toRevoke' => ~InForce(grants[p])'
    BY AtRest DEF Settles
  <2>1. Agree(p) /\ toAdd = {}
    BY AtRest
  <2>2. CASE p[1] = n
    <3>1. ~InForce(grants[p])'
      BY <2>2, Times DEF InForce, NoGrant, TypeOK
    <3>2. p \notin toRevoke' => ~InForce(grants[p]) /\ ~InForce(eGrants[p])
      BY <2>1, <2>2, GrantShape DEF Agree
    <3> QED
      BY <3>1, <3>2 DEF Agree, InForce
  <2>3. CASE p[1] # n
    <3>1. grants'[p] = grants[p] /\ p \notin toRevoke'
      BY <2>3 DEF Held, TypeOK
    <3> QED
      BY <2>1, <3>1 DEF Agree, InForce
  <2> QED
    BY <2>2, <2>3
<1>3. LiveIsKnown' /\ LiveSessionPermitted'
  BY AtRest DEF LiveIsKnown, LiveSessionPermitted, LiveOf, Held, TypeOK
<1> QED
  BY <1>1, <1>2, <1>3

\* machines.remove: the sessions of the machine stand on pairs to be revoked.
LEMMA MachinesRemoveKeeps ==
  ASSUME AccessInv, NEW m \in Machines, cmdMachinesRemove(m) PROVE AccessInv'
<1> USE DEF AccessInv, cmdMachinesRemove, reconcileGrants, Withdrawn, sessions
<1>1. TypeOK'
  BY DEF TypeOK, Held, Pairs, Granted
<1>2. Settles'
  <2> SUFFICES ASSUME NEW p \in Pairs
               PROVE  /\ p \notin toRevoke' => Agree(p)'
                      /\ p \in toRevoke' => ~InForce(grants[p])'
    BY AtRest DEF Settles
  <2>1. Agree(p) /\ toAdd = {}
    BY AtRest
  <2>2. CASE p[2] = m
    <3>1. ~InForce(grants[p])'
      BY <2>2, Times DEF InForce, NoGrant, TypeOK
    <3>2. p \notin toRevoke' => ~InForce(grants[p]) /\ ~InForce(eGrants[p])
      BY <2>1, <2>2, GrantShape DEF Agree
    <3> QED
      BY <3>1, <3>2 DEF Agree, InForce
  <2>3. CASE p[2] # m
    <3>1. grants'[p] = grants[p] /\ p \notin toRevoke'
      BY <2>3 DEF Held, TypeOK
    <3> QED
      BY <2>1, <3>1 DEF Agree, InForce
  <2> QED
    BY <2>2, <2>3
<1>3. LiveIsKnown' /\ LiveSessionPermitted'
  BY AtRest DEF LiveIsKnown, LiveSessionPermitted, Held, TypeOK, Pairs
<1> QED
  BY <1>1, <1>2, <1>3

\* people.rename: the new name had nothing on either side, and what is not
\* moved had run out.
LEMMA PeopleRenameKeeps ==
  ASSUME AccessInv, NEW n \in People, NEW to \in People, NEW now \in 0..clock,
         cmdPeopleRename(n, to, now)
  PROVE  AccessInv'
<1> USE DEF AccessInv, cmdPeopleRename, RenamePerson, sessions
<1> DEFINE reached == {m \in Machines : grants[<<n, m>>].until > now}
<1>1. toRevoke' = {n} \X reached /\ toAdd' = {to} \X reached /\ n # to
  OBVIOUS
<1>2. TypeOK'
  <2>1. grants' \in [Pairs -> Granted]
    BY DEF TypeOK, Pairs, Granted
  <2>2. \A p \in Pairs : Held(p)' => p[1] \in people' /\ p[2] \in machines'
    <3> SUFFICES ASSUME NEW p \in Pairs, Held(p)' PROVE p[1] \in people' /\ p[2] \in machines'
      OBVIOUS
    <3>1. p[1] # n
      BY DEF Held
    <3>2. CASE p[1] = to
      <4>1. <<n, p[2]>> \in Pairs
        BY DEF Pairs
      <4>2. Held(<<n, p[2]>>)
        BY <3>1, <3>2 DEF Held
      <4> QED
        BY <4>1, <4>2, <3>2 DEF TypeOK
    <3>3. CASE p[1] # to
      BY <3>1, <3>3 DEF Held, TypeOK
    <3> QED
      BY <3>2, <3>3
  <2>3. toRevoke' \subseteq Pairs /\ toAdd' \subseteq Pairs /\ toKill' \subseteq Sessions
    BY <1>1 DEF Pairs, LiveOf, TypeOK
  <2> QED
    BY <2>1, <2>2, <2>3 DEF TypeOK
<1>3. \A m \in Machines : ~Held(<<to, m>>)
  BY DEF TypeOK, Pairs
<1>4. Settles'
  <2> SUFFICES ASSUME NEW p \in Pairs
               PROVE  (/\ p \notin toRevoke \cup toAdd => Agree(p)
                       /\ p \in toRevoke \ toAdd => ~InForce(grants[p])
                       /\ p \in toAdd => Held(p)
                       /\ p \in toAdd \ toRevoke /\ InForce(eGrants[p]) /\ eGrants[p].caps = "shell"
                            => grants[p].caps = "shell")'
    BY DEF Settles
  <2>1. PICK q \in People, m \in Machines : p = <<q, m>>
    BY DEF Pairs
  <2>2. p[1] = q /\ p[2] = m /\ <<n, m>> \in Pairs /\ <<to, m>> \in Pairs
    BY <2>1 DEF Pairs
  <2>3. now \in Nat /\ now <= clock /\ clock \in Nat
    BY Times DEF TypeOK
  <2> HIDE DEF cmdPeopleRename
  <2>n. /\ grants[p].until \in Nat /\ grants[<<n, m>>].until \in Nat
        /\ Held(<<n, m>>) <=> grants[<<n, m>>].until > 0
    BY <2>2, GrantShape
  <2> USE DEF cmdPeopleRename
  <2>4. CASE q = n
    <3>1. grants'[p] = NoGrant /\ p \notin toAdd' /\ (p \in toRevoke' <=> grants[p].until > now)
      BY <1>1, <2>1, <2>2, <2>4
    <3>2. Agree(p)
      BY AtRest
    <3>3. ~InForce(grants[p])'
      BY <3>1, <2>3 DEF InForce, NoGrant
    <3>4. p \notin toRevoke' => ~InForce(grants[p])
      BY <3>1, <2>3, <2>n DEF InForce
    <3>5. p \notin toRevoke' => ~InForce(eGrants[p])
      BY <3>2, <3>4 DEF Agree
    <3> QED
      BY <3>1, <3>3, <3>5 DEF Agree, InForce
  <2>5. CASE q = to
    <3>1. grants'[p] = grants[<<n, m>>] /\ p \notin toRevoke' /\ (p \in toAdd' <=> grants[<<n, m>>].until > now)
      BY <1>1, <2>1, <2>2, <2>5
    <3>2. Agree(p) /\ ~Held(p)
      BY AtRest, <1>3, <2>1, <2>5
    <3>3. ~InForce(eGrants[p])
      BY <3>2, GrantShape DEF Agree
    <3>4. ~InForce(eGrants[p])'
      BY <3>3 DEF InForce
    <3>5. p \notin toAdd' => ~InForce(grants[p])'
      BY <3>1, <2>3, <2>n DEF InForce
    <3>6. p \in toAdd' => Held(p)'
      BY <3>1, <2>3, <2>n DEF Held
    <3> QED
      BY <3>1, <3>4, <3>5, <3>6 DEF Agree
  <2>6. CASE q # n /\ q # to
    <3>1. grants'[p] = grants[p] /\ p \notin toRevoke' /\ p \notin toAdd'
      BY <1>1, <2>1, <2>2, <2>6
    <3> QED
      BY <3>1, AtRest DEF Agree, InForce
  <2> QED
    BY <2>4, <2>5, <2>6
<1>5. LiveIsKnown'
  BY DEF LiveIsKnown
<1>6. LiveSessionPermitted'
  <2> SUFFICES ASSUME NEW s \in live, s \notin LiveOf(n)
               PROVE  (Held(pair[s]) /\ (shell[s] => grants[pair[s]].caps = "shell"))'
    BY DEF LiveSessionPermitted
  <2>1. pair[s] \in Pairs /\ Held(pair[s]) /\ (shell[s] => grants[pair[s]].caps = "shell")
    BY AtRest DEF TypeOK
  <2>2. pair[s][1] # n /\ pair[s][1] # to
    BY <2>1, <1>3 DEF LiveOf, TypeOK
  <2> QED
    BY <2>1, <2>2 DEF Held
<1> QED
  BY <1>2, <1>4, <1>5, <1>6

\* grants.grant: neither side had anything in force for the pair.
LEMMA GrantKeeps ==
  ASSUME AccessInv, NEW p \in Pairs, NEW until \in Deadlines, NEW caps \in Caps, NEW now \in 0..clock,
         cmdGrantsGrant(p, until, caps, now)
  PROVE  AccessInv'
<1> USE DEF AccessInv, cmdGrantsGrant, GrantAccess, sessions
<1>1. Grant(until, caps) \in Granted /\ Grant(until, caps) # NoGrant
  BY Times DEF Grant, Granted, NoGrant
<1>2. TypeOK'
  BY <1>1 DEF TypeOK, Held, Pairs
<1>3. ~InForce(eGrants[p])
  <2> HIDE DEF cmdGrantsGrant
  <2>1. Agree(p) /\ ~Held(p)
    BY AtRest DEF cmdGrantsGrant
  <2> QED
    BY <2>1, GrantShape DEF Agree
<1>4. Settles'
  BY <1>1, <1>2, <1>3, AtRest DEF Settles, Agree, InForce, Held, TypeOK
<1>5. LiveIsKnown' /\ LiveSessionPermitted'
  BY <1>1, AtRest DEF LiveIsKnown, LiveSessionPermitted, Held, TypeOK
<1> QED
  BY <1>2, <1>4, <1>5

\* grants.revoke: the pair leaves the record and is to be revoked.
LEMMA RevokeKeeps ==
  ASSUME AccessInv, NEW p \in Pairs, cmdGrantsRevoke(p) PROVE AccessInv'
<1> USE DEF AccessInv, cmdGrantsRevoke, RevokeAccess, sessions
<1>1. TypeOK'
  BY DEF TypeOK, Held, Pairs, Granted
<1>2. grants'[p] = NoGrant /\ \A q \in Pairs \ {p} : grants'[q] = grants[q]
  BY DEF TypeOK
<1>3. ~InForce(grants[p])'
  BY <1>2, Times DEF InForce, NoGrant, TypeOK
<1>4. Settles'
  BY <1>2, <1>3, AtRest DEF Settles, Agree, InForce, Held
<1>5. LiveIsKnown' /\ LiveSessionPermitted'
  BY <1>2, AtRest DEF LiveIsKnown, LiveSessionPermitted, Held, TypeOK
<1> QED
  BY <1>1, <1>4, <1>5

\* grants.set-caps: narrowing revokes first; widening gives the engine less than the record.
LEMMA SetCapsKeeps ==
  ASSUME AccessInv, NEW p \in Pairs, NEW caps \in Caps, NEW now \in 0..clock,
         cmdGrantsSetCaps(p, caps, now)
  PROVE  AccessInv'
<1> USE DEF AccessInv, cmdGrantsSetCaps, SetGrantCaps, sessions
<1>1. /\ grants[p] \in [until : Deadlines, caps : Caps, revoked : {FALSE}]
      /\ now \in Nat /\ clock \in Nat /\ now <= clock
  <2>1. clock \in Nat
    BY Times DEF TypeOK
  <2>2. grants[p] \in [until : Deadlines, caps : Caps, revoked : {FALSE}]
    BY DEF TypeOK, Granted, Held
  <2>3. now \in Nat /\ now <= clock
    BY <2>1
  <2> QED
    BY <2>1, <2>2, <2>3
<1>2. /\ grants'[p] \in [until : Deadlines, caps : Caps, revoked : {FALSE}]
      /\ grants'[p].until = grants[p].until /\ grants'[p].caps = caps
      /\ grants'[p] # NoGrant
  <2>1. grants'[p] = [grants[p] EXCEPT !.caps = caps]
    BY DEF TypeOK
  <2> DEFINE g == grants[p]
             h == [g EXCEPT !.caps = caps]
  <2> HIDE DEF g, cmdGrantsSetCaps
  <2>2. g \in [until : Deadlines, caps : Caps, revoked : {FALSE}] /\ g.until > 0
    BY <1>1, Times DEF g
  <2>3. /\ h \in [until : Deadlines, caps : Caps, revoked : {FALSE}]
        /\ h.until = g.until /\ h.caps = caps
        /\ h.until > 0
    BY <2>2, Times
  <2>4. h # NoGrant
    BY <2>3 DEF NoGrant
  <2> QED
    BY <2>1, <2>3, <2>4 DEF g
<1>3. \A q \in Pairs \ {p} : grants'[q] = grants[q]
  BY DEF TypeOK
<1>4. TypeOK'
  <2>1. grants' \in [Pairs -> Granted]
    BY <1>2, <1>3 DEF TypeOK, Granted
  <2>2. \A q \in Pairs : Held(q)' => Held(q)
    BY <1>3 DEF Held
  <2> QED
    BY <2>1, <2>2 DEF TypeOK
<1>5. Settles'
  <2>1. ASSUME NEW q \in Pairs \ {p} PROVE Agree(q)' /\ q \notin toRevoke' \cup toAdd'
    BY <1>3, AtRest DEF Agree, InForce
  <2>2. p \notin toAdd' => ~InForce(grants[p])' /\ ~InForce(grants[p])
    <3>1. grants[p].until \in Nat
      BY <1>1, Times
    <3>2. p \notin toAdd' => grants[p].until <= clock
      BY <1>1, <3>1
    <3> QED
      BY <1>1, <1>2, <3>1, <3>2 DEF InForce
  <2>3. p \notin toAdd' => ~InForce(eGrants[p])
    BY <2>2, AtRest DEF Agree
  <2>4. p \notin toAdd' => Agree(p)'
    BY <2>2, <2>3 DEF Agree, InForce
  <2>5. p \notin toRevoke' => grants'[p].caps = "shell"
    BY <1>2 DEF Caps
  <2> QED
    BY <1>2, <2>1, <2>2, <2>4, <2>5 DEF Settles, Held
<1>6. LiveIsKnown'
  BY DEF LiveIsKnown
<1>7. LiveSessionPermitted'
  <2> SUFFICES ASSUME NEW s \in live, pair[s] \notin toRevoke'
               PROVE  (Held(pair[s]) /\ (shell[s] => grants[pair[s]].caps = "shell"))'
    BY DEF LiveSessionPermitted
  <2>1. pair[s] \in Pairs /\ Held(pair[s]) /\ (shell[s] => grants[pair[s]].caps = "shell")
    BY AtRest DEF TypeOK
  <2>2. CASE pair[s] = p
    BY <1>2, <2>2 DEF Held, Caps
  <2>3. CASE pair[s] # p
    BY <1>3, <2>1, <2>3 DEF Held
  <2> QED
    BY <2>2, <2>3
<1> QED
  BY <1>4, <1>5, <1>6, <1>7

\* grants.extend: the capability stays, so the engine's is the record's.
LEMMA ExtendKeeps ==
  ASSUME AccessInv, NEW p \in Pairs, NEW until \in Deadlines, NEW now \in 0..clock,
         cmdGrantsExtend(p, until, now)
  PROVE  AccessInv'
<1> USE DEF AccessInv, cmdGrantsExtend, SetGrantUntil, sessions
<1>1. grants[p] \in [until : Deadlines, caps : Caps, revoked : {FALSE}]
  BY DEF TypeOK, Granted, Held
<1>2. /\ grants'[p] \in [until : Deadlines, caps : Caps, revoked : {FALSE}]
      /\ grants'[p].caps = grants[p].caps
      /\ grants'[p] # NoGrant
  <2>1. grants'[p] = [grants[p] EXCEPT !.until = until]
    BY DEF TypeOK
  <2> DEFINE g == grants[p]
             h == [g EXCEPT !.until = until]
  <2> HIDE DEF g, cmdGrantsExtend
  <2>2. g \in [until : Deadlines, caps : Caps, revoked : {FALSE}] /\ g.until > 0
    BY <1>1, Times DEF g
  <2>3. /\ h \in [until : Deadlines, caps : Caps, revoked : {FALSE}]
        /\ h.caps = g.caps
        /\ h.until > 0
    BY <2>2, Times
  <2>4. h # NoGrant
    BY <2>3 DEF NoGrant
  <2> QED
    BY <2>1, <2>3, <2>4 DEF g
<1>3. \A q \in Pairs \ {p} : grants'[q] = grants[q]
  BY DEF TypeOK
<1>4. TypeOK'
  <2>1. grants' \in [Pairs -> Granted]
    BY <1>2, <1>3 DEF TypeOK, Granted
  <2>2. \A q \in Pairs : Held(q)' => Held(q)
    BY <1>3 DEF Held
  <2> QED
    BY <2>1, <2>2 DEF TypeOK
<1>5. Settles'
  <2>1. ASSUME NEW q \in Pairs \ {p} PROVE Agree(q)' /\ q \notin toRevoke' \cup toAdd'
    BY <1>3, AtRest DEF Agree, InForce
  <2>2. Agree(p)
    BY AtRest
  <2>3. InForce(eGrants[p])' /\ eGrants'[p].caps = "shell" => grants'[p].caps = "shell"
    BY <1>2, <2>2 DEF Agree, InForce
  <2> QED
    BY <1>2, <2>1, <2>3 DEF Settles, Held
<1>6. LiveIsKnown'
  BY DEF LiveIsKnown
<1>7. LiveSessionPermitted'
  <2> SUFFICES ASSUME NEW s \in live
               PROVE  (Held(pair[s]) /\ (shell[s] => grants[pair[s]].caps = "shell"))'
    BY DEF LiveSessionPermitted
  <2>1. pair[s] \in Pairs /\ Held(pair[s]) /\ (shell[s] => grants[pair[s]].caps = "shell")
    BY AtRest DEF TypeOK
  <2> QED
    BY <1>2, <1>3, <2>1 DEF Held
<1> QED
  BY <1>4, <1>5, <1>6, <1>7

\* A revocation takes the pair from the engine together with its sessions.
LEMMA RevokeBecauseKeeps ==
  ASSUME AccessInv, NEW p \in Pairs, RevokeBecause(p) PROVE AccessInv'
<1> USE DEF AccessInv, RevokeBecause, record
<1>1. TypeOK'
  <2>1. eGrants' \in [Pairs -> [until : 0..Never, caps : Caps, revoked : BOOLEAN]]
    <3>1. CASE eGrants[p] = NoGrant
      BY <3>1 DEF TypeOK
    <3>2. CASE eGrants[p] # NoGrant
      <4>1. eGrants[p] \in [until : 0..Never, caps : Caps, revoked : BOOLEAN]
        BY DEF TypeOK
      <4>2. [eGrants[p] EXCEPT !.revoked = TRUE] \in [until : 0..Never, caps : Caps, revoked : BOOLEAN]
        BY <4>1
      <4> QED
        BY <3>2, <4>2 DEF TypeOK
    <3> QED
      BY <3>1, <3>2
  <2>2. live' \subseteq live
    OBVIOUS
  <2> QED
    BY <2>1, <2>2 DEF TypeOK, Held
<1>2. ~InForce(eGrants[p])' /\ \A q \in Pairs \ {p} : eGrants'[q] = eGrants[q]
  <2>1. CASE eGrants[p] = NoGrant
    <3>1. clock \in Nat
      BY Times DEF TypeOK
    <3> QED
      BY <2>1, <3>1 DEF InForce, NoGrant
  <2>2. CASE eGrants[p] # NoGrant
    <3>1. eGrants'[p] = [eGrants[p] EXCEPT !.revoked = TRUE]
      BY <2>2 DEF TypeOK
    <3>2. eGrants[p] \in [until : 0..Never, caps : Caps, revoked : BOOLEAN]
      BY DEF TypeOK
    <3>3. eGrants'[p].revoked = TRUE
      BY <3>1, <3>2
    <3> QED
      BY <2>2, <3>3 DEF InForce, TypeOK
  <2> QED
    BY <2>1, <2>2
<1>3. Settles'
  <2>1. ASSUME NEW q \in Pairs \ {p}
        PROVE  (/\ q \notin toRevoke \cup toAdd => Agree(q)
                /\ q \in toRevoke \ toAdd => ~InForce(grants[q])
                /\ q \in toAdd => Held(q)
                /\ q \in toAdd \ toRevoke /\ InForce(eGrants[q]) /\ eGrants[q].caps = "shell"
                     => grants[q].caps = "shell")'
    BY <1>2 DEF Settles, Agree, InForce, Held
  <2>2. p \notin toRevoke' /\ (p \notin toAdd => ~InForce(grants[p])') /\ (p \in toAdd => Held(p)')
    BY DEF Settles, InForce, Held
  <2> QED
    BY <1>2, <2>1, <2>2 DEF Settles, Agree
<1>4. live' = {s \in live : pair[s] # p}
  BY DEF LiveIsKnown
<1>5. LiveIsKnown'
  BY <1>2, <1>4 DEF LiveIsKnown, TypeOK
<1>6. LiveSessionPermitted'
  BY <1>4 DEF LiveSessionPermitted, Held
<1> QED
  BY <1>1, <1>3, <1>5, <1>6

\* Adding makes record and engine agree on the pair.
LEMMA AddGrantKeeps ==
  ASSUME AccessInv, NEW p \in Pairs, AddGrant(p) PROVE AccessInv'
<1> USE DEF AccessInv, AddGrant, record, sessions
<1>1. Held(p)
  BY DEF Settles
<1>2. grants[p] \in [until : 0..Never, caps : Caps, revoked : BOOLEAN]
  <2>1. grants[p] \in [until : Deadlines, caps : Caps, revoked : {FALSE}]
    BY <1>1 DEF TypeOK, Granted, Held
  <2>2. Deadlines \subseteq 0..Never
    BY Times DEF Deadlines
  <2> QED
    BY <2>1, <2>2
<1>3. TypeOK'
  BY <1>2 DEF TypeOK, Held
<1>4. eGrants'[p] = grants'[p] /\ \A q \in Pairs \ {p} : eGrants'[q] = eGrants[q]
  BY DEF TypeOK
<1>5. Settles'
  <2>1. ASSUME NEW q \in Pairs \ {p}
        PROVE  (/\ q \notin toRevoke \cup toAdd => Agree(q)
                /\ q \in toRevoke \ toAdd => ~InForce(grants[q])
                /\ q \in toAdd => Held(q)
                /\ q \in toAdd \ toRevoke /\ InForce(eGrants[q]) /\ eGrants[q].caps = "shell"
                     => grants[q].caps = "shell")'
    BY <1>4 DEF Settles, Agree, InForce, Held
  <2> QED
    BY <1>4, <2>1 DEF Settles, Agree
<1>6. LiveIsKnown'
  BY <1>1, <1>4 DEF LiveIsKnown, TypeOK, Held
<1>7. LiveSessionPermitted'
  BY DEF LiveSessionPermitted, Held
<1> QED
  BY <1>3, <1>5, <1>6, <1>7

\* Whoever only ends sessions, one that was to be killed included.
LEMMA EndingKeeps ==
  ASSUME AccessInv,
         \/ SweepExpired
         \/ \E s \in Sessions : Kill(s) \/ cmdSessionsKill(s) \/ Close(s) \/ deny(s) \/ handshake(s)
  PROVE  AccessInv'
<1> USE DEF AccessInv, record, owed
<1>1. /\ UNCHANGED <<clock, people, machines, requested, verified, grants, eGrants, toRevoke, toAdd, pair, shell>>
      /\ live' \subseteq live /\ toKill' \subseteq toKill
      /\ \A s \in live' : s \in toKill => s \in toKill'
  BY DEF SweepExpired, Kill, cmdSessionsKill, Close, deny, handshake, Goes
<1>2. TypeOK'
  <2>1. CASE SweepExpired
    BY <2>1 DEF SweepExpired, TypeOK, Held
  <2>2. CASE \E s \in Sessions : Kill(s) \/ cmdSessionsKill(s)
    BY <2>2 DEF Kill, cmdSessionsKill, TypeOK, Held
  <2>3. CASE \E s \in Sessions : Close(s)
    BY <2>3 DEF Close, Goes, TypeOK, Held
  <2>4. CASE \E s \in Sessions : deny(s)
    BY <2>4 DEF deny, Goes, TypeOK, Held
  <2>5. CASE \E s \in Sessions : handshake(s)
    <3>1. PICK s \in Sessions : handshake(s)
      BY <2>5
    <3>2. pair[s][2] \in Machines
      BY DEF TypeOK, Pairs
    <3> QED
      BY <3>1, <3>2 DEF handshake, Goes, TypeOK, Held
  <2> QED
    BY <2>1, <2>2, <2>3, <2>4, <2>5
<1>3. Settles'
  BY <1>1, SettlesKept
<1>4. LiveIsKnown' /\ LiveSessionPermitted'
  BY <1>1 DEF LiveIsKnown, LiveSessionPermitted, Held
<1> QED
  BY <1>2, <1>3, <1>4

\* A session in its first look is not live yet.
LEMMA CheckKeeps ==
  ASSUME AccessInv, NEW s \in Sessions, NEW p \in Pairs, Check(s, p) PROVE AccessInv'
<1> USE DEF AccessInv, Check, Goes, record, owed
<1>1. TypeOK'
  BY DEF TypeOK, Held
<1>2. Settles'
  BY SettlesKept
<1>3. s \notin live
  BY DEF TypeOK
<1>4. \A t \in live : pair'[t] = pair[t]
  BY <1>3 DEF TypeOK
<1>5. LiveIsKnown' /\ LiveSessionPermitted'
  BY <1>4 DEF LiveIsKnown, LiveSessionPermitted, Held
<1> QED
  BY <1>1, <1>2, <1>5

\* What the engine admits is on record, or about to be revoked.
LEMMA OpenSessionKeeps ==
  ASSUME AccessInv, NEW s \in Sessions, OpenSession(s) PROVE AccessInv'
<1> USE DEF AccessInv, OpenSession, Goes, record, owed
<1>1. TypeOK'
  BY DEF TypeOK, Held
<1>2. Settles'
  BY SettlesKept
<1>3. pair[s] \in Pairs /\ InForce(eGrants[pair[s]])
  BY DEF TypeOK, Admits
<1>4. eGrants[pair[s]] # NoGrant
  BY <1>3, GrantShape
<1>5. LiveIsKnown'
  BY <1>4 DEF LiveIsKnown
<1>6. \/ pair[s] \in toRevoke
      \/ Held(pair[s]) /\ (eGrants[pair[s]].caps = "shell" => grants[pair[s]].caps = "shell")
  <2>1. CASE pair[s] \in toAdd
    BY <1>3, <2>1 DEF Settles
  <2>2. CASE pair[s] \notin toAdd /\ pair[s] \notin toRevoke
    BY <1>3, <1>4, <2>2 DEF Settles, Agree, Held
  <2> QED
    BY <2>1, <2>2
<1>7. \A t \in live : shell'[t] = shell[t]
  BY DEF TypeOK
<1>8. shell'[s] = (eGrants[pair[s]].caps = "shell")
  BY DEF TypeOK
<1>9. LiveSessionPermitted'
  BY <1>6, <1>7, <1>8 DEF LiveSessionPermitted, Held
<1> QED
  BY <1>1, <1>2, <1>5, <1>9

\* Time only takes access away, on both sides at once.
LEMMA TickKeeps ==
  ASSUME AccessInv, Tick PROVE AccessInv'
<1> USE DEF AccessInv, Tick, record, owed, sessions
<1>1. clock \in Nat /\ clock' \in 0..MaxTime /\ clock' = clock + 1
  BY Times DEF TypeOK
<1>2. TypeOK'
  BY <1>1 DEF TypeOK, Held
<1>3. \A p \in Pairs : (InForce(grants[p])' => InForce(grants[p])) /\ (InForce(eGrants[p])' => InForce(eGrants[p]))
  <2> SUFFICES ASSUME NEW p \in Pairs
               PROVE  (InForce(grants[p])' => InForce(grants[p])) /\ (InForce(eGrants[p])' => InForce(eGrants[p]))
    OBVIOUS
  <2>1. grants[p].until \in Nat /\ eGrants[p].until \in Nat
    BY GrantShape
  <2> QED
    BY <1>1, <2>1 DEF InForce
<1>4. Settles'
  BY <1>3 DEF Settles, Agree, Held
<1>5. LiveIsKnown' /\ LiveSessionPermitted'
  BY DEF LiveIsKnown, LiveSessionPermitted, Held
<1> QED
  BY <1>2, <1>4, <1>5

\* A restart loads exactly what is in force on record.
LEMMA NewKeeps ==
  ASSUME AccessInv, New PROVE AccessInv'
<1> USE DEF AccessInv, New, record
<1>1. \A p \in Pairs : Loaded(grants[p]) \in [until : 0..Never, caps : Caps, revoked : BOOLEAN]
  <2>1. Granted \subseteq [until : 0..Never, caps : Caps, revoked : BOOLEAN]
    <3>1. 0 \in 0..Never /\ Deadlines \subseteq 0..Never
      BY Times DEF Deadlines
    <3>2. NoGrant \in [until : 0..Never, caps : Caps, revoked : BOOLEAN]
      BY <3>1 DEF NoGrant, Caps
    <3> HIDE DEF New
    <3>3. ASSUME NEW g \in [until : Deadlines, caps : Caps, revoked : {FALSE}]
          PROVE  g \in [until : 0..Never, caps : Caps, revoked : BOOLEAN]
      BY <3>1
    <3> QED
      BY <3>2, <3>3 DEF Granted
  <2>2. NoGrant \in Granted
    BY DEF Granted
  <2> QED
    BY <2>1, <2>2 DEF Loaded, TypeOK
<1>2. TypeOK'
  BY <1>1 DEF TypeOK, Held
<1>3. Settles'
  <2> SUFFICES ASSUME NEW p \in Pairs PROVE Agree(p)'
    BY DEF Settles
  <2>1. eGrants'[p] = Loaded(grants[p]) /\ clock \in Nat /\ grants[p].until \in Nat
    BY GrantShape
  <2>2. CASE grants[p].until > clock
    BY <2>1, <2>2 DEF Loaded, Agree
  <2>3. CASE ~(grants[p].until > clock)
    <3>1. eGrants'[p] = NoGrant
      BY <2>1, <2>3 DEF Loaded
    <3>2. ~InForce(grants[p])'
      BY <2>3 DEF InForce
    <3>3. ~InForce(eGrants[p])'
      BY <2>1, <3>1 DEF InForce, NoGrant
    <3> QED
      BY <3>2, <3>3 DEF Agree
  <2> QED
    BY <2>2, <2>3
<1> QED
  BY <1>2, <1>3 DEF LiveIsKnown, LiveSessionPermitted

\* Every step, and every stuttering step, keeps the invariant.
LEMMA AccessNext == AccessInv /\ [Next]_vars => AccessInv'
<1> SUFFICES ASSUME AccessInv, [Next]_vars PROVE AccessInv'
  OBVIOUS
<1>1. CASE Command
  BY <1>1, RecordKeeps, PeopleRemoveKeeps, PeopleRenameKeeps, MachinesRemoveKeeps, GrantKeeps, RevokeKeeps,
     SetCapsKeeps, ExtendKeeps DEF Command
<1>2. CASE Publish
  BY <1>2, RevokeBecauseKeeps, AddGrantKeeps, EndingKeeps DEF Publish
<1>3. CASE SweepExpired
  BY <1>3, EndingKeeps
<1>4. CASE Tick
  BY <1>4, TickKeeps
<1>5. CASE New
  BY <1>5, NewKeeps
<1>6. CASE \E s \in Sessions : Session(s)
  BY <1>6, CheckKeeps, EndingKeeps, OpenSessionKeeps DEF Session
<1>7. CASE UNCHANGED vars
  <2>1. TypeOK'
    BY <1>7 DEF vars, record, owed, sessions, AccessInv, TypeOK, Held
  <2>2. Settles'
    BY <1>7, SettlesKept DEF vars, record, owed, sessions, AccessInv
  <2>3. LiveIsKnown' /\ LiveSessionPermitted'
    BY <1>7 DEF vars, record, owed, sessions, AccessInv, LiveIsKnown, LiveSessionPermitted, Held
  <2> QED
    BY <2>1, <2>2, <2>3 DEF AccessInv
<1> QED
  BY <1>1, <1>2, <1>3, <1>4, <1>5, <1>6, <1>7 DEF Next

\* The invariant holds in every reachable state, whatever commands, sessions,
\* sweeps and restarts interleave.
THEOREM AccessInvariant == Spec => []AccessInv
BY AccessInit, AccessNext, PTL DEF Spec

\* Record, engine and sessions keep their types, and no grant outlives its
\* person or its machine (reconcileGrants).
THEOREM AccessTypeCorrect == Spec => []TypeOK
<1>1. AccessInv => TypeOK
  BY DEF AccessInv
<1> QED
  BY <1>1, AccessInvariant, PTL

\* With no command inside accessPublishMu, record and engine give the same
\* access, for any number of people, machines and sessions.
THEOREM EngineMirrorsRecord == Spec => []EngineAgrees
<1>1. AccessInv => EngineAgrees
  BY AtRest DEF EngineAgrees, Agree
<1> QED
  BY <1>1, AccessInvariant, PTL

\* A live session stands on the record, or the command that took its ground
\* away has yet to end it (RevokeBecause, Kill), for any number of sessions.
THEOREM SessionsStandOnRecord == Spec => []LiveSessionPermitted
<1>1. AccessInv => LiveSessionPermitted
  BY DEF AccessInv
<1> QED
  BY <1>1, AccessInvariant, PTL

-----------------------------------------------------------------------------
(* The judge of a file session.  What waits at the machine's sftp-server is *)
(* judged already: only the writer puts anything there.                     *)

SftpRequest == [n : Numbers, id : RequestIds, kind : Kinds, h : Handles \cup {NoHandle}, at : 0..MaxAt]
SftpAnswer == [n : Numbers, id : RequestIds, type : {"handle", "ok", "fail", "data", "reply"},
               h : Handles \cup {NoHandle}]
SftpServer == [inbox : Seq(SftpRequest), outbox : Seq(SftpAnswer), open : [Handles -> Nat],
               writable : SUBSET Handles, eof : BOOLEAN]

\* Each request of the queue q that must be judged is among the allowed a.
OnlyJudged(q, a) == \A i \in 1..Len(q) : q[i].kind \in Judged => q[i].n \in a

SftpClient == [sent : Nat, closed : SUBSET Numbers, end : BOOLEAN, gone : BOOLEAN]

SftpJudged ==
  /\ client \in SftpClient /\ server \in SftpServer
  /\ writer = "judge" => request \in SftpRequest
  /\ OnlyJudged(server.inbox, allowed)
  /\ \A h \in server.writable : server.open[h] # 0 => server.open[h] \in did
  /\ did \subseteq allowed
  /\ \A b \in behind : b[1] \in allowed \/ b[3] = "unread"

LEMMA OneMoreIsJudged ==
  ASSUME NEW q \in Seq(SftpRequest), NEW r \in SftpRequest, NEW a, OnlyJudged(q, a), r.kind \in Judged => r.n \in a
  PROVE  Append(q, r) \in Seq(SftpRequest) /\ OnlyJudged(Append(q, r), a)
  BY DEF OnlyJudged

LEMMA OneLessIsJudged ==
  ASSUME NEW q \in Seq(SftpRequest), NEW a, OnlyJudged(q, a), q # <<>>
  PROVE  /\ Head(q) \in SftpRequest /\ Tail(q) \in Seq(SftpRequest) /\ OnlyJudged(Tail(q), a)
         /\ Head(q).kind \in Judged => Head(q).n \in a
  BY DEF OnlyJudged

\* What is forwarded joins the queue, or nothing does.
LEMMA ForwardSteps ==
  ASSUME SftpJudged, NEW r \in SftpRequest, NEW what, forward(r, what), allowed \subseteq allowed',
         r.kind \in Judged => r.n \in allowed'
  PROVE  /\ server' \in SftpServer /\ OnlyJudged(server'.inbox, allowed') /\ writer' # "judge"
         /\ server'.open = server.open /\ server'.writable = server.writable
<1>1. server \in SftpServer /\ OnlyJudged(server.inbox, allowed')
  BY DEF SftpJudged, OnlyJudged
<1>2. CASE server' = server
  BY <1>1, <1>2 DEF forward
<1>3. CASE server' = [server EXCEPT !.inbox = Append(@, r)] /\ writer' = "copy"
  <2>1. server.inbox \in Seq(SftpRequest)
    BY <1>1 DEF SftpServer
  <2>2. /\ server' \in SftpServer /\ server'.inbox = Append(server.inbox, r)
        /\ server'.open = server.open /\ server'.writable = server.writable
    BY <1>1, <1>3, <2>1, OneMoreIsJudged DEF SftpServer
  <2>3. QED
    BY <1>1, <1>3, <2>1, <2>2, OneMoreIsJudged
<1>4. QED
  BY <1>2, <1>3 DEF forward

LEMMA ClientPacketKeeps == SftpJudged /\ handleClientPacket => SftpJudged'
<1> SUFFICES ASSUME SftpJudged, handleClientPacket PROVE SftpJudged'
  OBVIOUS
<1>1. PICK r \in Requests(client.sent + 1) :
        /\ client.sent < MaxRequests
        /\ client' = [client EXCEPT !.sent = @ + 1,
                                    !.closed = IF r.kind = "close" THEN @ \cup {m \in Numbers : given[m] = r.h} ELSE @]
        /\ \/ writer' \in {"failed", "reply"} /\ server' = server
           \/ writer' = "judge" /\ request' = r /\ server' = server
           \/ r.kind \notin Judged /\ \E what : forward(r, what)
        /\ allowed' = allowed /\ did' = did /\ behind' = behind
  BY DEF handleClientPacket, judgedKinds
<1>2. r \in SftpRequest
  <2>1. client.sent + 1 \in Numbers
    BY <1>1, SftpAssumption DEF SftpJudged, SftpClient, Numbers
  <2>2. NextIds \subseteq RequestIds
    BY DEF NextIds
  <2>3. QED
    BY <2>1, <2>2 DEF Requests, SftpRequest
<1>3. client' \in SftpClient
  <2> DEFINE closed == IF r.kind = "close" THEN client.closed \cup {m \in Numbers : given[m] = r.h} ELSE client.closed
  <2>1. client \in SftpClient /\ closed \in SUBSET Numbers
    BY DEF SftpJudged, SftpClient
  <2>2. client' = [client EXCEPT !.sent = client.sent + 1, !.closed = closed]
    BY <1>1
  <2>3. ASSUME NEW k \in Nat, NEW d \in SUBSET Numbers
        PROVE  [client EXCEPT !.sent = k, !.closed = d] \in SftpClient
    BY <2>1 DEF SftpClient
  <2>4. client.sent + 1 \in Nat
    BY <2>1 DEF SftpClient
  <2> HIDE DEF closed
  <2>5. QED
    BY <2>1, <2>2, <2>3, <2>4
<1>4. CASE writer' \in {"failed", "reply"} /\ server' = server
  BY <1>1, <1>3, <1>4 DEF SftpJudged
<1>5. CASE writer' = "judge" /\ request' = r /\ server' = server
  BY <1>1, <1>2, <1>3, <1>5 DEF SftpJudged
<1>6. CASE r.kind \notin Judged /\ \E what : forward(r, what)
  BY <1>1, <1>2, <1>3, <1>6, ForwardSteps DEF SftpJudged
<1>7. QED
  BY <1>1, <1>4, <1>5, <1>6

LEMMA AllowedKeeps == SftpJudged /\ judgeAllows => SftpJudged'
<1> SUFFICES ASSUME SftpJudged, judgeAllows PROVE SftpJudged'
  OBVIOUS
<1>1. /\ request \in SftpRequest /\ forward(request, request) /\ allowed' = allowed \cup {request.n}
      /\ UNCHANGED <<client, did, behind>>
  BY DEF judgeAllows, SftpJudged, personVars
<1>2. /\ server' \in SftpServer /\ OnlyJudged(server'.inbox, allowed') /\ writer' # "judge"
      /\ server'.open = server.open /\ server'.writable = server.writable
  BY <1>1, ForwardSteps
<1>3. QED
  BY <1>1, <1>2 DEF SftpJudged

\* What a step of the machine does: it answers one request, and opens a file,
\* closes one, or neither.
LEMMA ServeAnswers ==
  ASSUME SftpJudged, serve
  PROVE  LET r == Head(server.inbox)
         IN /\ server.inbox # <<>> /\ r \in SftpRequest
            /\ OnlyJudged(Tail(server.inbox), allowed)
            /\ r.kind \in Judged => r.n \in allowed
            /\ server' \in SftpServer /\ server'.inbox = Tail(server.inbox)
            /\ \/ \E h \in Handles : server'.open = [server.open EXCEPT ![h] = r.n] /\ r.kind \in {"open", "create"}
                                     /\ (r.kind = "create" => r.n \in did')
                                     /\ server'.writable = IF r.kind = "create" THEN server.writable \cup {h}
                                                                                ELSE server.writable \ {h}
               \/ server'.writable = server.writable /\ r.h \in Handles /\ server'.open = [server.open EXCEPT ![r.h] = 0]
               \/ server'.writable = server.writable /\ server'.open = server.open
            /\ \/ behind' = behind
               \/ r.kind \in {"unread"} \cup Judged /\ \E f : behind' = behind \cup {<<r.n, f, r.kind>>}
            /\ \/ did' = did
               \/ r.kind \in Judged /\ did' = did \cup {r.n}
<1> DEFINE r == Head(server.inbox)
<1>1. /\ server.inbox \in Seq(SftpRequest) /\ server.inbox # <<>> /\ server.outbox \in Seq(SftpAnswer)
      /\ r \in SftpRequest /\ Tail(server.inbox) \in Seq(SftpRequest)
      /\ OnlyJudged(Tail(server.inbox), allowed)
      /\ r.kind \in Judged => r.n \in allowed
  BY OneLessIsJudged DEF SftpJudged, SftpServer, serve
<1>2. server \in SftpServer /\ server.open \in [Handles -> Nat] /\ server.writable \in SUBSET Handles /\ r.n \in Nat
      /\ \A h \in server.writable : server.open[h] # 0 => server.open[h] \in did
  BY <1>1 DEF SftpJudged, SftpServer, SftpRequest, Numbers
<1>3. \A type \in {"ok", "fail", "data", "reply", "handle"} : Reply(r, type) \in SftpAnswer
  BY <1>1 DEF Reply, SftpRequest, SftpAnswer
<1>4. ASSUME NEW a \in SftpAnswer, NEW open \in [Handles -> Nat], Replies(a, open)
      PROVE  /\ server' \in SftpServer /\ server'.inbox = Tail(server.inbox)
             /\ server'.open = open /\ server'.writable = server.writable
  <2>1. Append(server.outbox, a) \in Seq(SftpAnswer)
    BY <1>1
  <2>2. server' = [server EXCEPT !.inbox = Tail(server.inbox), !.outbox = Append(server.outbox, a), !.open = open]
    BY <1>4 DEF Replies
  <2>3. QED
    BY <1>1, <1>2, <2>1, <2>2 DEF SftpServer
<1>5. ASSUME NEW h \in Handles, Opens(r, h)
      PROVE  /\ server' \in SftpServer /\ server'.inbox = Tail(server.inbox)
             /\ server'.open = [server.open EXCEPT ![h] = r.n]
             /\ server'.writable = IF r.kind = "create" THEN server.writable \cup {h} ELSE server.writable \ {h}
  <2> DEFINE a == [Reply(r, "handle") EXCEPT !.h = h]
             open == [server.open EXCEPT ![h] = r.n]
             writable == IF r.kind = "create" THEN server.writable \cup {h} ELSE server.writable \ {h}
  <2>1. a \in SftpAnswer
    BY <1>3 DEF SftpAnswer
  <2>2. open \in [Handles -> Nat] /\ writable \in SUBSET Handles
    BY <1>2
  <2>3. Append(server.outbox, a) \in Seq(SftpAnswer)
    BY <1>1, <2>1
  <2>4. server' = [server EXCEPT !.inbox = Tail(server.inbox), !.outbox = Append(server.outbox, a), !.open = open,
                                 !.writable = writable]
    BY <1>5, <1>2 DEF Opens, SftpServer
  <2> HIDE DEF a, open, writable
  <2>5. /\ server' \in SftpServer /\ server'.inbox = Tail(server.inbox)
        /\ server'.open = open /\ server'.writable = writable
    BY <1>1, <1>2, <2>2, <2>3, <2>4 DEF SftpServer
  <2>6. QED
    BY <2>5 DEF open, writable
<1>6. ASSUME NEW type \in {"ok", "fail", "data", "reply"}, Replies(Reply(r, type), server.open)
      PROVE  /\ server' \in SftpServer /\ server'.inbox = Tail(server.inbox)
             /\ server'.open = server.open /\ server'.writable = server.writable
  BY <1>2, <1>3, <1>4, <1>6
<1>7. ASSUME r.h \in Handles, Replies(Reply(r, "ok"), [server.open EXCEPT ![r.h] = 0])
      PROVE  /\ server' \in SftpServer /\ server'.inbox = Tail(server.inbox)
             /\ server'.open = [server.open EXCEPT ![r.h] = 0] /\ server'.writable = server.writable
  <2>1. [server.open EXCEPT ![r.h] = 0] \in [Handles -> Nat]
    BY <1>2
  <2>2. QED
    BY <1>3, <1>4, <1>7, <2>1
<1> HIDE DEF r
<1>8. CASE r.kind \in {"open", "create"} /\ (\E h \in Handles : Opens(r, h))
           /\ ((r.kind = "open" /\ Spares) \/ (r.kind = "create" /\ Changes(r.n)))
  <2>1. PICK h \in Handles : Opens(r, h)
    BY <1>8
  <2>2. QED
    BY <1>1, <1>5, <1>8, <2>1 DEF Spares, Changes, Judged, r
<1>9. CASE r.kind = "close" /\ r.h \in Handles /\ Spares /\ Replies(Reply(r, "ok"), [server.open EXCEPT ![r.h] = 0])
  BY <1>1, <1>7, <1>9 DEF Spares, r
<1>10. CASE Spares /\ \E type \in {"ok", "fail", "data"} : Replies(Reply(r, type), server.open)
  BY <1>1, <1>6, <1>10 DEF Spares, r
<1>11. CASE r.kind \in {"copy", "change"} /\ Changes(r.n) /\ \E type \in {"ok", "reply"} : Replies(Reply(r, type), server.open)
  BY <1>1, <1>6, <1>11 DEF Changes, Judged, r
<1>12. CASE /\ r.kind = "write" /\ r.h \in server.writable /\ server.open[r.h] # 0 /\ Changes(server.open[r.h])
            /\ \E type \in {"ok", "fail"} : Replies(Reply(r, type), server.open)
  <2>1. did' = did /\ behind' = behind
    BY <1>2, <1>12 DEF Changes
  <2>2. QED
    BY <1>1, <1>6, <1>12, <2>1 DEF r
<1>13. CASE /\ r.kind \in {"unread", "copy", "change"} /\ (\E f : Behind(r, f))
            /\ \E type \in {"ok", "fail"} : Replies(Reply(r, type), server.open)
  BY <1>1, <1>6, <1>13 DEF Behind, Judged, r
<1>14. QED
  <2>1. carriesOut(r) \/ failsHalfway(r) \/ refuses(r)
    BY DEF serve, r
  <2>2. r.h # NoHandle => r.h \in Handles
    BY <1>1 DEF SftpRequest, r
  <2>3. CASE refuses(r)
    BY <1>10, <2>3 DEF refuses
  <2>4. CASE failsHalfway(r)
    BY <1>13, <2>4 DEF failsHalfway
  <2>5. CASE carriesOut(r)
    BY <1>8, <1>9, <1>10, <1>11, <1>12, <1>13, <2>2, <2>5 DEF carriesOut
  <2>6. QED
    BY <2>1, <2>3, <2>4, <2>5

\* The sftp-server carries out what it was sent, which was judged, and writes
\* through a handle whose opening was.
LEMMA ServeKeeps == SftpJudged /\ serve => SftpJudged'
<1> SUFFICES ASSUME SftpJudged, serve PROVE SftpJudged'
  OBVIOUS
<1> DEFINE r == Head(server.inbox)
<1>1. /\ r.kind \in Judged => r.n \in allowed
      /\ OnlyJudged(Tail(server.inbox), allowed) /\ server' \in SftpServer /\ server'.inbox = Tail(server.inbox)
      /\ \/ behind' = behind
         \/ r.kind \in {"unread"} \cup Judged /\ \E f : behind' = behind \cup {<<r.n, f, r.kind>>}
      /\ did' = did \/ (r.kind \in Judged /\ did' = did \cup {r.n})
  BY ServeAnswers
<1>2. UNCHANGED <<client, writer, request, allowed>>
  BY SMTT(30) DEF serve, proxyVars, writerVars, personVars
<1>3. did' \subseteq allowed' /\ did \subseteq did'
  BY <1>1, <1>2 DEF SftpJudged
<1>4. \A b \in behind' : b[1] \in allowed' \/ b[3] = "unread"
  <2>1. \A b \in behind : b[1] \in allowed \/ b[3] = "unread"
    BY DEF SftpJudged
  <2>2. ASSUME NEW f, r.kind \in {"unread"} \cup Judged
        PROVE  LET b == <<r.n, f, r.kind>> IN b[1] \in allowed \/ b[3] = "unread"
    BY <1>1, <2>2
  <2>3. QED
    BY <1>1, <1>2, <2>1, <2>2
<1>5. \A h \in server'.writable : server'.open[h] # 0 => server'.open[h] \in did'
  <2>1. /\ \A h \in server.writable : server.open[h] # 0 => server.open[h] \in did
        /\ server.open \in [Handles -> Nat] /\ server.writable \subseteq Handles
    BY DEF SftpJudged, SftpServer
  <2>2. CASE server'.writable = server.writable /\ server'.open = server.open
    BY <1>3, <2>1, <2>2
  <2>3. CASE server'.writable = server.writable /\ r.h \in Handles /\ server'.open = [server.open EXCEPT ![r.h] = 0]
    BY <1>3, <2>1, <2>3
  <2>4. ASSUME NEW k \in Handles, server'.open = [server.open EXCEPT ![k] = r.n], r.kind \in {"open", "create"},
               server'.writable = IF r.kind = "create" THEN server.writable \cup {k} ELSE server.writable \ {k},
               r.kind = "create" => r.n \in did'
        PROVE  \A h \in server'.writable : server'.open[h] # 0 => server'.open[h] \in did'
    BY <1>3, <2>1, <2>4
  <2>5. QED
    BY <2>2, <2>3, <2>4, ServeAnswers
<1>6. QED
  BY <1>1, <1>2, <1>3, <1>4, <1>5 DEF SftpJudged

\* The rest judges nothing and carries out nothing; the queue stays, or goes
\* with the machine's end.
LEMMA OthersSpare ==
  ASSUME SftpJudged,
         \/ clientEnds \/ clientCloses \/ serverEnds \/ transportLost
         \/ judgeRefuses \/ refusalGivenUp \/ writerEnds \/ pumpTakes \/ pumpEnds
         \/ readerTakesAnswer \/ readerTakesRefusal \/ readerShows \/ readerEnds
         \/ cancel \/ bridgeDone \/ sessionFinish \/ UNCHANGED sftpVars
  PROVE  SftpJudged'
<1>1. CASE clientEnds \/ clientCloses
  <2>1. client' \in SftpClient
    BY <1>1 DEF clientEnds, clientCloses, SftpJudged, SftpClient
  <2>2. UNCHANGED <<writer, request, server, did, behind, allowed>>
    BY <1>1 DEF clientEnds, clientCloses, proxyVars, writerVars, ghosts
  <2>3. QED
    BY <2>1, <2>2 DEF SftpJudged
<1>2. CASE serverEnds \/ transportLost
  <2>1. server' = [server EXCEPT !.eof = TRUE, !.inbox = <<>>] /\ UNCHANGED <<writer, request, client, did, behind, allowed>>
    BY <1>2 DEF serverEnds, transportLost, proxyVars, writerVars, personVars, ghosts
  <2>2. <<>> \in Seq(SftpRequest) /\ OnlyJudged(<<>>, allowed)
    BY DEF OnlyJudged
  <2>3. /\ server' \in SftpServer /\ server'.inbox = <<>>
        /\ server'.open = server.open /\ server'.writable = server.writable
    BY <2>1, <2>2 DEF SftpJudged, SftpServer
  <2>4. QED
    BY <2>1, <2>2, <2>3 DEF SftpJudged
<1>3. CASE judgeRefuses \/ refusalGivenUp \/ writerEnds \/ readerTakesRefusal
  <2>1. writer' # "judge"
    BY <1>3 DEF judgeRefuses, refusalGivenUp, writerEnds, readerTakesRefusal
  <2>2. UNCHANGED <<client, server, did, behind, allowed>>
    BY <1>3 DEF judgeRefuses, refusalGivenUp, writerEnds, readerTakesRefusal, personVars, ghosts
  <2>3. QED
    BY <2>1, <2>2 DEF SftpJudged
<1>4. CASE pumpTakes
  <2>1. /\ server' = [server EXCEPT !.outbox = Tail(@)] /\ server.outbox # <<>>
        /\ UNCHANGED <<writer, request, client, did, behind, allowed>>
    BY <1>4 DEF pumpTakes, writerVars, personVars, ghosts
  <2>2. Tail(server.outbox) \in Seq(SftpAnswer)
    BY <2>1 DEF SftpJudged, SftpServer
  <2>3. /\ server' \in SftpServer /\ server'.inbox = server.inbox
        /\ server'.open = server.open /\ server'.writable = server.writable
    BY <2>1, <2>2 DEF SftpJudged, SftpServer
  <2>4. QED
    BY <2>1, <2>3 DEF SftpJudged
<1>5. CASE \/ pumpEnds \/ readerTakesAnswer \/ readerShows \/ readerEnds
           \/ cancel \/ bridgeDone \/ sessionFinish \/ UNCHANGED sftpVars
  <2>1. CASE pumpEnds \/ readerTakesAnswer \/ readerShows \/ readerEnds
    BY <2>1 DEF pumpEnds, readerTakesAnswer, readerShows, readerEnds, SftpJudged, writerVars, personVars, ghosts
  <2>2. CASE cancel \/ bridgeDone \/ sessionFinish \/ UNCHANGED sftpVars
    BY <2>2 DEF cancel, bridgeDone, sessionFinish, sftpVars, SftpJudged, proxyVars, writerVars, personVars, ghosts
  <2>3. QED
    BY <1>5, <2>1, <2>2
<1>6. QED
  BY <1>1, <1>2, <1>3, <1>4, <1>5

LEMMA SftpInitJudged == SftpInit => SftpJudged
<1> SUFFICES ASSUME SftpInit PROVE SftpJudged
  OBVIOUS
<1>1. /\ client = [sent |-> 0, closed |-> {}, end |-> FALSE, gone |-> FALSE] /\ writer = "copy" /\ did = {} /\ behind = {}
      /\ server = [inbox |-> <<>>, outbox |-> <<>>, open |-> [h \in Handles |-> 0], writable |-> {}, eof |-> FALSE]
  BY DEF SftpInit
<1>2. server \in SftpServer /\ server.inbox = <<>>
  BY <1>1 DEF SftpServer
<1>3. QED
  BY <1>1, <1>2 DEF SftpJudged, SftpClient, OnlyJudged

\* Nothing that the proxy reads changes anything on the machine, whole or
\* half-way, before the judge has let it or the file's opening through, however
\* requests, answers, refusals and ends interleave; what it does not read may
\* (sftp_session.go decideClientPacket).
THEOREM FilesChangeOnlyJudged == SftpSpec => []NothingChangesUnjudged
<1>1. SftpJudged /\ [SftpNext]_sftpVars => SftpJudged'
  BY ClientPacketKeeps, AllowedKeeps, ServeKeeps, OthersSpare DEF SftpNext, Peers, Goroutines
<1>2. SftpJudged => NothingChangesUnjudged
  BY DEF SftpJudged, NothingChangesUnjudged
<1>3. QED
  BY <1>1, <1>2, SftpInitJudged, PTL DEF SftpSpec

-----------------------------------------------------------------------------
(* The lines of a file session.  A request is on its way from when it is    *)
(* forwarded until the pump takes its answer: nothing has told anything of  *)
(* it before that.  A handle belongs to one request at a time.              *)

SftpPacket == [n : Numbers, id : RequestIds, type : {"handle", "ok", "fail", "data", "reply", "refusal"},
               h : Handles \cup {NoHandle}]
SftpOther == [n : Numbers, kind : {"other"}, h : {NoHandle}, at : {0}]
SftpFile == [n : Numbers, dir : {"up", "down"}, moved : BOOLEAN, size : Nat, next : Nat, sequential : BOOLEAN,
             copied : BOOLEAN]
SftpEntry == [out : {"ok", "failed", "denied", "unclosed"}, sha : {"none", "hash", "copied"}, size : Nat]
SftpLine == [out : {"ok", "failed", "denied", "unclosed"}, sha : {"none", "hash", "copied"}, size : Nat,
             recorded : BOOLEAN, journaled : BOOLEAN]
SftpChunk == {"up", "down", "copy"} \X (0..MaxAt)

InI == 1..Len(server.inbox)
InO == 1..Len(server.outbox)

TablesOK ==
  /\ pending \in [RequestIds -> SftpRequest \cup SftpOther \cup {None}]
  /\ files \in [Handles -> SftpFile \cup {None}]
  /\ lines \in [Numbers -> Seq(SftpLine)]
  /\ moved \in [Numbers -> Seq(SftpChunk)]
  /\ given \in [Numbers -> Handles \cup {NoHandle}] /\ seen \subseteq Numbers
  /\ writer \in {"judge", "reply"} => request \in SftpRequest
  /\ puller = "send" => packet \in SftpAnswer
  /\ reader = "hold" => holding \in SftpPacket
  /\ session # "bridge" => bridging \in {"clean", "error"} /\ writer \in {"done", "failed"} /\ reader \in {"done", "failed"}

\* The requests on their way, in the order of their numbers; each id stands for
\* the request it was last used for.
What(r) == IF r.kind \in {"write", "unread"} THEN Other(r) ELSE r
NamesHandle(r) == r.kind \in NeedsHandle <=> r.h # NoHandle

\* a may be the answer to what p was forwarded for.
Answers(a, p) ==
  /\ p # None /\ p.n = a.n
  /\ a.type = "handle" => p.kind \in {"open", "create"} /\ a.h \in Handles
  /\ a.type = "data" => p.kind = "read"
  /\ a.type = "reply" => p.kind = "change"
  /\ a.type = "ok" => p.kind \notin {"open", "create", "read"}
  /\ p.kind \in {"read", "copy", "close"} => p.h = a.h /\ a.h \in Handles
  /\ p.kind \in {"open", "create", "change"} /\ a.type # "handle" => a.h = NoHandle

Asking == writer \in {"judge", "reply"}
Past(n, s, asking) == n <= s /\ (asking => n < s)

QueuesOK ==
  /\ \A i, j \in InI : i < j => server.inbox[i].n < server.inbox[j].n
  /\ \A i, j \in InO : i < j => server.outbox[i].n < server.outbox[j].n
  /\ \A i \in InO, j \in InI : server.outbox[i].n < server.inbox[j].n
  /\ \A j \in InI : LET r == server.inbox[j]
                    IN Past(r.n, client.sent, Asking) /\ pending[r.id] = What(r) /\ NamesHandle(r) /\ r.kind # "malformed"
  /\ \A i \in InO : LET a == server.outbox[i] IN Past(a.n, client.sent, Asking) /\ Answers(a, pending[a.id])
  /\ Asking => request.n = client.sent
  /\ writer = "judge" => /\ pending[request.id] = Other(request) /\ request.kind \in Judged /\ NamesHandle(request)
                         /\ request.h # NoHandle => Holds(request.h)

\* Nobody has heard of request n yet, and nothing is noted of it.
Unseen(n) ==
  /\ given[n] = NoHandle /\ n \notin seen
  /\ puller = "send" => packet.n # n
  /\ reader = "hold" => holding.n # n
Untouched(n) ==
  /\ Unseen(n) /\ lines[n] = <<>> /\ moved[n] = <<>>
  /\ \A h \in Handles : files[h] # None => files[h].n # n

\* Requests that have failed half-way, and all that have been carried out at all.
Halfway == {b[1] : b \in {c \in behind : c[3] # "unread"}}
Carried == did \cup Halfway

FreshOK ==
  /\ \A j \in InI : Untouched(server.inbox[j].n) /\ server.inbox[j].n \notin Carried
  /\ \A i \in InO : Untouched(server.outbox[i].n)
  /\ \A n \in Numbers : n > client.sent => Untouched(n) /\ n \notin Carried
  /\ writer = "judge" => Untouched(request.n) /\ request.n \notin Carried
  /\ writer = "reply" => Unseen(request.n) /\ request.n \notin Carried
  /\ puller = "send" => given[packet.n] = NoHandle /\ packet.n \notin seen /\ (reader = "hold" => holding.n # packet.n)
  /\ reader = "hold" => given[holding.n] = NoHandle
  /\ \A m \in client.closed : given[m] # NoHandle

\* What was done is told with its line, or with a handle whose file has none yet.
Told(a) ==
  /\ a.n \in did => a.type = "handle" \/ Recorded(a.n, "ok")
  /\ a.n \in Halfway => Recorded(a.n, "failed")
DoneIs(a) ==
  /\ a.n \in did => pending[a.id].kind \in Judged /\ a.type # "fail"
  /\ a.n \in Halfway => pending[a.id].kind \in Judged /\ a.type = "fail"
Accounted(n) == Len(lines[n]) = 1 \/ (session # "ended" /\ \E h \in Handles : files[h] # None /\ files[h].n = n)

LinesOK ==
  /\ \A n \in Numbers : Len(lines[n]) <= 1
  /\ \A h \in Handles : files[h] # None => lines[files[h].n] = <<>>
  /\ \A h, k \in Handles : files[h] # None /\ files[k] # None /\ files[h].n = files[k].n => h = k
  /\ \A n \in Numbers : given[n] # NoHandle => Accounted(n)
  /\ puller = "send" => Told(packet)
  /\ reader = "hold" => Told(holding)
  /\ \A n \in seen \cap did : given[n] # NoHandle \/ Recorded(n, "ok")
  /\ \A n \in seen \cap Halfway : Recorded(n, "failed")
  /\ \A i \in InO : DoneIs(server.outbox[i])

\* Handles.  A handle that is open is the same file to the machine and to the
\* proxy, and one that is left is named by no request any more.
CloseOf(i, h) == server.outbox[i].h = h /\ pending[server.outbox[i].id].kind = "close"
HandleOf(i, h) == server.outbox[i].h = h /\ server.outbox[i].type = "handle"
OpenFile(h) == files[h] # None /\ files[h].n = server.open[h] /\ \A i \in InO : ~CloseOf(i, h) /\ ~HandleOf(i, h)
Unasked(h) == \A j \in InI : server.inbox[j].h # h
Left(h) == ~Holds(h) /\ Unasked(h)

OwnersOK(h) ==
  session # "ended" => \A m \in Numbers : given[m] = h /\ m \notin client.closed => OpenFile(h) /\ files[h].n = m
UsesOK(h) ==
  session # "ended" => \A i \in InI : server.inbox[i].h = h =>
    /\ OpenFile(h)
    /\ server.inbox[i].kind = "close" => ~Holds(h) /\ \A j \in InI : i < j => server.inbox[j].h # h
ClosesOK(h) ==
  \A i \in InO : CloseOf(i, h) =>
    Left(h) /\ \A j \in InO : i < j /\ server.outbox[j].h = h => server.outbox[j].type = "handle"
MintsOK(h) ==
  \A i \in InO : HandleOf(i, h) =>
    /\ server.open[h] = server.outbox[i].n /\ Left(h)
    /\ \A j \in InO : i < j => server.outbox[j].h # h
    /\ files[h] # None => \E j \in InO : j < i /\ CloseOf(j, h)
FreeOK(h) == server.open[h] = 0 => Left(h) /\ (files[h] # None => \E i \in InO : CloseOf(i, h))

\* A handle on its way to the person.
OnItsWay(a) ==
  a.type = "handle" /\ session # "ended" =>
    /\ a.h \in Handles /\ files[a.h] # None /\ files[a.h].n = a.n /\ server.open[a.h] = a.n
    /\ Left(a.h) /\ \A i \in InO : server.outbox[i].h # a.h

HandlesOK ==
  /\ \A h \in Handles : OwnersOK(h) /\ UsesOK(h) /\ ClosesOK(h) /\ MintsOK(h) /\ FreeOK(h)
  /\ puller = "send" => OnItsWay(packet)
  /\ reader = "hold" => OnItsWay(holding)

\* Chunks: m, what was passed on of a file, is what was counted of it and then
\* what the answers on their way will add, w.
Blank == <<"none", 0>>
Mark(a, p, h) ==
  IF a.h = h /\ a.type = "data" THEN <<"down", p.at>>
  ELSE IF a.h = h /\ a.type = "ok" /\ p.kind = "copy" THEN <<"copy", 0>> ELSE Blank
Marks(h) == [i \in InO |-> Mark(server.outbox[i], pending[server.outbox[i].id], h)]

Upto(m, d, k) == \A i \in 1..k : m[i] = <<d, i - 1>>
Fits(g, m, k, w) ==
  /\ g \in [(k + 1)..Len(m) -> 1..Len(w)]
  /\ \A i, j \in (k + 1)..Len(m) : i < j => g[i] < g[j]
  /\ \A i \in (k + 1)..Len(m) : w[g[i]] = m[i]
  /\ \A j \in 1..Len(w) : w[j] # Blank => \E i \in (k + 1)..Len(m) : g[i] = j
Trails(m, k, w) == k <= Len(m) /\ Upto(m, "down", k) /\ \E g : Fits(g, m, k, w)

Marked(w) == \E j \in 1..Len(w) : w[j] # Blank
Counted(f, m, w) ==
  \/ f.moved /\ f.dir = "up" /\ Marked(w)
  \/ f.moved /\ f.dir = "up" /\ Len(m) = f.next /\ Upto(m, "up", f.next)
  \/ (f.moved => f.dir = "down") /\ Trails(m, f.next, w)

\* A file whose chunk could not be passed on is never closed by the machine.
Abandoned(h) ==
  /\ writer \in {"done", "failed"}
  /\ \A i \in InI : ~(server.inbox[i].h = h /\ server.inbox[i].kind = "close")
  /\ \A i \in InO : ~CloseOf(i, h)
Whole(f) == f # None /\ f.sequential /\ ~f.copied
FileOK(h) ==
  Whole(files[h]) =>
    /\ files[h].size = files[h].next /\ (~files[h].moved => files[h].next = 0)
    /\ Counted(files[h], moved[files[h].n], Marks(h)) \/ Abandoned(h)
ChunksOK == (\A h \in Handles : FileOK(h)) /\ HashIsWhole

SftpInv == SftpJudged /\ TablesOK /\ QueuesOK /\ FreshOK /\ LinesOK /\ HandlesOK /\ ChunksOK

LEMMA SftpInvSuffices == SftpInv => LinesAreTrue
<1> SUFFICES ASSUME SftpInv PROVE LinesAreTrue
  OBVIOUS
<1>1. SeenIsRecorded
  BY DEF SftpInv, LinesOK, SeenIsRecorded, Halfway
<1>2. FilesAreAccounted
  BY DEF SftpInv, LinesOK, FilesAreAccounted, Accounted
<1>3. HashIsWhole
  BY DEF SftpInv, ChunksOK
<1>4. QED
  BY <1>1, <1>2, <1>3 DEF LinesAreTrue

\* The line a step adds to those of n.
Put(n) == lines'[n][Len(lines[n]) + 1]
Like(e, line) == e \in SftpLine /\ e.out = line.out /\ e.sha = line.sha /\ e.size = line.size

\* What the steps do to all this.  A goroutine, or a peer, ends or gives up.
Recedes ==
  /\ UNCHANGED <<server, pending, files, lines, moved, seen, given, did, Halfway>>
  /\ client'.sent = client.sent /\ client'.closed = client.closed
  /\ UNCHANGED <<writer, request>> \/ writer' \in {"done", "failed"}
  /\ UNCHANGED <<puller, packet>> \/ puller' # "send"
  /\ UNCHANGED <<reader, holding>> \/ reader' # "hold"
  /\ session' = session \/ (session = "bridge" /\ session' = "finish")
  /\ session' # "bridge" => bridging' \in {"clean", "error"} /\ writer' \in {"done", "failed"} /\ reader' \in {"done", "failed"}

\* The machine ends.
Stops ==
  /\ server'.inbox = <<>> /\ server'.outbox = server.outbox /\ server'.open = server.open
  /\ UNCHANGED <<pending, files, lines, moved, seen, given, did, Halfway, client, session, bridging, writer, request, puller, packet, reader, holding>>

\* The person asks r.
Asked(r) ==
  /\ r \in SftpRequest /\ NamesHandle(r) /\ (r.h # NoHandle => Holds(r.h))
  /\ r.n = client.sent + 1 /\ client'.sent = r.n
  /\ client'.closed = IF r.kind = "close" THEN client.closed \cup {m \in Numbers : given[m] = r.h} ELSE client.closed

\* It is not forwarded, or not yet.
Preps(r) ==
  /\ writer = "copy" /\ Asked(r)
  /\ \/ writer' = "failed" /\ UNCHANGED pending
     \/ writer' = "reply" /\ request' = r /\ UNCHANGED pending
     \/ /\ writer' = "judge" /\ request' = r /\ r.kind \in Judged /\ pending[r.id] = None
        /\ pending' = [pending EXCEPT ![r.id] = Other(r)]
  /\ UNCHANGED <<server, files, moved, lines, seen, given, did, Halfway, session, bridging, puller, packet, reader, holding>>

\* It is, at once or after the judge.
Sends(r) ==
  /\ r \in SftpRequest /\ NamesHandle(r) /\ r.kind # "malformed" /\ (r.h # NoHandle => Holds(r.h))
  /\ \/ writer = "copy" /\ Asked(r) /\ pending[r.id] = None
     \/ writer = "judge" /\ r = request /\ r.kind \in Judged /\ client' = client
  /\ pending' = [pending EXCEPT ![r.id] = What(r)]
  /\ files' = IF r.kind = "write" THEN Observed(r.h, "up", r.at) ELSE files
  /\ server'.outbox = server.outbox /\ server'.open = server.open
  /\ \/ /\ writer' = "copy" /\ server'.inbox = Append(server.inbox, r)
        /\ moved' = IF r.kind = "write" /\ files[r.h] # None THEN [moved EXCEPT ![files[r.h].n] = Append(@, <<"up", r.at>>)]
                                                              ELSE moved
     \/ writer' = "done" /\ server'.inbox = server.inbox /\ moved' = moved
  /\ UNCHANGED <<lines, seen, given, did, Halfway, session, bridging, puller, packet, reader, holding>>

Refuses ==
  /\ writer = "judge"
  /\ lines' = [lines EXCEPT ![request.n] = Append(@, Put(request.n))]
  /\ Put(request.n) \in SftpLine /\ Put(request.n).sha = "none"
  /\ pending' = [pending EXCEPT ![request.id] = None]
  /\ (writer' = "reply" /\ request' = request) \/ writer' \in {"done", "failed"}
  /\ UNCHANGED <<server, files, moved, client, seen, given, did, Halfway, session, bridging, puller, packet, reader, holding>>

\* The machine answers r with a.
Does(r) == did' = (IF r.kind \in Judged THEN did \cup {r.n} ELSE did) /\ UNCHANGED Halfway
FailsHalfway(r) == r.kind \in Judged /\ Halfway' = Halfway \cup {r.n} /\ UNCHANGED did
Served(r, a) ==
  /\ session # "ended" /\ server.inbox # <<>> /\ r = Head(server.inbox)
  /\ a \in SftpAnswer /\ a.n = r.n /\ a.id = r.id
  /\ server'.inbox = Tail(server.inbox) /\ server'.outbox = Append(server.outbox, a)
  /\ UNCHANGED <<pending, files, lines, client, seen, given, session, bridging, writer, request, puller, packet, reader, holding>>
Mints(r, a) ==
  /\ Served(r, a) /\ r.kind \in {"open", "create"} /\ a.type = "handle" /\ a.h \in Handles /\ server.open[a.h] = 0
  /\ server'.open = [server.open EXCEPT ![a.h] = r.n] /\ Does(r) /\ UNCHANGED moved
Closes(r, a) ==
  /\ Served(r, a) /\ r.kind = "close" /\ a.type = "ok" /\ a.h = r.h
  /\ server'.open = [server.open EXCEPT ![r.h] = 0] /\ UNCHANGED <<did, Halfway, moved>>
Answered(r, a) ==
  /\ Served(r, a) /\ a.h = r.h /\ server'.open = server.open
  /\ \/ r.kind = "read" /\ r.h # NoHandle /\ a.type = "data" /\ Passed(server.open[r.h], "down", r.at) /\ UNCHANGED <<did, Halfway>>
     \/ r.kind = "copy" /\ r.h # NoHandle /\ a.type = "ok" /\ Passed(server.open[r.h], "copy", 0) /\ Does(r)
     \/ r.kind \in {"write", "unread", "change"} /\ a.type \in {"ok", "reply"} /\ (a.type = "reply" => r.kind = "change") /\ Does(r)
        /\ UNCHANGED moved
     \/ a.type = "fail" /\ UNCHANGED <<did, Halfway, moved>>
     \/ a.type = "fail" /\ FailsHalfway(r) /\ UNCHANGED moved

\* The pump takes the answer a.
Entry(p, a) == IF p # None /\ Resolves(p, a) THEN finishOp(p, opOutcome(a)) ELSE None
Takes(a) ==
  LET p == pending[a.id]
      entry == Entry(p, a)
  IN /\ puller = "read" /\ server.outbox # <<>> /\ a = Head(server.outbox)
     /\ server'.inbox = server.inbox /\ server'.outbox = Tail(server.outbox) /\ server'.open = server.open
     /\ pending' = [pending EXCEPT ![a.id] = None]
     /\ files' = IF p = None THEN files ELSE filesAfter(p, a)
     /\ (puller' = "send" /\ packet' = a) \/ (entry # None /\ puller' = "error")
     /\ lines' = IF entry = None THEN lines ELSE [lines EXCEPT ![entry.n] = Append(@, Put(entry.n))]
     /\ entry # None => Like(Put(entry.n), entry.line) /\ (puller' = "send" => Put(entry.n).recorded)
     /\ UNCHANGED <<moved, client, seen, given, did, Halfway, session, bridging, writer, request, reader, holding>>

\* The reader takes it, or a refusal; the person has it.
Hands ==
  /\ reader # "hold" /\ reader' = "hold" /\ session = "bridge"
  /\ \/ puller = "send" /\ holding' = packet /\ puller' = "read" /\ UNCHANGED <<writer, request>>
     \/ writer = "reply" /\ holding' = Refusal(request) /\ writer' = "copy" /\ UNCHANGED <<puller, packet>>
  /\ UNCHANGED <<server, pending, files, lines, moved, client, seen, given, did, Halfway, session, bridging>>

Shows ==
  /\ reader = "hold" /\ reader' = "copy" /\ seen' = seen \cup {holding.n}
  /\ given' = IF holding.type = "handle" THEN [given EXCEPT ![holding.n] = holding.h] ELSE given
  /\ UNCHANGED <<server, pending, files, lines, moved, client, did, Halfway, session, bridging, writer, request, puller, packet>>

Finishes ==
  /\ session = "finish" /\ session' = "ended" /\ leftOpen /\ files' = [h \in Handles |-> None]
  /\ UNCHANGED <<bridging, server, pending, moved, client, seen, given, did, Halfway, writer, request, puller, packet, reader, holding>>

\* Queues.
LEMMA QueueTail ==
  ASSUME NEW S, NEW q \in Seq(S), q # <<>>
  PROVE  /\ Head(q) \in S /\ Head(q) = q[1] /\ Tail(q) \in Seq(S) /\ Len(Tail(q)) = Len(q) - 1 /\ Len(q) \in Nat \ {0}
         /\ \A i \in 1..Len(Tail(q)) : i + 1 \in 1..Len(q) /\ Tail(q)[i] = q[i + 1]
  OBVIOUS

LEMMA QueueAppend ==
  ASSUME NEW S, NEW q \in Seq(S), NEW a \in S
  PROVE  /\ Append(q, a) \in Seq(S) /\ Len(Append(q, a)) = Len(q) + 1 /\ Len(q) \in Nat
         /\ Append(q, a)[Len(q) + 1] = a
         /\ \A i \in 1..Len(q) : i \in 1..Len(Append(q, a)) /\ Append(q, a)[i] = q[i]
  OBVIOUS

LEMMA HalfwayStays ==
  ASSUME UNCHANGED behind PROVE UNCHANGED Halfway
  BY DEF Halfway

LEMMA PutIs ==
  ASSUME TablesOK, NEW n \in Numbers, NEW e \in SftpLine, lines' = [lines EXCEPT ![n] = Append(@, e)]
  PROVE  Put(n) = e
<1>1. lines[n] \in Seq(SftpLine) /\ lines'[n] = Append(lines[n], e)
  BY DEF TablesOK
<1>2. QED
  BY <1>1, QueueAppend DEF Put

\* What the logs take of a line.
LEMMA WrittenIs ==
  ASSUME TablesOK, NEW n \in Numbers, NEW line \in SftpEntry, Written(n, line) \/ NotWritten(n, line)
  PROVE  /\ lines' = [lines EXCEPT ![n] = Append(@, Put(n))] /\ Like(Put(n), line)
         /\ Written(n, line) => Put(n).recorded
<1>1. ASSUME NEW r \in BOOLEAN, NEW j \in BOOLEAN, LineTo(n, line, r, j)
      PROVE  /\ lines' = [lines EXCEPT ![n] = Append(@, Put(n))] /\ Like(Put(n), line) /\ Put(n).recorded = r
  <2> DEFINE e == Logged(line, r, j)
  <2>1. e \in SftpLine /\ Like(e, line) /\ e.recorded = r
    BY DEF Logged, SftpLine, SftpEntry, Like
  <2>2. lines' = [lines EXCEPT ![n] = Append(@, e)]
    BY <1>1 DEF LineTo
  <2> HIDE DEF e
  <2>3. QED
    BY <2>1, <2>2, PutIs
<1>2. \/ Written(n, line) /\ \E j \in BOOLEAN : LineTo(n, line, TRUE, j)
      \/ ~Written(n, line) /\ \E r, j \in BOOLEAN : LineTo(n, line, r, j)
  BY DEF Written, NotWritten, Entered
<1>3. QED
  BY <1>1, <1>2

\* Every step is one of these.
LEMMA AskingIs ==
  ASSUME SftpJudged, TablesOK, handleClientPacket
  PROVE  \E r : Preps(r) \/ Sends(r)
<1>1. PICK r \in Requests(client.sent + 1) :
        /\ writer = "copy" /\ client.sent < MaxRequests
        /\ client' = [client EXCEPT !.sent = @ + 1,
                                    !.closed = IF r.kind = "close" THEN @ \cup {m \in Numbers : given[m] = r.h} ELSE @]
        /\ \/ /\ reserved(r) /\ writer' = "failed" /\ bridgeStop
              /\ UNCHANGED <<request, tables, server, moved>>
           \/ /\ ~reserved(r) /\ r.kind \in judgedKinds
              /\ pending' = [pending EXCEPT ![r.id] = Other(r)] /\ request' = r /\ writer' = "judge"
              /\ UNCHANGED <<files, server, moved, channels, stopped>>
           \/ /\ ~reserved(r) /\ r.kind = "malformed" /\ request' = r /\ writer' = "reply"
              /\ UNCHANGED <<tables, server, moved, channels, stopped>>
           \/ /\ ~reserved(r) /\ r.kind \notin judgedKinds \cup {"malformed"}
              /\ files' = IF r.kind = "write" THEN Observed(r.h, "up", r.at) ELSE files
              /\ forward(r, IF r.kind \in {"write", "unread"} THEN Other(r) ELSE r)
              /\ UNCHANGED <<request, near, stopped>>
  BY DEF handleClientPacket
<1>2. UNCHANGED <<lines, seen, given, did, Halfway, session, bridging, puller, packet, reader, holding>>
  BY HalfwayStays DEF handleClientPacket, pumpVars, readerVars, logVars
<1>3. /\ r \in SftpRequest /\ NamesHandle(r) /\ (r.h # NoHandle => Holds(r.h)) /\ r.n = client.sent + 1
  <2>1. client.sent + 1 \in Numbers
    BY <1>1, SftpAssumption DEF SftpJudged, SftpClient, Numbers
  <2>2. NextIds \subseteq RequestIds
    BY DEF NextIds
  <2>3. QED
    BY <2>1, <2>2 DEF Requests, SftpRequest, NamesHandle
<1>4. Asked(r)
  <2>1. client'.sent = client.sent + 1
    BY <1>1 DEF SftpJudged, SftpClient
  <2>2. client'.closed = IF r.kind = "close" THEN client.closed \cup {m \in Numbers : given[m] = r.h} ELSE client.closed
    BY <1>1 DEF SftpJudged, SftpClient
  <2>3. QED
    BY <1>3, <2>1, <2>2 DEF Asked
<1>5. CASE reserved(r) /\ writer' = "failed" /\ UNCHANGED <<request, tables, server, moved>>
  BY <1>1, <1>2, <1>4, <1>5 DEF Preps, tables
<1>6. CASE /\ ~reserved(r) /\ r.kind \in judgedKinds
           /\ pending' = [pending EXCEPT ![r.id] = Other(r)] /\ request' = r /\ writer' = "judge"
           /\ UNCHANGED <<files, server, moved>>
  BY <1>1, <1>2, <1>4, <1>6 DEF Preps, reserved, judgedKinds
<1>7. CASE request' = r /\ writer' = "reply" /\ UNCHANGED <<tables, server, moved>>
  BY <1>1, <1>2, <1>4, <1>7 DEF Preps, tables
<1>8. CASE /\ ~reserved(r) /\ r.kind \notin judgedKinds \cup {"malformed"}
           /\ files' = IF r.kind = "write" THEN Observed(r.h, "up", r.at) ELSE files
           /\ forward(r, IF r.kind \in {"write", "unread"} THEN Other(r) ELSE r)
  <2>1. pending[r.id] = None /\ pending' = [pending EXCEPT ![r.id] = What(r)]
    BY <1>8 DEF reserved, forward, What
  <2>2. CASE /\ server' = [server EXCEPT !.inbox = Append(@, r)] /\ writer' = "copy"
             /\ moved' = IF r.kind = "write" /\ files[r.h] # None
                           THEN [moved EXCEPT ![files[r.h].n] = Append(@, <<"up", r.at>>)] ELSE moved
    <3>1. server'.inbox = Append(server.inbox, r) /\ server'.outbox = server.outbox /\ server'.open = server.open
      BY <2>2 DEF SftpJudged, SftpServer
    <3>2. QED
      BY <1>1, <1>2, <1>3, <1>4, <1>8, <2>1, <2>2, <3>1 DEF Sends
  <2>3. CASE writer' = "done" /\ UNCHANGED <<server, moved>>
    BY <1>1, <1>2, <1>3, <1>4, <1>8, <2>1, <2>3 DEF Sends
  <2>4. QED
    BY <1>8, <2>2, <2>3 DEF forward
<1>9. QED
  BY <1>1, <1>5, <1>6, <1>7, <1>8

LEMMA JudgingIs ==
  ASSUME SftpJudged, TablesOK, QueuesOK, judgeAllows
  PROVE  Sends(request)
<1>1. /\ writer = "judge" /\ forward(request, request) /\ request \in SftpRequest /\ request.kind \in Judged
      /\ NamesHandle(request) /\ (request.h # NoHandle => Holds(request.h)) /\ client' = client
      /\ request.kind # "malformed" /\ request.kind # "write" /\ What(request) = request
  BY DEF judgeAllows, TablesOK, QueuesOK, What, Judged, personVars
<1>2. UNCHANGED <<files, lines, seen, given, did, Halfway, session, bridging, puller, packet, reader, holding>>
  BY HalfwayStays DEF judgeAllows, pumpVars, readerVars, logVars, personVars
<1>3. CASE server' = [server EXCEPT !.inbox = Append(@, request)] /\ writer' = "copy" /\ moved' = moved
  <2>1. server'.inbox = Append(server.inbox, request) /\ server'.outbox = server.outbox /\ server'.open = server.open
    BY <1>3 DEF SftpJudged, SftpServer
  <2>2. QED
    BY <1>1, <1>2, <1>3, <2>1 DEF Sends, forward
<1>4. CASE writer' = "done" /\ UNCHANGED <<server, moved>>
  BY <1>1, <1>2, <1>4 DEF Sends, forward
<1>5. QED
  BY <1>1, <1>3, <1>4 DEF forward

LEMMA RefusingIs ==
  ASSUME TablesOK, judgeRefuses
  PROVE  Refuses
<1> DEFINE line == FileLine("denied", "none", 0)
<1>1. writer = "judge" /\ request.n \in Numbers
  BY DEF judgeRefuses, TablesOK, SftpRequest
<1>2. line \in SftpEntry /\ line.sha = "none"
  BY DEF FileLine, SftpEntry
<1>3. Written(request.n, line) \/ NotWritten(request.n, line)
  BY DEF judgeRefuses
<1> HIDE DEF line
<1>4. /\ lines' = [lines EXCEPT ![request.n] = Append(@, Put(request.n))]
      /\ Put(request.n) \in SftpLine /\ Put(request.n).sha = "none"
  BY <1>1, <1>2, <1>3, WrittenIs DEF Like
<1>5. /\ pending' = [pending EXCEPT ![request.id] = None]
      /\ (writer' = "reply" /\ request' = request) \/ writer' \in {"done", "failed"}
      /\ UNCHANGED <<server, files, moved, client, seen, given, did, behind, session, bridging, puller, packet, reader, holding>>
  BY DEF judgeRefuses, pumpVars, readerVars, personVars, ghosts
<1>6. QED
  BY <1>1, <1>4, <1>5, HalfwayStays DEF Refuses

LEMMA ServingIs ==
  ASSUME SftpJudged, serve, session # "ended"
  PROVE  \E r, a : Mints(r, a) \/ Closes(r, a) \/ Answered(r, a)
<1> DEFINE r == Head(server.inbox)
<1>1. /\ server.inbox \in Seq(SftpRequest) /\ server.inbox # <<>> /\ server.outbox \in Seq(SftpAnswer) /\ r \in SftpRequest
      /\ server.open \in [Handles -> Nat] /\ session # "ended"
  BY DEF SftpJudged, SftpServer, serve
<1>2. UNCHANGED <<pending, files, lines, client, seen, given, session, bridging, writer, request, puller, packet, reader, holding>>
  BY DEF serve, proxyVars, writerVars, pumpVars, readerVars, tables, logVars, personVars
<1>3. ASSUME NEW a, NEW f, Replies(a, f)
      PROVE  server'.inbox = Tail(server.inbox) /\ server'.outbox = Append(server.outbox, a) /\ server'.open = f
  BY <1>3 DEF Replies, SftpJudged, SftpServer
<1>4. ASSUME NEW type \in {"ok", "fail", "data", "reply", "handle"}
      PROVE  LET a == Reply(r, type) IN a \in SftpAnswer /\ a.n = r.n /\ a.id = r.id /\ a.h = r.h /\ a.type = type
  BY <1>1 DEF Reply, SftpRequest, SftpAnswer
<1>5. ASSUME NEW type \in {"ok", "fail", "data", "reply"}, NEW f, Replies(Reply(r, type), f)
      PROVE  Served(r, Reply(r, type)) /\ server'.open = f
  BY <1>1, <1>2, <1>3, <1>4, <1>5 DEF Served
<1>6. ASSUME NEW h \in Handles, r.kind \in {"open", "create"}, Does(r), UNCHANGED moved, server.open[h] = 0, Opens(r, h)
      PROVE  \E a : Mints(r, a)
  <2> DEFINE a == [Reply(r, "handle") EXCEPT !.h = h]
  <2>1. a \in SftpAnswer /\ a.n = r.n /\ a.id = r.id /\ a.h = h /\ a.type = "handle"
    BY <1>4 DEF SftpAnswer
  <2>2. /\ server'.inbox = Tail(server.inbox) /\ server'.outbox = Append(server.outbox, a)
        /\ server'.open = [server.open EXCEPT ![h] = r.n]
    BY <1>6 DEF Opens, SftpJudged, SftpServer
  <2> HIDE DEF a
  <2>3. Served(r, a)
    BY <1>1, <1>2, <2>1, <2>2 DEF Served
  <2>4. Mints(r, a)
    BY <1>6, <2>1, <2>2, <2>3 DEF Mints
  <2>5. QED
    BY <2>4
<1>7. CASE r.kind = "close" /\ UNCHANGED <<did, Halfway, moved>> /\ Replies(Reply(r, "ok"), [server.open EXCEPT ![r.h] = 0])
  <2> DEFINE a == Reply(r, "ok")
  <2>1. a.h = r.h /\ a.type = "ok"
    BY <1>4
  <2>2. Served(r, a) /\ server'.open = [server.open EXCEPT ![r.h] = 0]
    BY <1>5, <1>7
  <2> HIDE DEF a, r
  <2>3. QED
    BY <1>7, <2>1, <2>2 DEF Closes
<1>8. CASE /\ r.kind = "read" /\ r.h # NoHandle /\ UNCHANGED <<did, Halfway>> /\ Passed(server.open[r.h], "down", r.at)
           /\ Replies(Reply(r, "data"), server.open)
  BY <1>4, <1>5, <1>8 DEF Answered
<1>9. CASE /\ r.kind = "copy" /\ r.h # NoHandle /\ Does(r) /\ Passed(server.open[r.h], "copy", 0)
           /\ Replies(Reply(r, "ok"), server.open)
  BY <1>4, <1>5, <1>9 DEF Answered
<1>10. CASE /\ r.kind \in {"write", "unread", "change"} /\ Does(r) /\ UNCHANGED moved
            /\ \E type \in {"ok", "reply"} : (type = "reply" => r.kind = "change") /\ Replies(Reply(r, type), server.open)
  <2>1. PICK type \in {"ok", "reply"} : (type = "reply" => r.kind = "change") /\ Replies(Reply(r, type), server.open)
    BY <1>10
  <2>2. QED
    BY <1>4, <1>5, <1>10, <2>1 DEF Answered
<1>11. CASE Replies(Reply(r, "fail"), server.open) /\ (UNCHANGED <<did, Halfway>> \/ FailsHalfway(r)) /\ UNCHANGED moved
  BY <1>4, <1>5, <1>11 DEF Answered
<1> HIDE DEF r
<1>12. Spares => UNCHANGED <<did, Halfway>>
  BY HalfwayStays DEF Spares
<1>13. Changes(r.n) /\ r.kind \in Judged => Does(r)
  BY HalfwayStays DEF Changes, Does
<1>14. ASSUME NEW f, Behind(r, f)
       PROVE  IF r.kind = "unread" THEN UNCHANGED <<did, Halfway>> ELSE did' = did /\ Halfway' = Halfway \cup {r.n}
  <2> DEFINE b == <<r.n, f, r.kind>>
  <2>1. behind' = behind \cup {b} /\ did' = did /\ b[1] = r.n /\ b[3] = r.kind
    BY <1>14 DEF Behind
  <2> HIDE DEF b
  <2>2. CASE r.kind = "unread"
    <3>1. {c \in behind' : c[3] # "unread"} = {c \in behind : c[3] # "unread"}
      BY <2>1, <2>2
    <3>2. QED
      BY <2>1, <2>2, <3>1 DEF Halfway
  <2>3. CASE r.kind # "unread"
    <3>1. {c \in behind' : c[3] # "unread"} = {c \in behind : c[3] # "unread"} \cup {b}
      BY <2>1, <2>3
    <3>2. Halfway' = Halfway \cup {b[1]}
      BY <3>1 DEF Halfway
    <3>3. QED
      BY <2>1, <2>3, <3>2
  <2>4. QED
    BY <2>2, <2>3
<1>15. r.h # NoHandle => r.h \in Handles
  BY <1>1 DEF SftpRequest
<1>16. CASE carriesOut(r)
  <2>1. CASE r.kind \in {"open", "create"} /\ ((r.kind = "open" /\ Spares) \/ (r.kind = "create" /\ Changes(r.n)))
             /\ UNCHANGED moved /\ \E h \in Handles : server.open[h] = 0 /\ Opens(r, h)
    <3>1. Does(r)
      BY <1>12, <1>13, <2>1 DEF Does, Judged
    <3>2. QED
      BY <1>6, <2>1, <3>1
  <2>2. CASE r.kind = "close" /\ Spares /\ UNCHANGED moved /\ Replies(Reply(r, "ok"), [server.open EXCEPT ![r.h] = 0])
    BY <1>7, <1>12, <2>2
  <2>3. CASE r.kind = "read" /\ r.h # NoHandle /\ Spares /\ Passed(server.open[r.h], "down", r.at)
             /\ Replies(Reply(r, "data"), server.open)
    BY <1>8, <1>12, <2>3
  <2>4. CASE r.kind = "copy" /\ r.h # NoHandle /\ Changes(r.n) /\ Passed(server.open[r.h], "copy", 0)
             /\ Replies(Reply(r, "ok"), server.open)
    BY <1>9, <1>13, <2>4 DEF Judged
  <2>5. CASE /\ r.kind = "write" /\ server.open[r.h] # 0 /\ r.h \in server.writable /\ Changes(server.open[r.h]) /\ UNCHANGED moved
             /\ \E type \in {"ok", "fail"} : Replies(Reply(r, type), server.open)
    <3>1. server.open[r.h] \in did
      BY <2>5 DEF SftpJudged
    <3>2. UNCHANGED <<did, Halfway>>
      BY <2>5, <3>1, HalfwayStays DEF Changes
    <3>3. Does(r)
      BY <2>5, <3>2 DEF Does, Judged
    <3>4. QED
      BY <1>10, <1>11, <2>5, <3>2, <3>3
  <2>6. CASE r.kind = "change" /\ Changes(r.n) /\ UNCHANGED moved /\ \E type \in {"ok", "reply"} : Replies(Reply(r, type), server.open)
    BY <1>10, <1>13, <2>6 DEF Judged
  <2>7. CASE r.kind = "unread" /\ UNCHANGED moved /\ Replies(Reply(r, "ok"), server.open) /\ (Spares \/ \E f : Behind(r, f))
    <3>1. UNCHANGED <<did, Halfway>>
      BY <1>12, <1>14, <2>7
    <3>2. Does(r)
      BY <2>7, <3>1 DEF Does, Judged
    <3>3. QED
      BY <1>10, <2>7, <3>2
  <2>8. QED
    BY <1>16, <2>1, <2>2, <2>3, <2>4, <2>5, <2>6, <2>7 DEF carriesOut
<1>17. CASE failsHalfway(r)
  <2>1. FailsHalfway(r)
    BY <1>14, <1>17 DEF failsHalfway, FailsHalfway, Judged
  <2>2. QED
    BY <1>11, <1>17, <2>1 DEF failsHalfway
<1>18. CASE refuses(r)
  BY <1>11, <1>12, <1>18 DEF refuses
<1>19. QED
  BY <1>16, <1>17, <1>18 DEF serve, r

LEMMA ReadingIs ==
  ASSUME TablesOK, readerTakesAnswer \/ readerTakesRefusal \/ readerShows
  PROVE  Hands \/ Shows \/ Recedes
<1>1. CASE readerTakesAnswer \/ readerTakesRefusal
  BY <1>1, HalfwayStays DEF readerTakesAnswer, readerTakesRefusal, Hands, TablesOK, writerVars, pumpVars, tables, logVars, personVars, ghosts
<1>2. CASE readerShows /\ CanReach
  BY <1>2, HalfwayStays DEF readerShows, Shows, writerVars, pumpVars, tables, logVars, ghosts
<1>3. CASE readerShows /\ ~CanReach
  BY <1>3, HalfwayStays DEF readerShows, Recedes, TablesOK, writerVars, pumpVars, tables, logVars, ghosts
<1>4. QED
  BY <1>1, <1>2, <1>3 DEF readerShows

LEMMA FinishingIs == sessionFinish => Finishes
  BY HalfwayStays DEF sessionFinish, Finishes, writerVars, pumpVars, readerVars, personVars, ghosts

LEMMA StoppingIs ==
  ASSUME SftpJudged, serverEnds \/ transportLost
  PROVE  Stops
<1>1. server' = [server EXCEPT !.eof = TRUE, !.inbox = <<>>]
  BY DEF serverEnds, transportLost
<1>2. server'.inbox = <<>> /\ server'.outbox = server.outbox /\ server'.open = server.open
  BY <1>1 DEF SftpJudged, SftpServer
<1>3. QED
  BY <1>2, HalfwayStays DEF serverEnds, transportLost, Stops, proxyVars, writerVars, pumpVars, readerVars, tables, logVars, personVars, ghosts

LEMMA RecedingIs ==
  ASSUME SftpJudged, TablesOK,
         \/ clientEnds \/ clientCloses \/ refusalGivenUp \/ writerEnds \/ pumpEnds \/ readerEnds
         \/ cancel \/ bridgeDone \/ UNCHANGED sftpVars
  PROVE  Recedes
<1>1. CASE clientEnds \/ clientCloses
  <2>1. client'.sent = client.sent /\ client'.closed = client.closed
    BY <1>1 DEF clientEnds, clientCloses, SftpJudged, SftpClient
  <2>2. QED
    BY <1>1, <2>1, HalfwayStays DEF clientEnds, clientCloses, Recedes, TablesOK, proxyVars, writerVars, pumpVars, readerVars, tables, logVars, ghosts
<1>2. CASE refusalGivenUp \/ writerEnds \/ pumpEnds \/ readerEnds
  BY <1>2, HalfwayStays DEF refusalGivenUp, writerEnds, pumpEnds, readerEnds, Recedes, TablesOK, writerVars, pumpVars, readerVars, tables,
              logVars, personVars, ghosts
<1>3. CASE cancel \/ bridgeDone
  BY <1>3, HalfwayStays DEF cancel, bridgeDone, Recedes, TablesOK, writerVars, pumpVars, readerVars, tables, logVars, personVars, ghosts
<1>4. CASE UNCHANGED sftpVars
  BY <1>4, HalfwayStays DEF sftpVars, Recedes, TablesOK, proxyVars, writerVars, pumpVars, readerVars, tables, logVars, personVars, ghosts
<1>5. QED
  BY <1>1, <1>2, <1>3, <1>4

\* The records of the files.
LEMMA ObserveIs ==
  ASSUME NEW f \in SftpFile, NEW dir \in {"up", "down"}, NEW at \in 0..MaxAt
  PROVE  LET o == observe(f, dir, at)
             inOrder == f.sequential /\ at = f.next /\ dir = o.dir
         IN /\ o \in SftpFile /\ o.n = f.n /\ o.moved /\ o.copied = f.copied
            /\ o.dir = (IF f.moved THEN f.dir ELSE dir) /\ o.sequential = inOrder
            /\ o.size = (IF at + 1 > f.size THEN at + 1 ELSE f.size)
            /\ o.next = (IF inOrder THEN f.next + 1 ELSE f.next)
<1> DEFINE d == IF f.moved THEN f.dir ELSE dir
           inOrder == f.sequential /\ at = f.next /\ dir = d
           size == IF at + 1 > f.size THEN at + 1 ELSE f.size
           next == IF inOrder THEN f.next + 1 ELSE f.next
           o == observe(f, dir, at)
<1>1. o = [f EXCEPT !.moved = TRUE, !.dir = d, !.size = size, !.sequential = inOrder, !.next = next]
  BY DEF observe
<1>2. at \in Nat /\ at + 1 \in Nat
  BY SftpAssumption
<1>3. f.size \in Nat /\ f.next \in Nat /\ d \in {"up", "down"}
  BY DEF SftpFile
<1>4. size \in Nat /\ next \in Nat /\ inOrder \in BOOLEAN
  BY <1>2, <1>3
<1> HIDE DEF size, next, inOrder, d, o
<1>5. /\ o \in SftpFile /\ o.n = f.n /\ o.moved /\ o.copied = f.copied /\ o.dir = d /\ o.sequential = inOrder
      /\ o.size = size /\ o.next = next
  BY <1>1, <1>3, <1>4 DEF SftpFile
<1>6. QED
  BY <1>5 DEF size, next, inOrder, d, o

LEMMA NewFileIs ==
  ASSUME NEW r \in SftpRequest
  PROVE  LET f == newSFTPHandle(r)
         IN f \in SftpFile /\ f.n = r.n /\ ~f.moved /\ f.next = 0 /\ f.size = 0 /\ f.sequential /\ ~f.copied
  BY DEF newSFTPHandle, SftpRequest, SftpFile

LEMMA CopyDoneIs ==
  ASSUME NEW p, files[p.h] \in SftpFile
  PROVE  copyDone(p) \in SftpFile /\ copyDone(p).n = files[p.h].n /\ copyDone(p).copied
  BY DEF copyDone, SftpFile

LEMMA FileIsSome == \A f : f \in SftpFile \cup {None} /\ f # None => f \in SftpFile /\ f.n \in Numbers
  BY DEF SftpFile

LEMMA NumbersAreNat == \A n \in Numbers : n \in Nat /\ n # 0 /\ n <= MaxRequests
  BY SftpAssumption DEF Numbers

LEMMA ObservedIs ==
  ASSUME TablesOK, NEW h \in Handles, NEW dir \in {"up", "down"}, NEW at \in 0..MaxAt
  PROVE  /\ Observed(h, dir, at) \in [Handles -> SftpFile \cup {None}]
         /\ \A k \in Handles : Observed(h, dir, at)[k] =
              IF k = h /\ files[h] # None THEN observe(files[h], dir, at) ELSE files[k]
         /\ \A k \in Handles : (Observed(h, dir, at)[k] = None) = (files[k] = None)
         /\ \A k \in Handles : Observed(h, dir, at)[k] # None => Observed(h, dir, at)[k].n = files[k].n
<1>1. files \in [Handles -> SftpFile \cup {None}]
  BY DEF TablesOK
<1>2. CASE files[h] = None
  BY <1>1, <1>2 DEF Observed
<1>3. CASE files[h] # None
  <2> DEFINE o == observe(files[h], dir, at)
  <2>1. o \in SftpFile /\ o.n = files[h].n /\ files[h] \in SftpFile
    BY <1>1, <1>3, FileIsSome, ObserveIs
  <2>2. o # None
    BY <2>1, FileIsSome DEF SftpFile, None, Numbers
  <2>3. Observed(h, dir, at) = [files EXCEPT ![h] = o]
    BY <1>3 DEF Observed
  <2> HIDE DEF o
  <2>4. QED
    BY <1>1, <1>3, <2>1, <2>2, <2>3 DEF o
<1>4. QED
  BY <1>2, <1>3

\* The files after an answer: one is new, goes, or has changed; its number stays.
LEMMA FilesAfterIs ==
  ASSUME TablesOK, NEW a \in SftpAnswer, NEW p \in SftpRequest \cup SftpOther, Answers(a, p)
  PROVE  /\ filesAfter(p, a) \in [Handles -> SftpFile \cup {None}]
         /\ \/ a.type = "handle" /\ p \in SftpRequest /\ a.h \in Handles
               /\ filesAfter(p, a) = [files EXCEPT ![a.h] = newSFTPHandle(p)]
            \/ /\ a.type = "data" /\ p.kind = "read" /\ p \in SftpRequest /\ p.h = a.h /\ a.h \in Handles
               /\ filesAfter(p, a) = Observed(a.h, "down", p.at)
            \/ p.kind = "close" /\ p.h = a.h /\ a.h \in Handles /\ a.type \in {"ok", "fail"}
               /\ filesAfter(p, a) = [files EXCEPT ![a.h] = None]
            \/ p.kind = "copy" /\ a.type = "ok" /\ p.h = a.h /\ a.h \in Handles /\ files[a.h] # None
               /\ filesAfter(p, a) = [files EXCEPT ![a.h] = copyDone(p)]
            \/ p.kind # "close" /\ a.type \notin {"handle", "data"} /\ filesAfter(p, a) = files
               /\ (p.kind = "copy" /\ a.type = "ok" => files[a.h] = None)
<1>1. files \in [Handles -> SftpFile \cup {None}]
  BY DEF TablesOK
<1>2. a.type \in {"handle", "ok", "fail", "data", "reply"}
  BY DEF SftpAnswer
<1>3. CASE a.type = "handle"
  <2>1. p \in SftpRequest /\ a.h \in Handles /\ filesAfter(p, a) = [files EXCEPT ![a.h] = newSFTPHandle(p)]
    BY <1>3 DEF Answers, filesAfter, SftpOther
  <2>2. QED
    BY <1>1, <1>3, <2>1, NewFileIs
<1>4. CASE a.type = "data"
  <2>1. p \in SftpRequest /\ p.h = a.h /\ a.h \in Handles /\ p.kind = "read" /\ filesAfter(p, a) = Observed(a.h, "down", p.at)
    BY <1>4 DEF Answers, filesAfter, SftpOther
  <2>2. p.at \in 0..MaxAt
    BY <2>1 DEF SftpRequest
  <2>3. QED
    BY <1>4, <2>1, <2>2, ObservedIs
<1>5. CASE a.type \notin {"handle", "data"} /\ p.kind = "close"
  <2>1. a.type \in {"ok", "fail"} /\ p.h = a.h /\ a.h \in Handles /\ Resolves(p, a)
    BY <1>2, <1>5 DEF Answers, Resolves
  <2>2. filesAfter(p, a) = [files EXCEPT ![a.h] = None]
    BY <1>5, <2>1 DEF filesAfter
  <2>3. QED
    BY <1>1, <1>5, <2>1, <2>2
<1>6. CASE a.type \notin {"handle", "data"} /\ p.kind # "close"
  <2>1. CASE a.type = "ok" /\ p.kind = "copy" /\ files[p.h] # None
    <3>1. p.h = a.h /\ a.h \in Handles /\ filesAfter(p, a) = [files EXCEPT ![a.h] = copyDone(p)]
      BY <2>1 DEF Answers, filesAfter
    <3>2. copyDone(p) \in SftpFile
      BY <1>1, <2>1, <3>1, FileIsSome, CopyDoneIs
    <3>3. QED
      BY <1>1, <2>1, <3>1, <3>2
  <2>2. CASE ~(a.type = "ok" /\ p.kind = "copy" /\ files[p.h] # None)
    <3>1. filesAfter(p, a) = files
      BY <1>6, <2>2 DEF filesAfter
    <3>2. p.kind = "copy" => p.h = a.h
      BY DEF Answers
    <3>3. QED
      BY <1>1, <1>6, <2>2, <3>1, <3>2
  <2>3. QED
    BY <2>1, <2>2
<1>7. QED
  BY <1>3, <1>4, <1>5, <1>6

\* The head of what the machine has answered.
LEMMA HeadAnswers ==
  ASSUME SftpJudged, TablesOK, QueuesOK, server.outbox # <<>>
  PROVE  LET a == Head(server.outbox)
             p == pending[a.id]
         IN /\ a = server.outbox[1] /\ a \in SftpAnswer /\ p \in SftpRequest \cup SftpOther /\ Answers(a, p) /\ p # None
            /\ a.n \in Numbers /\ p.n = a.n /\ a.id \in RequestIds /\ 1 \in InO
<1> DEFINE a == server.outbox[1]
<1>1. server.outbox \in Seq(SftpAnswer)
  BY DEF SftpJudged, SftpServer
<1>2. 1 \in InO /\ a \in SftpAnswer /\ Head(server.outbox) = a
  BY <1>1, QueueTail DEF InO
<1>3. Answers(a, pending[a.id])
  BY <1>2 DEF QueuesOK
<1>4. a.id \in RequestIds /\ a.n \in Numbers
  BY <1>2 DEF SftpAnswer
<1>5. QED
  BY <1>2, <1>3, <1>4 DEF TablesOK, Answers

\* The line of an answer.
LEMMA EntryIs ==
  ASSUME TablesOK, NEW a \in SftpAnswer, NEW p \in SftpRequest \cup SftpOther, Answers(a, p)
  PROVE  \/ /\ Entry(p, a) = None
            /\ p.kind \in {"open"} \cup Judged => a.type = "handle"
            /\ p.kind = "close" => files[a.h] = None
         \/ /\ Entry(p, a) # None /\ Entry(p, a).n = a.n /\ p.kind \in {"open"} \cup Judged /\ a.type # "handle"
            /\ Entry(p, a).line \in SftpEntry /\ Entry(p, a).line = FileLine(opOutcome(a), "none", 0) /\ a.n \in Numbers
         \/ /\ p.kind = "close" /\ p.h = a.h /\ a.h \in Handles /\ files[a.h] \in SftpFile
            /\ Entry(p, a) # None /\ Entry(p, a).n = files[a.h].n /\ a.type \in {"ok", "fail"}
            /\ Entry(p, a).line \in SftpEntry /\ Entry(p, a).line = fileClosed(files[a.h], opOutcome(a))
<1>1. /\ a.type \in {"handle", "ok", "fail", "data", "reply"} /\ a.n \in Numbers /\ p # None /\ p.n = a.n
      /\ opOutcome(a) \in {"ok", "failed"}
  BY DEF SftpAnswer, Answers, opOutcome
<1>2. FileLine(opOutcome(a), "none", 0) \in SftpEntry
  BY <1>1 DEF FileLine, SftpEntry
<1>3. CASE p.kind \in {"open"} \cup Judged
  <2>1. CASE Resolves(p, a)
    <3>1. Entry(p, a) = [n |-> p.n, line |-> FileLine(opOutcome(a), "none", 0)]
      BY <1>1, <1>3, <2>1 DEF Entry, finishOp
    <3>2. Entry(p, a) # None
      BY <1>1, <3>1 DEF None, Numbers
    <3>3. a.type # "handle"
      BY <2>1 DEF Resolves
    <3>4. QED
      BY <1>1, <1>2, <1>3, <3>1, <3>2, <3>3
  <2>2. CASE ~Resolves(p, a)
    <3>1. a.type = "handle"
      BY <1>1, <1>3, <2>2 DEF Resolves, Answers, Judged
    <3>2. QED
      BY <1>3, <2>2, <3>1 DEF Entry, Judged
  <2>3. QED
    BY <2>1, <2>2
<1>4. CASE p.kind = "close"
  <2>1. a.type \in {"ok", "fail"} /\ Resolves(p, a) /\ p.h = a.h /\ a.h \in Handles
    BY <1>1, <1>4 DEF Resolves, Answers
  <2>2. CASE files[a.h] = None
    BY <1>1, <1>4, <2>1, <2>2 DEF Entry, finishOp, Judged
  <2>3. CASE files[a.h] # None
    <3>1. files[a.h] \in SftpFile /\ files[a.h].n \in Numbers
      BY <2>1, <2>3, FileIsSome DEF TablesOK
    <3>2. Entry(p, a) = [n |-> files[a.h].n, line |-> fileClosed(files[a.h], opOutcome(a))]
      BY <1>1, <1>4, <2>1, <2>3 DEF Entry, finishOp, Judged
    <3>3. Entry(p, a) # None
      BY <3>1, <3>2 DEF None, Numbers
    <3>4. fileClosed(files[a.h], opOutcome(a)) \in SftpEntry
      BY <1>1, <3>1 DEF fileClosed, FileLine, SftpEntry, sha, SftpFile
    <3>5. QED
      BY <1>4, <2>1, <3>1, <3>2, <3>3, <3>4
  <2>4. QED
    BY <2>2, <2>3
<1>5. CASE p.kind \notin {"open", "close"} \cup Judged
  <2>1. Entry(p, a) = None
    BY <1>5 DEF Entry, finishOp
  <2>2. QED
    BY <1>5, <2>1
<1>6. QED
  BY <1>3, <1>4, <1>5

LEMMA PumpingIs ==
  ASSUME SftpJudged, TablesOK, QueuesOK, pumpTakes
  PROVE  Takes(Head(server.outbox))
<1> DEFINE a == Head(server.outbox)
           p == pending[a.id]
           entry == Entry(p, a)
<1>1. server'.inbox = server.inbox /\ server'.outbox = Tail(server.outbox) /\ server'.open = server.open /\ server.outbox # <<>>
  BY DEF pumpTakes, SftpJudged, SftpServer
<1>2. UNCHANGED <<moved, client, seen, given, did, Halfway, session, bridging, writer, request, reader, holding>>
  BY HalfwayStays DEF pumpTakes, writerVars, readerVars, personVars, ghosts
<1>3. handleServerPacket(a) /\ puller = "read" /\ packet' = IF puller' = "send" THEN a ELSE None
  BY DEF pumpTakes
<1>4. a \in SftpAnswer /\ p \in SftpRequest \cup SftpOther /\ Answers(a, p)
  BY <1>1, HeadAnswers
<1> HIDE DEF a
<1>5. entry # None => entry.n \in Numbers /\ entry.line \in SftpEntry
  BY <1>4, EntryIs, FileIsSome DEF TablesOK, SftpFile
<1> HIDE DEF p
<1>6. /\ pending' = [pending EXCEPT ![a.id] = None]
      /\ files' = IF p = None THEN files ELSE filesAfter(p, a)
      /\ \/ entry = None /\ puller' = "send" /\ lines' = lines
         \/ entry # None /\ puller' = "send" /\ Written(entry.n, entry.line)
         \/ entry # None /\ puller' = "error" /\ NotWritten(entry.n, entry.line)
  BY <1>3 DEF handleServerPacket, Entry, p
<1> HIDE DEF entry
<1>7. CASE entry = None
  BY <1>1, <1>2, <1>3, <1>6, <1>7 DEF Takes, a, p, entry
<1>8. CASE entry # None
  <2>1. /\ lines' = [lines EXCEPT ![entry.n] = Append(@, Put(entry.n))] /\ Like(Put(entry.n), entry.line)
        /\ puller' = "send" => Put(entry.n).recorded
    BY <1>5, <1>6, <1>8, WrittenIs
  <2>2. QED
    BY <1>1, <1>2, <1>3, <1>6, <1>8, <2>1 DEF Takes, a, p, entry
<1>9. QED
  BY <1>7, <1>8

\* The steps, as the invariant sees them.
LEMMA StepIs ==
  ASSUME SftpJudged, TablesOK, QueuesOK, [SftpNext]_sftpVars
  PROVE  \/ Recedes \/ Stops \/ Refuses \/ Hands \/ Shows \/ Finishes \/ Takes(Head(server.outbox))
         \/ \E r : Preps(r) \/ Sends(r)
         \/ \E r, a : Mints(r, a) \/ Closes(r, a) \/ Answered(r, a)
  BY AskingIs, JudgingIs, RefusingIs, ServingIs, PumpingIs, ReadingIs, FinishingIs, StoppingIs, RecedingIs
  DEF SftpNext, Peers, Goroutines

\* What a session leaves open.
LEMMA LeftOpenIs ==
  ASSUME TablesOK, leftOpen
  PROVE  /\ lines' \in [Numbers -> Seq(SftpLine)]
         /\ \A n \in Numbers : (\A h \in Handles : files[h] # None => files[h].n # n) => lines'[n] = lines[n]
         /\ \A n \in Numbers : (\E h \in Handles : files[h] # None /\ files[h].n = n) =>
              \E e \in SftpLine : e.out = "unclosed" /\ lines'[n] = Append(lines[n], e)
<1>1. \A n \in Numbers : lines[n] \in Seq(SftpLine)
  BY DEF TablesOK
<1>2. ASSUME NEW n \in Numbers, \E h \in Handles : files[h] # None /\ files[h].n = n
      PROVE  unclosedLine(n) \in SftpEntry /\ unclosedLine(n).out = "unclosed"
  <2> DEFINE f == CHOOSE f \in {files[h] : h \in Handles} : f # None /\ f.n = n
  <2>1. f \in {files[h] : h \in Handles} /\ f # None
    BY <1>2
  <2>2. f \in SftpFile
    BY <2>1, FileIsSome DEF TablesOK
  <2>3. unclosedLine(n) = FileLine("unclosed", sha(f), f.size)
    BY DEF unclosedLine
  <2> HIDE DEF f
  <2>4. QED
    BY <2>2, <2>3 DEF SftpFile, FileLine, SftpEntry, sha
<1>3. PICK recorded \in SUBSET (IF recording = "open" THEN unclosed ELSE {}), journaled \in SUBSET unclosed :
        lines' = [n \in Numbers |->
          IF n \in unclosed THEN Append(lines[n], Logged(unclosedLine(n), n \in recorded, n \in journaled)) ELSE lines[n]]
  BY DEF leftOpen
<1>4. \A n \in Numbers : n \in unclosed <=> \E h \in Handles : files[h] # None /\ files[h].n = n
  BY DEF unclosed
<1>5. ASSUME NEW n \in Numbers, n \in unclosed
      PROVE  LET e == Logged(unclosedLine(n), n \in recorded, n \in journaled) IN e \in SftpLine /\ e.out = "unclosed"
  BY <1>2, <1>4, <1>5 DEF Logged, SftpLine, SftpEntry
<1>6. ASSUME NEW n \in Numbers
      PROVE  lines'[n] \in Seq(SftpLine)
  BY <1>1, <1>3, <1>5
<1>7. QED
  BY <1>3, <1>4, <1>5, <1>6

\* The tables stay well formed.
LEMMA TablesKeptAsking ==
  ASSUME SftpJudged, TablesOK, QueuesOK, NEW r, Preps(r) \/ Sends(r)
  PROVE  TablesOK'
<1>1. r \in SftpRequest /\ writer \in {"copy", "judge"} /\ session = "bridge" /\ session' = session /\ r.id \in RequestIds
  BY DEF Preps, Sends, Asked, TablesOK, SftpRequest
<1>2. Other(r) \in SftpOther /\ What(r) \in SftpRequest \cup SftpOther
  BY <1>1 DEF Other, SftpOther, SftpRequest, What
<1>3. UNCHANGED <<lines, given, seen, puller, packet, reader, holding>>
  BY DEF Preps, Sends
<1>4. pending' \in [RequestIds -> SftpRequest \cup SftpOther \cup {None}]
  BY <1>1, <1>2 DEF Preps, Sends, TablesOK
<1>5. files' \in [Handles -> SftpFile \cup {None}]
  <2>1. CASE r.kind = "write"
    <3>1. r.h \in Handles /\ r.at \in 0..MaxAt
      BY <1>1, <2>1 DEF Preps, Sends, Asked, NamesHandle, SftpRequest, NeedsHandle
    <3>2. files' = files \/ files' = Observed(r.h, "up", r.at)
      BY DEF Preps, Sends
    <3>3. files \in [Handles -> SftpFile \cup {None}]
      BY DEF TablesOK
    <3>4. Observed(r.h, "up", r.at) \in [Handles -> SftpFile \cup {None}]
      BY <3>1, ObservedIs
    <3>5. QED
      BY <3>2, <3>3, <3>4
  <2>2. CASE r.kind # "write"
    BY <2>2 DEF Preps, Sends, TablesOK
  <2>3. QED
    BY <2>1, <2>2
<1>6. moved' \in [Numbers -> Seq(SftpChunk)]
  <2>1. moved \in [Numbers -> Seq(SftpChunk)]
    BY DEF TablesOK
  <2>2. <<"up", r.at>> \in SftpChunk
    BY <1>1 DEF SftpRequest, SftpChunk
  <2>3. \A n \in Numbers : Append(moved[n], <<"up", r.at>>) \in Seq(SftpChunk)
    BY <2>1, <2>2, QueueAppend
  <2>4. QED
    BY ZenonT(60), <2>1, <2>3 DEF Preps, Sends
<1>7. writer' \in {"judge", "reply"} => request' \in SftpRequest
  BY <1>1 DEF Preps, Sends
<1>8. QED
  BY <1>1, <1>3, <1>4, <1>5, <1>6, <1>7 DEF TablesOK

LEMMA TablesKeptServing ==
  ASSUME SftpJudged, TablesOK, NEW r, NEW a, Mints(r, a) \/ Closes(r, a) \/ Answered(r, a)
  PROVE  TablesOK'
<1>1. UNCHANGED <<pending, files, lines, given, seen, session, bridging, writer, request, puller, packet, reader, holding>>
  BY DEF Mints, Closes, Answered, Served
<1>2. moved \in [Numbers -> Seq(SftpChunk)]
  BY DEF TablesOK
<1>3. r \in SftpRequest
  <2>1. server.inbox \in Seq(SftpRequest) /\ server.inbox # <<>> /\ r = Head(server.inbox)
    BY DEF Mints, Closes, Answered, Served, SftpJudged, SftpServer
  <2>2. QED
    BY <2>1, QueueTail
<1>4. \A c \in SftpChunk, n \in Numbers : Append(moved[n], c) \in Seq(SftpChunk)
  BY <1>2, QueueAppend
<1>5. <<"down", r.at>> \in SftpChunk /\ <<"copy", 0>> \in SftpChunk
  BY <1>3, SftpAssumption DEF SftpRequest, SftpChunk
<1>6. moved' \in [Numbers -> Seq(SftpChunk)]
  BY ZenonT(60), <1>2, <1>4, <1>5 DEF Mints, Closes, Answered, Passed
<1>7. QED
  BY <1>1, <1>6 DEF TablesOK

LEMMA TablesKeptTaking ==
  ASSUME SftpJudged, TablesOK, QueuesOK, NEW a, Takes(a)
  PROVE  TablesOK'
<1> DEFINE p == pending[a.id]
<1>1. a \in SftpAnswer /\ p \in SftpRequest \cup SftpOther /\ Answers(a, p) /\ p # None
  BY HeadAnswers DEF Takes
<1>2. UNCHANGED <<moved, given, seen, session, bridging, writer, request, reader, holding>>
  BY DEF Takes
<1>3. pending' \in [RequestIds -> SftpRequest \cup SftpOther \cup {None}]
  BY DEF Takes, TablesOK
<1>4. files' \in [Handles -> SftpFile \cup {None}]
  BY <1>1, FilesAfterIs DEF Takes
<1>5. lines' \in [Numbers -> Seq(SftpLine)]
  <2>1. lines \in [Numbers -> Seq(SftpLine)]
    BY DEF TablesOK
  <2>2. Entry(p, a) # None => Put(Entry(p, a).n) \in SftpLine
    BY DEF Takes, Like
  <2>3. \A e \in SftpLine, n \in Numbers : Append(lines[n], e) \in Seq(SftpLine)
    BY <2>1, QueueAppend
  <2>4. lines' = IF Entry(p, a) = None THEN lines ELSE [lines EXCEPT ![Entry(p, a).n] = Append(@, Put(Entry(p, a).n))]
    BY DEF Takes
  <2>5. QED
    BY <2>1, <2>2, <2>3, <2>4
<1>6. puller' = "send" => packet' \in SftpAnswer
  BY <1>1 DEF Takes
<1>7. QED
  BY <1>2, <1>3, <1>4, <1>5, <1>6 DEF TablesOK

LEMMA TablesKeptElse ==
  ASSUME SftpJudged, TablesOK, QueuesOK, Recedes \/ Stops \/ Refuses \/ Hands \/ Shows \/ Finishes
  PROVE  TablesOK'
<1>1. CASE Recedes \/ Stops
  BY <1>1 DEF Recedes, Stops, TablesOK
<1>2. CASE Refuses
  <2>1. request \in SftpRequest /\ request.n \in Numbers /\ request.id \in RequestIds
    BY <1>2 DEF Refuses, TablesOK, SftpRequest
  <2>2. Put(request.n) \in SftpLine
    BY <1>2 DEF Refuses
  <2>3. lines \in [Numbers -> Seq(SftpLine)]
    BY DEF TablesOK
  <2>4. Append(lines[request.n], Put(request.n)) \in Seq(SftpLine)
    BY <2>1, <2>2, <2>3, QueueAppend
  <2>5. lines' \in [Numbers -> Seq(SftpLine)]
    BY <1>2, <2>3, <2>4 DEF Refuses
  <2>6. pending' \in [RequestIds -> SftpRequest \cup SftpOther \cup {None}]
    BY <1>2 DEF Refuses, TablesOK
  <2>7. QED
    BY <1>2, <2>1, <2>5, <2>6 DEF Refuses, TablesOK
<1>3. CASE Hands
  <2>1. \A q \in SftpRequest : Refusal(q) \in SftpPacket
    BY DEF Refusal, SftpRequest, SftpPacket
  <2>2. \A b \in SftpAnswer : b \in SftpPacket
    BY DEF SftpAnswer, SftpPacket
  <2>3. holding' \in SftpPacket /\ session' = "bridge"
    BY <1>3, <2>1, <2>2 DEF Hands, TablesOK
  <2>4. QED
    BY <1>3, <2>3 DEF Hands, TablesOK
<1>4. CASE Shows
  <2>1. holding.h \in Handles \cup {NoHandle} /\ holding.n \in Numbers
    BY <1>4 DEF Shows, TablesOK, SftpPacket
  <2>2. given' \in [Numbers -> Handles \cup {NoHandle}] /\ seen' \subseteq Numbers
    BY <1>4, <2>1 DEF Shows, TablesOK
  <2>3. QED
    BY <1>4, <2>2 DEF Shows, TablesOK
<1>5. CASE Finishes
  <2>1. files' \in [Handles -> SftpFile \cup {None}]
    BY <1>5 DEF Finishes
  <2>2. lines' \in [Numbers -> Seq(SftpLine)]
    BY <1>5, LeftOpenIs DEF Finishes
  <2>3. QED
    BY <1>5, <2>1, <2>2 DEF Finishes, TablesOK
<1>6. QED
  BY <1>1, <1>2, <1>3, <1>4, <1>5

\* What is in the queues.
LEMMA QueueTypes ==
  ASSUME SftpJudged
  PROVE  /\ server.inbox \in Seq(SftpRequest) /\ server.outbox \in Seq(SftpAnswer) /\ server.open \in [Handles -> Nat]
         /\ Len(server.inbox) \in Nat /\ Len(server.outbox) \in Nat
         /\ \A j \in InI : server.inbox[j] \in SftpRequest /\ server.inbox[j].n \in Numbers
         /\ \A i \in InO : server.outbox[i] \in SftpAnswer /\ server.outbox[i].n \in Numbers
         /\ client.sent \in Nat
<1>1. /\ server.inbox \in Seq(SftpRequest) /\ server.outbox \in Seq(SftpAnswer) /\ server.open \in [Handles -> Nat]
      /\ client.sent \in Nat
  BY DEF SftpJudged, SftpServer, SftpClient
<1>2. \A j \in InI : server.inbox[j] \in SftpRequest
  BY <1>1 DEF InI
<1>3. \A i \in InO : server.outbox[i] \in SftpAnswer
  BY <1>1 DEF InO
<1>4. \A r \in SftpRequest : r.n \in Numbers
  BY DEF SftpRequest
<1>5. \A a \in SftpAnswer : a.n \in Numbers
  BY DEF SftpAnswer
<1>6. QED
  BY <1>1, <1>2, <1>3, <1>4, <1>5

\* An id that is free, or the judge's, is the id of nothing on its way.
LEMMA IdsApart ==
  ASSUME SftpJudged, QueuesOK, NEW x,
         pending[x] = None \/ (writer = "judge" /\ x = request.id)
  PROVE  /\ \A j \in InI : server.inbox[j].id # x
         /\ \A i \in InO : server.outbox[i].id # x
<1>1. pending[x].n = 0 \/ (Asking /\ pending[x].n = client.sent)
  BY DEF None, QueuesOK, Asking, Other
<1>2. \A r : What(r).n = r.n
  BY DEF What, Other
<1>3. \A j \in InI : LET r == server.inbox[j]
                     IN r.n \in Nat /\ r.n # 0 /\ Past(r.n, client.sent, Asking) /\ pending[r.id].n = r.n
  BY <1>2, QueueTypes, NumbersAreNat DEF QueuesOK
<1>4. \A i \in InO : LET a == server.outbox[i]
                     IN a.n \in Nat /\ a.n # 0 /\ Past(a.n, client.sent, Asking) /\ pending[a.id].n = a.n
  BY QueueTypes, NumbersAreNat DEF QueuesOK, Answers
<1>5. QED
  BY SMTT(30), <1>1, <1>3, <1>4, QueueTypes DEF Past

\* The person's next request is the newest.
LEMMA NewestIs ==
  ASSUME SftpJudged, QueuesOK, NEW r \in SftpRequest,
         r.n = client.sent + 1 \/ (writer = "judge" /\ r = request)
  PROVE  /\ r.n \in Nat /\ r.n \in Numbers
         /\ \A j \in InI : server.inbox[j].n < r.n
         /\ \A i \in InO : server.outbox[i].n < r.n
<1>1. \A j \in InI : server.inbox[j].n \in Nat /\ Past(server.inbox[j].n, client.sent, Asking)
  BY QueueTypes, NumbersAreNat DEF QueuesOK
<1>2. \A i \in InO : server.outbox[i].n \in Nat /\ Past(server.outbox[i].n, client.sent, Asking)
  BY QueueTypes, NumbersAreNat DEF QueuesOK
<1>3. r.n \in Numbers /\ r.n \in Nat
  BY NumbersAreNat DEF SftpRequest
<1>4. writer = "judge" /\ r = request => Asking /\ r.n = client.sent
  BY DEF QueuesOK, Asking
<1>5. QED
  BY <1>1, <1>2, <1>3, <1>4, QueueTypes DEF Past

LEMMA QueuesKeptPreps ==
  ASSUME SftpJudged, TablesOK, QueuesOK, NEW r, Preps(r)
  PROVE  QueuesOK'
<1>1. /\ r \in SftpRequest /\ NamesHandle(r) /\ (r.h # NoHandle => Holds(r.h)) /\ r.n = client.sent + 1 /\ client'.sent = r.n
      /\ server' = server /\ writer = "copy" /\ given' = given
  BY DEF Preps, Asked
<1>2. \A n \in Nat : Past(n, client.sent, Asking) => Past(n, client'.sent, Asking')
  BY <1>1, QueueTypes DEF Past, Asking
<1>3. \A x : (\A j \in InI : server.inbox[j].id # x) /\ (\A i \in InO : server.outbox[i].id # x) /\ pending' = [pending EXCEPT ![x] = Other(r)]
        => (\A j \in InI : pending'[server.inbox[j].id] = pending[server.inbox[j].id])
           /\ (\A i \in InO : pending'[server.outbox[i].id] = pending[server.outbox[i].id])
  BY DEF TablesOK
<1>4. /\ \A j \in InI : pending'[server.inbox[j].id] = pending[server.inbox[j].id]
      /\ \A i \in InO : pending'[server.outbox[i].id] = pending[server.outbox[i].id]
  BY <1>3, IdsApart DEF Preps
<1>5. writer' = "judge" =>
        /\ pending'[request'.id] = Other(request') /\ request'.kind \in Judged /\ NamesHandle(request')
        /\ (request'.h # NoHandle => Holds(request.h)')
  <2> SUFFICES ASSUME writer' = "judge"
               PROVE  /\ pending'[request'.id] = Other(request') /\ request'.kind \in Judged /\ NamesHandle(request')
                      /\ (request'.h # NoHandle => Holds(request.h)')
    OBVIOUS
  <2>1. request' = r /\ r.kind \in Judged /\ pending' = [pending EXCEPT ![r.id] = Other(r)] /\ client'.closed = client.closed
    BY DEF Preps, Asked, Judged
  <2>2. r.h # NoHandle => Holds(r.h)'
    BY <1>1, <2>1 DEF Holds
  <2>3. QED
    BY <1>1, <2>1, <2>2 DEF TablesOK, SftpRequest
<1>6. Asking' => request'.n = client'.sent
  BY <1>1 DEF Preps, Asking
<1>7. \A j \in InI : LET q == server.inbox[j]
                     IN Past(q.n, client'.sent, Asking') /\ pending'[q.id] = What(q) /\ NamesHandle(q) /\ q.kind # "malformed"
  BY <1>2, <1>4, QueueTypes, NumbersAreNat DEF QueuesOK
<1>8. \A i \in InO : LET a == server.outbox[i] IN Past(a.n, client'.sent, Asking') /\ Answers(a, pending'[a.id])
  BY <1>2, <1>4, QueueTypes, NumbersAreNat DEF QueuesOK
<1>9. InI' = InI /\ InO' = InO
  BY <1>1 DEF InI, InO
<1>10. QED
  BY <1>1, <1>5, <1>6, <1>7, <1>8, <1>9 DEF QueuesOK

LEMMA QueuesKeptSends ==
  ASSUME SftpJudged, TablesOK, QueuesOK, NEW r, Sends(r)
  PROVE  QueuesOK'
<1>1. /\ r \in SftpRequest /\ NamesHandle(r) /\ r.kind # "malformed" /\ r.id \in RequestIds
      /\ r.n = client.sent + 1 \/ (writer = "judge" /\ r = request)
      /\ pending[r.id] = None \/ (writer = "judge" /\ r.id = request.id)
      /\ pending' = [pending EXCEPT ![r.id] = What(r)] /\ server'.outbox = server.outbox
      /\ ~Asking'
  BY DEF Sends, Asked, Asking, SftpRequest
<1>2. client'.sent = r.n /\ client.sent <= r.n
  <2>1. client.sent \in Nat
    BY QueueTypes
  <2>2. (r.n = client.sent + 1 /\ client'.sent = r.n) \/ (writer = "judge" /\ r = request /\ client' = client)
    BY DEF Sends, Asked
  <2>3. writer = "judge" => request.n = client.sent
    BY DEF QueuesOK, Asking
  <2>4. QED
    BY <2>1, <2>2, <2>3
<1>3. /\ r.n \in Nat
      /\ \A j \in InI : server.inbox[j].n < r.n /\ server.inbox[j].id # r.id
      /\ \A i \in InO : server.outbox[i].n < r.n /\ server.outbox[i].id # r.id
  BY <1>1, NewestIs, IdsApart
<1>4. \A n \in Nat : n <= r.n => Past(n, client'.sent, Asking')
  BY <1>1, <1>2 DEF Past
<1>5. \A i \in InO : LET a == server.outbox[i] IN Past(a.n, client'.sent, Asking') /\ Answers(a, pending'[a.id])
  BY <1>1, <1>3, <1>4, QueueTypes, NumbersAreNat DEF QueuesOK, TablesOK
<1>6. \A j \in InI : LET q == server.inbox[j]
                     IN Past(q.n, client'.sent, Asking') /\ pending'[q.id] = What(q) /\ NamesHandle(q) /\ q.kind # "malformed"
  BY <1>1, <1>3, <1>4, QueueTypes, NumbersAreNat DEF QueuesOK, TablesOK
<1>7. InO' = InO
  BY <1>1 DEF InO
<1>8. CASE server'.inbox = server.inbox
  <2>1. InI' = InI
    BY <1>8 DEF InI
  <2>2. QED
    BY <1>1, <1>5, <1>6, <1>7, <1>8, <2>1 DEF QueuesOK, Asking
<1>9. CASE server'.inbox = Append(server.inbox, r)
  <2>1. /\ \A j \in InI' : j \in InI \/ j = Len(server.inbox) + 1
        /\ \A j \in InI : server'.inbox[j] = server.inbox[j]
        /\ server'.inbox[Len(server.inbox) + 1] = r
        /\ \A j \in InI : j < Len(server.inbox) + 1
    BY <1>1, <1>9, QueueTypes, QueueAppend DEF InI
  <2>2. \A j \in InI' : LET q == server'.inbox[j]
                        IN Past(q.n, client'.sent, Asking') /\ pending'[q.id] = What(q) /\ NamesHandle(q) /\ q.kind # "malformed"
    <3> SUFFICES ASSUME NEW j \in InI'
                 PROVE  LET q == server'.inbox[j]
                        IN Past(q.n, client'.sent, Asking') /\ pending'[q.id] = What(q) /\ NamesHandle(q) /\ q.kind # "malformed"
      OBVIOUS
    <3>1. CASE j \in InI
      BY <1>6, <2>1, <3>1
    <3>2. CASE j = Len(server.inbox) + 1
      BY <1>1, <1>3, <1>4, <2>1, <3>2 DEF TablesOK
    <3>3. QED
      BY <2>1, <3>1, <3>2
  <2>3. \A i, j \in InI' : i < j => server'.inbox[i].n < server'.inbox[j].n
    <3> SUFFICES ASSUME NEW i \in InI', NEW j \in InI', i < j PROVE server'.inbox[i].n < server'.inbox[j].n
      OBVIOUS
    <3>1. i \in InI
      BY <2>1, QueueTypes DEF InI
    <3>2. CASE j \in InI
      BY <2>1, <3>1, <3>2 DEF QueuesOK
    <3>3. CASE j = Len(server.inbox) + 1
      BY <1>3, <2>1, <3>1, <3>3
    <3>4. QED
      BY <2>1, <3>2, <3>3
  <2>4. \A i \in InO, j \in InI' : server.outbox[i].n < server'.inbox[j].n
    BY <1>3, <2>1 DEF QueuesOK
  <2>5. QED
    BY <1>1, <1>5, <1>7, <2>2, <2>3, <2>4 DEF QueuesOK, Asking
<1>10. QED
  BY <1>8, <1>9 DEF Sends

LEMMA QueuesKeptServing ==
  ASSUME SftpJudged, TablesOK, QueuesOK, NEW r, NEW a, Mints(r, a) \/ Closes(r, a) \/ Answered(r, a)
  PROVE  QueuesOK'
<1>1. Served(r, a)
  BY DEF Mints, Closes, Answered
<1>2. UNCHANGED <<pending, client, given, writer, request>>
  BY <1>1 DEF Served
<1>3. /\ r = server.inbox[1] /\ 1 \in InI /\ r \in SftpRequest /\ a \in SftpAnswer /\ a.n = r.n /\ a.id = r.id
      /\ Past(r.n, client.sent, Asking) /\ pending[r.id] = What(r) /\ NamesHandle(r)
      /\ \A j \in InI' : j + 1 \in InI /\ server'.inbox[j] = server.inbox[j + 1] /\ 1 < j + 1
  <2>1. server.inbox # <<>> /\ server'.inbox = Tail(server.inbox) /\ r = Head(server.inbox)
    BY <1>1 DEF Served
  <2>2. 1 \in InI /\ r = server.inbox[1] /\ r \in SftpRequest
    BY <2>1, QueueTypes, QueueTail DEF InI
  <2>3. \A j \in InI' : j + 1 \in InI /\ server'.inbox[j] = server.inbox[j + 1] /\ 1 < j + 1
    BY <2>1, QueueTypes, QueueTail DEF InI
  <2>4. QED
    BY <1>1, <2>2, <2>3 DEF QueuesOK, Served
<1>4. /\ \A i \in InO' : i \in InO \/ i = Len(server.outbox) + 1
      /\ \A i \in InO : server'.outbox[i] = server.outbox[i] /\ i < Len(server.outbox) + 1
      /\ server'.outbox[Len(server.outbox) + 1] = a
  BY <1>1, QueueTypes, QueueAppend DEF Served, InO
<1>5. \A n : Past(n, client'.sent, Asking') <=> Past(n, client.sent, Asking)
  BY <1>2 DEF Past, Asking
<1>6. Answers(a, pending[a.id])
  <2>1. What(r) # None /\ What(r).n = r.n
    BY <1>3 DEF What, Other, None, SftpRequest, Numbers
  <2>2. CASE r.kind \in {"write", "unread"}
    BY <1>3, <2>1, <2>2 DEF Answers, What, Other, Mints, Closes, Answered, SftpAnswer
  <2>3. CASE r.kind \notin {"write", "unread"}
    BY <1>3, <2>1, <2>3 DEF Answers, What, Mints, Closes, Answered, NamesHandle, NeedsHandle, SftpRequest, Judged
  <2>4. QED
    BY <2>2, <2>3
<1>7. \A i \in InO' : Past(server'.outbox[i].n, client.sent, Asking) /\ Answers(server'.outbox[i], pending[server'.outbox[i].id])
  BY <1>3, <1>4, <1>6 DEF QueuesOK
<1>8. \A j \in InI' : LET q == server'.inbox[j]
                      IN Past(q.n, client.sent, Asking) /\ pending[q.id] = What(q) /\ NamesHandle(q) /\ q.kind # "malformed"
  BY <1>3 DEF QueuesOK
<1>9. \A i, j \in InI' : i < j => server'.inbox[i].n < server'.inbox[j].n
  <2> SUFFICES ASSUME NEW i \in InI', NEW j \in InI', i < j PROVE server'.inbox[i].n < server'.inbox[j].n
    OBVIOUS
  <2>1. i + 1 < j + 1
    BY DEF InI
  <2>2. QED
    BY <1>3, <2>1 DEF QueuesOK
<1>10. \A j \in InI' : r.n < server'.inbox[j].n
  BY <1>3 DEF QueuesOK
<1>11. \A i \in InO', j \in InI' : server'.outbox[i].n < server'.inbox[j].n
  BY <1>3, <1>4, <1>10 DEF QueuesOK
<1>12. \A i, j \in InO' : i < j => server'.outbox[i].n < server'.outbox[j].n
  <2> SUFFICES ASSUME NEW i \in InO', NEW j \in InO', i < j PROVE server'.outbox[i].n < server'.outbox[j].n
    OBVIOUS
  <2>1. i \in InO
    BY SMTT(30), <1>4, QueueTypes DEF InO
  <2>2. CASE j \in InO
    BY <1>4, <2>1, <2>2 DEF QueuesOK
  <2>3. CASE j = Len(server.outbox) + 1
    BY <1>3, <1>4, <2>1, <2>3 DEF QueuesOK
  <2>4. QED
    BY <1>4, <2>2, <2>3
<1>13. writer' = "judge" => /\ pending'[request'.id] = Other(request') /\ request'.kind \in Judged /\ NamesHandle(request')
                            /\ (request'.h # NoHandle => Holds(request.h)')
  BY <1>2 DEF QueuesOK, Holds
<1>14. Asking' => request'.n = client'.sent
  BY <1>2 DEF QueuesOK, Asking
<1>15. QED
  BY <1>2, <1>5, <1>7, <1>8, <1>9, <1>11, <1>12, <1>13, <1>14 DEF QueuesOK

LEMMA QueuesKeptTaking ==
  ASSUME SftpJudged, TablesOK, QueuesOK, NEW a, Takes(a)
  PROVE  QueuesOK'
<1>1. /\ a = server.outbox[1] /\ 1 \in InO /\ a.n \in Numbers
      /\ \A j \in InO' : j + 1 \in InO /\ server'.outbox[j] = server.outbox[j + 1] /\ 1 < j + 1
  <2>1. server.outbox # <<>> /\ server'.outbox = Tail(server.outbox) /\ a = Head(server.outbox)
    BY DEF Takes
  <2>2. QED
    BY <2>1, QueueTypes, QueueTail, HeadAnswers DEF InO
<1>2. server'.inbox = server.inbox /\ InI' = InI /\ UNCHANGED <<client, given, writer, request>>
      /\ pending' = [pending EXCEPT ![a.id] = None]
  BY DEF Takes, InI
<1>3. pending[a.id].n = a.n
  BY <1>1 DEF QueuesOK, Answers
<1>4. \A j \in InI : server.inbox[j].id # a.id
  <2> SUFFICES ASSUME NEW j \in InI, server.inbox[j].id = a.id PROVE FALSE
    OBVIOUS
  <2>1. a.n < server.inbox[j].n /\ pending[a.id] = What(server.inbox[j])
    BY <1>1 DEF QueuesOK
  <2>2. What(server.inbox[j]).n = server.inbox[j].n
    BY DEF What, Other
  <2>3. QED
    BY <1>1, <1>3, <2>1, <2>2, QueueTypes, NumbersAreNat
<1>5. \A j \in InO' : server'.outbox[j].id # a.id
  <2> SUFFICES ASSUME NEW j \in InO', server'.outbox[j].id = a.id PROVE FALSE
    OBVIOUS
  <2>1. a.n < server.outbox[j + 1].n /\ pending[a.id].n = server.outbox[j + 1].n
    BY <1>1 DEF QueuesOK, Answers
  <2>2. QED
    BY <1>1, <1>3, <2>1, NumbersAreNat
<1>6. \A n : Past(n, client'.sent, Asking') <=> Past(n, client.sent, Asking)
  BY <1>2 DEF Past, Asking
<1>7. \A j \in InI : LET q == server.inbox[j]
                     IN Past(q.n, client.sent, Asking) /\ pending'[q.id] = What(q) /\ NamesHandle(q) /\ q.kind # "malformed"
  BY <1>2, <1>4 DEF QueuesOK, TablesOK
<1>8. \A j \in InO' : Past(server'.outbox[j].n, client.sent, Asking) /\ Answers(server'.outbox[j], pending'[server'.outbox[j].id])
  <2> SUFFICES ASSUME NEW j \in InO'
               PROVE  Past(server'.outbox[j].n, client.sent, Asking) /\ Answers(server'.outbox[j], pending'[server'.outbox[j].id])
    OBVIOUS
  <2>1. /\ Past(server.outbox[j + 1].n, client.sent, Asking)
        /\ Answers(server.outbox[j + 1], pending[server.outbox[j + 1].id])
    BY <1>1 DEF QueuesOK
  <2>2. pending'[server'.outbox[j].id] = pending[server'.outbox[j].id]
    BY <1>2, <1>5 DEF TablesOK
  <2>3. QED
    BY <1>1, <2>1, <2>2
<1>9. \A i, j \in InO' : i < j => server'.outbox[i].n < server'.outbox[j].n
  <2> SUFFICES ASSUME NEW i \in InO', NEW j \in InO', i < j PROVE server'.outbox[i].n < server'.outbox[j].n
    OBVIOUS
  <2>1. i + 1 < j + 1
    BY DEF InO
  <2>2. QED
    BY <1>1, <2>1 DEF QueuesOK
<1>10. \A i \in InO', j \in InI : server'.outbox[i].n < server.inbox[j].n
  BY <1>1 DEF QueuesOK
<1>11. writer = "judge" => request.id # a.id
  <2>1. writer = "judge" => pending[request.id].n = client.sent /\ a.n < client.sent
    BY <1>1 DEF QueuesOK, Past, Asking, Other
  <2>2. QED
    BY <1>1, <1>3, <2>1, QueueTypes, NumbersAreNat
<1>12. writer' = "judge" => /\ pending'[request'.id] = Other(request') /\ request'.kind \in Judged /\ NamesHandle(request')
                            /\ (request'.h # NoHandle => Holds(request.h)')
  BY <1>2, <1>11 DEF QueuesOK, Holds, TablesOK
<1>13. Asking' => request'.n = client'.sent
  BY <1>2 DEF QueuesOK, Asking
<1>14. QED
  BY <1>2, <1>6, <1>7, <1>8, <1>9, <1>10, <1>12, <1>13 DEF QueuesOK

LEMMA QueuesKeptElse ==
  ASSUME SftpJudged, TablesOK, QueuesOK, FreshOK, Recedes \/ Stops \/ Refuses \/ Hands \/ Shows \/ Finishes
  PROVE  QueuesOK'
<1>1. /\ server'.outbox = server.outbox /\ (server'.inbox = server.inbox \/ server'.inbox = <<>>) /\ InO' = InO
      /\ client'.sent = client.sent /\ client'.closed = client.closed
      /\ Asking' => Asking /\ request' = request
      /\ writer' = "judge" => writer = "judge"
  BY DEF Recedes, Stops, Refuses, Hands, Shows, Finishes, InO, Asking
<1>2. \A n : Past(n, client.sent, Asking) => Past(n, client'.sent, Asking')
  BY <1>1 DEF Past
<1>3. \A m \in Numbers : given[m] # NoHandle => given'[m] = given[m]
  <2>1. CASE Shows
    <3>1. holding.n \in Numbers /\ given[holding.n] = NoHandle
      BY <2>1 DEF Shows, FreshOK, TablesOK, SftpPacket
    <3>2. QED
      BY <2>1, <3>1 DEF Shows, TablesOK
  <2>2. CASE ~Shows
    BY <2>2 DEF Recedes, Stops, Refuses, Hands, Finishes
  <2>3. QED
    BY <2>1, <2>2
<1>4. /\ \A j \in InI : pending'[server.inbox[j].id] = pending[server.inbox[j].id]
      /\ \A i \in InO : pending'[server.outbox[i].id] = pending[server.outbox[i].id]
      /\ writer' = "judge" => pending' = pending
  <2>1. CASE Refuses
    BY <2>1, IdsApart DEF Refuses, TablesOK
  <2>2. CASE ~Refuses
    BY <2>2 DEF Recedes, Stops, Hands, Shows, Finishes
  <2>3. QED
    BY <2>1, <2>2
<1>5. InI' \subseteq InI /\ \A j \in InI' : server'.inbox[j] = server.inbox[j]
  BY <1>1, QueueTypes DEF InI
<1>6. writer' = "judge" => (request'.h # NoHandle => Holds(request.h)')
  <2> SUFFICES ASSUME writer' = "judge", request'.h # NoHandle PROVE Holds(request.h)'
    OBVIOUS
  <2>1. request' = request /\ Holds(request.h) /\ writer = "judge"
    BY <1>1 DEF QueuesOK, Asking
  <2>2. PICK m \in Numbers : given[m] = request.h /\ m \notin client.closed
    BY <2>1 DEF Holds
  <2>3. given'[m] = request'.h /\ m \notin client'.closed
    BY <1>1, <1>3, <2>1, <2>2
  <2>4. QED
    BY <2>3 DEF Holds
<1>7. /\ Asking' => request'.n = client'.sent
      /\ writer' = "judge" => pending'[request'.id] = Other(request') /\ request'.kind \in Judged /\ NamesHandle(request')
  BY <1>1, <1>4 DEF QueuesOK, Asking
<1>8. \A j \in InI' : LET q == server'.inbox[j]
                      IN Past(q.n, client'.sent, Asking') /\ pending'[q.id] = What(q) /\ NamesHandle(q) /\ q.kind # "malformed"
  BY <1>2, <1>4, <1>5 DEF QueuesOK
<1>9. \A i \in InO : LET b == server.outbox[i] IN Past(b.n, client'.sent, Asking') /\ Answers(b, pending'[b.id])
  BY <1>2, <1>4 DEF QueuesOK
<1>10. /\ \A i, j \in InI' : i < j => server'.inbox[i].n < server'.inbox[j].n
       /\ \A i \in InO, j \in InI' : server.outbox[i].n < server'.inbox[j].n
  BY <1>5 DEF QueuesOK
<1>11. QED
  BY <1>1, <1>6, <1>7, <1>8, <1>9, <1>10 DEF QueuesOK

\* What happens to the others leaves an untouched request untouched.
LEMMA UntouchedBySends ==
  ASSUME SftpInv, NEW r, Sends(r), NEW x \in Numbers
  PROVE  Untouched(x) => Untouched(x)'
<1> SUFFICES ASSUME Untouched(x) PROVE Untouched(x)'
  OBVIOUS
<1>1. UNCHANGED <<lines, seen, given, puller, packet, reader, holding>> /\ r \in SftpRequest
  BY DEF Sends
<1>2. TablesOK
  BY DEF SftpInv
<1>3. Unseen(x)' /\ lines'[x] = <<>>
  BY <1>1 DEF Untouched, Unseen
<1>4. \A h \in Handles : files'[h] # None => files[h] # None /\ files'[h].n = files[h].n
  <2>1. CASE r.kind = "write"
    <3>1. r.h \in Handles /\ r.at \in 0..MaxAt
      BY <1>1, <2>1 DEF Sends, NamesHandle, SftpRequest, NeedsHandle
    <3>2. files' = Observed(r.h, "up", r.at)
      BY <2>1 DEF Sends
    <3>3. QED
      BY <1>2, <3>1, <3>2, ObservedIs
  <2>2. CASE r.kind # "write"
    BY <2>2 DEF Sends
  <2>3. QED
    BY <2>1, <2>2
<1>5. moved'[x] = <<>>
  <2>1. moved[x] = <<>> /\ \A h \in Handles : files[h] # None => files[h].n # x
    BY DEF Untouched
  <2>2. CASE r.kind = "write" /\ files[r.h] # None /\ moved' = [moved EXCEPT ![files[r.h].n] = Append(@, <<"up", r.at>>)]
    <3>1. r.h \in Handles
      BY <1>1, <2>2 DEF Sends, NamesHandle, SftpRequest, NeedsHandle
    <3>2. QED
      BY <1>2, <2>1, <2>2, <3>1 DEF TablesOK
  <2>3. CASE moved' = moved
    BY <2>1, <2>3
  <2>4. QED
    BY <2>2, <2>3 DEF Sends
<1>6. QED
  BY <1>3, <1>4, <1>5 DEF Untouched

\* The file the machine has open under a handle that is used is a file the proxy
\* knows.
LEMMA UsedIs ==
  ASSUME SftpInv, NEW r, NEW a, Served(r, a), r.h # NoHandle
  PROVE  /\ r.h \in Handles /\ OpenFile(r.h) /\ files[r.h] \in SftpFile /\ files[r.h].n = server.open[r.h]
         /\ r = server.inbox[1] /\ 1 \in InI
<1>1. server.inbox # <<>> /\ r = Head(server.inbox) /\ session # "ended"
  BY DEF Served
<1>2. r = server.inbox[1] /\ 1 \in InI /\ r \in SftpRequest
  BY <1>1, QueueTypes, QueueTail DEF InI, SftpInv
<1>3. r.h \in Handles
  BY <1>2 DEF SftpRequest
<1>4. UsesOK(r.h)
  BY <1>3 DEF SftpInv, HandlesOK
<1>5. OpenFile(r.h)
  BY <1>1, <1>2, <1>4 DEF UsesOK
<1>6. QED
  BY <1>2, <1>3, <1>5, FileIsSome DEF OpenFile, SftpInv, TablesOK

LEMMA UntouchedByServing ==
  ASSUME SftpInv, NEW r, NEW a, Mints(r, a) \/ Closes(r, a) \/ Answered(r, a), NEW x \in Numbers
  PROVE  Untouched(x) => Untouched(x)'
<1> SUFFICES ASSUME Untouched(x) PROVE Untouched(x)'
  OBVIOUS
<1>1. Served(r, a) /\ UNCHANGED <<files, lines, seen, given, puller, packet, reader, holding>>
  BY DEF Mints, Closes, Answered, Served
<1>2. moved \in [Numbers -> Seq(SftpChunk)]
  BY DEF SftpInv, TablesOK
<1>3. CASE r.h # NoHandle /\ \E c : moved' = [moved EXCEPT ![server.open[r.h]] = Append(@, c)]
  <2>1. server.open[r.h] # x
    BY <1>1, <1>3, UsedIs DEF Untouched, OpenFile
  <2>2. moved'[x] = moved[x]
    BY <1>2, <1>3, <2>1
  <2>3. QED
    BY <1>1, <2>2 DEF Untouched, Unseen
<1>4. CASE moved' = moved
  BY <1>1, <1>4 DEF Untouched, Unseen
<1>5. QED
  BY <1>3, <1>4 DEF Mints, Closes, Answered, Passed

LEMMA UntouchedByTaking ==
  ASSUME SftpInv, NEW a, Takes(a), NEW x \in Numbers, x # a.n
  PROVE  Untouched(x) => Untouched(x)'
<1> SUFFICES ASSUME Untouched(x) PROVE Untouched(x)'
  OBVIOUS
<1> DEFINE p == pending[a.id]
<1>1. a \in SftpAnswer /\ p \in SftpRequest \cup SftpOther /\ Answers(a, p) /\ p # None /\ p.n = a.n
  BY HeadAnswers DEF Takes, SftpInv
<1>2. TablesOK
  BY DEF SftpInv
<1>3. /\ given[x] = NoHandle /\ x \notin seen /\ (reader = "hold" => holding.n # x) /\ lines[x] = <<>> /\ moved[x] = <<>>
      /\ \A h \in Handles : files[h] # None => files[h].n # x
  BY DEF Untouched, Unseen
<1>4. UNCHANGED <<given, seen, reader, holding, moved>> /\ (puller' = "send" => packet' = a)
  BY DEF Takes
<1> HIDE DEF p
<1>5. lines'[x] = <<>>
  <2>1. lines' = IF Entry(p, a) = None THEN lines ELSE [lines EXCEPT ![Entry(p, a).n] = Append(@, Put(Entry(p, a).n))]
    BY DEF Takes, p
  <2>2. Entry(p, a) # None => Entry(p, a).n # x
    <3>1. files[a.h] \in SftpFile => files[a.h] # None
      BY DEF SftpFile, None, Numbers
    <3>2. QED
      BY <1>1, <1>2, <1>3, <3>1, EntryIs
  <2>3. QED
    BY <1>2, <1>3, <2>1, <2>2 DEF TablesOK
<1>6. \A h \in Handles : files'[h] # None => files'[h].n # x
  <2> SUFFICES ASSUME NEW h \in Handles, files'[h] # None PROVE files'[h].n # x
    OBVIOUS
  <2>1. files' = filesAfter(p, a)
    BY <1>1 DEF Takes, p
  <2>2. files \in [Handles -> SftpFile \cup {None}]
    BY <1>2 DEF TablesOK
  <2>3. CASE a.h \in Handles /\ p \in SftpRequest /\ files' = [files EXCEPT ![a.h] = newSFTPHandle(p)]
    BY <1>1, <1>3, <2>2, <2>3, NewFileIs
  <2>4. CASE a.h \in Handles /\ p \in SftpRequest /\ files' = Observed(a.h, "down", p.at)
    <3>1. p.at \in 0..MaxAt
      BY <2>4 DEF SftpRequest
    <3>2. QED
      BY <1>2, <1>3, <2>4, <3>1, ObservedIs
  <2>5. CASE a.h \in Handles /\ files' = [files EXCEPT ![a.h] = None]
    BY <1>3, <2>2, <2>5
  <2>6. CASE p.h = a.h /\ a.h \in Handles /\ files[a.h] # None /\ files' = [files EXCEPT ![a.h] = copyDone(p)]
    <3>1. copyDone(p).n = files[a.h].n
      BY <2>2, <2>6, FileIsSome, CopyDoneIs
    <3>2. QED
      BY <1>3, <2>2, <2>6, <3>1
  <2>7. CASE files' = files
    BY <1>3, <2>7
  <2>8. QED
    BY <1>1, <1>2, <2>1, <2>3, <2>4, <2>5, <2>6, <2>7, FilesAfterIs
<1>7. QED
  BY <1>3, <1>4, <1>5, <1>6 DEF Untouched, Unseen

LEMMA FreshKeptSends ==
  ASSUME SftpInv, NEW r, Sends(r)
  PROVE  FreshOK'
<1>1. /\ r \in SftpRequest /\ UNCHANGED <<seen, given, Carried, puller, packet, reader, holding>> /\ ~Asking'
      /\ server'.outbox = server.outbox /\ InO' = InO
      /\ r.n = client.sent + 1 \/ (writer = "judge" /\ r = request)
  BY DEF Sends, Asked, Asking, InO, Carried
<1>2. SftpJudged /\ FreshOK /\ QueuesOK /\ TablesOK
  BY DEF SftpInv
<1>3. r.n \in Numbers /\ client'.sent = r.n /\ client.sent <= r.n
  <2>1. client.sent \in Nat /\ r.n \in Numbers
    BY <1>1, <1>2, QueueTypes DEF SftpRequest
  <2>2. CASE Asked(r)
    BY <2>1, <2>2, NumbersAreNat DEF Asked
  <2>3. CASE writer = "judge" /\ r = request /\ client' = client
    <3>1. request.n = client.sent
      BY <1>2, <2>3 DEF QueuesOK, Asking
    <3>2. QED
      BY <2>1, <2>3, <3>1
  <2>4. QED
    BY <2>2, <2>3 DEF Sends
<1>4. Untouched(r.n) /\ r.n \notin Carried
  BY <1>1, <1>2, <1>3, QueueTypes DEF FreshOK
<1>5. /\ \A j \in InI' : j \in InI \/ (j = Len(server.inbox) + 1 /\ server'.inbox[j] = r)
      /\ \A j \in InI : server'.inbox[j] = server.inbox[j]
  <2>1. CASE server'.inbox = server.inbox
    BY <2>1 DEF InI
  <2>2. CASE server'.inbox = Append(server.inbox, r)
    BY <1>1, <1>2, <2>2, QueueTypes, QueueAppend DEF InI
  <2>3. QED
    BY <2>1, <2>2 DEF Sends
<1>6. \A x \in Numbers : Untouched(x) => Untouched(x)'
  BY UntouchedBySends
<1>7. \A j \in InI' : Untouched(server.inbox[j].n)' /\ server'.inbox[j].n \notin Carried'
  <2> SUFFICES ASSUME NEW j \in InI', NEW x, x = server'.inbox[j].n PROVE Untouched(x)' /\ x \notin Carried
    BY <1>1 DEF Untouched, Unseen
  <2>1. Untouched(x) /\ x \notin Carried /\ x \in Numbers
    BY <1>2, <1>3, <1>4, <1>5, QueueTypes DEF FreshOK
  <2>2. QED
    BY <1>6, <2>1
<1>8. \A i \in InO' : Untouched(server.outbox[i].n)'
  <2> SUFFICES ASSUME NEW i \in InO', NEW x, x = server'.outbox[i].n PROVE Untouched(x)'
    BY DEF Untouched, Unseen
  <2>1. Untouched(x) /\ x \in Numbers
    BY <1>1, <1>2, QueueTypes DEF FreshOK
  <2>2. QED
    BY <1>6, <2>1
<1>9. \A n \in Numbers : n > client'.sent => Untouched(n)' /\ n \notin Carried'
  BY <1>1, <1>2, <1>3, <1>6, QueueTypes, NumbersAreNat DEF FreshOK
<1>10. \A m \in client'.closed : given'[m] # NoHandle
  BY <1>1, <1>2 DEF FreshOK, Sends, Asked, NamesHandle, NeedsHandle
<1>11. QED
  BY <1>1, <1>2, <1>7, <1>8, <1>9, <1>10 DEF FreshOK, Asking

LEMMA FreshKeptServing ==
  ASSUME SftpInv, NEW r, NEW a, Mints(r, a) \/ Closes(r, a) \/ Answered(r, a)
  PROVE  FreshOK'
<1>1. /\ Served(r, a) /\ UNCHANGED <<seen, given, client, writer, request, puller, packet, reader, holding>>
      /\ Carried' \subseteq Carried \cup {r.n}
  BY DEF Mints, Closes, Answered, Served, Does, FailsHalfway, Carried
<1>2. SftpJudged /\ FreshOK /\ QueuesOK /\ TablesOK
  BY DEF SftpInv
<1>3. /\ r = server.inbox[1] /\ 1 \in InI /\ a.n = r.n
      /\ \A j \in InI' : j + 1 \in InI /\ server'.inbox[j] = server.inbox[j + 1] /\ 1 < j + 1
  BY <1>1, <1>2, QueueTypes, QueueTail DEF Served, InI
<1>4. \A i \in InO' : (i \in InO /\ server'.outbox[i] = server.outbox[i]) \/ server'.outbox[i] = a
  BY <1>1, <1>2, QueueTypes, QueueAppend DEF Served, InO
<1>5. \A x \in Numbers : Untouched(x) => Untouched(x)'
  BY UntouchedByServing
<1>6. r.n \in Numbers /\ Past(r.n, client.sent, Asking) /\ Untouched(r.n)
  BY <1>2, <1>3, QueueTypes DEF QueuesOK, FreshOK
<1>7. \A j \in InI' : Untouched(server.inbox[j].n)' /\ server'.inbox[j].n \notin Carried'
  <2> SUFFICES ASSUME NEW j \in InI', NEW x, x = server'.inbox[j].n PROVE Untouched(x)' /\ x \notin Carried'
    BY DEF Untouched, Unseen
  <2>1. Untouched(x) /\ x \notin Carried /\ x \in Numbers
    BY <1>2, <1>3, QueueTypes DEF FreshOK
  <2>2. r.n < x
    BY <1>2, <1>3 DEF QueuesOK
  <2>3. QED
    BY <1>1, <1>5, <1>6, <2>1, <2>2, NumbersAreNat
<1>8. \A i \in InO' : Untouched(server.outbox[i].n)'
  <2> SUFFICES ASSUME NEW i \in InO', NEW x, x = server'.outbox[i].n PROVE Untouched(x)'
    BY DEF Untouched, Unseen
  <2>1. Untouched(x) /\ x \in Numbers
    BY <1>2, <1>3, <1>4, <1>6, QueueTypes DEF FreshOK
  <2>2. QED
    BY <1>5, <2>1
<1>9. \A n \in Numbers : n > client'.sent => Untouched(n)' /\ n \notin Carried'
  BY <1>1, <1>2, <1>5, <1>6, QueueTypes, NumbersAreNat DEF FreshOK, Past
<1>10. Asking => request.n # r.n /\ request.n \in Numbers
  BY <1>2, <1>6, QueueTypes, NumbersAreNat DEF QueuesOK, Past, Asking, TablesOK, SftpRequest
<1>11. writer' = "judge" => Untouched(request.n)' /\ request'.n \notin Carried'
  <2> SUFFICES ASSUME writer = "judge", NEW x, x = request.n PROVE Untouched(x)' /\ x \notin Carried'
    BY <1>1 DEF Untouched, Unseen
  <2>1. QED
    BY <1>1, <1>2, <1>5, <1>10 DEF FreshOK, Asking
<1>12. writer' = "reply" => Unseen(request.n)' /\ request'.n \notin Carried'
  BY <1>1, <1>2, <1>10 DEF FreshOK, Asking, Unseen
<1>13. QED
  BY <1>1, <1>2, <1>7, <1>8, <1>9, <1>11, <1>12 DEF FreshOK

LEMMA FreshKeptTaking ==
  ASSUME SftpInv, NEW a, Takes(a)
  PROVE  FreshOK'
<1>1. UNCHANGED <<seen, given, Carried, client, writer, request, reader, holding>> /\ (puller' = "send" => packet' = a)
      /\ server'.inbox = server.inbox /\ InI' = InI
  BY DEF Takes, InI, Carried
<1>2. SftpJudged /\ FreshOK /\ QueuesOK /\ TablesOK
  BY DEF SftpInv
<1>3. /\ a = server.outbox[1] /\ 1 \in InO /\ a.n \in Numbers
      /\ \A j \in InO' : j + 1 \in InO /\ server'.outbox[j] = server.outbox[j + 1] /\ 1 < j + 1
  <2>1. server.outbox # <<>> /\ server'.outbox = Tail(server.outbox) /\ a = Head(server.outbox)
    BY DEF Takes
  <2>2. QED
    BY <1>2, <2>1, QueueTypes, QueueTail, HeadAnswers DEF InO
<1>4. Untouched(a.n) /\ Past(a.n, client.sent, Asking)
  BY <1>2, <1>3 DEF FreshOK, QueuesOK
<1>5. \A x \in Numbers : x # a.n /\ Untouched(x) => Untouched(x)'
  BY UntouchedByTaking
<1>6. \A j \in InI' : Untouched(server.inbox[j].n)' /\ server'.inbox[j].n \notin Carried'
  <2> SUFFICES ASSUME NEW j \in InI', NEW x, x = server'.inbox[j].n PROVE Untouched(x)' /\ x \notin Carried'
    BY DEF Untouched, Unseen
  <2>1. Untouched(x) /\ x \notin Carried /\ x \in Numbers
    BY <1>1, <1>2, QueueTypes DEF FreshOK
  <2>2. a.n < x
    BY <1>1, <1>2, <1>3 DEF QueuesOK
  <2>3. QED
    BY <1>1, <1>3, <1>5, <2>1, <2>2, NumbersAreNat
<1>7. \A i \in InO' : Untouched(server.outbox[i].n)'
  <2> SUFFICES ASSUME NEW i \in InO', NEW x, x = server'.outbox[i].n PROVE Untouched(x)'
    BY DEF Untouched, Unseen
  <2>1. Untouched(x) /\ x \in Numbers
    BY <1>2, <1>3, QueueTypes DEF FreshOK
  <2>2. a.n < x
    BY <1>2, <1>3 DEF QueuesOK
  <2>3. QED
    BY <1>3, <1>5, <2>1, <2>2, NumbersAreNat
<1>8. \A n \in Numbers : n > client'.sent => Untouched(n)' /\ n \notin Carried'
  BY <1>1, <1>2, <1>3, <1>4, <1>5, QueueTypes, NumbersAreNat DEF FreshOK, Past
<1>9. Asking => request.n # a.n /\ request.n \in Numbers
  BY <1>2, <1>3, <1>4, QueueTypes, NumbersAreNat DEF QueuesOK, Past, Asking, TablesOK, SftpRequest
<1>10. writer' = "judge" => Untouched(request.n)' /\ request'.n \notin Carried'
  <2> SUFFICES ASSUME writer = "judge", NEW x, x = request.n PROVE Untouched(x)' /\ x \notin Carried'
    BY <1>1 DEF Untouched, Unseen
  <2>1. QED
    BY <1>1, <1>2, <1>5, <1>9 DEF FreshOK, Asking
<1>11. writer' = "reply" => Unseen(request.n)' /\ request'.n \notin Carried'
  BY <1>1, <1>2, <1>9 DEF FreshOK, Asking, Unseen
<1>12. puller' = "send" => given'[packet'.n] = NoHandle /\ packet'.n \notin seen' /\ (reader' = "hold" => holding'.n # packet'.n)
  BY <1>1, <1>4 DEF Untouched, Unseen
<1>13. QED
  BY <1>1, <1>2, <1>6, <1>7, <1>8, <1>10, <1>11, <1>12 DEF FreshOK

LEMMA FreshKeptPreps ==
  ASSUME SftpInv, NEW r, Preps(r)
  PROVE  FreshOK'
<1>1. /\ r \in SftpRequest /\ r.n \in Numbers /\ r.n = client.sent + 1 /\ client'.sent = r.n
      /\ UNCHANGED <<server, files, moved, lines, seen, given, Carried, puller, packet, reader, holding>>
  BY DEF Preps, Asked, SftpRequest, Carried
<1>2. SftpJudged /\ FreshOK /\ TablesOK
  BY DEF SftpInv
<1>3. \A x : (Untouched(x) <=> Untouched(x)') /\ (Unseen(x) <=> Unseen(x)')
  BY <1>1 DEF Untouched, Unseen
<1>4. Untouched(r.n) /\ r.n \notin Carried /\ Unseen(r.n)
  BY <1>1, <1>2, QueueTypes DEF FreshOK, Untouched
<1>5. /\ \A j \in InI' : Untouched(server.inbox[j].n)' /\ server'.inbox[j].n \notin Carried'
      /\ \A i \in InO' : Untouched(server.outbox[i].n)'
  BY <1>1, <1>2, <1>3 DEF FreshOK, InI, InO, Untouched, Unseen
<1>6. \A n \in Numbers : n > client'.sent => Untouched(n)' /\ n \notin Carried'
  BY <1>1, <1>2, <1>3, QueueTypes, NumbersAreNat DEF FreshOK
<1>7. writer' \in {"judge", "reply"} => Untouched(request.n)' /\ Unseen(request.n)' /\ request'.n \notin Carried'
  BY <1>1, <1>3, <1>4 DEF Preps, Untouched, Unseen
<1>8. \A m \in client'.closed : given'[m] # NoHandle
  BY <1>1, <1>2 DEF FreshOK, Preps, Asked, NamesHandle, NeedsHandle
<1>9. QED
  BY <1>1, <1>2, <1>5, <1>6, <1>7, <1>8 DEF FreshOK

LEMMA FreshKeptRefuses ==
  ASSUME SftpInv, Refuses
  PROVE  FreshOK'
<1>1. /\ UNCHANGED <<server, files, moved, client, seen, given, Carried, puller, packet, reader, holding>> /\ writer = "judge"
      /\ lines' = [lines EXCEPT ![request.n] = Append(@, Put(request.n))]
      /\ writer' = "reply" => request' = request
      /\ writer' # "judge"
  BY DEF Refuses, Carried
<1>2. SftpJudged /\ FreshOK /\ QueuesOK /\ TablesOK
  BY DEF SftpInv
<1>3. request \in SftpRequest /\ request.n \in Numbers /\ request.n = client.sent
  BY <1>1, <1>2 DEF QueuesOK, Asking, TablesOK, SftpRequest
<1>4. \A x \in Numbers : x # request.n /\ Untouched(x) => Untouched(x)'
  BY <1>1, <1>2 DEF Untouched, Unseen, TablesOK
<1>5. \A j \in InI' : Untouched(server.inbox[j].n)' /\ server'.inbox[j].n \notin Carried'
  <2> SUFFICES ASSUME NEW j \in InI', NEW x, x = server'.inbox[j].n PROVE Untouched(x)' /\ x \notin Carried'
    BY DEF Untouched, Unseen
  <2>1. j \in InI /\ x = server.inbox[j].n
    BY <1>1 DEF InI
  <2>2. x \in Numbers /\ x < request.n /\ Untouched(x) /\ x \notin Carried
    BY <1>1, <1>2, <1>3, <2>1, QueueTypes, NewestIs DEF FreshOK
  <2>3. QED
    BY <1>1, <1>3, <1>4, <2>2, NumbersAreNat
<1>6. \A i \in InO' : Untouched(server.outbox[i].n)'
  <2> SUFFICES ASSUME NEW i \in InO', NEW x, x = server'.outbox[i].n PROVE Untouched(x)'
    BY DEF Untouched, Unseen
  <2>1. i \in InO /\ x = server.outbox[i].n
    BY <1>1 DEF InO
  <2>2. x \in Numbers /\ x < request.n /\ Untouched(x)
    BY <1>1, <1>2, <1>3, <2>1, QueueTypes, NewestIs DEF FreshOK
  <2>3. QED
    BY <1>3, <1>4, <2>2, NumbersAreNat
<1>7. \A n \in Numbers : n > client'.sent => Untouched(n)' /\ n \notin Carried'
  BY <1>1, <1>2, <1>3, <1>4, QueueTypes, NumbersAreNat DEF FreshOK
<1>8. writer' = "reply" => Unseen(request.n)' /\ request'.n \notin Carried'
  BY <1>1, <1>2 DEF FreshOK, Untouched, Unseen
<1>9. QED
  BY <1>1, <1>2, <1>5, <1>6, <1>7, <1>8 DEF FreshOK

LEMMA FreshKeptHands ==
  ASSUME SftpInv, Hands
  PROVE  FreshOK'
<1>1. /\ UNCHANGED <<server, pending, files, lines, moved, client, seen, given, Carried>> /\ reader # "hold" /\ reader' = "hold"
      /\ \/ puller = "send" /\ holding' = packet /\ puller' = "read" /\ UNCHANGED <<writer, request>>
         \/ writer = "reply" /\ holding' = Refusal(request) /\ writer' = "copy" /\ UNCHANGED <<puller, packet>>
  BY DEF Hands, Carried
<1>2. SftpJudged /\ FreshOK /\ QueuesOK /\ TablesOK
  BY DEF SftpInv
<1>3. Refusal(request).n = request.n
  BY DEF Refusal
<1>4. \A x \in Numbers : Untouched(x) /\ (writer = "reply" => x # request.n) => Untouched(x)'
  BY <1>1, <1>3 DEF Untouched, Unseen
<1>5. writer = "reply" => request.n \in Numbers /\ request.n = client.sent /\ Unseen(request.n) /\ request.n \notin Carried
  BY <1>2 DEF QueuesOK, Asking, TablesOK, SftpRequest, FreshOK
<1>6. \A j \in InI' : Untouched(server.inbox[j].n)' /\ server'.inbox[j].n \notin Carried'
  <2> SUFFICES ASSUME NEW j \in InI', NEW x, x = server'.inbox[j].n PROVE Untouched(x)' /\ x \notin Carried'
    BY DEF Untouched, Unseen
  <2>1. j \in InI /\ x = server.inbox[j].n
    BY <1>1 DEF InI
  <2>2. x \in Numbers /\ Untouched(x) /\ x \notin Carried /\ Past(x, client.sent, Asking)
    BY <1>2, <2>1, QueueTypes DEF FreshOK, QueuesOK
  <2>3. QED
    BY <1>1, <1>4, <1>5, <2>2, NumbersAreNat DEF Past, Asking
<1>7. \A i \in InO' : Untouched(server.outbox[i].n)'
  <2> SUFFICES ASSUME NEW i \in InO', NEW x, x = server'.outbox[i].n PROVE Untouched(x)'
    BY DEF Untouched, Unseen
  <2>1. i \in InO /\ x = server.outbox[i].n
    BY <1>1 DEF InO
  <2>2. x \in Numbers /\ Untouched(x) /\ Past(x, client.sent, Asking)
    BY <1>2, <2>1, QueueTypes DEF FreshOK, QueuesOK
  <2>3. QED
    BY <1>4, <1>5, <2>2, NumbersAreNat DEF Past, Asking
<1>8. \A n \in Numbers : n > client'.sent => Untouched(n)' /\ n \notin Carried'
  BY <1>1, <1>2, <1>4, <1>5, QueueTypes, NumbersAreNat DEF FreshOK
<1>9. /\ writer' = "judge" => Untouched(request.n)' /\ request'.n \notin Carried'
      /\ writer' = "reply" => Unseen(request.n)' /\ request'.n \notin Carried'
  <2> SUFFICES ASSUME writer' \in {"judge", "reply"}
               PROVE  /\ writer' = "judge" => Untouched(request.n)' /\ request'.n \notin Carried'
                      /\ writer' = "reply" => Unseen(request.n)' /\ request'.n \notin Carried'
    OBVIOUS
  <2>1. puller = "send" /\ holding' = packet /\ puller' = "read" /\ UNCHANGED <<writer, request>>
    BY <1>1
  <2>2. QED
    BY <1>1, <1>2, <2>1 DEF FreshOK, Untouched, Unseen
<1>10. puller' = "send" => given'[packet'.n] = NoHandle /\ packet'.n \notin seen' /\ (reader' = "hold" => holding'.n # packet'.n)
  BY <1>1, <1>2, <1>3, <1>5 DEF FreshOK, Unseen
<1>11. given'[holding'.n] = NoHandle
  BY <1>1, <1>2, <1>3, <1>5 DEF FreshOK, Unseen
<1>12. QED
  BY <1>1, <1>2, <1>6, <1>7, <1>8, <1>9, <1>10, <1>11 DEF FreshOK

LEMMA FreshKeptShows ==
  ASSUME SftpInv, Shows
  PROVE  FreshOK'
<1>1. /\ UNCHANGED <<server, files, lines, moved, client, Carried, writer, request, puller, packet>>
      /\ reader = "hold" /\ reader' = "copy" /\ seen' = seen \cup {holding.n}
      /\ given' = IF holding.type = "handle" THEN [given EXCEPT ![holding.n] = holding.h] ELSE given
  BY DEF Shows, Carried
<1>2. SftpJudged /\ FreshOK /\ TablesOK /\ holding.n \in Numbers
  BY <1>1 DEF SftpInv, TablesOK, SftpPacket
<1>3. \A x \in Numbers : x # holding.n => given'[x] = given[x]
  BY <1>1, <1>2 DEF TablesOK
<1>4. \A x \in Numbers : (Untouched(x) => Untouched(x)') /\ (Unseen(x) => Unseen(x)')
  BY <1>1, <1>3 DEF Untouched, Unseen
<1>5. \A j \in InI' : Untouched(server.inbox[j].n)' /\ server'.inbox[j].n \notin Carried'
  <2> SUFFICES ASSUME NEW j \in InI', NEW x, x = server'.inbox[j].n PROVE Untouched(x)' /\ x \notin Carried'
    BY DEF Untouched, Unseen
  <2>1. j \in InI /\ x = server.inbox[j].n
    BY <1>1 DEF InI
  <2>2. QED
    BY <1>1, <1>2, <1>4, <2>1, QueueTypes DEF FreshOK
<1>6. \A i \in InO' : Untouched(server.outbox[i].n)'
  <2> SUFFICES ASSUME NEW i \in InO', NEW x, x = server'.outbox[i].n PROVE Untouched(x)'
    BY DEF Untouched, Unseen
  <2>1. i \in InO /\ x = server.outbox[i].n
    BY <1>1 DEF InO
  <2>2. QED
    BY <1>2, <1>4, <2>1, QueueTypes DEF FreshOK
<1>7. \A n \in Numbers : n > client'.sent => Untouched(n)' /\ n \notin Carried'
  BY <1>1, <1>2, <1>4 DEF FreshOK
<1>8. /\ writer' = "judge" => Untouched(request.n)' /\ request'.n \notin Carried'
      /\ writer' = "reply" => Unseen(request.n)' /\ request'.n \notin Carried'
  <2> SUFFICES ASSUME writer \in {"judge", "reply"}, NEW x, x = request.n
               PROVE  (writer = "judge" => Untouched(x)' /\ x \notin Carried) /\ (writer = "reply" => Unseen(x)' /\ x \notin Carried)
    BY <1>1 DEF Untouched, Unseen
  <2>1. QED
    BY <1>2, <1>4 DEF FreshOK, TablesOK, SftpRequest
<1>9. puller' = "send" => given'[packet'.n] = NoHandle /\ packet'.n \notin seen'
  BY <1>1, <1>2, <1>3 DEF FreshOK, TablesOK, SftpAnswer
<1>10. \A m \in client'.closed : given'[m] # NoHandle
  BY <1>1, <1>2, <1>3 DEF FreshOK, SftpJudged, SftpClient
<1>11. QED
  BY <1>1, <1>5, <1>6, <1>7, <1>8, <1>9, <1>10 DEF FreshOK

LEMMA FreshKeptElse ==
  ASSUME SftpInv, Recedes \/ Stops \/ Finishes
  PROVE  FreshOK'
<1>1. /\ server'.outbox = server.outbox /\ (server'.inbox = server.inbox \/ server'.inbox = <<>>)
      /\ UNCHANGED <<moved, seen, given, Carried>> /\ client'.sent = client.sent /\ client'.closed = client.closed
      /\ writer' \in {"judge", "reply"} => writer' = writer /\ request' = request
      /\ puller' = "send" => puller = "send" /\ packet' = packet
      /\ reader' = "hold" => reader = "hold" /\ holding' = holding
  BY DEF Recedes, Stops, Finishes, Carried
<1>2. SftpJudged /\ FreshOK /\ TablesOK
  BY DEF SftpInv
<1>3. \A x : Unseen(x) => Unseen(x)'
  BY <1>1 DEF Unseen
<1>4. ASSUME NEW x \in Numbers, Untouched(x) PROVE Untouched(x)'
  <2>1. CASE Finishes
    <3>1. lines'[x] = lines[x] /\ \A h \in Handles : files'[h] = None
      BY <1>2, <1>4, <2>1, LeftOpenIs DEF Finishes, Untouched
    <3>2. QED
      BY <1>1, <1>3, <1>4, <3>1 DEF Untouched
  <2>2. CASE Recedes \/ Stops
    <3>1. UNCHANGED <<files, lines>>
      BY <2>2 DEF Recedes, Stops
    <3>2. QED
      BY <1>1, <1>3, <1>4, <3>1 DEF Untouched
  <2>3. QED
    BY <2>1, <2>2
<1>5. \A j \in InI' : Untouched(server.inbox[j].n)' /\ server'.inbox[j].n \notin Carried'
  <2> SUFFICES ASSUME NEW j \in InI', NEW x, x = server'.inbox[j].n PROVE Untouched(x)' /\ x \notin Carried'
    BY DEF Untouched, Unseen
  <2>1. j \in InI /\ x = server.inbox[j].n
    BY <1>1 DEF InI
  <2>2. QED
    BY <1>1, <1>2, <1>4, <2>1, QueueTypes DEF FreshOK
<1>6. \A i \in InO' : Untouched(server.outbox[i].n)'
  <2> SUFFICES ASSUME NEW i \in InO', NEW x, x = server'.outbox[i].n PROVE Untouched(x)'
    BY DEF Untouched, Unseen
  <2>1. i \in InO /\ x = server.outbox[i].n
    BY <1>1 DEF InO
  <2>2. QED
    BY <1>2, <1>4, <2>1, QueueTypes DEF FreshOK
<1>7. \A n \in Numbers : n > client'.sent => Untouched(n)' /\ n \notin Carried'
  BY <1>1, <1>2, <1>4 DEF FreshOK
<1>8. /\ writer' = "judge" => Untouched(request.n)' /\ request'.n \notin Carried'
      /\ writer' = "reply" => Unseen(request.n)' /\ request'.n \notin Carried'
  <2> SUFFICES ASSUME writer' \in {"judge", "reply"}, NEW x, x = request'.n
               PROVE  (writer' = "judge" => Untouched(x)' /\ x \notin Carried') /\ (writer' = "reply" => Unseen(x)' /\ x \notin Carried')
    BY DEF Untouched, Unseen
  <2>1. writer' = writer /\ x = request.n /\ x \in Numbers
    BY <1>1, <1>2 DEF TablesOK, SftpRequest
  <2>2. QED
    BY <1>1, <1>2, <1>3, <1>4, <2>1 DEF FreshOK
<1>9. /\ puller' = "send" => given'[packet'.n] = NoHandle /\ packet'.n \notin seen' /\ (reader' = "hold" => holding'.n # packet'.n)
      /\ reader' = "hold" => given'[holding'.n] = NoHandle
      /\ \A m \in client'.closed : given'[m] # NoHandle
  BY <1>1, <1>2 DEF FreshOK
<1>10. QED
  BY <1>1, <1>5, <1>6, <1>7, <1>8, <1>9 DEF FreshOK

\* What stays of the tables and the queues as a request is sent, answered, taken.
LEMMA OthersPending ==
  ASSUME SftpInv, NEW x, pending[x] = None \/ (writer = "judge" /\ x = request.id),
         NEW what, pending' = [pending EXCEPT ![x] = what]
  PROVE  /\ \A j \in InI : pending'[server.inbox[j].id] = pending[server.inbox[j].id]
         /\ \A i \in InO : pending'[server.outbox[i].id] = pending[server.outbox[i].id]
<1>1. /\ \A j \in InI : server.inbox[j].id # x
      /\ \A i \in InO : server.outbox[i].id # x
  BY IdsApart DEF SftpInv
<1>2. pending \in [RequestIds -> SftpRequest \cup SftpOther \cup {None}]
  BY DEF SftpInv, TablesOK
<1>3. QED
  BY <1>1, <1>2

LEMMA SentIs ==
  ASSUME SftpInv, NEW r, Sends(r)
  PROVE  /\ r \in SftpRequest /\ InO' = InO /\ server'.outbox = server.outbox /\ server'.open = server.open
         /\ \A i \in InO : pending'[server.outbox[i].id] = pending[server.outbox[i].id]
         /\ \A j \in InI : pending'[server.inbox[j].id] = pending[server.inbox[j].id]
         /\ \A j \in InI : j \in InI' /\ server'.inbox[j] = server.inbox[j] /\ j \in Nat /\ j < Len(server.inbox) + 1
         /\ \A j \in InI' : j \in InI \/ (j = Len(server.inbox) + 1 /\ server'.inbox[j] = r)
         /\ r.h \in Handles => Holds(r.h)
         /\ r.kind \in NeedsHandle => r.h \in Handles
         /\ \A h \in Handles : (files'[h] = None) = (files[h] = None) /\ (files[h] # None => files'[h].n = files[h].n)
<1>1. /\ r \in SftpRequest /\ NamesHandle(r) /\ (r.h # NoHandle => Holds(r.h)) /\ InO' = InO
      /\ server'.outbox = server.outbox /\ server'.open = server.open
      /\ pending' = [pending EXCEPT ![r.id] = What(r)]
      /\ (pending[r.id] = None \/ (writer = "judge" /\ r.id = request.id))
  BY DEF Sends, InO
<1>2. /\ \A i \in InO : pending'[server.outbox[i].id] = pending[server.outbox[i].id]
      /\ \A j \in InI : pending'[server.inbox[j].id] = pending[server.inbox[j].id]
  BY <1>1, OthersPending
<1>3. /\ \A j \in InI : j \in InI' /\ server'.inbox[j] = server.inbox[j] /\ j \in Nat /\ j < Len(server.inbox) + 1
      /\ \A j \in InI' : j \in InI \/ (j = Len(server.inbox) + 1 /\ server'.inbox[j] = r)
  <2>1. Len(server.inbox) \in Nat /\ server.inbox \in Seq(SftpRequest)
    BY QueueTypes DEF SftpInv
  <2>2. CASE server'.inbox = server.inbox
    BY <2>1, <2>2 DEF InI
  <2>3. CASE server'.inbox = Append(server.inbox, r)
    BY <1>1, <2>1, <2>3, QueueAppend DEF InI
  <2>4. QED
    BY <2>2, <2>3 DEF Sends
<1>4. r.kind \in NeedsHandle => r.h \in Handles
  BY <1>1 DEF NamesHandle, SftpRequest
<1>5. \A h \in Handles : (files'[h] = None) = (files[h] = None) /\ (files[h] # None => files'[h].n = files[h].n)
  <2>1. CASE r.kind = "write"
    <3>1. r.h \in Handles /\ r.at \in 0..MaxAt
      BY <1>1, <1>4, <2>1 DEF SftpRequest, NeedsHandle
    <3>2. files' = Observed(r.h, "up", r.at)
      BY <2>1 DEF Sends
    <3>3. QED
      BY <3>1, <3>2, ObservedIs DEF SftpInv
  <2>2. CASE r.kind # "write"
    BY <2>2 DEF Sends
  <2>3. QED
    BY <2>1, <2>2
<1>6. QED
  BY <1>1, <1>2, <1>3, <1>4, <1>5, SftpAssumption

LEMMA ServedIs ==
  ASSUME SftpInv, NEW r, NEW a, Served(r, a)
  PROVE  /\ r = server.inbox[1] /\ 1 \in InI /\ r \in SftpRequest /\ a \in SftpAnswer /\ a.n = r.n /\ r.n \in Numbers
         /\ pending[a.id] = What(r) /\ NamesHandle(r) /\ Untouched(r.n) /\ r.n \notin Carried
         /\ \A j \in InI' : j + 1 \in InI /\ server'.inbox[j] = server.inbox[j + 1] /\ 1 < j + 1 /\ j \in Nat
         /\ \A i \in InO : i \in InO' /\ server'.outbox[i] = server.outbox[i] /\ server.outbox[i].n < r.n
                           /\ i \in Nat /\ i < Len(server.outbox) + 1 /\ server.outbox[i].n \in Nat
         /\ Len(server.outbox) + 1 \in InO' /\ server'.outbox[Len(server.outbox) + 1] = a
         /\ \A i \in InO' : i \in InO \/ (i = Len(server.outbox) + 1 /\ server'.outbox[i] = a)
<1>1. /\ server.inbox # <<>> /\ r = Head(server.inbox) /\ a \in SftpAnswer /\ a.n = r.n /\ a.id = r.id
      /\ server'.inbox = Tail(server.inbox) /\ server'.outbox = Append(server.outbox, a)
  BY DEF Served
<1>2. SftpJudged /\ FreshOK /\ QueuesOK
  BY DEF SftpInv
<1>3. r = server.inbox[1] /\ 1 \in InI /\ r \in SftpRequest /\ r.n \in Numbers
      /\ \A j \in InI' : j + 1 \in InI /\ server'.inbox[j] = server.inbox[j + 1] /\ 1 < j + 1 /\ j \in Nat
  BY <1>1, <1>2, QueueTypes, QueueTail DEF InI
<1>4. /\ \A i \in InO : i \in InO' /\ server'.outbox[i] = server.outbox[i] /\ i \in Nat /\ i < Len(server.outbox) + 1
      /\ Len(server.outbox) + 1 \in InO' /\ server'.outbox[Len(server.outbox) + 1] = a
      /\ \A i \in InO' : i \in InO \/ (i = Len(server.outbox) + 1 /\ server'.outbox[i] = a)
  BY <1>1, <1>2, QueueTypes, QueueAppend DEF InO
<1>5. pending[a.id] = What(r) /\ NamesHandle(r) /\ Untouched(r.n) /\ r.n \notin Carried
  BY <1>1, <1>2, <1>3 DEF QueuesOK, FreshOK
<1>6. \A i \in InO : server.outbox[i].n < r.n /\ server.outbox[i].n \in Nat
  BY <1>2, <1>3, QueueTypes, NumbersAreNat DEF QueuesOK
<1>7. QED
  BY <1>1, <1>3, <1>4, <1>5, <1>6

LEMMA TakesIs ==
  ASSUME SftpInv, NEW a, Takes(a)
  PROVE  /\ a = server.outbox[1] /\ 1 \in InO /\ a \in SftpAnswer /\ a.n \in Numbers
         /\ pending[a.id] \in SftpRequest \cup SftpOther /\ Answers(a, pending[a.id]) /\ pending[a.id].n = a.n
         /\ Untouched(a.n) /\ files' = filesAfter(pending[a.id], a)
         /\ InI' = InI /\ server'.inbox = server.inbox /\ server'.open = server.open
         /\ \A j \in InO' : /\ j + 1 \in InO /\ server'.outbox[j] = server.outbox[j + 1] /\ 1 < j + 1 /\ j \in Nat
                            /\ a.n < server.outbox[j + 1].n
                            /\ pending'[server.outbox[j + 1].id] = pending[server.outbox[j + 1].id]
         /\ \A i \in InO : i > 1 => i - 1 \in InO' /\ server'.outbox[i - 1] = server.outbox[i] /\ i \in Nat
         /\ \A i \in InI : pending'[server.inbox[i].id] = pending[server.inbox[i].id]
<1>1. SftpJudged /\ FreshOK /\ QueuesOK /\ TablesOK
  BY DEF SftpInv
<1>2. server.outbox # <<>> /\ server'.outbox = Tail(server.outbox) /\ a = Head(server.outbox)
      /\ server'.inbox = server.inbox /\ server'.open = server.open /\ InI' = InI
  BY DEF Takes, InI
<1>3. /\ a = server.outbox[1] /\ 1 \in InO /\ a \in SftpAnswer /\ a.n \in Numbers
      /\ pending[a.id] \in SftpRequest \cup SftpOther /\ Answers(a, pending[a.id]) /\ pending[a.id].n = a.n /\ pending[a.id] # None
  BY <1>1, <1>2, HeadAnswers
<1>4. \A j \in InO' : j + 1 \in InO /\ server'.outbox[j] = server.outbox[j + 1] /\ 1 < j + 1 /\ j \in Nat
  BY <1>1, <1>2, QueueTypes, QueueTail DEF InO
<1>5. \A i \in InO : i > 1 => i - 1 \in InO' /\ server'.outbox[i - 1] = server.outbox[i] /\ i \in Nat
  BY <1>1, <1>2, <1>4, QueueTypes, QueueTail DEF InO
<1>6. files' = filesAfter(pending[a.id], a) /\ pending' = [pending EXCEPT ![a.id] = None]
  BY <1>3 DEF Takes
<1>7. Untouched(a.n)
  BY <1>1, <1>3 DEF FreshOK
<1>8. \A j \in InO' : a.n < server.outbox[j + 1].n /\ pending[server.outbox[j + 1].id].n = server.outbox[j + 1].n
  BY <1>1, <1>3, <1>4 DEF QueuesOK, Answers
<1>9. \A j \in InO' : pending'[server.outbox[j + 1].id] = pending[server.outbox[j + 1].id]
  <2> SUFFICES ASSUME NEW j \in InO' PROVE server.outbox[j + 1].id # a.id
    BY <1>1, <1>6 DEF TablesOK
  <2>1. server.outbox[j + 1].n \in Numbers
    BY <1>1, <1>4, QueueTypes
  <2>2. QED
    BY <1>3, <1>8, <2>1, NumbersAreNat
<1>10. \A i \in InI : pending'[server.inbox[i].id] = pending[server.inbox[i].id]
  <2> SUFFICES ASSUME NEW i \in InI PROVE server.inbox[i].id # a.id
    BY <1>1, <1>6 DEF TablesOK
  <2>1. server.inbox[i].n \in Numbers /\ a.n < server.inbox[i].n /\ pending[server.inbox[i].id].n = server.inbox[i].n
    <3>1. \A r : What(r).n = r.n
      BY DEF What, Other
    <3>2. QED
      BY <1>1, <1>3, <3>1, QueueTypes DEF QueuesOK
  <2>2. QED
    BY <1>3, <2>1, NumbersAreNat
<1>11. QED
  BY <1>2, <1>3, <1>4, <1>5, <1>6, <1>7, <1>8, <1>9, <1>10

\* A line is never taken back.
LEMMA RecordedStays ==
  ASSUME TablesOK, NEW n \in Numbers, lines'[n] = lines[n] \/ \E e \in SftpLine : lines'[n] = Append(lines[n], e)
  PROVE  \A out : Recorded(n, out) => Recorded(n, out)'
<1>1. lines[n] \in Seq(SftpLine)
  BY DEF TablesOK
<1>2. CASE lines'[n] = lines[n]
  BY <1>2 DEF Recorded
<1>3. ASSUME NEW e \in SftpLine, lines'[n] = Append(lines[n], e)
      PROVE  \A i \in DOMAIN lines[n] : i \in DOMAIN lines'[n] /\ lines'[n][i] = lines[n][i]
  BY <1>1, <1>3, QueueAppend
<1>4. QED
  BY <1>2, <1>3 DEF Recorded

\* What is told stays true as lines are added.
ToldOK ==
  /\ puller = "send" => Told(packet)
  /\ reader = "hold" => Told(holding)
  /\ \A n \in seen \cap did : given[n] # NoHandle \/ Recorded(n, "ok")
  /\ \A n \in seen \cap Halfway : Recorded(n, "failed")

LEMMA ToldStays ==
  ASSUME TablesOK, ToldOK, UNCHANGED <<seen, given, did, Halfway, reader, holding>>,
         \A n \in Numbers, out \in {"ok", "failed"} : Recorded(n, out) => Recorded(n, out)',
         puller' = "send" => Told(packet)' \/ UNCHANGED <<puller, packet>>
  PROVE  ToldOK'
<1>1. ASSUME NEW x, NEW y, x = y, y.n \in Numbers, Told(y)
      PROVE  /\ x.n \in did => x.type = "handle" \/ Recorded(x.n, "ok")'
             /\ x.n \in Halfway => Recorded(x.n, "failed")'
  BY <1>1 DEF Told
<1>2. puller' = "send" => Told(packet)'
  <2> SUFFICES ASSUME puller = "send", puller' = "send", packet' = packet PROVE Told(packet)'
    OBVIOUS
  <2>1. packet.n \in Numbers /\ Told(packet)
    BY DEF TablesOK, SftpAnswer, ToldOK
  <2>2. PICK x : x = packet'
    OBVIOUS
  <2>3. /\ x.n \in did => x.type = "handle" \/ Recorded(x.n, "ok")'
        /\ x.n \in Halfway => Recorded(x.n, "failed")'
    BY <1>1, <2>1, <2>2
  <2>4. QED
    BY <2>2, <2>3 DEF Told, Recorded
<1>3. reader' = "hold" => Told(holding)'
  <2> SUFFICES ASSUME reader = "hold" PROVE Told(holding)'
    OBVIOUS
  <2>1. holding.n \in Numbers /\ Told(holding)
    BY DEF TablesOK, SftpPacket, ToldOK
  <2>2. PICK x : x = holding'
    OBVIOUS
  <2>3. /\ x.n \in did => x.type = "handle" \/ Recorded(x.n, "ok")'
        /\ x.n \in Halfway => Recorded(x.n, "failed")'
    BY <1>1, <2>1, <2>2
  <2>4. QED
    BY <2>2, <2>3 DEF Told, Recorded
<1>4. /\ \A n \in seen \cap did : given[n] # NoHandle \/ Recorded(n, "ok")'
      /\ \A n \in seen \cap Halfway : Recorded(n, "failed")'
  BY DEF ToldOK, TablesOK
<1>5. QED
  BY <1>2, <1>3, <1>4 DEF ToldOK

LEMMA LinesKeptAsking ==
  ASSUME SftpInv, NEW r, Preps(r) \/ Sends(r)
  PROVE  LinesOK'
<1>1. UNCHANGED <<lines, seen, given, did, Halfway, session, puller, packet, reader, holding>> /\ InO' = InO /\ server'.outbox = server.outbox
  BY DEF Preps, Sends, InO
<1>2. LinesOK /\ TablesOK
  BY DEF SftpInv
<1>3. /\ \A h \in Handles : (files'[h] = None) = (files[h] = None) /\ (files[h] # None => files'[h].n = files[h].n)
      /\ \A i \in InO : pending'[server.outbox[i].id] = pending[server.outbox[i].id]
  <2>1. CASE Preps(r)
    <3>1. files' = files /\ (pending' = pending \/ (pending[r.id] = None /\ pending' = [pending EXCEPT ![r.id] = Other(r)]))
      BY <2>1 DEF Preps
    <3>2. QED
      BY <3>1, OthersPending
  <2>2. CASE Sends(r)
    BY <2>2, SentIs
  <2>3. QED
    BY <2>1, <2>2
<1>4. /\ \A n \in Numbers : Len(lines'[n]) <= 1
      /\ \A h \in Handles : files'[h] # None => lines'[files'[h].n] = <<>>
      /\ \A h, k \in Handles : files'[h] # None /\ files'[k] # None /\ files'[h].n = files'[k].n => h = k
  BY <1>1, <1>2, <1>3 DEF LinesOK
<1>5. \A n \in Numbers : given'[n] # NoHandle => Accounted(n)'
  BY <1>1, <1>2, <1>3 DEF LinesOK, Accounted
<1>6. ToldOK'
  BY <1>1, <1>2 DEF LinesOK, ToldOK, Told, Recorded
<1>7. \A i \in InO' : DoneIs(server.outbox[i])'
  BY <1>1, <1>2, <1>3 DEF LinesOK, DoneIs
<1>8. QED
  BY <1>4, <1>5, <1>6, <1>7 DEF LinesOK, ToldOK

LEMMA LinesKeptServing ==
  ASSUME SftpInv, NEW r, NEW a, Mints(r, a) \/ Closes(r, a) \/ Answered(r, a)
  PROVE  LinesOK'
<1>1. /\ Served(r, a) /\ UNCHANGED <<pending, files, lines, seen, given, session, puller, packet, reader, holding>>
  BY DEF Mints, Closes, Answered, Served
<1>2. /\ LinesOK /\ Untouched(r.n) /\ r.n \notin did /\ r.n \notin Halfway /\ pending[a.id] = What(r) /\ a.n = r.n
      /\ r.kind \in Judged => What(r) = r
  BY <1>1, ServedIs DEF SftpInv, Carried, What, Judged
<1>3. /\ did' = did \/ (r.kind \in Judged /\ did' = did \cup {r.n} /\ a.type # "fail")
      /\ Halfway' = Halfway \/ (r.kind \in Judged /\ Halfway' = Halfway \cup {r.n} /\ a.type = "fail")
  BY DEF Mints, Closes, Answered, Does, FailsHalfway, Judged
<1>4. \A n \in Numbers : given[n] # NoHandle => Accounted(n)'
  BY <1>1, <1>2 DEF LinesOK, Accounted
<1>5. ToldOK'
  <2>1. /\ puller = "send" => packet.n # r.n
        /\ reader = "hold" => holding.n # r.n
        /\ r.n \notin seen
    BY <1>2 DEF Untouched, Unseen
  <2>2. /\ \A x : x # r.n => (x \in did' <=> x \in did) /\ (x \in Halfway' <=> x \in Halfway)
        /\ \A n, out : Recorded(n, out)' <=> Recorded(n, out)
    BY <1>1, <1>3 DEF Recorded
  <2>3. /\ puller' = "send" => Told(packet)'
        /\ reader' = "hold" => Told(holding)'
    BY <1>1, <1>2, <2>1, <2>2 DEF LinesOK, Told, Recorded
  <2>4. /\ \A n \in seen' \cap did' : given'[n] # NoHandle \/ Recorded(n, "ok")'
        /\ \A n \in seen' \cap Halfway' : Recorded(n, "failed")'
    BY <1>1, <1>2, <2>1, <2>2 DEF LinesOK
  <2>5. QED
    BY <2>3, <2>4 DEF ToldOK
<1>6. \A i \in InO' : DoneIs(server.outbox[i])'
  <2> SUFFICES ASSUME NEW i \in InO', NEW b, b = server'.outbox[i]
               PROVE  /\ b.n \in did' => pending[b.id].kind \in Judged /\ b.type # "fail"
                      /\ b.n \in Halfway' => pending[b.id].kind \in Judged /\ b.type = "fail"
    BY <1>1 DEF DoneIs
  <2>1. CASE i \in InO
    <3>1. b = server.outbox[i] /\ b.n # r.n
      BY <1>1, <2>1, ServedIs, NumbersAreNat
    <3>2. DoneIs(b)
      BY <1>2, <2>1, <3>1 DEF LinesOK
    <3>3. QED
      BY <1>3, <3>1, <3>2 DEF DoneIs
  <2>2. CASE b = a
    BY <1>2, <1>3, <2>2
  <2>3. QED
    BY <1>1, <2>1, <2>2, ServedIs
<1>7. /\ \A n \in Numbers : Len(lines'[n]) <= 1
      /\ \A h \in Handles : files'[h] # None => lines'[files'[h].n] = <<>>
      /\ \A h, k \in Handles : files'[h] # None /\ files'[k] # None /\ files'[h].n = files'[k].n => h = k
  BY <1>1, <1>2 DEF LinesOK
<1>8. QED
  BY <1>1, <1>4, <1>5, <1>6, <1>7 DEF LinesOK, ToldOK

LEMMA LinesKeptElse ==
  ASSUME SftpInv, Recedes \/ Stops \/ Hands
  PROVE  LinesOK'
<1>1. /\ UNCHANGED <<pending, files, lines, seen, given, did, Halfway>> /\ server'.outbox = server.outbox /\ InO' = InO
      /\ session' = session \/ session' # "ended"
  BY DEF Recedes, Stops, Hands, InO
<1>2. LinesOK /\ FreshOK
  BY DEF SftpInv
<1>3. puller' = "send" => Told(packet)'
  <2>1. puller' = "send" => puller = "send" /\ packet' = packet
    BY DEF Recedes, Stops, Hands
  <2>2. QED
    BY <1>1, <1>2, <2>1 DEF LinesOK, Told, Recorded
<1>4. reader' = "hold" => Told(holding)'
  <2>1. CASE reader' = "hold" /\ holding' = holding /\ reader = "hold"
    BY <1>1, <1>2, <2>1 DEF LinesOK, Told, Recorded
  <2>2. CASE puller = "send" /\ holding' = packet
    BY <1>1, <1>2, <2>2 DEF LinesOK, Told, Recorded
  <2>3. CASE writer = "reply" /\ holding' = Refusal(request)
    BY <1>1, <1>2, <2>3 DEF FreshOK, Told, Refusal, Carried
  <2>4. QED
    BY <2>1, <2>2, <2>3 DEF Recedes, Stops, Hands
<1>5. \A n \in Numbers : given'[n] # NoHandle => Accounted(n)'
  BY <1>1, <1>2 DEF LinesOK, Accounted
<1>6. /\ \A n \in seen' \cap did' : given'[n] # NoHandle \/ Recorded(n, "ok")'
      /\ \A n \in seen' \cap Halfway' : Recorded(n, "failed")'
  BY <1>1, <1>2 DEF LinesOK, Recorded
<1>7. \A i \in InO' : DoneIs(server.outbox[i])'
  BY <1>1, <1>2 DEF LinesOK, DoneIs
<1>8. QED
  BY <1>1, <1>2, <1>3, <1>4, <1>5, <1>6, <1>7 DEF LinesOK

LEMMA LinesKeptShows ==
  ASSUME SftpInv, Shows
  PROVE  LinesOK'
<1>1. /\ UNCHANGED <<server, pending, files, lines, did, Halfway, session, puller, packet>> /\ reader = "hold" /\ reader' # "hold"
      /\ seen' = seen \cup {holding.n}
      /\ given' = IF holding.type = "handle" THEN [given EXCEPT ![holding.n] = holding.h] ELSE given
  BY DEF Shows
<1>2. LinesOK /\ TablesOK /\ OnItsWay(holding) /\ Told(holding) /\ holding \in SftpPacket /\ session = "bridge" /\ given[holding.n] = NoHandle
  BY <1>1 DEF SftpInv, HandlesOK, LinesOK, TablesOK, FreshOK
<1>3. holding.n \in Numbers /\ given \in [Numbers -> Handles \cup {NoHandle}]
  BY <1>2 DEF SftpPacket, TablesOK
<1>4. \A n \in Numbers : given'[n] # NoHandle => Accounted(n)'
  <2> SUFFICES ASSUME NEW n \in Numbers, given'[n] # NoHandle PROVE Accounted(n)
    BY <1>1 DEF Accounted
  <2>1. CASE given[n] # NoHandle
    BY <1>2, <2>1 DEF LinesOK
  <2>2. CASE n = holding.n /\ holding.type = "handle"
    BY <1>2, <2>2 DEF OnItsWay, Accounted
  <2>3. QED
    BY <1>1, <1>3, <2>1, <2>2
<1>5. puller' = "send" => Told(packet)'
  BY <1>1, <1>2 DEF LinesOK, Told, Recorded
<1>6. \A n \in seen' \cap did' : given'[n] # NoHandle \/ Recorded(n, "ok")'
  <2> SUFFICES ASSUME NEW n \in seen \cup {holding.n}, n \in did, ~Recorded(n, "ok") PROVE given'[n] # NoHandle
    BY <1>1 DEF Recorded
  <2>1. CASE n = holding.n
    <3>1. holding.type = "handle" /\ holding.h \in Handles
      BY <1>2, <2>1 DEF Told, OnItsWay
    <3>2. QED
      BY <1>1, <1>3, <2>1, <3>1, SftpAssumption
  <2>2. CASE n # holding.n
    <3>1. given[n] # NoHandle
      BY <1>2, <2>2 DEF LinesOK
    <3>2. QED
      BY <1>1, <1>3, <2>2, <3>1
  <2>3. QED
    BY <2>1, <2>2
<1>7. \A n \in seen' \cap Halfway' : Recorded(n, "failed")'
  <2>1. \A n \in seen \cup {holding.n} : n \in Halfway => Recorded(n, "failed")
    BY <1>2 DEF LinesOK, Told
  <2>2. QED
    BY <1>1, <2>1 DEF Recorded
<1>8. \A i \in InO' : DoneIs(server.outbox[i])'
  BY <1>1, <1>2 DEF LinesOK, InO, DoneIs
<1>9. QED
  BY <1>1, <1>2, <1>4, <1>5, <1>6, <1>7, <1>8 DEF LinesOK

LEMMA LinesKeptRefuses ==
  ASSUME SftpInv, Refuses
  PROVE  LinesOK'
<1> DEFINE line == Put(request.n)
<1>1. /\ UNCHANGED <<server, files, moved, client, seen, given, did, Halfway, session, puller, packet, reader, holding>> /\ writer = "judge"
      /\ lines' = [lines EXCEPT ![request.n] = Append(@, line)] /\ line \in SftpLine
      /\ pending' = [pending EXCEPT ![request.id] = None]
  BY DEF Refuses
<1>2. LinesOK /\ TablesOK
  BY DEF SftpInv
<1>3. request.n \in Numbers /\ Untouched(request.n) 
  BY <1>1 DEF SftpInv, FreshOK, TablesOK, SftpRequest
<1> HIDE DEF line
<1>4. lines[request.n] = <<>> /\ given[request.n] = NoHandle /\ \A h \in Handles : files[h] # None => files[h].n # request.n
  BY <1>3 DEF Untouched, Unseen
<1>5. /\ lines'[request.n] = Append(<<>>, line) /\ Len(lines'[request.n]) = 1
      /\ \A n \in Numbers : n # request.n => lines'[n] = lines[n]
  BY <1>1, <1>2, <1>3, <1>4 DEF TablesOK
<1>6. \A n \in Numbers, out \in {"ok", "failed"} : Recorded(n, out) => Recorded(n, out)'
  BY <1>1, <1>2, <1>3, <1>4, <1>5, RecordedStays
<1>7. \A i \in InO : pending'[server.outbox[i].id] = pending[server.outbox[i].id]
  BY <1>1, OthersPending
<1>8. \A h \in Handles : files[h] # None => files[h].n \in Numbers /\ lines'[files[h].n] = lines[files[h].n]
  BY <1>2, <1>4, <1>5, FileIsSome DEF TablesOK
<1>9. \A n \in Numbers : given[n] # NoHandle => Accounted(n)'
  BY <1>1, <1>2, <1>4, <1>5 DEF LinesOK, Accounted
<1>10. ToldOK'
  BY <1>1, <1>2, <1>6, ToldStays DEF LinesOK, ToldOK
<1>13. /\ \A n \in Numbers : Len(lines'[n]) <= 1
       /\ \A h \in Handles : files'[h] # None => lines'[files'[h].n] = <<>>
       /\ \A h, k \in Handles : files'[h] # None /\ files'[k] # None /\ files'[h].n = files'[k].n => h = k
  <2>1. \A n \in Numbers : Len(lines'[n]) <= 1
    <3> SUFFICES ASSUME NEW n \in Numbers PROVE Len(lines'[n]) <= 1
      OBVIOUS
    <3> DEFINE k == Len(lines'[request.n])
    <3>0. k = 1
      BY <1>5
    <3>1. CASE n = request.n
      <4> HIDE DEF k
      <4>1. k <= 1
        BY <3>0
      <4>2. QED
        BY <3>1, <4>1 DEF k
    <3>2. CASE n # request.n
      BY <1>2, <1>5, <3>2 DEF LinesOK
    <3>3. QED
      BY <3>1, <3>2
  <2>2. \A h \in Handles : files'[h] # None => lines'[files'[h].n] = <<>>
    BY <1>1, <1>2, <1>8 DEF LinesOK
  <2>3. QED
    BY <1>1, <1>2, <2>1, <2>2 DEF LinesOK
<1>14. \A i \in InO' : DoneIs(server.outbox[i])'
  BY <1>1, <1>2, <1>7 DEF LinesOK, InO, DoneIs
<1>15. QED
  BY <1>1, <1>9, <1>10, <1>13, <1>14 DEF LinesOK, ToldOK

LEMMA LinesKeptFinishes ==
  ASSUME SftpInv, Finishes
  PROVE  LinesOK'
<1>1. /\ UNCHANGED <<server, pending, moved, client, seen, given, did, Halfway, puller, packet, reader, holding>>
      /\ session # "ended" /\ session' = "ended" /\ leftOpen /\ files' = [h \in Handles |-> None]
  BY DEF Finishes
<1>2. LinesOK /\ TablesOK
  BY DEF SftpInv
<1>3. \A n \in Numbers : lines[n] \in Seq(SftpLine)
  BY <1>2 DEF TablesOK
<1>4. \A n \in Numbers : \/ lines'[n] = lines[n] /\ \A h \in Handles : files[h] # None => files[h].n # n
                         \/ lines[n] = <<>> /\ \E e \in SftpLine : lines'[n] = Append(lines[n], e)
  <2> SUFFICES ASSUME NEW n \in Numbers
               PROVE  \/ lines'[n] = lines[n] /\ \A h \in Handles : files[h] # None => files[h].n # n
                      \/ lines[n] = <<>> /\ \E e \in SftpLine : lines'[n] = Append(lines[n], e)
    OBVIOUS
  <2>1. CASE \A h \in Handles : files[h] # None => files[h].n # n
    BY <1>1, <1>2, <2>1, LeftOpenIs
  <2>2. CASE \E h \in Handles : files[h] # None /\ files[h].n = n
    <3>1. \E e \in SftpLine : lines'[n] = Append(lines[n], e)
      BY <1>1, <1>2, <2>2, LeftOpenIs
    <3>2. lines[n] = <<>>
      BY <1>2, <2>2 DEF LinesOK
    <3>3. QED
      BY <3>1, <3>2
  <2>3. QED
    BY <2>1, <2>2
<1>5. \A n \in Numbers : lines'[n] = lines[n] \/ Len(lines'[n]) = 1
  <2>1. \A e \in SftpLine : Len(Append(<<>>, e)) = 1
    OBVIOUS
  <2>2. QED
    BY <1>4, <2>1
<1>6. \A n \in Numbers, out \in {"ok", "failed"} : Recorded(n, out) => Recorded(n, out)'
  BY <1>2, <1>4, RecordedStays
<1>7. \A n \in Numbers : Len(lines'[n]) <= 1
  <2> SUFFICES ASSUME NEW n \in Numbers PROVE Len(lines'[n]) <= 1
    OBVIOUS
  <2>1. CASE lines'[n] = lines[n]
    BY <1>2, <2>1 DEF LinesOK
  <2>2. CASE Len(lines'[n]) = 1
    BY <2>2
  <2>3. QED
    BY <1>5, <2>1, <2>2
<1>8. \A n \in Numbers : given[n] # NoHandle => Accounted(n)'
  BY <1>1, <1>2, <1>4, <1>5 DEF LinesOK, Accounted
<1>9. ToldOK'
  BY <1>1, <1>2, <1>6, ToldStays DEF LinesOK, ToldOK
<1>12. \A i \in InO' : DoneIs(server.outbox[i])'
  BY <1>1, <1>2 DEF LinesOK, InO, DoneIs
<1>13. QED
  BY <1>1, <1>7, <1>8, <1>9, <1>12 DEF LinesOK, ToldOK

\* The line of an answer that is about no file.
Tells(e, a) ==
  e.sha = "none" /\ e.out = opOutcome(a) /\ (puller' = "send" => e.recorded)

\* What the pump's step writes, and what becomes of the files, together.
LEMMA TakenIs ==
  ASSUME SftpInv, NEW a, Takes(a)
  PROVE  \/ /\ lines' = lines
            /\ \A h \in Handles : files'[h] # None => (files[h] # None /\ files'[h].n = files[h].n) \/ (a.type = "handle" /\ h = a.h)
            /\ \A h \in Handles : files[h] # None => files'[h] # None
            /\ a.type = "handle" => a.h \in Handles /\ files[a.h] = None /\ files'[a.h] # None /\ files'[a.h].n = a.n
            /\ pending[a.id].kind \in Judged => a.type = "handle"
         \/ /\ a.type # "handle" /\ \E e \in SftpLine : lines' = [lines EXCEPT ![a.n] = Append(@, e)] /\ Tells(e, a)
            /\ \A h \in Handles : (files'[h] = None) = (files[h] = None) /\ (files[h] # None => files'[h].n = files[h].n)
         \/ /\ a.type # "handle" /\ pending[a.id].kind = "close" /\ a.h \in Handles /\ files[a.h] \in SftpFile /\ files[a.h] # None
            /\ lines' = [lines EXCEPT ![files[a.h].n] = Append(@, Put(files[a.h].n))]
            /\ Like(Put(files[a.h].n), fileClosed(files[a.h], opOutcome(a)))
            /\ files' = [files EXCEPT ![a.h] = None]
<1> DEFINE p == pending[a.id]
<1>1. a \in SftpAnswer /\ p \in SftpRequest \cup SftpOther /\ Answers(a, p) /\ a = server.outbox[1] /\ 1 \in InO
      /\ files' = filesAfter(p, a) /\ TablesOK /\ HandlesOK /\ p # None
  BY TakesIs DEF SftpInv, Answers
<1>2. /\ lines' = IF Entry(p, a) = None THEN lines ELSE [lines EXCEPT ![Entry(p, a).n] = Append(@, Put(Entry(p, a).n))]
      /\ Entry(p, a) # None => Like(Put(Entry(p, a).n), Entry(p, a).line) /\ (puller' = "send" => Put(Entry(p, a).n).recorded)
  BY DEF Takes
<1> HIDE DEF p
<1>3. files \in [Handles -> SftpFile \cup {None}] /\ \A f \in SftpFile : f # None
  BY <1>1 DEF TablesOK, SftpFile, None, Numbers
<1>4. a.type = "handle" => a.h \in Handles /\ files[a.h] = None
  <2> SUFFICES ASSUME a.type = "handle" PROVE a.h \in Handles /\ files[a.h] = None
    OBVIOUS
  <2>1. a.h \in Handles /\ HandleOf(1, a.h)
    BY <1>1 DEF Answers, HandleOf
  <2>2. MintsOK(a.h)
    BY <1>1, <2>1 DEF HandlesOK
  <2>3. ~\E j \in InO : j < 1
    BY DEF InO
  <2>4. QED
    BY <1>1, <2>1, <2>2, <2>3 DEF MintsOK
<1>5. CASE a.type = "handle" /\ p \in SftpRequest /\ files' = [files EXCEPT ![a.h] = newSFTPHandle(p)]
  <2>1. Entry(p, a) = None
    BY <1>1, <1>5, EntryIs
  <2>2. newSFTPHandle(p) \in SftpFile /\ newSFTPHandle(p).n = a.n
    BY <1>1, <1>5, NewFileIs DEF Answers
  <2>3. QED
    BY <1>2, <1>3, <1>4, <1>5, <2>1, <2>2
<1>6. ASSUME a.type # "handle", p.kind # "close",
             \A h \in Handles : (files'[h] = None) = (files[h] = None) /\ (files[h] # None => files'[h].n = files[h].n)
      PROVE  \/ /\ lines' = lines
                /\ \A h \in Handles : files'[h] # None => (files[h] # None /\ files'[h].n = files[h].n)
                /\ \A h \in Handles : files[h] # None => files'[h] # None
                /\ p.kind \notin Judged
             \/ \E e \in SftpLine : lines' = [lines EXCEPT ![a.n] = Append(@, e)] /\ Tells(e, a)
  <2>1. CASE Entry(p, a) = None
    BY <1>1, <1>2, <1>6, <2>1, EntryIs
  <2>2. CASE Entry(p, a) # None
    <3>1. /\ Entry(p, a).n = a.n
          /\ Entry(p, a).line = FileLine(opOutcome(a), "none", 0)
      BY <1>1, <1>6, <2>2, EntryIs
    <3>2. FileLine(opOutcome(a), "none", 0).sha = "none" /\ FileLine(opOutcome(a), "none", 0).out = opOutcome(a)
      BY DEF FileLine
    <3>3. PICK e : e = Put(a.n)
      OBVIOUS
    <3>4. lines' = [lines EXCEPT ![a.n] = Append(@, e)] /\ Like(e, Entry(p, a).line) /\ (puller' = "send" => e.recorded)
      BY <1>2, <2>2, <3>1, <3>3
    <3>5. e \in SftpLine /\ Tells(e, a)
      BY <3>1, <3>2, <3>4 DEF Like, Tells
    <3>6. QED
      BY <3>4, <3>5
  <2>3. QED
    BY <2>1, <2>2
<1>7. CASE /\ a.type = "data" /\ p.kind = "read" /\ p \in SftpRequest /\ p.h = a.h /\ a.h \in Handles
           /\ files' = Observed(a.h, "down", p.at)
  <2>1. p.at \in 0..MaxAt
    BY <1>7 DEF SftpRequest
  <2>2. \A h \in Handles : (files'[h] = None) = (files[h] = None) /\ (files[h] # None => files'[h].n = files[h].n)
    BY <1>1, <1>7, <2>1, ObservedIs
  <2>3. QED
    BY <1>6, <1>7, <2>2 DEF p
<1>8. CASE p.kind = "close" /\ p.h = a.h /\ a.h \in Handles /\ a.type \in {"ok", "fail"} /\ files' = [files EXCEPT ![a.h] = None]
  <2>1. CASE Entry(p, a) = None
    <3>1. files[a.h] = None
      BY <1>1, <1>8, <2>1, EntryIs
    <3>2. files' = files
      BY <1>3, <1>8, <3>1
    <3>3. QED
      BY <1>2, <1>8, <2>1, <3>2 DEF p, Judged
  <2>2. CASE Entry(p, a) # None
    <3>1. /\ files[a.h] \in SftpFile /\ Entry(p, a).n = files[a.h].n
          /\ Entry(p, a).line = fileClosed(files[a.h], opOutcome(a))
      BY <1>1, <1>8, <2>2, EntryIs DEF Judged
    <3>2. files[a.h] # None
      BY <1>3, <3>1
    <3>3. lines' = [lines EXCEPT ![files[a.h].n] = Append(@, Put(files[a.h].n))]
          /\ Like(Put(files[a.h].n), fileClosed(files[a.h], opOutcome(a)))
      BY <1>2, <2>2, <3>1
    <3>4. QED
      BY <1>8, <3>1, <3>2, <3>3 DEF p
  <2>3. QED
    BY <2>1, <2>2
<1>9. CASE p.kind = "copy" /\ a.type = "ok" /\ p.h = a.h /\ a.h \in Handles /\ files[a.h] # None
           /\ files' = [files EXCEPT ![a.h] = copyDone(p)]
  <2>1. copyDone(p) \in SftpFile /\ copyDone(p).n = files[a.h].n
    BY <1>3, <1>9, FileIsSome, CopyDoneIs
  <2>2. \A h \in Handles : (files'[h] = None) = (files[h] = None) /\ (files[h] # None => files'[h].n = files[h].n)
    BY <1>3, <1>9, <2>1
  <2>3. QED
    BY <1>6, <1>9, <2>2 DEF p
<1>10. CASE p.kind # "close" /\ a.type \notin {"handle", "data"} /\ files' = files
  BY <1>6, <1>10 DEF p
<1>11. QED
  <2>1. \/ a.type = "handle" /\ p \in SftpRequest /\ filesAfter(p, a) = [files EXCEPT ![a.h] = newSFTPHandle(p)]
        \/ /\ a.type = "data" /\ p.kind = "read" /\ p \in SftpRequest /\ p.h = a.h /\ a.h \in Handles
           /\ filesAfter(p, a) = Observed(a.h, "down", p.at)
        \/ p.kind = "close" /\ p.h = a.h /\ a.h \in Handles /\ a.type \in {"ok", "fail"} /\ filesAfter(p, a) = [files EXCEPT ![a.h] = None]
        \/ p.kind = "copy" /\ a.type = "ok" /\ p.h = a.h /\ a.h \in Handles /\ files[a.h] # None
           /\ filesAfter(p, a) = [files EXCEPT ![a.h] = copyDone(p)]
        \/ p.kind # "close" /\ a.type \notin {"handle", "data"} /\ filesAfter(p, a) = files
    BY ZenonT(60), <1>1, FilesAfterIs
  <2>2. \/ a.type = "handle" /\ p \in SftpRequest /\ files' = [files EXCEPT ![a.h] = newSFTPHandle(p)]
        \/ /\ a.type = "data" /\ p.kind = "read" /\ p \in SftpRequest /\ p.h = a.h /\ a.h \in Handles
           /\ files' = Observed(a.h, "down", p.at)
        \/ p.kind = "close" /\ p.h = a.h /\ a.h \in Handles /\ a.type \in {"ok", "fail"} /\ files' = [files EXCEPT ![a.h] = None]
        \/ p.kind = "copy" /\ a.type = "ok" /\ p.h = a.h /\ a.h \in Handles /\ files[a.h] # None
           /\ files' = [files EXCEPT ![a.h] = copyDone(p)]
        \/ p.kind # "close" /\ a.type \notin {"handle", "data"} /\ files' = files
    BY <1>1, <2>1
  <2>3. QED
    BY <2>2, <1>5, <1>7, <1>8, <1>9, <1>10

\* Its line, in short.
LEMMA TakenAdds ==
  ASSUME SftpInv, NEW a, Takes(a)
  PROVE  \/ lines' = lines
         \/ \E e \in SftpLine : lines' = [lines EXCEPT ![a.n] = Append(@, e)]
         \/ /\ a.h \in Handles /\ files[a.h] # None
            /\ \E e \in SftpLine : lines' = [lines EXCEPT ![files[a.h].n] = Append(@, e)]
            /\ files' = [files EXCEPT ![a.h] = None]
<1>1. ASSUME NEW n, NEW line, lines' = [lines EXCEPT ![n] = Append(@, Put(n))], Like(Put(n), line)
      PROVE  \E e \in SftpLine : lines' = [lines EXCEPT ![n] = Append(@, e)]
  <2>1. PICK e : e = Put(n)
    OBVIOUS
  <2>2. e \in SftpLine /\ lines' = [lines EXCEPT ![n] = Append(@, e)]
    BY <1>1, <2>1 DEF Like
  <2>3. QED
    BY <2>2
<1>2. CASE lines' = lines
  BY <1>2
<1>3. CASE \E e \in SftpLine : lines' = [lines EXCEPT ![a.n] = Append(@, e)] /\ Tells(e, a)
  BY <1>3
<1>4. CASE /\ a.h \in Handles /\ files[a.h] # None
           /\ lines' = [lines EXCEPT ![files[a.h].n] = Append(@, Put(files[a.h].n))]
           /\ Like(Put(files[a.h].n), fileClosed(files[a.h], opOutcome(a)))
           /\ files' = [files EXCEPT ![a.h] = None]
  BY <1>1, <1>4
<1>5. QED
  BY ZenonT(60), <1>2, <1>3, <1>4, TakenIs

LEMMA LinesKeptTaking ==
  ASSUME SftpInv, NEW a, Takes(a)
  PROVE  LinesOK'
<1>1. UNCHANGED <<given, seen, did, Halfway, session, reader, holding>> /\ (puller' = "send" => packet' = a)
  BY DEF Takes
<1>2. LinesOK /\ TablesOK
  BY DEF SftpInv
<1>3. a = server.outbox[1] /\ 1 \in InO /\ a.n \in Numbers /\ Untouched(a.n)
  BY TakesIs
<1>4. lines[a.n] = <<>> /\ given[a.n] = NoHandle /\ \A h \in Handles : files[h] # None => files[h].n # a.n /\ files[h].n \in Numbers
  BY <1>2, <1>3, FileIsSome DEF Untouched, Unseen, TablesOK
<1>5. lines \in [Numbers -> Seq(SftpLine)] /\ \A h \in Handles : files[h] # None => lines[files[h].n] = <<>>
  BY <1>2 DEF TablesOK, LinesOK
<1>6. \A n \in Numbers : lines'[n] = lines[n] \/ (lines[n] = <<>> /\ \E e \in SftpLine : lines'[n] = Append(lines[n], e))
  <2>1. ASSUME NEW m \in Numbers, lines[m] = <<>>, NEW e \in SftpLine, lines' = [lines EXCEPT ![m] = Append(@, e)]
        PROVE  \A n \in Numbers : lines'[n] = lines[n] \/ (lines[n] = <<>> /\ \E d \in SftpLine : lines'[n] = Append(lines[n], d))
    BY <1>5, <2>1
  <2>2. CASE \E e \in SftpLine : lines' = [lines EXCEPT ![a.n] = Append(@, e)]
    BY <1>3, <1>4, <2>1, <2>2
  <2>3. ASSUME a.h \in Handles, files[a.h] # None, NEW e \in SftpLine, lines' = [lines EXCEPT ![files[a.h].n] = Append(@, e)]
        PROVE  \A n \in Numbers : lines'[n] = lines[n] \/ (lines[n] = <<>> /\ \E d \in SftpLine : lines'[n] = Append(lines[n], d))
    BY <1>4, <1>5, <2>1, <2>3
  <2>4. \/ lines' = lines
        \/ \E e \in SftpLine : lines' = [lines EXCEPT ![a.n] = Append(@, e)]
        \/ /\ a.h \in Handles /\ files[a.h] # None
           /\ \E e \in SftpLine : lines' = [lines EXCEPT ![files[a.h].n] = Append(@, e)]
    BY TakenAdds
  <2>5. QED
    BY <2>2, <2>3, <2>4
<1>7. \A n \in Numbers : lines'[n] = lines[n] \/ Len(lines'[n]) = 1
  <2>1. \A e \in SftpLine : Len(Append(<<>>, e)) = 1
    OBVIOUS
  <2>2. QED
    BY <1>6, <2>1
<1>8. \A n \in Numbers, out \in {"ok", "failed"} : Recorded(n, out) => Recorded(n, out)'
  BY <1>2, <1>6, RecordedStays
<1>9. \A n \in Numbers : Len(lines'[n]) <= 1
  <2> SUFFICES ASSUME NEW n \in Numbers PROVE Len(lines'[n]) <= 1
    OBVIOUS
  <2>1. CASE lines'[n] = lines[n]
    BY <1>2, <2>1 DEF LinesOK
  <2>2. CASE Len(lines'[n]) = 1
    BY <2>2
  <2>3. QED
    BY <1>7, <2>1, <2>2
<1>10. /\ \A h \in Handles : files'[h] # None => lines'[files'[h].n] = <<>>
       /\ \A h, k \in Handles : files'[h] # None /\ files'[k] # None /\ files'[h].n = files'[k].n => h = k
  <2>1. \A h, k \in Handles : files[h] # None /\ files[k] # None /\ files[h].n = files[k].n => h = k
    BY <1>2 DEF LinesOK
  <2>2. CASE /\ lines' = lines
             /\ \A h \in Handles : files'[h] # None => (files[h] # None /\ files'[h].n = files[h].n) \/ (a.type = "handle" /\ h = a.h)
             /\ a.type = "handle" => files'[a.h].n = a.n
    BY <1>4, <1>5, <2>1, <2>2
  <2>3. CASE /\ \E e \in SftpLine : lines' = [lines EXCEPT ![a.n] = Append(@, e)]
             /\ \A h \in Handles : (files'[h] = None) = (files[h] = None) /\ (files[h] # None => files'[h].n = files[h].n)
    BY <1>4, <1>5, <2>1, <2>3
  <2>4. CASE /\ a.h \in Handles /\ files[a.h] # None
             /\ \E e : lines' = [lines EXCEPT ![files[a.h].n] = Append(@, e)]
             /\ files' = [files EXCEPT ![a.h] = None]
    <3>1. \A h \in Handles : files'[h] # None => files[h] # None /\ files'[h] = files[h] /\ h # a.h
      BY <1>2, <2>4 DEF TablesOK
    <3>2. QED
      BY <1>4, <1>5, <2>1, <2>4, <3>1
  <2>5. ASSUME NEW e \in SftpLine, lines' = [lines EXCEPT ![a.n] = Append(@, e)],
               \A h \in Handles : (files'[h] = None) = (files[h] = None) /\ (files[h] # None => files'[h].n = files[h].n)
        PROVE  /\ \A h \in Handles : files'[h] # None => lines'[files'[h].n] = <<>>
               /\ \A h, k \in Handles : files'[h] # None /\ files'[k] # None /\ files'[h].n = files'[k].n => h = k
    BY <2>3, <2>5
  <2>6. QED
    BY ZenonT(60), <2>2, <2>4, <2>5, TakenIs
<1>11. \A n \in Numbers : given'[n] # NoHandle => Accounted(n)'
  <2> SUFFICES ASSUME NEW n \in Numbers, given[n] # NoHandle, lines'[n] = lines[n], Len(lines[n]) # 1
               PROVE  session # "ended" /\ \E h \in Handles : files'[h] # None /\ files'[h].n = n
    BY <1>1, <1>7 DEF Accounted
  <2>1. PICK h \in Handles : session # "ended" /\ files[h] # None /\ files[h].n = n
    BY <1>2 DEF LinesOK, Accounted
  <2>2. CASE /\ a.h \in Handles /\ files[a.h] # None /\ files[a.h].n = n
             /\ \E e \in SftpLine : lines' = [lines EXCEPT ![files[a.h].n] = Append(@, e)]
    <3>1. \A e \in SftpLine : Append(lines[n], e) # lines[n]
      BY <1>5
    <3>2. QED
      BY <1>5, <2>2, <3>1
  <2>3. CASE files'[h] # None /\ files'[h].n = n
    BY <2>1, <2>3
  <2>4. CASE files' = [files EXCEPT ![a.h] = None] /\ files[a.h].n # n
    BY <1>2, <2>1, <2>4 DEF TablesOK
  <2>5. CASE /\ \A k \in Handles : files'[k] # None => (files[k] # None /\ files'[k].n = files[k].n) \/ (a.type = "handle" /\ k = a.h)
             /\ files'[h] # None /\ (a.type = "handle" => files[a.h] = None)
    BY <2>1, <2>5
  <2>6. CASE /\ a.h \in Handles /\ files[a.h] # None
             /\ lines' = [lines EXCEPT ![files[a.h].n] = Append(@, Put(files[a.h].n))]
             /\ Like(Put(files[a.h].n), fileClosed(files[a.h], opOutcome(a)))
             /\ files' = [files EXCEPT ![a.h] = None]
    <3>1. PICK e : e = Put(files[a.h].n)
      OBVIOUS
    <3>2. e \in SftpLine /\ lines' = [lines EXCEPT ![files[a.h].n] = Append(@, e)]
      BY <2>6, <3>1 DEF Like
    <3>3. QED
      BY <2>2, <2>4, <2>6, <3>2
  <2>7. CASE /\ \A k \in Handles : files'[k] # None => (files[k] # None /\ files'[k].n = files[k].n) \/ (a.type = "handle" /\ k = a.h)
             /\ \A k \in Handles : files[k] # None => files'[k] # None
             /\ a.type = "handle" => a.h \in Handles /\ files[a.h] = None
    BY <2>1, <2>5, <2>7
  <2>8. CASE \A k \in Handles : (files'[k] = None) = (files[k] = None) /\ (files[k] # None => files'[k].n = files[k].n)
    BY <2>1, <2>3, <2>8
  <2>9. QED
    BY ZenonT(60), <2>6, <2>7, <2>8, TakenIs
<1>12. puller' = "send" => Told(packet)'
  <2> SUFFICES ASSUME puller' = "send"
               PROVE  /\ a.n \in did => a.type = "handle" \/ Recorded(a.n, "ok")'
                      /\ a.n \in Halfway => Recorded(a.n, "failed")'
    BY <1>1 DEF Told, Recorded
  <2>1. DoneIs(a)
    BY <1>2, <1>3 DEF LinesOK
  <2>2. ASSUME a.n \in did \cup Halfway, a.type # "handle"
        PROVE  Recorded(a.n, opOutcome(a))'
    <3>1. PICK e \in SftpLine : lines' = [lines EXCEPT ![a.n] = Append(@, e)] /\ Tells(e, a)
      BY <2>1, <2>2, TakenIs DEF DoneIs, Judged
    <3>2. lines'[a.n] = Append(<<>>, e)
      BY <1>3, <1>4, <1>5, <3>1
    <3>3. 1 \in DOMAIN Append(<<>>, e) /\ Append(<<>>, e)[1] = e
      OBVIOUS
    <3>4. 1 \in DOMAIN lines'[a.n] /\ lines'[a.n][1].out = opOutcome(a) /\ lines'[a.n][1].recorded
      BY <3>1, <3>2, <3>3 DEF Tells
    <3>5. QED
      BY <3>4 DEF Recorded, opOutcome
  <2>3. QED
    BY <2>1, <2>2 DEF DoneIs, opOutcome
<1>13. ToldOK'
  BY <1>1, <1>2, <1>8, <1>12, ToldStays DEF LinesOK, ToldOK
<1>15. \A j \in InO' : DoneIs(server.outbox[j])'
  <2> SUFFICES ASSUME NEW j \in InO' PROVE DoneIs(server.outbox[j])'
    OBVIOUS
  <2>1. j + 1 \in InO /\ server'.outbox[j] = server.outbox[j + 1]
        /\ pending'[server.outbox[j + 1].id] = pending[server.outbox[j + 1].id]
    BY TakesIs
  <2>2. QED
    BY <1>1, <1>2, <2>1 DEF LinesOK, DoneIs
<1>16. QED
  BY <1>9, <1>10, <1>11, <1>13, <1>15 DEF LinesOK, ToldOK

HandleOK(h) == OwnersOK(h) /\ UsesOK(h) /\ ClosesOK(h) /\ MintsOK(h) /\ FreeOK(h)

\* A handle that a served request is not about is as it was.
LEMMA ServedSpares ==
  ASSUME SftpInv, NEW r, NEW a, Served(r, a), NEW h \in Handles, a.h # h, server'.open[h] = server.open[h]
  PROVE  HandleOK(h)'
<1>1. UNCHANGED <<pending, files, client, given, session>>
  BY DEF Served
<1>2. /\ \A j \in InI' : j + 1 \in InI /\ server'.inbox[j] = server.inbox[j + 1] /\ j \in Nat
      /\ \A i \in InO : i \in InO' /\ server'.outbox[i] = server.outbox[i]
      /\ \A i \in InO' : i \in InO \/ server'.outbox[i].h # h
  BY ServedIs
<1>3. OwnersOK(h) /\ UsesOK(h) /\ ClosesOK(h) /\ MintsOK(h) /\ FreeOK(h)
  BY DEF SftpInv, HandlesOK
<1>4. /\ Holds(h)' <=> Holds(h)
      /\ Unasked(h) => Unasked(h)'
      /\ \A i \in InO : (CloseOf(i, h)' <=> CloseOf(i, h)) /\ (HandleOf(i, h)' <=> HandleOf(i, h))
      /\ \A i \in InO' : CloseOf(i, h)' \/ HandleOf(i, h)' => i \in InO
  BY <1>1, <1>2 DEF Holds, Unasked, CloseOf, HandleOf
<1>5. Left(h) => Left(h)'
  BY <1>4 DEF Left
<1>6. OpenFile(h) => OpenFile(h)'
  BY <1>1, <1>2, <1>4 DEF OpenFile
<1>7. OwnersOK(h)'
  BY <1>1, <1>3, <1>6 DEF OwnersOK
<1>8. UsesOK(h)'
  <2> SUFFICES ASSUME session # "ended", NEW i \in InI', server'.inbox[i].h = h
               PROVE  /\ OpenFile(h)'
                      /\ server'.inbox[i].kind = "close" => ~Holds(h)' /\ \A j \in InI' : i < j => server'.inbox[j].h # h
    BY <1>1 DEF UsesOK
  <2>1. i + 1 \in InI /\ server.inbox[i + 1].h = h /\ server'.inbox[i] = server.inbox[i + 1]
    BY <1>2
  <2>2. \A j \in InI' : i < j => i + 1 < j + 1
    BY <1>2
  <2>3. QED
    BY <1>2, <1>3, <1>4, <1>6, <2>1, <2>2 DEF UsesOK
<1>9. ClosesOK(h)'
  BY <1>2, <1>3, <1>4, <1>5 DEF ClosesOK
<1>10. MintsOK(h)'
  BY <1>1, <1>2, <1>3, <1>4, <1>5 DEF MintsOK
<1>11. FreeOK(h)'
  BY <1>1, <1>2, <1>3, <1>4, <1>5 DEF FreeOK
<1>12. QED
  BY <1>7, <1>8, <1>9, <1>10, <1>11 DEF HandleOK

LEMMA HandleKeptMints ==
  ASSUME SftpInv, NEW r, NEW a, Mints(r, a)
  PROVE  HandleOK(a.h)'
<1> DEFINE h == a.h
<1>0. PICK new : new = Len(server.outbox) + 1
  OBVIOUS
<1>1. /\ Served(r, a) /\ r.kind \in {"open", "create"} /\ a.type = "handle" /\ h \in Handles /\ server.open[h] = 0
      /\ server'.open = [server.open EXCEPT ![h] = r.n]
  BY DEF Mints
<1>2. UNCHANGED <<pending, files, client, given, session>>
  BY <1>1 DEF Served
<1>3. /\ \A j \in InI' : j + 1 \in InI /\ server'.inbox[j] = server.inbox[j + 1] /\ j \in Nat
      /\ \A i \in InO : i \in InO' /\ server'.outbox[i] = server.outbox[i] /\ i < new /\ i \in Nat
      /\ \A i \in InO' : i \in InO \/ (i = new /\ server'.outbox[i] = a)
      /\ new \in InO' /\ server'.outbox[new] = a /\ a.n = r.n /\ pending[a.id] = What(r) /\ r.n \in Numbers /\ r.n # 0 /\ new \in Nat
  <2>1. new \in Nat
    BY <1>0, QueueTypes DEF SftpInv
  <2>2. QED
    BY <1>0, <1>1, <2>1, ServedIs, NumbersAreNat
<1>4. server'.open[h] = r.n
  BY <1>1, QueueTypes DEF SftpInv
<1>5. ClosesOK(h) /\ MintsOK(h) /\ FreeOK(h)
  BY <1>1 DEF SftpInv, HandlesOK
<1>6. pending[a.id].kind # "close"
  BY <1>1, <1>3 DEF What
<1> HIDE DEF h
<1>7. ~Holds(h) /\ Unasked(h) /\ (files[h] # None => \E i \in InO : CloseOf(i, h))
  BY <1>1, <1>5 DEF FreeOK, Left
<1>8. ~Holds(h)' /\ Unasked(h)' /\ Left(h)'
  BY <1>2, <1>3, <1>7 DEF Holds, Unasked, Left
<1>9. \A i \in InO : (CloseOf(i, h)' <=> CloseOf(i, h)) /\ (HandleOf(i, h)' <=> HandleOf(i, h))
  BY <1>2, <1>3 DEF CloseOf, HandleOf
<1>10. ~CloseOf(new, h)'
  BY <1>2, <1>3, <1>6 DEF CloseOf
<1>11. \A i \in InO : ~HandleOf(i, h)
  <2> SUFFICES ASSUME NEW i \in InO, HandleOf(i, h) PROVE FALSE
    OBVIOUS
  <2>1. server.outbox[i].n \in Numbers /\ server.open[h] = server.outbox[i].n
    BY <1>5, QueueTypes DEF MintsOK, SftpInv
  <2>2. QED
    BY <1>1, <2>1, NumbersAreNat
<1>12. OwnersOK(h)'
  BY <1>8 DEF OwnersOK, Holds
<1>13. UsesOK(h)'
  BY <1>8 DEF UsesOK, Unasked
<1>14. ClosesOK(h)'
  <2> SUFFICES ASSUME NEW i \in InO', CloseOf(i, h)', NEW j \in InO', i < j, server'.outbox[j].h = h PROVE server'.outbox[j].type = "handle"
    BY <1>8 DEF ClosesOK
  <2>1. i \in InO /\ CloseOf(i, h)
    BY <1>3, <1>9, <1>10
  <2>2. CASE j \in InO
    BY <1>3, <1>5, <2>1, <2>2 DEF ClosesOK
  <2>3. CASE server'.outbox[j] = a
    BY <1>1, <2>3
  <2>4. QED
    BY <1>3, <2>2, <2>3
<1>15. MintsOK(h)'
  <2> SUFFICES ASSUME NEW i \in InO', HandleOf(i, h)'
               PROVE  /\ server'.open[h] = server'.outbox[i].n
                      /\ \A j \in InO' : i < j => server'.outbox[j].h # h
                      /\ files'[h] # None => \E j \in InO' : j < i /\ CloseOf(j, h)'
    BY <1>8 DEF MintsOK
  <2>1. i = new /\ server'.outbox[i] = a
    BY <1>3, <1>9, <1>11
  <2>2. \A j \in InO' : ~(i < j)
    BY <1>3, <2>1
  <2>3. files'[h] # None => \E j \in InO' : j < i /\ CloseOf(j, h)'
    BY <1>2, <1>3, <1>7, <1>9, <2>1
  <2>4. QED
    BY <1>3, <1>4, <2>1, <2>2, <2>3
<1>16. FreeOK(h)'
  BY <1>3, <1>4 DEF FreeOK
<1>17. QED
  BY <1>12, <1>13, <1>14, <1>15, <1>16 DEF HandleOK, h

\* A handle that is used, and one that is closed, or was to be.
LEMMA HandleKeptUsed ==
  ASSUME SftpInv, NEW r, NEW a, NEW h \in Handles, Closes(r, a) \/ Answered(r, a), a.h = h
  PROVE  HandleOK(h)'
<1>0. PICK new : new = Len(server.outbox) + 1
  OBVIOUS
<1>1. /\ Served(r, a) /\ r.h = h /\ a.type # "handle"
      /\ server'.open[h] = server.open[h] \/ (r.kind = "close" /\ server'.open[h] = 0)
  <2>1. server.open \in [Handles -> Nat]
    BY QueueTypes DEF SftpInv
  <2>2. QED
    BY <2>1 DEF Closes, Answered
<1>2. UNCHANGED <<pending, files, client, given, session>> /\ session # "ended"
  BY <1>1 DEF Served
<1>3. /\ \A j \in InI' : j + 1 \in InI /\ server'.inbox[j] = server.inbox[j + 1] /\ j \in Nat /\ 1 < j + 1
      /\ \A i \in InO : i \in InO' /\ server'.outbox[i] = server.outbox[i] /\ i < new /\ i \in Nat
      /\ \A i \in InO' : i \in InO \/ (i = new /\ server'.outbox[i] = a)
      /\ new \in InO' /\ server'.outbox[new] = a /\ a.n = r.n /\ pending[a.id] = What(r) /\ new \in Nat
      /\ r = server.inbox[1] /\ 1 \in InI
  <2>1. new \in Nat
    BY <1>0, QueueTypes DEF SftpInv
  <2>2. QED
    BY <1>0, <1>1, <2>1, ServedIs
<1>4. OwnersOK(h) /\ UsesOK(h)
  BY DEF SftpInv, HandlesOK
<1>5. /\ OpenFile(h) /\ files[h].n = server.open[h] /\ files[h].n # 0
      /\ r.kind = "close" => ~Holds(h) /\ \A j \in InI : 1 < j => server.inbox[j].h # h
  <2>1. OpenFile(h)
    BY <1>1, <1>2, <1>3, <1>4 DEF UsesOK
  <2>2. files[h].n = server.open[h] /\ files[h].n # 0
    BY <2>1, FileIsSome, NumbersAreNat DEF OpenFile, SftpInv, TablesOK
  <2>3. QED
    BY <1>1, <1>2, <1>3, <1>4, <2>1, <2>2 DEF UsesOK
<1>6. Holds(h)' <=> Holds(h)
  BY <1>2 DEF Holds
<1>7. \A i \in InO' : ~HandleOf(i, h)' /\ (CloseOf(i, h)' => i = new /\ r.kind = "close")
  <2> SUFFICES ASSUME NEW i \in InO' PROVE ~HandleOf(i, h)' /\ (CloseOf(i, h)' => i = new /\ r.kind = "close")
    OBVIOUS
  <2>1. CASE i \in InO
    BY <1>2, <1>3, <1>5, <2>1 DEF OpenFile, CloseOf, HandleOf
  <2>2. CASE i = new
    <3>1. What(r).kind = "close" => r.kind = "close"
      BY DEF What, Other
    <3>2. QED
      BY <1>1, <1>2, <1>3, <2>2, <3>1 DEF CloseOf, HandleOf
  <2>3. QED
    BY <1>3, <2>1, <2>2
<1>8. MintsOK(h)'
  BY <1>7 DEF MintsOK
<1>9. CASE r.kind = "close"
  <2>1. Left(h)'
    BY <1>3, <1>5, <1>6, <1>9 DEF Left, Unasked
  <2>2. OwnersOK(h)' /\ UsesOK(h)'
    BY <2>1 DEF OwnersOK, UsesOK, Left, Holds, Unasked
  <2>3. ClosesOK(h)'
    <3>1. \A j \in InO' : ~(new < j)
      BY <1>3
    <3>2. QED
      BY <1>7, <2>1, <3>1 DEF ClosesOK
  <2>4. CloseOf(new, h)'
    <3>1. What(r).kind = "close"
      BY <1>9 DEF What
    <3>2. QED
      BY <1>1, <1>2, <1>3, <3>1 DEF CloseOf
  <2>5. FreeOK(h)'
    BY <1>3, <2>1, <2>4 DEF FreeOK
  <2>6. QED
    BY <1>8, <2>2, <2>3, <2>5 DEF HandleOK
<1>10. CASE r.kind # "close"
  <2>1. OpenFile(h)'
    BY <1>1, <1>2, <1>5, <1>7, <1>10 DEF OpenFile
  <2>2. OwnersOK(h)'
    BY <1>2, <1>4, <2>1 DEF OwnersOK
  <2>3. UsesOK(h)'
    <3> SUFFICES ASSUME NEW i \in InI', server'.inbox[i].h = h, server'.inbox[i].kind = "close"
                 PROVE  ~Holds(h) /\ \A j \in InI' : i < j => server'.inbox[j].h # h
      BY <1>6, <2>1 DEF UsesOK
    <3>1. i + 1 \in InI /\ server.inbox[i + 1].h = h /\ server'.inbox[i] = server.inbox[i + 1]
      BY <1>3
    <3>2. \A j \in InI' : i < j => i + 1 < j + 1
      BY <1>3
    <3>3. QED
      BY <1>2, <1>3, <1>4, <3>1, <3>2 DEF UsesOK
  <2>4. ClosesOK(h)'
    BY <1>7, <1>10 DEF ClosesOK
  <2>5. FreeOK(h)'
    BY <1>1, <1>5, <1>10 DEF FreeOK
  <2>6. QED
    BY <1>8, <2>2, <2>3, <2>4, <2>5 DEF HandleOK
<1>11. QED
  BY <1>9, <1>10

LEMMA HandlesKeptServing ==
  ASSUME SftpInv, NEW r, NEW a, Mints(r, a) \/ Closes(r, a) \/ Answered(r, a)
  PROVE  HandlesOK'
<1>1. Served(r, a) /\ UNCHANGED <<files, client, given, session, puller, packet, reader, holding>>
  BY DEF Mints, Closes, Answered, Served
<1>2. server.open \in [Handles -> Nat] /\ a.h \in Handles \cup {NoHandle}
  BY <1>1, QueueTypes DEF SftpInv, Served, SftpAnswer
<1>3. \A h \in Handles : a.h # h => server'.open[h] = server.open[h]
  <2>1. Closes(r, a) => a.h = r.h
    BY DEF Closes
  <2>2. QED
    BY <1>2, <2>1 DEF Mints, Closes, Answered
<1>4. \A h \in Handles : HandleOK(h)'
  <2> SUFFICES ASSUME NEW h \in Handles PROVE HandleOK(h)'
    OBVIOUS
  <2>1. CASE a.h # h
    BY <1>1, <1>3, <2>1, ServedSpares
  <2>2. CASE a.h = h /\ ~Mints(r, a)
    BY <2>2, HandleKeptUsed
  <2>3. CASE a.h = h /\ Mints(r, a)
    <3>1. HandleOK(a.h)'
      BY <2>3, HandleKeptMints
    <3>2. QED
      BY <2>3, <3>1
  <2>4. QED
    BY <2>1, <2>2, <2>3
<1>5. ASSUME NEW b, b.type = "handle" => b.n # 0, OnItsWay(b), session # "ended"
      PROVE  OnItsWay(b)'
  <2> SUFFICES ASSUME b.type = "handle"
               PROVE  /\ b.h \in Handles /\ files[b.h] # None /\ files[b.h].n = b.n /\ server'.open[b.h] = b.n
                      /\ Left(b.h)' /\ \A i \in InO' : server'.outbox[i].h # b.h
    BY <1>1 DEF OnItsWay
  <2>1. /\ b.h \in Handles /\ files[b.h] # None /\ files[b.h].n = b.n /\ server.open[b.h] = b.n
        /\ Left(b.h) /\ \A i \in InO : server.outbox[i].h # b.h
    BY <1>5 DEF OnItsWay
  <2>2. a.h # b.h
    <3>1. CASE Mints(r, a)
      BY <1>5, <2>1, <3>1 DEF Mints
    <3>2. CASE Closes(r, a) \/ Answered(r, a)
      <4>1. a.h = r.h /\ 1 \in InI /\ server.inbox[1] = r
        BY <1>1, <3>2, ServedIs DEF Closes, Answered
      <4>2. QED
        BY <2>1, <4>1 DEF Left, Unasked
    <3>3. QED
      BY <3>1, <3>2
  <2>3. HandleOK(b.h)'
    BY <1>4, <2>1
  <2>4. \A i \in InO' : server'.outbox[i].h # b.h
    BY <1>1, <2>1, <2>2, ServedIs
  <2>5. Left(b.h)'
    <3>1. \A j \in InI' : j + 1 \in InI /\ server'.inbox[j] = server.inbox[j + 1]
      BY <1>1, ServedIs
    <3>2. QED
      BY <1>1, <2>1, <3>1 DEF Left, Unasked, Holds
  <2>6. QED
    BY <1>3, <2>1, <2>2, <2>4, <2>5
<1>6. puller' = "send" => OnItsWay(packet)'
  <2> SUFFICES ASSUME puller = "send", NEW x, x = packet PROVE OnItsWay(x)'
    BY <1>1 DEF OnItsWay
  <2>1. OnItsWay(x) /\ x.n # 0
    BY NumbersAreNat DEF SftpInv, HandlesOK, TablesOK, SftpAnswer
  <2>2. QED
    BY <1>1, <1>5, <2>1 DEF Served
<1>7. reader' = "hold" => OnItsWay(holding)'
  <2> SUFFICES ASSUME reader = "hold", NEW x, x = holding PROVE OnItsWay(x)'
    BY <1>1 DEF OnItsWay
  <2>1. OnItsWay(x) /\ x.n # 0
    BY NumbersAreNat DEF SftpInv, HandlesOK, TablesOK, SftpPacket
  <2>2. QED
    BY <1>1, <1>5, <2>1 DEF Served
<1>8. QED
  BY <1>4, <1>6, <1>7 DEF HandlesOK, HandleOK

\* A handle fewer people hold, and no request names any more than before.
LEMMA HandleSpared ==
  ASSUME SftpInv, NEW h \in Handles,
         server'.outbox = server.outbox, server'.open = server.open, server'.inbox = server.inbox \/ server'.inbox = <<>>,
         files' = files, session # "ended" \/ session' = "ended",
         \A i \in InO : pending'[server.outbox[i].id] = pending[server.outbox[i].id],
         \A m \in Numbers : given'[m] = h /\ m \notin client'.closed => given[m] = h /\ m \notin client.closed
  PROVE  HandleOK(h)'
<1>1. InO' = InO /\ \A i \in InI' : i \in InI /\ server'.inbox[i] = server.inbox[i]
  BY DEF InO, InI
<1>2. OwnersOK(h) /\ UsesOK(h) /\ ClosesOK(h) /\ MintsOK(h) /\ FreeOK(h)
  BY DEF SftpInv, HandlesOK
<1>3. /\ Holds(h)' => Holds(h)
      /\ Unasked(h) => Unasked(h)'
      /\ \A i \in InO : (CloseOf(i, h)' <=> CloseOf(i, h)) /\ (HandleOf(i, h)' <=> HandleOf(i, h))
  BY <1>1 DEF Holds, Unasked, CloseOf, HandleOf
<1>4. Left(h) => Left(h)'
  BY <1>3 DEF Left
<1>5. OpenFile(h) => OpenFile(h)'
  BY <1>1, <1>3 DEF OpenFile
<1>6. OwnersOK(h)'
  BY <1>2, <1>5 DEF OwnersOK
<1>7. UsesOK(h)'
  BY <1>1, <1>2, <1>3, <1>5 DEF UsesOK
<1>8. ClosesOK(h)' /\ MintsOK(h)'
  BY <1>1, <1>2, <1>3, <1>4 DEF ClosesOK, MintsOK
<1>9. FreeOK(h)'
  BY <1>1, <1>2, <1>3, <1>4 DEF FreeOK
<1>10. QED
  BY <1>6, <1>7, <1>8, <1>9 DEF HandleOK

LEMMA HandlesKeptElse ==
  ASSUME SftpInv, Recedes \/ Stops \/ Hands \/ Refuses \/ \E r : Preps(r)
  PROVE  HandlesOK'
<1>1. /\ server'.outbox = server.outbox /\ server'.open = server.open
      /\ (server'.inbox = server.inbox \/ server'.inbox = <<>>)
  BY DEF Recedes, Stops, Hands, Refuses, Preps
<1>2. UNCHANGED <<files, given>> /\ (session # "ended" \/ session' = "ended") /\ InO' = InO
  BY DEF Recedes, Stops, Hands, Refuses, Preps, InO
<1>3. \A i \in InO : pending'[server.outbox[i].id] = pending[server.outbox[i].id]
  <2>1. CASE Recedes \/ Stops \/ Hands
    BY <2>1 DEF Recedes, Stops, Hands
  <2>2. CASE Refuses
    BY <2>2, OthersPending DEF Refuses
  <2>3. ASSUME NEW r, Preps(r)
        PROVE  \A i \in InO : pending'[server.outbox[i].id] = pending[server.outbox[i].id]
    <3>1. pending' = pending \/ (pending[r.id] = None /\ pending' = [pending EXCEPT ![r.id] = Other(r)])
      BY <2>3 DEF Preps
    <3>2. QED
      BY <3>1, OthersPending
  <2>4. QED
    BY <2>1, <2>2, <2>3
<1>4. \A m : m \in client.closed => m \in client'.closed
  BY DEF Recedes, Stops, Hands, Refuses, Preps, Asked
<1>5. \A h \in Handles : HandleOK(h)'
  BY <1>1, <1>2, <1>3, <1>4, HandleSpared
<1>6. ASSUME NEW b, OnItsWay(b)
      PROVE  OnItsWay(b)'
  <2> SUFFICES ASSUME b.type = "handle", session' # "ended"
               PROVE  /\ b.h \in Handles /\ files[b.h] # None /\ files[b.h].n = b.n /\ server.open[b.h] = b.n
                      /\ Left(b.h)' /\ \A i \in InO : server.outbox[i].h # b.h
    BY <1>1, <1>2 DEF OnItsWay
  <2>1. /\ b.h \in Handles /\ files[b.h] # None /\ files[b.h].n = b.n /\ server.open[b.h] = b.n
        /\ Left(b.h) /\ \A i \in InO : server.outbox[i].h # b.h
    BY <1>2, <1>6 DEF OnItsWay, Recedes, Stops, Hands, Refuses, Preps
  <2>2. \A j \in InI' : j \in InI /\ server'.inbox[j] = server.inbox[j]
    BY <1>1 DEF InI
  <2>3. Left(b.h)'
    BY <1>2, <1>4, <2>1, <2>2 DEF Left, Unasked, Holds
  <2>4. QED
    BY <2>1, <2>3
<1>7. HandlesOK
  BY DEF SftpInv
<1>8. puller' = "send" => OnItsWay(packet)'
  <2> SUFFICES ASSUME puller' = "send", NEW x, x = packet' PROVE OnItsWay(x)'
    BY DEF OnItsWay
  <2>1. puller = "send" /\ x = packet
    BY DEF Recedes, Stops, Hands, Refuses, Preps
  <2>2. QED
    BY <1>6, <1>7, <2>1 DEF HandlesOK
<1>9. reader' = "hold" => OnItsWay(holding)'
  <2> SUFFICES ASSUME reader' = "hold", NEW x, x = holding' PROVE OnItsWay(x)'
    BY DEF OnItsWay
  <2>1. (reader = "hold" /\ x = holding) \/ (puller = "send" /\ x = packet) \/ x = Refusal(request)
    BY DEF Recedes, Stops, Hands, Refuses, Preps
  <2>2. x.type = "handle" => OnItsWay(x)
    BY <1>7, <2>1 DEF HandlesOK, Refusal
  <2>3. QED
    BY <1>6, <2>2 DEF OnItsWay
<1>10. QED
  BY <1>5, <1>8, <1>9 DEF HandlesOK, HandleOK

LEMMA HandlesKeptShows ==
  ASSUME SftpInv, Shows
  PROVE  HandlesOK'
<1>1. /\ UNCHANGED <<server, pending, files, client, session, puller, packet>> /\ reader = "hold" /\ reader' # "hold"
      /\ given' = IF holding.type = "handle" THEN [given EXCEPT ![holding.n] = holding.h] ELSE given
  BY DEF Shows
<1>2. OnItsWay(holding) /\ holding \in SftpPacket /\ session = "bridge" /\ given[holding.n] = NoHandle
      /\ given \in [Numbers -> Handles \cup {NoHandle}] /\ (puller = "send" => packet.n # holding.n /\ OnItsWay(packet))
  BY <1>1 DEF SftpInv, HandlesOK, TablesOK, FreshOK
<1>3. holding.n \in Numbers
  BY <1>2 DEF SftpPacket
<1> DEFINE Theirs(h) == holding.type = "handle" /\ holding.h = h
<1>4. \A h \in Handles, m \in Numbers : ~Theirs(h) /\ given'[m] = h => given[m] = h
  BY <1>1, <1>2, <1>3, SftpAssumption
<1>5. ASSUME NEW h \in Handles, ~Theirs(h)
      PROVE  HandleOK(h)'
  <2>1. \A m \in Numbers : given'[m] = h /\ m \notin client'.closed => given[m] = h /\ m \notin client.closed
    BY <1>1, <1>4, <1>5
  <2>2. /\ server'.outbox = server.outbox /\ server'.open = server.open /\ server'.inbox = server.inbox
        /\ files' = files /\ session # "ended" /\ \A i \in InO : pending'[server.outbox[i].id] = pending[server.outbox[i].id]
    BY <1>1, <1>2
  <2>3. QED
    BY <2>1, <2>2, HandleSpared
<1>6. ASSUME NEW h \in Handles, Theirs(h)
      PROVE  HandleOK(h)'
  <2>1. /\ files[h] # None /\ files[h].n = holding.n /\ server.open[h] = holding.n
        /\ ~Holds(h) /\ Unasked(h) /\ \A i \in InO : server.outbox[i].h # h
    BY <1>2, <1>6 DEF OnItsWay, Left
  <2>2. InO' = InO /\ \A i \in InO' : ~CloseOf(i, h)' /\ ~HandleOf(i, h)'
    BY <1>1, <2>1 DEF InO, CloseOf, HandleOf
  <2>3. OpenFile(h)'
    BY <1>1, <2>1, <2>2 DEF OpenFile
  <2>4. OwnersOK(h)'
    <3> SUFFICES ASSUME NEW m \in Numbers, given'[m] = h, m \notin client.closed PROVE files[h].n = m
      BY <1>1, <2>3 DEF OwnersOK
    <3>1. given[m] # h
      BY <2>1 DEF Holds
    <3>2. QED
      BY <1>1, <1>2, <1>3, <2>1, <3>1
  <2>5. UsesOK(h)'
    BY <1>1, <2>1 DEF UsesOK, Unasked, InI
  <2>6. ClosesOK(h)' /\ MintsOK(h)'
    BY <2>2 DEF ClosesOK, MintsOK
  <2>7. FreeOK(h)'
    <3>1. server'.open[h] # 0
      BY <1>1, <1>3, <2>1, NumbersAreNat
    <3>2. QED
      BY <3>1 DEF FreeOK
  <2>8. QED
    BY <2>4, <2>5, <2>6, <2>7 DEF HandleOK
<1>7. puller' = "send" => OnItsWay(packet)'
  <2> SUFFICES ASSUME puller = "send", NEW x, x = packet, x.type = "handle" PROVE OnItsWay(x)'
    BY <1>1 DEF OnItsWay
  <2>1. /\ x.h \in Handles /\ files[x.h] # None /\ files[x.h].n = x.n /\ server.open[x.h] = x.n
        /\ ~Holds(x.h) /\ Unasked(x.h) /\ \A i \in InO : server.outbox[i].h # x.h /\ x.n # holding.n
    BY <1>2 DEF OnItsWay, Left
  <2>2. x.n # holding.n
    BY <1>2
  <2>3. ~Theirs(x.h)
    BY <1>2, <2>1, <2>2 DEF OnItsWay
  <2>4. ~Holds(x.h)'
    BY <1>1, <1>4, <2>1, <2>3 DEF Holds
  <2>5. QED
    BY <1>1, <2>1, <2>4 DEF OnItsWay, Left, Unasked, InI, InO
<1>8. QED
  BY <1>1, <1>5, <1>6, <1>7 DEF HandlesOK, HandleOK

LEMMA HandlesKeptFinishes ==
  ASSUME SftpInv, Finishes
  PROVE  HandlesOK'
<1>1. /\ UNCHANGED <<server, pending, client, given>> /\ session' = "ended" /\ \A h \in Handles : files'[h] = None
  BY DEF Finishes
<1>2. \A h \in Handles : HandleOK(h)'
  <2> SUFFICES ASSUME NEW h \in Handles PROVE HandleOK(h)'
    OBVIOUS
  <2>1. ClosesOK(h) /\ MintsOK(h) /\ FreeOK(h)
    BY DEF SftpInv, HandlesOK
  <2>2. /\ InO' = InO /\ (Left(h)' <=> Left(h))
        /\ \A i \in InO : (CloseOf(i, h)' <=> CloseOf(i, h)) /\ (HandleOf(i, h)' <=> HandleOf(i, h))
    BY <1>1 DEF InO, InI, Left, Holds, Unasked, CloseOf, HandleOf
  <2>3. OwnersOK(h)' /\ UsesOK(h)'
    BY <1>1 DEF OwnersOK, UsesOK
  <2>4. ClosesOK(h)' /\ MintsOK(h)'
    BY <1>1, <2>1, <2>2 DEF ClosesOK, MintsOK
  <2>5. FreeOK(h)'
    BY <1>1, <2>1, <2>2 DEF FreeOK
  <2>6. QED
    BY <2>3, <2>4, <2>5 DEF HandleOK
<1>3. \A b : OnItsWay(b)'
  BY <1>1 DEF OnItsWay
<1>4. OnItsWay(packet)' /\ OnItsWay(holding)'
  BY <1>1 DEF OnItsWay
<1>5. QED
  BY <1>2, <1>4 DEF HandlesOK, HandleOK

LEMMA HandlesKeptSends ==
  ASSUME SftpInv, NEW r, Sends(r)
  PROVE  HandlesOK'
<1>1. /\ UNCHANGED <<given, session, puller, packet, reader, holding>> /\ session = "bridge" /\ r \in SftpRequest
      /\ writer \in {"copy", "judge"}
  BY DEF Sends, SftpInv, TablesOK
<1>2. /\ InO' = InO /\ server'.outbox = server.outbox /\ server'.open = server.open
      /\ \A i \in InO : pending'[server.outbox[i].id] = pending[server.outbox[i].id]
      /\ \A j \in InI : j \in InI' /\ server'.inbox[j] = server.inbox[j] /\ j \in Nat /\ j < Len(server.inbox) + 1
      /\ \A j \in InI' : j \in InI \/ (j = Len(server.inbox) + 1 /\ server'.inbox[j] = r)
      /\ r.h \in Handles => Holds(r.h)
      /\ \A h \in Handles : (files'[h] = None) = (files[h] = None) /\ (files[h] # None => files'[h].n = files[h].n)
  BY SentIs
<1>3. /\ \A m : m \in client.closed => m \in client'.closed
      /\ r.kind = "close" => \A m \in Numbers : given[m] = r.h => m \in client'.closed
  BY DEF Sends, Asked, Judged
<1>4. \A h : Holds(h)' => Holds(h)
  BY <1>1, <1>3 DEF Holds
<1>5. \A i \in InO, h \in Handles : (CloseOf(i, h)' <=> CloseOf(i, h)) /\ (HandleOf(i, h)' <=> HandleOf(i, h))
  BY <1>2 DEF CloseOf, HandleOf
<1>6. \A h \in Handles : OpenFile(h) => OpenFile(h)'
  BY <1>2, <1>5 DEF OpenFile
<1>7. \A h \in Handles : Left(h) => Left(h)'
  BY <1>2, <1>4 DEF Left, Unasked
<1>8. ASSUME NEW h \in Handles
      PROVE  HandleOK(h)'
  <2>1. OwnersOK(h) /\ UsesOK(h) /\ ClosesOK(h) /\ MintsOK(h) /\ FreeOK(h)
    BY DEF SftpInv, HandlesOK
  <2>2. OwnersOK(h)'
    BY <1>1, <1>2, <1>3, <1>6, <2>1 DEF OwnersOK
  <2>3. UsesOK(h)'
    <3> SUFFICES ASSUME NEW i \in InI', server'.inbox[i].h = h
                 PROVE  /\ OpenFile(h)'
                        /\ server'.inbox[i].kind = "close" => ~Holds(h)' /\ \A j \in InI' : i < j => server'.inbox[j].h # h
      BY DEF UsesOK
    <3>1. CASE i \in InI
      <4>1. server.inbox[i].h = h /\ server'.inbox[i] = server.inbox[i]
        BY <1>2, <3>1
      <4>2. OpenFile(h) /\ (server.inbox[i].kind = "close" => ~Holds(h) /\ \A j \in InI : i < j => server.inbox[j].h # h)
        BY <1>1, <2>1, <3>1, <4>1 DEF UsesOK
      <4>3. ~Holds(h) => r.h # h
        BY <1>2
      <4>4. QED
        BY <1>2, <1>4, <1>6, <4>1, <4>2, <4>3
    <3>2. CASE i = Len(server.inbox) + 1 /\ server'.inbox[i] = r
      <4>1. Holds(h)
        BY <1>2, <3>2
      <4>2. OpenFile(h)
        BY <1>1, <2>1, <4>1 DEF Holds, OwnersOK
      <4>3. r.kind = "close" => ~Holds(h)'
        BY <1>1, <1>3, <3>2 DEF Holds
      <4>4. \A j \in InI' : ~(i < j)
        <5>1. Len(server.inbox) \in Nat
          BY QueueTypes DEF SftpInv
        <5>2. QED
          BY <1>2, <3>2, <5>1
      <4>5. QED
        BY <1>6, <3>2, <4>2, <4>3, <4>4
    <3>3. QED
      BY <1>2, <3>1, <3>2
  <2>4. ClosesOK(h)'
    BY <1>2, <1>5, <1>7, <2>1 DEF ClosesOK
  <2>5. MintsOK(h)'
    BY <1>2, <1>5, <1>7, <2>1 DEF MintsOK
  <2>6. FreeOK(h)'
    BY <1>2, <1>5, <1>7, <2>1 DEF FreeOK
  <2>7. QED
    BY <2>2, <2>3, <2>4, <2>5, <2>6 DEF HandleOK
<1>9. ASSUME NEW b, OnItsWay(b)
      PROVE  OnItsWay(b)'
  <2> SUFFICES ASSUME b.type = "handle"
               PROVE  /\ b.h \in Handles /\ files'[b.h] # None /\ files'[b.h].n = b.n /\ server'.open[b.h] = b.n
                      /\ Left(b.h)' /\ \A i \in InO' : server'.outbox[i].h # b.h
    BY <1>1 DEF OnItsWay
  <2>1. /\ b.h \in Handles /\ files[b.h] # None /\ files[b.h].n = b.n /\ server.open[b.h] = b.n
        /\ Left(b.h) /\ \A i \in InO : server.outbox[i].h # b.h
    BY <1>1, <1>9 DEF OnItsWay
  <2>2. Left(b.h)'
    BY <1>2, <1>4, <2>1 DEF Left, Unasked
  <2>3. QED
    BY <1>2, <2>1, <2>2
<1>10. HandlesOK
  BY DEF SftpInv
<1>11. puller' = "send" => OnItsWay(packet)'
  <2> SUFFICES ASSUME puller = "send", NEW x, x = packet PROVE OnItsWay(x)'
    BY <1>1 DEF OnItsWay
  <2>1. QED
    BY <1>9, <1>10 DEF HandlesOK
<1>12. reader' = "hold" => OnItsWay(holding)'
  <2> SUFFICES ASSUME reader = "hold", NEW x, x = holding PROVE OnItsWay(x)'
    BY <1>1 DEF OnItsWay
  <2>1. QED
    BY <1>9, <1>10 DEF HandlesOK
<1>13. QED
  BY <1>8, <1>11, <1>12 DEF HandlesOK, HandleOK

\* What the pump's step does to the files, by the answer it takes.
LEMMA FilesTaken ==
  ASSUME SftpInv, NEW a, Takes(a), NEW h \in Handles
  PROVE  /\ CloseOf(1, h) => a.h = h /\ a.type # "handle" /\ files'[h] = None
         /\ HandleOf(1, h) => a.h = h /\ files'[h] # None /\ files'[h].n = a.n
         /\ ~CloseOf(1, h) /\ ~HandleOf(1, h) =>
              (files'[h] = None) = (files[h] = None) /\ (files[h] # None => files'[h].n = files[h].n)
<1> DEFINE p == pending[a.id]
<1>1. a \in SftpAnswer /\ p \in SftpRequest \cup SftpOther /\ Answers(a, p) /\ a = server.outbox[1] /\ TablesOK
      /\ files' = filesAfter(p, a) /\ files \in [Handles -> SftpFile \cup {None}] /\ \A f \in SftpFile : f # None
  BY TakesIs DEF SftpInv, TablesOK, SftpFile, None, Numbers
<1>2. (CloseOf(1, h) <=> a.h = h /\ p.kind = "close") /\ (HandleOf(1, h) <=> a.h = h /\ a.type = "handle")
  BY <1>1 DEF CloseOf, HandleOf
<1> HIDE DEF p
<1>3. p.kind = "close" => a.type \notin {"handle", "data"}
  BY <1>1 DEF Answers
<1>4. CASE a.type = "handle" /\ p \in SftpRequest /\ a.h \in Handles /\ filesAfter(p, a) = [files EXCEPT ![a.h] = newSFTPHandle(p)]
  <2>1. newSFTPHandle(p) \in SftpFile /\ newSFTPHandle(p).n = a.n
    BY <1>1, <1>4, NewFileIs DEF Answers
  <2>2. QED
    BY <1>1, <1>2, <1>3, <1>4, <2>1
<1>5. CASE /\ a.type = "data" /\ p.kind = "read" /\ p \in SftpRequest /\ p.h = a.h /\ a.h \in Handles
           /\ filesAfter(p, a) = Observed(a.h, "down", p.at)
  <2>1. p.at \in 0..MaxAt
    BY <1>5 DEF SftpRequest
  <2>2. QED
    BY <1>1, <1>2, <1>5, <2>1, ObservedIs
<1>6. CASE p.kind = "close" /\ p.h = a.h /\ a.h \in Handles /\ filesAfter(p, a) = [files EXCEPT ![a.h] = None]
  BY <1>1, <1>2, <1>3, <1>6
<1>7. CASE p.kind = "copy" /\ a.type = "ok" /\ p.h = a.h /\ a.h \in Handles /\ files[a.h] # None
           /\ filesAfter(p, a) = [files EXCEPT ![a.h] = copyDone(p)]
  <2>1. copyDone(p) \in SftpFile /\ copyDone(p).n = files[a.h].n
    BY <1>1, <1>7, FileIsSome, CopyDoneIs
  <2>2. QED
    BY <1>1, <1>2, <1>7, <2>1
<1>8. CASE p.kind # "close" /\ a.type \notin {"handle", "data"} /\ filesAfter(p, a) = files
  BY <1>1, <1>2, <1>8
<1>9. QED
  <2>1. \/ a.type = "handle" /\ p \in SftpRequest /\ a.h \in Handles /\ filesAfter(p, a) = [files EXCEPT ![a.h] = newSFTPHandle(p)]
        \/ /\ a.type = "data" /\ p.kind = "read" /\ p \in SftpRequest /\ p.h = a.h /\ a.h \in Handles
           /\ filesAfter(p, a) = Observed(a.h, "down", p.at)
        \/ p.kind = "close" /\ p.h = a.h /\ a.h \in Handles /\ filesAfter(p, a) = [files EXCEPT ![a.h] = None]
        \/ p.kind = "copy" /\ a.type = "ok" /\ p.h = a.h /\ a.h \in Handles /\ files[a.h] # None
           /\ filesAfter(p, a) = [files EXCEPT ![a.h] = copyDone(p)]
        \/ p.kind # "close" /\ a.type \notin {"handle", "data"} /\ filesAfter(p, a) = files
    BY ZenonT(60), <1>1, FilesAfterIs
  <2>2. QED
    BY <2>1, <1>4, <1>5, <1>6, <1>7, <1>8

LEMMA HandlesKeptTaking ==
  ASSUME SftpInv, NEW a, Takes(a)
  PROVE  HandlesOK'
<1>1. /\ UNCHANGED <<client, given, session, reader, holding>> /\ (puller' = "send" => packet' = a)
      /\ InI' = InI /\ server'.inbox = server.inbox /\ server'.open = server.open
  BY TakesIs DEF Takes
<1>2. /\ a = server.outbox[1] /\ 1 \in InO /\ a.n \in Numbers /\ a.n # 0
      /\ \A j \in InO' : /\ j + 1 \in InO /\ server'.outbox[j] = server.outbox[j + 1] /\ 1 < j + 1 /\ j \in Nat
                         /\ pending'[server.outbox[j + 1].id] = pending[server.outbox[j + 1].id]
      /\ \A i \in InO : i > 1 => i - 1 \in InO' /\ server'.outbox[i - 1] = server.outbox[i] /\ i \in Nat
  BY TakesIs, NumbersAreNat
<1>3. \A h : (Left(h)' <=> Left(h)) /\ (Holds(h)' <=> Holds(h))
  BY <1>1 DEF Left, Holds, Unasked
<1>4. \A h \in Handles, j \in InO' : (CloseOf(j, h)' <=> CloseOf(j + 1, h)) /\ (HandleOf(j, h)' <=> HandleOf(j + 1, h))
  BY <1>2 DEF CloseOf, HandleOf
<1>5. \A i, j \in InO' : i < j => i + 1 < j + 1
  BY <1>2
<1>6. ASSUME NEW h \in Handles
      PROVE  HandleOK(h)'
  <2>1. OwnersOK(h) /\ UsesOK(h) /\ ClosesOK(h) /\ MintsOK(h) /\ FreeOK(h)
    BY DEF SftpInv, HandlesOK
  <2>2. ClosesOK(h)'
    <3> SUFFICES ASSUME NEW i \in InO', CloseOf(i, h)'
                 PROVE  Left(h) /\ \A j \in InO' : i < j /\ server'.outbox[j].h = h => server'.outbox[j].type = "handle"
      BY <1>3 DEF ClosesOK
    <3>1. i + 1 \in InO /\ CloseOf(i + 1, h)
      BY <1>2, <1>4
    <3>2. Left(h) /\ \A j \in InO : i + 1 < j /\ server.outbox[j].h = h => server.outbox[j].type = "handle"
      BY <2>1, <3>1 DEF ClosesOK
    <3>3. QED
      BY <1>2, <1>5, <3>2
  <2>3. MintsOK(h)'
    <3> SUFFICES ASSUME NEW i \in InO', HandleOf(i, h)'
                 PROVE  /\ server.open[h] = server'.outbox[i].n /\ Left(h)
                        /\ \A j \in InO' : i < j => server'.outbox[j].h # h
                        /\ files'[h] # None => \E j \in InO' : j < i /\ CloseOf(j, h)'
      BY <1>1, <1>3 DEF MintsOK
    <3>1. i + 1 \in InO /\ HandleOf(i + 1, h) /\ server'.outbox[i] = server.outbox[i + 1]
      BY <1>2, <1>4
    <3>2. /\ server.open[h] = server.outbox[i + 1].n /\ Left(h)
          /\ \A j \in InO : i + 1 < j => server.outbox[j].h # h
          /\ files[h] # None => \E j \in InO : j < i + 1 /\ CloseOf(j, h)
      BY <2>1, <3>1 DEF MintsOK
    <3>3. ~HandleOf(1, h)
      BY <1>2, <2>1, <3>1 DEF MintsOK, HandleOf
    <3>4. files'[h] # None => files[h] # None /\ ~CloseOf(1, h)
      BY <3>3, FilesTaken
    <3>5. ASSUME files'[h] # None
          PROVE  \E j \in InO' : j < i /\ CloseOf(j, h)'
      <4>1. PICK k \in InO : k < i + 1 /\ CloseOf(k, h)
        BY <3>2, <3>4, <3>5
      <4>2. k \in Nat /\ k > 1 /\ i \in Nat
        BY <1>2, <3>4, <3>5, <4>1 DEF InO
      <4>3. k - 1 \in InO' /\ (k - 1) + 1 = k /\ k - 1 < i
        BY <1>2, <4>1, <4>2
      <4>4. CloseOf(k - 1, h)'
        BY <1>4, <4>1, <4>3
      <4>5. QED
        BY <4>3, <4>4
    <3>6. QED
      BY <1>2, <1>5, <3>1, <3>2, <3>5
  <2>4. FreeOK(h)'
    <3> SUFFICES ASSUME server.open[h] = 0, files'[h] # None PROVE \E j \in InO' : CloseOf(j, h)'
      BY <1>1, <1>3, <2>1 DEF FreeOK
    <3>1. ~HandleOf(1, h)
      BY <1>2, <2>1 DEF MintsOK, HandleOf
    <3>2. files[h] # None /\ ~CloseOf(1, h)
      BY <3>1, FilesTaken
    <3>3. PICK k \in InO : CloseOf(k, h)
      BY <2>1, <3>2 DEF FreeOK
    <3>4. k \in Nat /\ k > 1
      BY <3>2, <3>3 DEF InO
    <3>5. k - 1 \in InO' /\ (k - 1) + 1 = k
      BY <1>2, <3>4
    <3>6. CloseOf(k - 1, h)'
      BY <1>4, <3>3, <3>5
    <3>7. QED
      BY <3>5, <3>6
  <2>5. OpenFile(h) => OpenFile(h)'
    <3>1. OpenFile(h) => files'[h] # None /\ files'[h].n = files[h].n
      BY <1>2, FilesTaken DEF OpenFile
    <3>2. QED
      BY <1>1, <1>2, <1>4, <3>1 DEF OpenFile
  <2>6. OpenFile(h) => files'[h].n = files[h].n
    BY <1>2, FilesTaken DEF OpenFile
  <2>7. OwnersOK(h)'
    BY <1>1, <2>1, <2>5, <2>6 DEF OwnersOK
  <2>8. UsesOK(h)'
    BY <1>1, <1>3, <2>1, <2>5 DEF UsesOK
  <2>9. QED
    BY <2>2, <2>3, <2>4, <2>7, <2>8 DEF HandleOK
<1>7. puller' = "send" => OnItsWay(packet)'
  <2> SUFFICES ASSUME a.type = "handle" PROVE OnItsWay(a)'
    BY <1>1 DEF OnItsWay
  <2>1. a.h \in Handles /\ HandleOf(1, a.h)
    BY <1>2, TakesIs DEF Answers, HandleOf
  <2>2. MintsOK(a.h)
    BY <2>1 DEF SftpInv, HandlesOK
  <2>3. files'[a.h] # None /\ files'[a.h].n = a.n
    BY <2>1, FilesTaken
  <2>4. server.open[a.h] = a.n /\ Left(a.h) /\ \A j \in InO : 1 < j => server.outbox[j].h # a.h
    BY <1>2, <2>1, <2>2 DEF MintsOK
  <2>5. QED
    BY <1>1, <1>2, <1>3, <2>1, <2>3, <2>4 DEF OnItsWay
<1>8. reader' = "hold" => OnItsWay(holding)'
  <2> SUFFICES ASSUME reader = "hold", NEW x, x = holding, x.type = "handle" PROVE OnItsWay(x)'
    BY <1>1 DEF OnItsWay
  <2>1. OnItsWay(x) /\ session = "bridge"
    BY DEF SftpInv, HandlesOK, TablesOK
  <2>2. /\ x.h \in Handles /\ files[x.h] # None /\ files[x.h].n = x.n /\ server.open[x.h] = x.n
        /\ Left(x.h) /\ \A i \in InO : server.outbox[i].h # x.h
    BY <2>1 DEF OnItsWay
  <2>3. ~CloseOf(1, x.h) /\ ~HandleOf(1, x.h)
    BY <1>2, <2>2 DEF CloseOf, HandleOf
  <2>4. files'[x.h] # None /\ files'[x.h].n = x.n
    BY <2>2, <2>3, FilesTaken
  <2>5. QED
    BY <1>1, <1>2, <1>3, <2>2, <2>4 DEF OnItsWay
<1>9. QED
  BY <1>6, <1>7, <1>8 DEF HandlesOK, HandleOK

\* Chunks and the answers that account for them.
Marking == SftpChunk \cup {Blank}
Longer(w, v, c) == Len(v) = Len(w) + 1 /\ (\A i \in 1..Len(w) : v[i] = w[i]) /\ v[Len(w) + 1] = c
Shorter(w, v) == Len(w) = Len(v) + 1 /\ \A i \in 1..Len(v) : v[i] = w[i + 1]

LEMMA BlankIsNone == \A c \in SftpChunk : c # Blank
  BY DEF SftpChunk, Blank

LEMMA TrailsLonger ==
  ASSUME NEW m \in Seq(SftpChunk), NEW k \in Nat, NEW w \in Seq(Marking), NEW v \in Seq(Marking), Longer(w, v, Blank), Trails(m, k, w)
  PROVE  Trails(m, k, v)
<1>1. PICK g : Fits(g, m, k, w)
  BY DEF Trails
<1>2. Len(m) \in Nat /\ Len(w) \in Nat /\ Len(v) = Len(w) + 1 /\ (\A i \in 1..Len(w) : v[i] = w[i]) /\ v[Len(w) + 1] = Blank
  BY DEF Longer
<1>3. g \in [(k + 1)..Len(m) -> 1..Len(v)]
  <2>1. \A i \in 1..Len(w) : i \in 1..Len(v)
    BY <1>2
  <2>2. QED
    BY <1>1, <2>1 DEF Fits
<1>4. \A i \in (k + 1)..Len(m) : v[g[i]] = m[i]
  BY <1>1, <1>2 DEF Fits
<1>5. ASSUME NEW j \in 1..Len(v), v[j] # Blank
      PROVE  \E i \in (k + 1)..Len(m) : g[i] = j
  <2>1. j \in 1..Len(w) /\ w[j] = v[j]
    BY <1>2, <1>5
  <2>2. QED
    BY <1>1, <1>5, <2>1 DEF Fits
<1>6. Fits(g, m, k, v)
  BY <1>1, <1>3, <1>4, <1>5 DEF Fits
<1>7. QED
  BY <1>6 DEF Trails

LEMMA TrailsMore ==
  ASSUME NEW m \in Seq(SftpChunk), NEW k \in Nat, NEW w \in Seq(Marking), NEW v \in Seq(Marking), NEW c \in SftpChunk,
         Longer(w, v, c), Trails(m, k, w)
  PROVE  Trails(Append(m, c), k, v)
<1>1. PICK g : Fits(g, m, k, w)
  BY DEF Trails
<1>2. Len(m) \in Nat /\ Len(w) \in Nat /\ Len(v) = Len(w) + 1 /\ (\A i \in 1..Len(w) : v[i] = w[i]) /\ v[Len(w) + 1] = c
      /\ k <= Len(m)
  BY DEF Longer, Trails
<1> DEFINE q == Append(m, c)
           f == [i \in (k + 1)..Len(q) |-> IF i = Len(q) THEN Len(v) ELSE g[i]]
<1>3. Len(q) = Len(m) + 1 /\ q[Len(m) + 1] = c /\ \A i \in 1..Len(m) : q[i] = m[i]
  BY QueueAppend
<1> HIDE DEF q
<1>4. \A i \in (k + 1)..Len(m) : g[i] \in 1..Len(w) /\ i \in (k + 1)..Len(q) /\ i # Len(q) /\ i \in 1..Len(m)
  BY <1>1, <1>2, <1>3 DEF Fits
<1>5. \A i \in (k + 1)..Len(q) : i = Len(q) \/ i \in (k + 1)..Len(m)
  BY <1>2, <1>3
<1>6. Len(q) \in (k + 1)..Len(q) /\ f[Len(q)] = Len(v) /\ \A i \in (k + 1)..Len(m) : f[i] = g[i]
  BY <1>2, <1>3, <1>4
<1>7. f \in [(k + 1)..Len(q) -> 1..Len(v)]
  <2>1. Len(v) \in 1..Len(v) /\ \A x \in 1..Len(w) : x \in 1..Len(v)
    BY <1>2
  <2>2. QED
    BY <1>4, <1>5, <2>1
<1> HIDE DEF f
<1>8. \A i, j \in (k + 1)..Len(q) : i < j => f[i] < f[j]
  <2> SUFFICES ASSUME NEW i \in (k + 1)..Len(q), NEW j \in (k + 1)..Len(q), i < j PROVE f[i] < f[j]
    OBVIOUS
  <2>1. i \in (k + 1)..Len(m) /\ f[i] = g[i] /\ g[i] \in 1..Len(w)
    BY <1>2, <1>3, <1>4, <1>5, <1>6
  <2>2. CASE j = Len(q)
    BY <1>2, <1>6, <2>1, <2>2
  <2>3. CASE j \in (k + 1)..Len(m)
    BY <1>1, <1>6, <2>1, <2>3 DEF Fits
  <2>4. QED
    BY <1>5, <2>2, <2>3
<1>9. \A i \in (k + 1)..Len(q) : v[f[i]] = q[i]
  <2> SUFFICES ASSUME NEW i \in (k + 1)..Len(q) PROVE v[f[i]] = q[i]
    OBVIOUS
  <2>1. CASE i = Len(q)
    BY <1>2, <1>3, <1>6, <2>1
  <2>2. CASE i \in (k + 1)..Len(m)
    BY <1>1, <1>2, <1>3, <1>4, <1>6, <2>2 DEF Fits
  <2>3. QED
    BY <1>5, <2>1, <2>2
<1>10. ASSUME NEW j \in 1..Len(v), v[j] # Blank
       PROVE  \E i \in (k + 1)..Len(q) : f[i] = j
  <2>1. CASE j = Len(v)
    BY <1>6, <2>1
  <2>2. CASE j # Len(v)
    <3>1. j \in 1..Len(w) /\ w[j] # Blank
      BY <1>2, <1>10, <2>2
    <3>2. PICK i \in (k + 1)..Len(m) : g[i] = j
      BY <1>1, <3>1 DEF Fits
    <3>3. QED
      BY <1>4, <1>6, <3>2
  <2>3. QED
    BY <2>1, <2>2
<1>11. Upto(q, "down", k)
  <2>1. \A i \in 1..k : m[i] = <<"down", i - 1>> /\ i \in 1..Len(m)
    BY <1>2 DEF Trails, Upto
  <2>2. QED
    BY <1>3, <2>1 DEF Upto
<1>12. Fits(f, q, k, v) /\ k <= Len(q)
  BY <1>2, <1>3, <1>7, <1>8, <1>9, <1>10 DEF Fits
<1>13. QED
  BY <1>11, <1>12 DEF Trails, q

\* An answer is taken: it was about no chunk, or about the next one.
LEMMA FitsShorter ==
  ASSUME NEW m \in Seq(SftpChunk), NEW k \in Nat, NEW l \in Nat, k <= l, NEW w \in Seq(Marking), NEW v \in Seq(Marking), Shorter(w, v),
         NEW g, Fits(g, m, k, w), \A i \in (l + 1)..Len(m) : g[i] # 1, \A i \in (k + 1)..Len(m) : i <= l => g[i] = 1
  PROVE  \E f : Fits(f, m, l, v)
<1> DEFINE f == [i \in (l + 1)..Len(m) |-> g[i] - 1]
<1>1. Len(m) \in Nat /\ Len(w) \in Nat /\ Len(v) \in Nat /\ Len(w) = Len(v) + 1 /\ \A i \in 1..Len(v) : v[i] = w[i + 1]
  BY DEF Shorter
<1>2. \A i \in (l + 1)..Len(m) : i \in (k + 1)..Len(m)
  BY <1>1
<1>3. \A i \in (l + 1)..Len(m) : g[i] \in 1..Len(w) /\ f[i] = g[i] - 1 /\ f[i] \in 1..Len(v) /\ f[i] + 1 = g[i]
  BY <1>1, <1>2 DEF Fits
<1>4. f \in [(l + 1)..Len(m) -> 1..Len(v)]
  BY <1>3
<1> HIDE DEF f
<1>5. \A i, j \in (l + 1)..Len(m) : i < j => f[i] < f[j]
  BY <1>1, <1>2, <1>3 DEF Fits
<1>6. \A i \in (l + 1)..Len(m) : v[f[i]] = m[i]
  BY <1>1, <1>2, <1>3 DEF Fits
<1>7. ASSUME NEW j \in 1..Len(v), v[j] # Blank
      PROVE  \E i \in (l + 1)..Len(m) : f[i] = j
  <2>1. j + 1 \in 1..Len(w) /\ w[j + 1] # Blank /\ j + 1 # 1
    BY <1>1, <1>7
  <2>2. PICK i \in (k + 1)..Len(m) : g[i] = j + 1
    BY <2>1 DEF Fits
  <2>3. i \in (l + 1)..Len(m)
    BY <1>1, <2>1, <2>2
  <2>4. f[i] = g[i] - 1 /\ j \in Nat
    BY <1>3, <2>3
  <2>5. f[i] = j
    BY <2>2, <2>4
  <2>6. QED
    BY <2>3, <2>5
<1>8. \A j \in 1..Len(v) : v[j] # Blank => \E i \in (l + 1)..Len(m) : f[i] = j
  BY <1>7
<1>9. Fits(f, m, l, v)
  BY <1>4, <1>5, <1>6, <1>8, Zenon DEF Fits
<1>10. QED
  BY <1>9

LEMMA TrailsShorter ==
  ASSUME NEW m \in Seq(SftpChunk), NEW k \in Nat, NEW w \in Seq(Marking), NEW v \in Seq(Marking), Shorter(w, v), w[1] = Blank,
         Trails(m, k, w)
  PROVE  Trails(m, k, v)
<1>1. PICK g : Fits(g, m, k, w)
  BY DEF Trails
<1>2. \A i \in (k + 1)..Len(m) : g[i] # 1
  <2>1. \A i \in (k + 1)..Len(m) : i \in 1..Len(m) /\ m[i] \in SftpChunk
    OBVIOUS
  <2>2. QED
    BY <1>1, <2>1, BlankIsNone DEF Fits
<1>3. \E f : Fits(f, m, k, v)
  <2>1. \A i \in (k + 1)..Len(m) : ~(i <= k)
    OBVIOUS
  <2>2. QED
    BY <1>1, <1>2, <2>1, FitsShorter
<1>4. QED
  BY <1>3 DEF Trails

LEMMA TrailsNext ==
  ASSUME NEW m \in Seq(SftpChunk), NEW k \in Nat, NEW w \in Seq(Marking), NEW v \in Seq(Marking), Shorter(w, v),
         w[1] = <<"down", k>>, Trails(m, k, w)
  PROVE  Trails(m, k + 1, v)
<1>1. PICK g : Fits(g, m, k, w)
  BY DEF Trails
<1>2. 1 \in 1..Len(w) /\ w[1] # Blank /\ Len(m) \in Nat
  BY DEF Shorter, Blank
<1>3. PICK i \in (k + 1)..Len(m) : g[i] = 1
  BY <1>1, <1>2 DEF Fits
<1>4. \A j \in (k + 1)..Len(m) : g[j] \in Nat /\ g[j] >= 1
  <2>1. g \in [(k + 1)..Len(m) -> 1..Len(w)]
    BY <1>1 DEF Fits
  <2>2. \A x \in 1..Len(w) : x \in Nat /\ x >= 1
    BY DEF Shorter
  <2>3. QED
    BY <2>1, <2>2
<1>5. i = k + 1
  <2>1. k + 1 \in (k + 1)..Len(m)
    BY <1>2
  <2>2. k + 1 < i => g[k + 1] < g[i]
    BY <1>1, <2>1 DEF Fits
  <2>3. QED
    BY <1>2, <1>3, <1>4, <2>1, <2>2
<1>6. m[k + 1] = <<"down", k>> /\ k + 1 <= Len(m)
  BY <1>1, <1>2, <1>3, <1>5 DEF Fits
<1>7. \A j \in (k + 1 + 1)..Len(m) : g[j] # 1
  <2> SUFFICES ASSUME NEW j \in (k + 1 + 1)..Len(m) PROVE g[j] # 1
    OBVIOUS
  <2>1. j \in (k + 1)..Len(m) /\ i < j
    BY <1>2, <1>5
  <2>2. g[i] < g[j]
    BY <1>1, <2>1 DEF Fits
  <2>3. QED
    BY <1>3, <1>4, <2>1, <2>2
<1>8. \A j \in (k + 1)..Len(m) : j <= k + 1 => g[j] = 1
  BY <1>3, <1>5
<1>9. \E f : Fits(f, m, k + 1, v)
  <2>1. k + 1 \in Nat /\ k <= k + 1
    OBVIOUS
  <2>2. QED
    BY <1>1, <1>7, <1>8, <2>1, FitsShorter
<1>10. Upto(m, "down", k + 1)
  <2>1. \A j \in 1..(k + 1) : j \in 1..k \/ j = k + 1
    OBVIOUS
  <2>2. \A j \in 1..k : m[j] = <<"down", j - 1>>
    BY DEF Trails, Upto
  <2>3. m[k + 1] = <<"down", (k + 1) - 1>>
    <3>1. (k + 1) - 1 = k
      OBVIOUS
    <3>2. QED
      BY <1>6, <3>1
  <2>4. QED
    BY <2>1, <2>2, <2>3 DEF Upto
<1>11. QED
  BY <1>6, <1>9, <1>10 DEF Trails

LEMMA TrailsNone ==
  ASSUME NEW m \in Seq(SftpChunk), NEW k \in Nat, NEW w \in Seq(Marking), Trails(m, k, w), ~Marked(w)
  PROVE  Len(m) = k
<1>1. PICK g : Fits(g, m, k, w)
  BY DEF Trails
<1>2. Len(m) \in Nat /\ k <= Len(m)
  BY DEF Trails
<1>3. k + 1 <= Len(m) => FALSE
  <2> SUFFICES ASSUME k + 1 <= Len(m) PROVE FALSE
    OBVIOUS
  <2>1. k + 1 \in (k + 1)..Len(m) /\ m[k + 1] \in SftpChunk
    BY <1>2
  <2>2. g[k + 1] \in 1..Len(w) /\ w[g[k + 1]] = m[k + 1]
    BY <1>1, <2>1 DEF Fits
  <2>3. QED
    BY <2>1, <2>2, BlankIsNone DEF Marked
<1>4. QED
  BY <1>2, <1>3

LEMMA TrailsNothing ==
  ASSUME NEW w \in Seq(Marking), ~Marked(w)
  PROVE  Trails(<<>>, 0, w)
<1> DEFINE g == [i \in 1..0 |-> 1]
<1>1. Fits(g, <<>>, 0, w)
  BY DEF Fits, Marked
<1>2. QED
  BY <1>1 DEF Trails, Upto

LEMMA CountedLonger ==
  ASSUME NEW f \in SftpFile, NEW m \in Seq(SftpChunk), NEW w \in Seq(Marking), NEW v \in Seq(Marking), NEW c \in Marking, Longer(w, v, c),
         Counted(f, m, w)
  PROVE  Counted(f, IF c = Blank THEN m ELSE Append(m, c), v)
<1>1. f.next \in Nat
  BY DEF SftpFile
<1>2. /\ Len(w) \in Nat /\ Len(v) = Len(w) + 1 /\ v[Len(w) + 1] = c
      /\ \A i \in 1..Len(w) : i \in 1..Len(v) /\ v[i] = w[i]
  BY DEF Longer
<1>3. Marked(w) => Marked(v)
  BY <1>2 DEF Marked
<1>4. c # Blank => Marked(v)
  <2>1. Len(w) + 1 \in 1..Len(v)
    BY <1>2
  <2>2. QED
    BY <1>2, <2>1 DEF Marked
<1>5. CASE c = Blank
  <2>1. Trails(m, f.next, w) => Trails(m, f.next, v)
    BY <1>1, <1>5, TrailsLonger
  <2>2. QED
    BY <1>3, <1>5, <2>1 DEF Counted
<1>6. CASE c # Blank
  <2>1. c \in SftpChunk
    BY <1>6 DEF Marking
  <2>2. Trails(m, f.next, w) => Trails(Append(m, c), f.next, v)
    BY <1>1, <2>1, TrailsMore
  <2>3. QED
    BY <1>3, <1>4, <1>6, <2>2 DEF Counted
<1>7. QED
  BY <1>5, <1>6

LEMMA CountedShorter ==
  ASSUME NEW f \in SftpFile, NEW m \in Seq(SftpChunk), NEW w \in Seq(Marking), NEW v \in Seq(Marking), Shorter(w, v), w[1] = Blank,
         Counted(f, m, w)
  PROVE  Counted(f, m, v)
<1>1. f.next \in Nat
  BY DEF SftpFile
<1>2. Marked(w) => Marked(v)
  <2> SUFFICES ASSUME NEW j \in 1..Len(w), w[j] # Blank PROVE Marked(v)
    BY DEF Marked
  <2>1. Len(w) = Len(v) + 1 /\ Len(v) \in Nat /\ j # 1
    BY DEF Shorter
  <2>2. j - 1 \in 1..Len(v) /\ (j - 1) + 1 = j
    BY <2>1
  <2>3. v[j - 1] = w[j]
    BY <2>2 DEF Shorter
  <2>4. QED
    BY <2>2, <2>3 DEF Marked
<1>3. Trails(m, f.next, w) => Trails(m, f.next, v)
  BY <1>1, TrailsShorter
<1>4. QED
  BY <1>2, <1>3 DEF Counted

\* The first chunks up, and the next.
LEMMA CountedUp ==
  ASSUME NEW f \in SftpFile, NEW o \in SftpFile, NEW m \in Seq(SftpChunk), NEW w \in Seq(Marking), Counted(f, m, w),
         ~f.moved => f.next = 0, f.moved => f.dir = "up", o.moved, o.dir = "up", o.next = f.next + 1
  PROVE  Counted(o, Append(m, <<"up", f.next>>), w)
<1> DEFINE q == Append(m, <<"up", f.next>>)
<1>1. f.next \in Nat /\ Len(m) \in Nat
  BY DEF SftpFile
<1>2. Len(q) = Len(m) + 1 /\ q[Len(m) + 1] = <<"up", f.next>> /\ \A i \in 1..Len(m) : q[i] = m[i]
  OBVIOUS
<1> HIDE DEF q
<1>3. Len(m) = f.next /\ Upto(m, "up", f.next) => Counted(o, q, w)
  <2> SUFFICES ASSUME Len(m) = f.next, Upto(m, "up", f.next) PROVE Counted(o, q, w)
    OBVIOUS
  <2>1. \A i \in 1..(f.next + 1) : i \in 1..Len(m) \/ i = Len(m) + 1
    BY <1>1
  <2>2. \A i \in 1..(f.next + 1) : q[i] = <<"up", i - 1>>
    <3> SUFFICES ASSUME NEW i \in 1..(f.next + 1) PROVE q[i] = <<"up", i - 1>>
      OBVIOUS
    <3>1. CASE i \in 1..Len(m)
      BY <1>2, <3>1 DEF Upto
    <3>2. CASE i = Len(m) + 1
      <4>1. i - 1 = f.next
        BY <1>1, <3>2
      <4>2. QED
        BY <1>2, <3>2, <4>1
    <3>3. QED
      BY <2>1, <3>1, <3>2
  <2>3. QED
    BY <1>2, <2>2 DEF Counted, Upto
<1>4. CASE Marked(w)
  BY <1>4 DEF Counted, q
<1>5. CASE ~Marked(w)
  <2>1. CASE Len(m) = f.next /\ Upto(m, "up", f.next)
    BY <1>3, <2>1 DEF q
  <2>2. CASE ~f.moved /\ Trails(m, f.next, w)
    <3>1. Len(m) = f.next /\ f.next = 0
      BY <1>1, <1>5, <2>2, TrailsNone
    <3>2. Upto(m, "up", f.next)
      BY <3>1 DEF Upto
    <3>3. QED
      BY <1>3, <3>1, <3>2 DEF q
  <2>3. QED
    BY <1>5, <2>1, <2>2 DEF Counted
<1>6. QED
  BY <1>4, <1>5

\* The next chunk down.
LEMMA CountedDown ==
  ASSUME NEW f \in SftpFile, NEW o \in SftpFile, NEW m \in Seq(SftpChunk), NEW w \in Seq(Marking), NEW v \in Seq(Marking),
         Shorter(w, v), Counted(f, m, w), w[1] = <<"down", f.next>>, f.moved => f.dir = "down", o.dir = "down", o.next = f.next + 1
  PROVE  Counted(o, m, v)
<1>1. f.next \in Nat
  BY DEF SftpFile
<1>2. Trails(m, f.next, w)
  BY DEF Counted
<1>3. Trails(m, f.next + 1, v)
  BY <1>1, <1>2, TrailsNext
<1>4. QED
  BY <1>3 DEF Counted

\* Nothing more is coming: what was passed on is what was counted.
LEMMA CountedAll ==
  ASSUME NEW f \in SftpFile, NEW m \in Seq(SftpChunk), NEW w \in Seq(Marking), Counted(f, m, w), ~Marked(w)
  PROVE  Len(m) = f.next /\ \E dir \in {"up", "down"} : \A j \in DOMAIN m : m[j] = <<dir, j - 1>>
<1>1. f.next \in Nat /\ DOMAIN m = 1..Len(m)
  BY DEF SftpFile
<1>2. CASE Len(m) = f.next /\ Upto(m, "up", f.next)
  BY <1>1, <1>2 DEF Upto
<1>3. CASE Trails(m, f.next, w)
  <2>1. Len(m) = f.next
    BY <1>1, <1>3, TrailsNone
  <2>2. Upto(m, "down", f.next)
    BY <1>3 DEF Trails
  <2>3. QED
    BY <1>1, <2>1, <2>2 DEF Upto
<1>4. QED
  BY <1>2, <1>3 DEF Counted

LEMMA MarksIs ==
  ASSUME SftpJudged, TablesOK, QueuesOK, NEW h
  PROVE  /\ Marks(h) \in Seq(Marking) /\ Len(Marks(h)) = Len(server.outbox)
         /\ \A i \in InO : Marks(h)[i] = Mark(server.outbox[i], pending[server.outbox[i].id], h)
<1>1. Len(server.outbox) \in Nat /\ \A i \in InO : server.outbox[i] \in SftpAnswer
  BY QueueTypes
<1>2. \A i \in InO : Mark(server.outbox[i], pending[server.outbox[i].id], h) \in Marking
  <2> SUFFICES ASSUME NEW i \in InO, server.outbox[i].type = "data"
               PROVE  <<"down", pending[server.outbox[i].id].at>> \in Marking
    <3>1. <<"copy", 0>> \in Marking /\ Blank \in Marking
      BY SftpAssumption DEF Marking, SftpChunk
    <3>2. QED
      BY <3>1 DEF Mark
  <2> DEFINE p == pending[server.outbox[i].id]
  <2>1. server.outbox[i].id \in RequestIds /\ p.kind = "read" /\ p # None
    BY <1>1 DEF QueuesOK, Answers, SftpAnswer
  <2>2. p \in SftpRequest
    BY <2>1 DEF TablesOK, SftpOther
  <2>3. QED
    BY <2>2 DEF SftpRequest, Marking, SftpChunk
<1>3. QED
  BY <1>1, <1>2 DEF Marks, InO

LEMMA FileFrom ==
  ASSUME NEW h \in Handles, NEW f, NEW m, NEW v, f = files'[h], m = moved'[files'[h].n], v = Marks(h)',
         Whole(f) => f.size = f.next /\ (~f.moved => f.next = 0) /\ (Counted(f, m, v) \/ Abandoned(h)')
  PROVE  FileOK(h)'
  BY DEF FileOK

LEMMA MarksKept ==
  ASSUME server'.outbox = server.outbox, \A i \in InO : pending'[server.outbox[i].id] = pending[server.outbox[i].id], NEW h
  PROVE  Marks(h)' = Marks(h)
  BY DEF Marks, InO

LineWhole(e, m) ==
  e.out = "ok" /\ e.sha = "hash" => Len(m) = e.size /\ \E dir \in {"up", "down"} : \A j \in DOMAIN m : m[j] = <<dir, j - 1>>

LEMMA HashKept ==
  ASSUME SftpInv,
         \A n \in Numbers :
           \/ lines'[n] = lines[n] /\ (lines[n] = <<>> \/ moved'[n] = moved[n])
           \/ moved'[n] = moved[n] /\ \E e \in SftpLine : lines'[n] = Append(lines[n], e) /\ LineWhole(e, moved[n])
  PROVE  HashIsWhole'
<1>1. \A n \in Numbers : lines[n] \in Seq(SftpLine) /\ \A i \in DOMAIN lines[n] : LineWhole(lines[n][i], moved[n])
  BY DEF SftpInv, ChunksOK, HashIsWhole, LineWhole, TablesOK
<1>2. \A n \in Numbers : \A i \in DOMAIN lines'[n] : LineWhole(lines'[n][i], moved'[n])
  <2> SUFFICES ASSUME NEW n \in Numbers, NEW i \in DOMAIN lines'[n] PROVE LineWhole(lines'[n][i], moved'[n])
    OBVIOUS
  <2>1. CASE lines'[n] = lines[n] /\ (lines[n] = <<>> \/ moved'[n] = moved[n])
    BY <1>1, <2>1
  <2>2. ASSUME NEW e \in SftpLine, lines'[n] = Append(lines[n], e), LineWhole(e, moved[n]), moved'[n] = moved[n]
        PROVE  LineWhole(lines'[n][i], moved'[n])
    <3> DEFINE q == lines[n]
    <3>1. q \in Seq(SftpLine)
      BY <1>1
    <3> HIDE DEF q
    <3>2. DOMAIN Append(q, e) = 1..(Len(q) + 1) /\ Append(q, e)[Len(q) + 1] = e /\ DOMAIN q = 1..Len(q)
          /\ \A j \in 1..Len(q) : Append(q, e)[j] = q[j]
      BY <3>1
    <3>3. lines'[n] = Append(q, e)
      BY <2>2 DEF q
    <3>4. i \in 1..Len(q) \/ i = Len(q) + 1
      BY <3>1, <3>2, <3>3
    <3>5. lines'[n][i] = e \/ (i \in DOMAIN lines[n] /\ lines'[n][i] = lines[n][i])
      BY <3>2, <3>3, <3>4 DEF q
    <3>6. QED
      BY <1>1, <2>2, <3>5
  <2>3. QED
    BY <2>1, <2>2
<1>3. QED
  BY <1>2 DEF HashIsWhole, LineWhole

LEMMA ChunksKeptElse ==
  ASSUME SftpInv, Recedes \/ Stops \/ Hands \/ Shows \/ Refuses \/ \E r : Preps(r)
  PROVE  ChunksOK'
<1>1. UNCHANGED <<files, moved>> /\ server'.outbox = server.outbox /\ InO' = InO
      /\ \A i \in InI' : i \in InI /\ server'.inbox[i] = server.inbox[i]
  <2>1. UNCHANGED <<files, moved>> /\ server'.outbox = server.outbox /\ (server'.inbox = server.inbox \/ server'.inbox = <<>>)
    BY DEF Recedes, Stops, Hands, Shows, Refuses, Preps
  <2>2. QED
    BY <2>1 DEF InO, InI
<1>2. \A i \in InO : pending'[server.outbox[i].id] = pending[server.outbox[i].id]
  <2>1. CASE Recedes \/ Stops \/ Hands \/ Shows
    BY <2>1 DEF Recedes, Stops, Hands, Shows
  <2>2. CASE Refuses
    BY <2>2, OthersPending DEF Refuses
  <2>3. ASSUME NEW r, Preps(r)
        PROVE  \A i \in InO : pending'[server.outbox[i].id] = pending[server.outbox[i].id]
    <3>1. pending' = pending \/ (pending[r.id] = None /\ pending' = [pending EXCEPT ![r.id] = Other(r)])
      BY <2>3 DEF Preps
    <3>2. QED
      BY <3>1, OthersPending
  <2>4. QED
    BY <2>1, <2>2, <2>3
<1>3. writer \in {"done", "failed"} => writer' \in {"done", "failed"}
  BY DEF Recedes, Stops, Hands, Shows, Refuses, Preps
<1>4. \A h : Marks(h)' = Marks(h)
  BY <1>1, <1>2, MarksKept
<1>5. \A h \in Handles : Abandoned(h) => Abandoned(h)'
  BY <1>1, <1>2, <1>3 DEF Abandoned, CloseOf
<1>6. \A h \in Handles : FileOK(h)'
  <2> SUFFICES ASSUME NEW h \in Handles PROVE FileOK(h)'
    OBVIOUS
  <2>1. FileOK(h)
    BY DEF SftpInv, ChunksOK
  <2>2. Whole(files[h]) => files[h].size = files[h].next /\ (~files[h].moved => files[h].next = 0)
                            /\ (Counted(files[h], moved[files[h].n], Marks(h)) \/ Abandoned(h)')
    BY <1>5, <2>1 DEF FileOK
  <2>3. QED
    BY <1>1, <1>4, <2>2, FileFrom
<1>7. HashIsWhole'
  <2>1. CASE lines' = lines
    BY <1>1, <2>1, HashKept
  <2>2. CASE Refuses
    <3> DEFINE e == Put(request.n)
    <3>1. e \in SftpLine /\ LineWhole(e, moved[request.n])
      BY <2>2 DEF LineWhole, Refuses
    <3>2. lines' = [lines EXCEPT ![request.n] = Append(@, e)]
      BY <2>2 DEF Refuses
    <3> HIDE DEF e
    <3>3. lines \in [Numbers -> Seq(SftpLine)]
      BY DEF SftpInv, TablesOK
    <3>4. \A n \in Numbers : lines'[n] = lines[n] \/ (n = request.n /\ lines'[n] = Append(lines[n], e))
      BY <3>2, <3>3
    <3>5. QED
      BY <1>1, <3>1, <3>4, HashKept
  <2>3. QED
    BY <2>1, <2>2 DEF Recedes, Stops, Hands, Shows, Preps
<1>8. QED
  BY <1>6, <1>7 DEF ChunksOK

LEMMA ChunksKeptFinishes ==
  ASSUME SftpInv, Finishes
  PROVE  ChunksOK'
<1>1. moved' = moved /\ leftOpen /\ \A h \in Handles : files'[h] = None
  BY DEF Finishes
<1>2. \A h \in Handles : FileOK(h)'
  BY <1>1 DEF FileOK, Whole
<1>3. \A n \in Numbers : lines'[n] = lines[n] \/ \E e \in SftpLine : lines'[n] = Append(lines[n], e) /\ LineWhole(e, moved[n])
  BY <1>1, LeftOpenIs DEF LineWhole, SftpInv
<1>4. HashIsWhole'
  BY <1>1, <1>3, HashKept
<1>5. QED
  BY <1>2, <1>4 DEF ChunksOK

LEMMA ChunksKeptSends ==
  ASSUME SftpInv, NEW r, Sends(r)
  PROVE  ChunksOK'
<1>1. /\ server'.outbox = server.outbox /\ lines' = lines /\ session = "bridge" /\ writer \in {"copy", "judge"} /\ r \in SftpRequest
      /\ files' = IF r.kind = "write" THEN Observed(r.h, "up", r.at) ELSE files
  BY DEF Sends, SftpInv, TablesOK
<1>2. /\ \A i \in InO : pending'[server.outbox[i].id] = pending[server.outbox[i].id] /\ InO' = InO
      /\ r.h \in Handles => Holds(r.h)
      /\ r.kind = "write" => r.h \in Handles
      /\ \A j \in InI' : (j \in InI /\ server'.inbox[j] = server.inbox[j]) \/ server'.inbox[j] = r
  BY SentIs DEF NeedsHandle
<1>3. /\ TablesOK /\ LinesOK /\ HandlesOK /\ SftpJudged /\ QueuesOK
      /\ files \in [Handles -> SftpFile \cup {None}] /\ moved \in [Numbers -> Seq(SftpChunk)]
  BY DEF SftpInv, TablesOK
<1>4. \A h : Marks(h)' = Marks(h)
  BY <1>1, <1>2, MarksKept
<1>5. \A h \in Handles : Whole(files[h]) => /\ files[h].size = files[h].next /\ (~files[h].moved => files[h].next = 0)
                                            /\ Counted(files[h], moved[files[h].n], Marks(h))
  BY <1>1 DEF SftpInv, ChunksOK, FileOK, Abandoned
<1> DEFINE CopiedUp == r.kind = "write" /\ files[r.h] # None
<1>6. CASE ~CopiedUp
  <2>1. files' = files /\ moved' = moved
    BY <1>1, <1>6 DEF Sends, Observed
  <2>2. \A h \in Handles : FileOK(h)'
    BY <1>4, <1>5, <2>1, FileFrom
  <2>3. HashIsWhole'
    BY <1>1, <2>1, HashKept
  <2>4. QED
    BY <2>2, <2>3 DEF ChunksOK
<1>7. CASE CopiedUp
  <2> DEFINE f == files[r.h]
             o == observe(f, "up", r.at)
             n == f.n
  <2>1. f \in SftpFile /\ n \in Numbers /\ r.h \in Handles /\ r.at \in 0..MaxAt /\ Holds(r.h)
    BY <1>1, <1>2, <1>3, <1>7, FileIsSome DEF SftpRequest
  <2>2. files' = [files EXCEPT ![r.h] = o]
    BY <1>1, <1>7 DEF Observed
  <2>3. moved' = [moved EXCEPT ![n] = Append(@, <<"up", r.at>>)] \/ (moved' = moved /\ writer' = "done" /\ server'.inbox = server.inbox)
    BY <1>7 DEF Sends
  <2>4. \A h \in Handles : h # r.h /\ files[h] # None => files[h].n # n
    BY <1>3, <1>7, <2>1 DEF LinesOK
  <2>5. /\ o \in SftpFile /\ o.n = n /\ o.moved /\ o.copied = f.copied /\ o.dir = (IF f.moved THEN f.dir ELSE "up")
        /\ o.sequential = (f.sequential /\ r.at = f.next /\ "up" = o.dir)
        /\ o.size = (IF r.at + 1 > f.size THEN r.at + 1 ELSE f.size)
        /\ o.next = (IF f.sequential /\ r.at = f.next /\ "up" = o.dir THEN f.next + 1 ELSE f.next)
    BY <2>1, ObserveIs
  <2> HIDE DEF o
  <2>6. \A h \in Handles : h # r.h => FileOK(h)'
    <3> SUFFICES ASSUME NEW h \in Handles, h # r.h PROVE FileOK(h)'
      OBVIOUS
    <3>1. files'[h] = files[h]
      BY <1>3, <2>2
    <3>2. files[h] # None => moved'[files[h].n] = moved[files[h].n]
      <4> SUFFICES ASSUME files[h] # None PROVE moved'[files[h].n] = moved[files[h].n]
        OBVIOUS
      <4>1. files[h].n \in Numbers /\ files[h].n # n
        BY <1>3, <2>4, FileIsSome
      <4>2. QED
        BY <1>3, <2>1, <2>3, <4>1
    <3>3. QED
      BY <1>4, <1>5, <3>1, <3>2, FileFrom DEF Whole
  <2>7. FileOK(r.h)'
    <3>1. files'[r.h] = o /\ Marks(r.h)' = Marks(r.h)
      BY <1>3, <1>4, <2>1, <2>2
    <3>2. ASSUME Whole(o)
          PROVE  /\ Whole(f) /\ r.at = f.next /\ o.dir = "up" /\ o.next = f.next + 1 /\ o.size = o.next
                 /\ f.moved => f.dir = "up"
                 /\ ~f.moved => f.next = 0
                 /\ Counted(f, moved[n], Marks(r.h))
      <4>1. o.sequential /\ ~o.copied
        BY <3>2 DEF Whole
      <4>2. f.sequential /\ r.at = f.next /\ "up" = o.dir /\ ~f.copied
        BY <2>5, <4>1
      <4>3. Whole(f)
        BY <1>7, <4>2 DEF Whole
      <4>4. f.size = f.next /\ f.size \in Nat /\ (~f.moved => f.next = 0) /\ Counted(f, moved[n], Marks(r.h))
        BY <1>5, <2>1, <4>3 DEF SftpFile
      <4>5. o.next = f.next + 1 /\ o.size = f.next + 1
        BY <2>5, <4>2, <4>4
      <4>6. QED
        BY <2>5, <4>2, <4>3, <4>4, <4>5
    <3>3. CASE moved' = [moved EXCEPT ![n] = Append(@, <<"up", r.at>>)]
      <4>1. moved'[n] = Append(moved[n], <<"up", r.at>>) /\ moved[n] \in Seq(SftpChunk) /\ Marks(r.h) \in Seq(Marking)
        BY <1>3, <2>1, <3>3, MarksIs
      <4>2. Whole(o) => Counted(o, moved'[n], Marks(r.h))
        BY <2>1, <2>5, <3>2, <4>1, CountedUp
      <4>3. QED
        BY <2>1, <2>5, <3>1, <3>2, <4>2, FileFrom
    <3>4. CASE moved' = moved /\ writer' = "done" /\ server'.inbox = server.inbox
      <4>1. OwnersOK(r.h) /\ UsesOK(r.h) /\ ClosesOK(r.h)
        BY <1>3, <2>1 DEF HandlesOK
      <4>2. /\ \A i \in InI : ~(server.inbox[i].h = r.h /\ server.inbox[i].kind = "close")
            /\ \A i \in InO : ~CloseOf(i, r.h)
        BY <1>1, <2>1, <4>1 DEF UsesOK, ClosesOK, Left
      <4>3. \A h \in Handles : h = r.h => Abandoned(h)'
        BY <1>1, <1>2, <3>4, <4>2 DEF Abandoned, CloseOf, InI, InO
      <4>4. QED
        BY <2>1, <2>5, <3>1, <3>2, <4>3, FileFrom
    <3>5. QED
      BY <2>3, <3>3, <3>4
  <2>8. HashIsWhole'
    <3>1. lines[n] = <<>>
      BY <1>3, <1>7, <2>1 DEF LinesOK
    <3>2. \A x \in Numbers : x # n => moved'[x] = moved[x]
      BY <1>3, <2>3
    <3>3. QED
      BY <1>1, <3>1, <3>2, HashKept
  <2>9. QED
    BY <2>6, <2>7, <2>8 DEF ChunksOK
<1>8. QED
  BY <1>6, <1>7

\* The chunk an answer stands for, as it joins the answers on their way.
LEMMA ChunksKeptServing ==
  ASSUME SftpInv, NEW r, NEW a, Mints(r, a) \/ Closes(r, a) \/ Answered(r, a)
  PROVE  ChunksOK'
<1> DEFINE c(h) == Mark(a, What(r), h)
<1>1. Served(r, a) /\ UNCHANGED <<pending, files, lines, writer>> /\ session # "ended"
  BY DEF Mints, Closes, Answered, Served
<1>2. /\ r = server.inbox[1] /\ 1 \in InI /\ r \in SftpRequest /\ a \in SftpAnswer /\ pending[a.id] = What(r)
      /\ \A j \in InI' : j + 1 \in InI /\ server'.inbox[j] = server.inbox[j + 1]
      /\ \A i \in InO : i \in InO' /\ server'.outbox[i] = server.outbox[i]
      /\ Len(server.outbox) + 1 \in InO' /\ server'.outbox[Len(server.outbox) + 1] = a
      /\ \A i \in InO' : i \in InO \/ server'.outbox[i] = a
  BY <1>1, ServedIs
<1>3. /\ TablesOK /\ LinesOK /\ SftpJudged /\ QueuesOK
      /\ files \in [Handles -> SftpFile \cup {None}] /\ moved \in [Numbers -> Seq(SftpChunk)]
      /\ \A h \in Handles : FileOK(h)
  BY DEF SftpInv, TablesOK, ChunksOK
<1>4. server'.outbox = Append(server.outbox, a) /\ server.outbox \in Seq(SftpAnswer) /\ InO = 1..Len(server.outbox)
      /\ Len(server.outbox) \in Nat /\ Len(server'.outbox) = Len(server.outbox) + 1 /\ InO' = 1..(Len(server.outbox) + 1)
  BY <1>1, <1>3, QueueTypes, QueueAppend DEF Served, InO
<1> HIDE DEF c
<1>5. ASSUME NEW h \in Handles
      PROVE  /\ Marks(h)' \in Seq(Marking) /\ c(h) \in Marking /\ Longer(Marks(h), Marks(h)', c(h))
  <2>1. Marks(h) \in Seq(Marking) /\ Len(Marks(h)) = Len(server.outbox)
        /\ \A i \in InO : Marks(h)[i] = Mark(server.outbox[i], pending[server.outbox[i].id], h)
    BY <1>3, MarksIs
  <2>2. PICK v : v = Marks(h)'
    OBVIOUS
  <2>3. v = [i \in InO' |-> Mark(server'.outbox[i], pending'[server'.outbox[i].id], h)]
    BY <2>2 DEF Marks
  <2>4. \A i \in InO : v[i] = Marks(h)[i]
    BY <1>1, <1>2, <2>1, <2>3
  <2>5. v[Len(server.outbox) + 1] = c(h)
    BY <1>1, <1>2, <2>3 DEF c
  <2>6. c(h) \in Marking
    <3>1. <<"copy", 0>> \in Marking /\ Blank \in Marking
      BY SftpAssumption DEF Marking, SftpChunk
    <3>2. a.type = "data" => r.kind = "read" /\ What(r) = r
      BY DEF Mints, Closes, Answered, What
    <3>3. r.kind = "read" => <<"down", r.at>> \in Marking
      BY <1>2 DEF SftpRequest, Marking, SftpChunk
    <3>4. QED
      BY <3>1, <3>2, <3>3 DEF c, Mark
  <2>7. v \in Seq(Marking) /\ Len(v) = Len(server.outbox) + 1
    <3>1. \A i \in InO' : v[i] \in Marking
      <4>1. \A i \in InO : Marks(h)[i] \in Marking
        BY <1>4, <2>1
      <4>2. \A i \in InO' : i \in InO \/ i = Len(server.outbox) + 1
        BY <1>4
      <4>3. QED
        BY <2>4, <2>5, <2>6, <4>1, <4>2
    <3>2. v = [i \in 1..(Len(server.outbox) + 1) |-> v[i]] /\ Len(server.outbox) + 1 \in Nat
      BY <1>4, <2>3
    <3> DEFINE N == Len(server.outbox) + 1
    <3>3. N \in Nat /\ v \in [1..N -> Marking]
      BY <1>4, <3>1, <3>2
    <3> HIDE DEF N
    <3>4. v \in Seq(Marking) /\ Len(v) = N
      BY <3>3
    <3>5. QED
      BY <3>4 DEF N
  <2>8. Longer(Marks(h), v, c(h))
    BY <1>4, <2>1, <2>4, <2>5, <2>7 DEF Longer
  <2>9. QED
    BY <2>2, <2>6, <2>7, <2>8
<1>6. \A h \in Handles : Abandoned(h) => Abandoned(h)'
  <2> SUFFICES ASSUME NEW h \in Handles, Abandoned(h) PROVE Abandoned(h)'
    OBVIOUS
  <2>1. ~(r.h = h /\ r.kind = "close")
    BY <1>2 DEF Abandoned
  <2>2. ~(a.h = h /\ What(r).kind = "close")
    <3>1. What(r).kind = "close" => What(r) = r /\ r.kind = "close"
      BY DEF What, Other
    <3>2. r.kind = "close" => a.h = r.h
      BY DEF Mints, Closes, Answered
    <3>3. QED
      BY <2>1, <3>1, <3>2
  <2>3. QED
    BY <1>1, <1>2, <2>2 DEF Abandoned, CloseOf
<1>7. \A h \in Handles : files[h] # None => moved'[files[h].n] = IF c(h) = Blank THEN moved[files[h].n] ELSE Append(moved[files[h].n], c(h))
  <2> SUFFICES ASSUME NEW h \in Handles, files[h] # None
               PROVE  moved'[files[h].n] = IF c(h) = Blank THEN moved[files[h].n] ELSE Append(moved[files[h].n], c(h))
    OBVIOUS
  <2>1. files[h].n \in Numbers
    BY <1>3, FileIsSome
  <2>2. CASE /\ r.h # NoHandle /\ a.h = r.h
             /\ \/ r.kind = "read" /\ a.type = "data" /\ moved' = [moved EXCEPT ![server.open[r.h]] = Append(@, <<"down", r.at>>)]
                \/ r.kind = "copy" /\ a.type = "ok" /\ moved' = [moved EXCEPT ![server.open[r.h]] = Append(@, <<"copy", 0>>)]
    <3>1. r.h \in Handles /\ files[r.h] # None /\ files[r.h].n = server.open[r.h]
      BY <1>1, <2>2, UsedIs DEF OpenFile
    <3>2. What(r) = r
      BY <2>2 DEF What
    <3>3. CASE h = r.h
      <4>1. c(h) # Blank /\ moved'[files[h].n] = Append(moved[files[h].n], c(h))
        BY <1>3, <2>1, <2>2, <3>1, <3>2, <3>3 DEF c, Mark, Blank
      <4>2. QED
        BY <4>1
    <3>4. CASE h # r.h
      <4>1. files[h].n # files[r.h].n
        BY <1>3, <3>1, <3>4 DEF LinesOK
      <4>2. c(h) = Blank
        BY <2>2, <3>4 DEF c, Mark
      <4>3. QED
        BY <1>3, <2>1, <2>2, <3>1, <4>1, <4>2
    <3>5. QED
      BY <3>3, <3>4
  <2>3. CASE moved' = moved /\ a.type # "data" /\ (a.type = "ok" => r.kind # "copy")
    <3>1. What(r).kind = "copy" => r.kind = "copy"
      BY DEF What, Other
    <3>2. c(h) = Blank
      BY <2>3, <3>1 DEF c, Mark
    <3>3. QED
      BY <2>3, <3>2
  <2>4. QED
    BY <2>2, <2>3 DEF Mints, Closes, Answered, Passed
<1>8. \A h \in Handles : FileOK(h)'
  <2> SUFFICES ASSUME NEW h \in Handles PROVE FileOK(h)'
    OBVIOUS
  <2>1. PICK v : v = Marks(h)'
    OBVIOUS
  <2>2. ASSUME Whole(files[h])
        PROVE  files[h].size = files[h].next /\ (~files[h].moved => files[h].next = 0)
               /\ (Counted(files[h], moved'[files[h].n], v) \/ Abandoned(h)')
    <3>1. files[h] \in SftpFile /\ files[h] # None /\ files[h].n \in Numbers
      BY <1>3, <2>2, FileIsSome DEF Whole
    <3>2. moved[files[h].n] \in Seq(SftpChunk) /\ Marks(h) \in Seq(Marking)
      BY <1>3, <3>1, MarksIs
    <3>3. Counted(files[h], moved[files[h].n], Marks(h)) => Counted(files[h], moved'[files[h].n], v)
      BY <1>5, <1>7, <2>1, <3>1, <3>2, CountedLonger
    <3>4. QED
      BY <1>3, <1>6, <2>2, <3>3 DEF FileOK
  <2>3. QED
    BY <1>1, <2>1, <2>2, FileFrom
<1>9. HashIsWhole'
  <2> SUFFICES ASSUME NEW n \in Numbers PROVE lines[n] = <<>> \/ moved'[n] = moved[n]
    BY <1>1, HashKept
  <2>1. CASE r.h # NoHandle /\ \E e : moved' = [moved EXCEPT ![server.open[r.h]] = Append(@, e)]
    <3>1. r.h \in Handles /\ files[r.h] # None /\ files[r.h].n = server.open[r.h]
      BY <1>1, <2>1, UsedIs DEF OpenFile
    <3>2. lines[server.open[r.h]] = <<>>
      BY <1>3, <3>1 DEF LinesOK
    <3>3. QED
      BY <1>3, <2>1, <3>2
  <2>2. CASE moved' = moved
    BY <2>2
  <2>3. QED
    BY <2>1, <2>2 DEF Mints, Closes, Answered, Passed
<1>10. QED
  BY <1>8, <1>9 DEF ChunksOK

\* What the pump's step makes of a file: it is as it was and the answer was about
\* no chunk of it, or it was copied to, has its next chunk, is new, or is none.
LEMMA FileTaken ==
  ASSUME SftpInv, NEW a, Takes(a), NEW h \in Handles
  PROVE  LET p == pending[a.id]
             c == Mark(a, p, h)
         IN \/ files'[h] = files[h] /\ (c = Blank \/ files[h] = None)
            \/ ~Whole(files'[h])
            \/ /\ files[h] \in SftpFile /\ p.at \in 0..MaxAt /\ c = <<"down", p.at>>
               /\ files'[h] = observe(files[h], "down", p.at)
            \/ /\ HandleOf(1, h) /\ a.h = h /\ files'[h] \in SftpFile /\ files'[h].n = a.n /\ ~files'[h].moved
               /\ files'[h].next = 0 /\ files'[h].size = 0
<1> DEFINE p == pending[a.id]
           c == Mark(a, p, h)
<1>1. a \in SftpAnswer /\ p \in SftpRequest \cup SftpOther /\ Answers(a, p) /\ a = server.outbox[1] /\ TablesOK
      /\ files' = filesAfter(p, a) /\ files \in [Handles -> SftpFile \cup {None}]
  BY TakesIs DEF SftpInv, TablesOK
<1>2. (a.h = h /\ a.type = "handle" => HandleOf(1, h))
  BY <1>1 DEF HandleOf
<1> HIDE DEF p
<1>3. CASE a.type = "handle" /\ p \in SftpRequest /\ a.h \in Handles /\ files' = [files EXCEPT ![a.h] = newSFTPHandle(p)]
  <2>1. newSFTPHandle(p) \in SftpFile /\ newSFTPHandle(p).n = a.n /\ ~newSFTPHandle(p).moved /\ newSFTPHandle(p).next = 0
        /\ newSFTPHandle(p).size = 0
    BY <1>1, <1>3, NewFileIs DEF Answers
  <2>2. CASE a.h = h
    <3>1. files'[h] = newSFTPHandle(p)
      BY <1>1, <1>3, <2>2
    <3>2. QED
      BY <1>2, <1>3, <2>1, <2>2, <3>1
  <2>3. CASE a.h # h
    <3>1. files'[h] = files[h] /\ c = Blank
      BY <1>1, <1>3, <2>3 DEF Mark
    <3>2. QED
      BY <3>1 DEF p
  <2>4. QED
    BY <2>2, <2>3
<1>4. CASE /\ a.type = "data" /\ p.kind = "read" /\ p \in SftpRequest /\ p.h = a.h /\ a.h \in Handles
           /\ files' = Observed(a.h, "down", p.at)
  <2>1. p.at \in 0..MaxAt
    BY <1>4 DEF SftpRequest
  <2>2. CASE a.h = h /\ files[h] # None
    <3>1. files'[h] = observe(files[h], "down", p.at) /\ files[h] \in SftpFile /\ c = <<"down", p.at>>
      BY <1>1, <1>4, <2>1, <2>2, ObservedIs, FileIsSome DEF Mark
    <3>2. QED
      BY <2>1, <3>1 DEF p
  <2>3. CASE a.h # h \/ files[h] = None
    <3>1. files'[h] = files[h] /\ (c = Blank \/ files[h] = None)
      BY <1>1, <1>4, <2>1, <2>3, ObservedIs DEF Mark
    <3>2. QED
      BY <3>1 DEF p
  <2>4. QED
    BY <2>2, <2>3
<1>5. CASE p.kind = "close" /\ p.h = a.h /\ a.h \in Handles /\ a.type \in {"ok", "fail"} /\ files' = [files EXCEPT ![a.h] = None]
  <2>1. (files'[h] = None \/ files'[h] = files[h]) /\ c = Blank
    BY <1>1, <1>5 DEF Mark
  <2>2. files'[h] = None => ~Whole(files'[h])
    BY DEF Whole
  <2>3. QED
    BY <2>1, <2>2 DEF p
<1>6. CASE p.kind = "copy" /\ a.type = "ok" /\ p.h = a.h /\ a.h \in Handles /\ files[a.h] # None
           /\ files' = [files EXCEPT ![a.h] = copyDone(p)]
  <2>1. copyDone(p).copied
    BY <1>1, <1>6, FileIsSome, CopyDoneIs
  <2>2. CASE a.h = h
    <3>1. files'[h] = copyDone(p)
      BY <1>1, <1>6, <2>2
    <3>2. ~Whole(files'[h])
      BY <2>1, <3>1 DEF Whole
    <3>3. QED
      BY <3>2
  <2>3. CASE a.h # h
    <3>1. files'[h] = files[h] /\ c = Blank
      BY <1>1, <1>6, <2>3 DEF Mark
    <3>2. QED
      BY <3>1 DEF p
  <2>4. QED
    BY <2>2, <2>3
<1>7. CASE p.kind # "close" /\ a.type \notin {"handle", "data"} /\ files' = files
           /\ (p.kind = "copy" /\ a.type = "ok" => files[a.h] = None)
  <2>1. files'[h] = files[h] /\ (c = Blank \/ files[h] = None)
    BY <1>7 DEF Mark
  <2>2. QED
    BY <2>1 DEF p
<1>8. QED
  <2>1. \/ a.type = "handle" /\ p \in SftpRequest /\ a.h \in Handles /\ filesAfter(p, a) = [files EXCEPT ![a.h] = newSFTPHandle(p)]
        \/ /\ a.type = "data" /\ p.kind = "read" /\ p \in SftpRequest /\ p.h = a.h /\ a.h \in Handles
           /\ filesAfter(p, a) = Observed(a.h, "down", p.at)
        \/ /\ p.kind = "close" /\ p.h = a.h /\ a.h \in Handles /\ a.type \in {"ok", "fail"}
           /\ filesAfter(p, a) = [files EXCEPT ![a.h] = None]
        \/ p.kind = "copy" /\ a.type = "ok" /\ p.h = a.h /\ a.h \in Handles /\ files[a.h] # None
           /\ filesAfter(p, a) = [files EXCEPT ![a.h] = copyDone(p)]
        \/ /\ p.kind # "close" /\ a.type \notin {"handle", "data"} /\ filesAfter(p, a) = files
           /\ (p.kind = "copy" /\ a.type = "ok" => files[a.h] = None)
    BY <1>1, FilesAfterIs
  <2>2. \/ a.type = "handle" /\ p \in SftpRequest /\ a.h \in Handles /\ files' = [files EXCEPT ![a.h] = newSFTPHandle(p)]
        \/ /\ a.type = "data" /\ p.kind = "read" /\ p \in SftpRequest /\ p.h = a.h /\ a.h \in Handles
           /\ files' = Observed(a.h, "down", p.at)
        \/ p.kind = "close" /\ p.h = a.h /\ a.h \in Handles /\ a.type \in {"ok", "fail"} /\ files' = [files EXCEPT ![a.h] = None]
        \/ p.kind = "copy" /\ a.type = "ok" /\ p.h = a.h /\ a.h \in Handles /\ files[a.h] # None
           /\ files' = [files EXCEPT ![a.h] = copyDone(p)]
        \/ /\ p.kind # "close" /\ a.type \notin {"handle", "data"} /\ files' = files
           /\ (p.kind = "copy" /\ a.type = "ok" => files[a.h] = None)
    BY <1>1, <2>1
  <2>3. QED
    BY <2>2, <1>3, <1>4, <1>5, <1>6, <1>7

\* The line of a file the machine has closed.
LEMMA ClosedIsWhole ==
  ASSUME SftpInv, NEW a, Takes(a), a.type # "handle", pending[a.id].kind = "close", a.h \in Handles, files[a.h] \in SftpFile, files[a.h] # None
  PROVE  LineWhole(fileClosed(files[a.h], opOutcome(a)), moved[files[a.h].n])
<1> DEFINE h == a.h
           f == files[h]
           e == fileClosed(f, opOutcome(a))
           w == Marks(h)
<1>1. SUFFICES ASSUME e.out = "ok", e.sha = "hash"
               PROVE  Len(moved[f.n]) = e.size /\ \E dir \in {"up", "down"} : \A j \in DOMAIN moved[f.n] : moved[f.n][j] = <<dir, j - 1>>
  BY DEF LineWhole
<1>2. f.sequential /\ ~f.copied /\ e.size = f.size
  BY <1>1 DEF fileClosed, FileLine, sha
<1>3. CloseOf(1, h) /\ 1 \in InO /\ a = server.outbox[1]
  BY TakesIs DEF CloseOf
<1>4. TablesOK /\ SftpJudged /\ QueuesOK /\ ClosesOK(h) /\ FileOK(h)
  BY DEF SftpInv, HandlesOK, ChunksOK
<1>5. f.size = f.next /\ Counted(f, moved[f.n], w)
  BY <1>2, <1>3, <1>4 DEF FileOK, Whole, Abandoned
<1>6. f.n \in Numbers /\ moved[f.n] \in Seq(SftpChunk) /\ w \in Seq(Marking)
      /\ \A i \in InO : w[i] = Mark(server.outbox[i], pending[server.outbox[i].id], h) /\ Len(w) = Len(server.outbox)
  BY <1>4, FileIsSome, MarksIs DEF TablesOK
<1>7. ~Marked(w)
  <2> SUFFICES ASSUME NEW j \in InO, server.outbox[j].h = h, server.outbox[j].type \in {"data", "ok"} PROVE Mark(server.outbox[j], pending[server.outbox[j].id], h) = Blank
    BY <1>3, <1>6 DEF Marked, Mark, InO
  <2>1. j = 1 \/ 1 < j
    BY DEF InO
  <2>2. CASE 1 < j
    BY <1>3, <1>4, <2>2 DEF ClosesOK
  <2>3. CASE j = 1
    <3>1. Answers(a, pending[a.id])
      BY TakesIs
    <3>2. QED
      BY <1>3, <2>3, <3>1 DEF Mark, Answers
  <2>4. QED
    BY <2>1, <2>2, <2>3
<1> HIDE DEF w, f
<1>8. f \in SftpFile
  BY DEF f
<1>9. QED
  BY <1>2, <1>5, <1>6, <1>7, <1>8, CountedAll

LEMMA ChunksKeptTaking ==
  ASSUME SftpInv, NEW a, Takes(a)
  PROVE  ChunksOK'
<1>1. /\ UNCHANGED <<moved, writer>> /\ InI' = InI /\ server'.inbox = server.inbox
      /\ a = server.outbox[1] /\ 1 \in InO /\ a.n \in Numbers /\ Untouched(a.n)
      /\ \A j \in InO' : /\ j + 1 \in InO /\ server'.outbox[j] = server.outbox[j + 1] /\ 1 < j + 1 /\ j \in Nat
                         /\ pending'[server.outbox[j + 1].id] = pending[server.outbox[j + 1].id]
  BY TakesIs DEF Takes
<1>2. /\ TablesOK /\ LinesOK /\ SftpJudged /\ QueuesOK
      /\ files \in [Handles -> SftpFile \cup {None}] /\ moved \in [Numbers -> Seq(SftpChunk)]
      /\ \A h \in Handles : FileOK(h) /\ MintsOK(h)
  BY DEF SftpInv, TablesOK, ChunksOK, HandlesOK
<1>3. Len(server.outbox) \in Nat /\ InO = 1..Len(server.outbox) /\ InO' = 1..(Len(server.outbox) - 1)
      /\ Len(server.outbox) - 1 \in Nat
  <2>1. server.outbox # <<>> /\ server'.outbox = Tail(server.outbox)
    BY DEF Takes
  <2>2. QED
    BY <1>2, <2>1, QueueTypes, QueueTail DEF InO
<1>4. ASSUME NEW h
      PROVE  /\ Marks(h) \in Seq(Marking) /\ Marks(h)' \in Seq(Marking) /\ Shorter(Marks(h), Marks(h)')
             /\ Marks(h)[1] = Mark(a, pending[a.id], h)
             /\ \A j \in InO' : Marks(h)'[j] = Mark(server.outbox[j + 1], pending[server.outbox[j + 1].id], h)
  <2>1. Marks(h) \in Seq(Marking) /\ Len(Marks(h)) = Len(server.outbox)
        /\ \A i \in InO : Marks(h)[i] = Mark(server.outbox[i], pending[server.outbox[i].id], h)
    BY <1>2, MarksIs
  <2>2. PICK v : v = Marks(h)'
    OBVIOUS
  <2>3. v = [i \in InO' |-> Mark(server'.outbox[i], pending'[server'.outbox[i].id], h)]
    BY <2>2 DEF Marks
  <2>4. \A i \in InO' : /\ v[i] = Mark(server.outbox[i + 1], pending[server.outbox[i + 1].id], h)
                        /\ v[i] = Marks(h)[i + 1]
    BY <1>1, <2>1, <2>3
  <2>5. v \in Seq(Marking) /\ Len(v) = Len(server.outbox) - 1
    <3>1. \A i \in InO' : v[i] \in Marking
      <4>1. \A i \in InO : Marks(h)[i] \in Marking
        BY <1>3, <2>1
      <4>2. QED
        BY <1>1, <2>4, <4>1
    <3> DEFINE N == Len(server.outbox) - 1
    <3>2. N \in Nat /\ v \in [1..N -> Marking]
      BY <1>3, <2>3, <3>1
    <3> HIDE DEF N
    <3>3. v \in Seq(Marking) /\ Len(v) = N
      BY <3>2
    <3>4. QED
      BY <3>3 DEF N
  <2>6. Shorter(Marks(h), v)
    BY <1>3, <2>1, <2>4, <2>5 DEF Shorter
  <2>7. QED
    BY <1>1, <2>1, <2>2, <2>4, <2>5, <2>6
<1>5. \A h \in Handles : Abandoned(h) => Abandoned(h)'
  <2>1. \A h \in Handles, j \in InO' : CloseOf(j, h)' <=> CloseOf(j + 1, h)
    BY <1>1 DEF CloseOf
  <2>2. QED
    BY <1>1, <2>1 DEF Abandoned
<1>6. ASSUME NEW h \in Handles
      PROVE  FileOK(h)'
  <2> DEFINE p == pending[a.id]
             w == Marks(h)
             f == files[h]
  <2>1. PICK v : v = Marks(h)'
    OBVIOUS
  <2>2. PICK o : o = files'[h]
    OBVIOUS
  <2>3. w \in Seq(Marking) /\ v \in Seq(Marking) /\ Shorter(w, v) /\ w[1] = Mark(a, p, h)
    BY <1>4, <2>1
  <2>4. FileOK(h)
    BY <1>2
  <2> HIDE DEF w, p
  <2>5. CASE o = f /\ (Mark(a, p, h) = Blank \/ f = None)
    <3>1. ASSUME Whole(o)
          PROVE  o.size = o.next /\ (~o.moved => o.next = 0) /\ (Counted(o, moved[o.n], v) \/ Abandoned(h)')
      <4>1. f \in SftpFile /\ f # None /\ f.n \in Numbers /\ moved[f.n] \in Seq(SftpChunk)
        BY <1>2, <2>5, <3>1, FileIsSome DEF Whole
      <4>2. f.size = f.next /\ (~f.moved => f.next = 0) /\ (Counted(f, moved[f.n], w) \/ Abandoned(h))
        BY <2>4, <2>5, <3>1 DEF FileOK, w
      <4>3. Counted(f, moved[f.n], w) => Counted(f, moved[f.n], v)
        BY <2>3, <2>5, <4>1, CountedShorter
      <4>4. QED
        BY <1>5, <2>5, <4>2, <4>3
    <3>2. QED
      BY <1>1, <2>1, <2>2, <3>1, FileFrom
  <2>6. CASE ~Whole(o)
    BY <2>1, <2>2, <2>6, FileFrom
  <2>7. CASE f \in SftpFile /\ p.at \in 0..MaxAt /\ Mark(a, p, h) = <<"down", p.at>> /\ o = observe(f, "down", p.at)
    <3>1. /\ o \in SftpFile /\ o.n = f.n /\ o.moved /\ o.copied = f.copied /\ o.dir = (IF f.moved THEN f.dir ELSE "down")
          /\ o.sequential = (f.sequential /\ p.at = f.next /\ "down" = o.dir)
          /\ o.size = (IF p.at + 1 > f.size THEN p.at + 1 ELSE f.size)
          /\ o.next = (IF f.sequential /\ p.at = f.next /\ "down" = o.dir THEN f.next + 1 ELSE f.next)
      BY <2>7, ObserveIs
    <3>2. ASSUME Whole(o)
          PROVE  o.size = o.next /\ o.moved /\ (Counted(o, moved[o.n], v) \/ Abandoned(h)')
      <4>1. f.sequential /\ p.at = f.next /\ "down" = o.dir /\ ~f.copied /\ f # None
        <5>1. o.sequential /\ ~o.copied
          BY <3>2 DEF Whole
        <5>2. f # None
          BY <2>7 DEF SftpFile, None, Numbers
        <5>3. QED
          BY <3>1, <5>1, <5>2
      <4>2. f.size = f.next /\ f.size \in Nat /\ (Counted(f, moved[f.n], w) \/ Abandoned(h))
        BY <2>4, <2>7, <4>1 DEF FileOK, Whole, SftpFile, w
      <4>3. o.next = f.next + 1 /\ o.size = f.next + 1
        BY <3>1, <4>1, <4>2
      <4>4. moved[f.n] \in Seq(SftpChunk)
        BY <1>2, <2>7 DEF SftpFile
      <4>5. f.moved => f.dir = "down"
        BY <3>1, <4>1
      <4>6. ASSUME Counted(f, moved[f.n], w)
            PROVE  Counted(o, moved[f.n], v)
        <5>1. w[1] = <<"down", f.next>>
          BY <2>3, <2>7, <4>1
        <5>2. f \in SftpFile /\ o \in SftpFile
          BY <2>7, <3>1
        <5> HIDE DEF f
        <5>3. QED
          BY <2>3, <4>1, <4>3, <4>4, <4>5, <4>6, <5>1, <5>2, CountedDown
      <4>7. QED
        BY <1>5, <3>1, <4>2, <4>3, <4>6
    <3>3. QED
      BY <1>1, <2>1, <2>2, <3>2, FileFrom
  <2>8. CASE HandleOf(1, h) /\ a.h = h /\ o \in SftpFile /\ o.n = a.n /\ ~o.moved /\ o.next = 0 /\ o.size = 0
    <3>1. moved[o.n] = <<>>
      BY <1>1, <2>8 DEF Untouched
    <3>2. \A j \in InO : 1 < j => server.outbox[j].h # h
      BY <1>1, <1>2, <2>8 DEF MintsOK
    <3>3. ~Marked(v)
      <4>1. \A j \in InO' : v[j] = Blank
        BY <1>1, <1>4, <2>1, <3>2 DEF Mark
      <4>2. InO' = 1..Len(v)
        <5>1. Len(w) = Len(server.outbox)
          BY <1>2, MarksIs DEF w
        <5>2. Len(w) = Len(v) + 1 /\ Len(v) \in Nat
          BY <2>3 DEF Shorter
        <5>3. QED
          BY <1>3, <5>1, <5>2
      <4>3. QED
        BY <4>1, <4>2 DEF Marked
    <3>4. Counted(o, moved[o.n], v)
      BY <2>3, <2>8, <3>1, <3>3, TrailsNothing DEF Counted
    <3>5. QED
      BY <1>1, <2>1, <2>2, <2>8, <3>4, FileFrom
  <2>9. QED
    <3>1. \/ o = f /\ (Mark(a, p, h) = Blank \/ f = None)
          \/ ~Whole(o)
          \/ f \in SftpFile /\ p.at \in 0..MaxAt /\ Mark(a, p, h) = <<"down", p.at>> /\ o = observe(f, "down", p.at)
          \/ HandleOf(1, h) /\ a.h = h /\ o \in SftpFile /\ o.n = a.n /\ ~o.moved /\ o.next = 0 /\ o.size = 0
      BY <2>2, FileTaken DEF p
    <3>2. QED
      BY <2>5, <2>6, <2>7, <2>8, <3>1
<1>7. HashIsWhole'
  <2>1. lines \in [Numbers -> Seq(SftpLine)]
    BY <1>2 DEF TablesOK
  <2>2. CASE lines' = lines
    BY <1>1, <2>2, HashKept
  <2>3. ASSUME NEW e \in SftpLine, lines' = [lines EXCEPT ![a.n] = Append(@, e)], Tells(e, a)
        PROVE  HashIsWhole'
    <3>1. \A n \in Numbers : lines'[n] = lines[n] \/ (lines'[n] = Append(lines[n], e) /\ LineWhole(e, moved[n]))
      BY <2>1, <2>3 DEF LineWhole, Tells
    <3>2. QED
      BY <1>1, <3>1, HashKept
  <2>4. CASE /\ a.type # "handle" /\ pending[a.id].kind = "close" /\ a.h \in Handles /\ files[a.h] \in SftpFile /\ files[a.h] # None
             /\ lines' = [lines EXCEPT ![files[a.h].n] = Append(@, Put(files[a.h].n))]
             /\ Like(Put(files[a.h].n), fileClosed(files[a.h], opOutcome(a)))
    <3> DEFINE e == Put(files[a.h].n)
    <3>1. LineWhole(e, moved[files[a.h].n])
      BY <2>4, ClosedIsWhole DEF LineWhole, Like
    <3>2. e \in SftpLine /\ lines' = [lines EXCEPT ![files[a.h].n] = Append(@, e)]
      BY <2>4 DEF Like
    <3> HIDE DEF e
    <3>3. \A n \in Numbers : lines'[n] = lines[n] \/ (lines'[n] = Append(lines[n], e) /\ LineWhole(e, moved[n]))
      BY <2>1, <3>1, <3>2
    <3>4. QED
      BY <1>1, <3>2, <3>3, HashKept
  <2>5. QED
    BY <2>2, <2>3, <2>4, TakenIs
<1>8. QED
  BY <1>6, <1>7 DEF ChunksOK
-----------------------------------------------------------------------------
(* The lines of a file session, from its start and at every step. *)

LEMMA SftpInvInit == SftpInit => SftpInv
<1> SUFFICES ASSUME SftpInit PROVE SftpInv
  OBVIOUS
<1>1. /\ session = "bridge" /\ writer = "copy" /\ puller = "read" /\ reader = "copy"
      /\ pending = [i \in RequestIds |-> None] /\ files = [h \in Handles |-> None] /\ lines = [n \in Numbers |-> <<>>]
      /\ client.sent = 0 /\ client.closed = {} /\ seen = {} /\ given = [n \in Numbers |-> NoHandle]
      /\ server.inbox = <<>> /\ server.outbox = <<>> /\ server.open = [h \in Handles |-> 0]
      /\ did = {} /\ Halfway = {} /\ moved = [n \in Numbers |-> <<>>]
  BY DEF SftpInit, Halfway
<1>2. InI = {} /\ InO = {} /\ ~Asking
  BY <1>1 DEF InI, InO, Asking
<1>3. SftpJudged
  BY SftpInitJudged
<1>4. TablesOK
  BY <1>1 DEF TablesOK
<1>5. QueuesOK
  BY <1>1, <1>2 DEF QueuesOK
<1>6. FreshOK
  <2>1. \A n \in Numbers : Untouched(n)
    BY <1>1 DEF Untouched, Unseen
  <2>2. QED
    BY <1>1, <1>2, <2>1 DEF FreshOK, Carried
<1>7. LinesOK
  BY <1>1, <1>2 DEF LinesOK
<1>8. HandlesOK
  <2>1. ASSUME NEW h \in Handles
        PROVE  OwnersOK(h) /\ UsesOK(h) /\ ClosesOK(h) /\ MintsOK(h) /\ FreeOK(h)
    <3>1. \A m \in Numbers : given[m] # h
      BY <1>1, SftpAssumption
    <3>2. Left(h) /\ files[h] = None
      BY <1>1, <1>2, <3>1 DEF Left, Holds, Unasked
    <3>3. QED
      BY <1>2, <3>1, <3>2 DEF OwnersOK, UsesOK, ClosesOK, MintsOK, FreeOK
  <2>2. QED
    BY <1>1, <2>1 DEF HandlesOK
<1>9. ChunksOK
  <2>1. \A h \in Handles : FileOK(h)
    BY <1>1 DEF FileOK, Whole
  <2>2. HashIsWhole
    BY <1>1 DEF HashIsWhole
  <2>3. QED
    BY <2>1, <2>2 DEF ChunksOK
<1>10. QED
  BY <1>3, <1>4, <1>5, <1>6, <1>7, <1>8, <1>9 DEF SftpInv

LEMMA SftpInvStep == SftpInv /\ [SftpNext]_sftpVars => SftpInv'
<1> SUFFICES ASSUME SftpInv, [SftpNext]_sftpVars PROVE SftpInv'
  OBVIOUS
<1>1. SftpJudged /\ TablesOK /\ QueuesOK /\ FreshOK
  BY DEF SftpInv
<1>2. SftpJudged'
  BY <1>1, ClientPacketKeeps, AllowedKeeps, ServeKeeps, OthersSpare DEF SftpNext, Peers, Goroutines
<1>3. CASE Recedes \/ Stops
  <2>1. TablesOK' /\ QueuesOK'
    BY <1>1, <1>3, TablesKeptElse, QueuesKeptElse
  <2>2. FreshOK' /\ LinesOK' /\ HandlesOK' /\ ChunksOK'
    BY <1>3, FreshKeptElse, LinesKeptElse, HandlesKeptElse, ChunksKeptElse
  <2>3. QED
    BY <1>2, <2>1, <2>2 DEF SftpInv
<1>4. CASE Refuses
  <2>1. TablesOK' /\ QueuesOK'
    BY <1>1, <1>4, TablesKeptElse, QueuesKeptElse
  <2>2. FreshOK' /\ LinesOK' /\ HandlesOK' /\ ChunksOK'
    BY <1>4, FreshKeptRefuses, LinesKeptRefuses, HandlesKeptElse, ChunksKeptElse
  <2>3. QED
    BY <1>2, <2>1, <2>2 DEF SftpInv
<1>5. CASE Hands
  <2>1. TablesOK' /\ QueuesOK'
    BY <1>1, <1>5, TablesKeptElse, QueuesKeptElse
  <2>2. FreshOK' /\ LinesOK' /\ HandlesOK' /\ ChunksOK'
    BY <1>5, FreshKeptHands, LinesKeptElse, HandlesKeptElse, ChunksKeptElse
  <2>3. QED
    BY <1>2, <2>1, <2>2 DEF SftpInv
<1>6. CASE Shows
  <2>1. TablesOK' /\ QueuesOK'
    BY <1>1, <1>6, TablesKeptElse, QueuesKeptElse
  <2>2. FreshOK' /\ LinesOK' /\ HandlesOK' /\ ChunksOK'
    BY <1>6, FreshKeptShows, LinesKeptShows, HandlesKeptShows, ChunksKeptElse
  <2>3. QED
    BY <1>2, <2>1, <2>2 DEF SftpInv
<1>7. CASE Finishes
  <2>1. TablesOK' /\ QueuesOK'
    BY <1>1, <1>7, TablesKeptElse, QueuesKeptElse
  <2>2. FreshOK' /\ LinesOK' /\ HandlesOK' /\ ChunksOK'
    BY <1>7, FreshKeptElse, LinesKeptFinishes, HandlesKeptFinishes, ChunksKeptFinishes
  <2>3. QED
    BY <1>2, <2>1, <2>2 DEF SftpInv
<1>8. ASSUME NEW a, Takes(a)
      PROVE  SftpInv'
  <2>1. TablesOK' /\ QueuesOK'
    BY <1>1, <1>8, TablesKeptTaking, QueuesKeptTaking
  <2>2. FreshOK' /\ LinesOK' /\ HandlesOK' /\ ChunksOK'
    BY <1>8, FreshKeptTaking, LinesKeptTaking, HandlesKeptTaking, ChunksKeptTaking
  <2>3. QED
    BY <1>2, <2>1, <2>2 DEF SftpInv
<1>9. ASSUME NEW r, Preps(r)
      PROVE  SftpInv'
  <2>1. TablesOK' /\ QueuesOK'
    BY <1>1, <1>9, TablesKeptAsking, QueuesKeptPreps
  <2>2. FreshOK' /\ LinesOK' /\ HandlesOK' /\ ChunksOK'
    BY <1>9, FreshKeptPreps, LinesKeptAsking, HandlesKeptElse, ChunksKeptElse
  <2>3. QED
    BY <1>2, <2>1, <2>2 DEF SftpInv
<1>10. ASSUME NEW r, Sends(r)
       PROVE  SftpInv'
  <2>1. TablesOK' /\ QueuesOK'
    BY <1>1, <1>10, TablesKeptAsking, QueuesKeptSends
  <2>2. FreshOK' /\ LinesOK' /\ HandlesOK' /\ ChunksOK'
    BY <1>10, FreshKeptSends, LinesKeptAsking, HandlesKeptSends, ChunksKeptSends
  <2>3. QED
    BY <1>2, <2>1, <2>2 DEF SftpInv
<1>11. ASSUME NEW r, NEW a, Mints(r, a) \/ Closes(r, a) \/ Answered(r, a)
       PROVE  SftpInv'
  <2>1. TablesOK' /\ QueuesOK'
    BY <1>1, <1>11, TablesKeptServing, QueuesKeptServing
  <2>2. FreshOK' /\ LinesOK' /\ HandlesOK' /\ ChunksOK'
    BY <1>11, FreshKeptServing, LinesKeptServing, HandlesKeptServing, ChunksKeptServing
  <2>3. QED
    BY <1>2, <2>1, <2>2 DEF SftpInv
<1>12. QED
  BY <1>1, <1>3, <1>4, <1>5, <1>6, <1>7, <1>8, <1>9, <1>10, <1>11, StepIs

\* The lines of a file session tell the truth, however requests, answers,
\* refusals, closes and ends interleave and whichever line a log fails to take:
\* what the person saw done, or failing half-way, is in the recording with that
\* outcome, a file whose handle was given out has exactly one line at the end,
\* and a hash is of all that went through the gateway, in one direction and in
\* order (sftp_session.go finishOp, fileClosed, sha).
THEOREM FileLinesAreTrue == SftpSpec => []LinesAreTrue
BY SftpInvInit, SftpInvStep, SftpInvSuffices, PTL DEF SftpSpec

=============================================================================
