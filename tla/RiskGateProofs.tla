--------------------------- MODULE RiskGateProofs ---------------------------
(***************************************************************************)
(* A person's commands: the barrier that judges them, and the exec session *)
(* that runs what was let through.                                         *)
(*                                                                         *)
(* The barrier holds and an approval is exact, for any number of people,   *)
(* sessions, texts, approvals and switches.  The invariant has two halves  *)
(* that share only the approval a session used: what holds of each         *)
(* session, a predicate of its record and of the mode, and what holds of   *)
(* the approvals.  A step of a session then owes the predicate of one      *)
(* record, and a step on the approvals owes nothing of the sessions.       *)
(*                                                                         *)
(* The recording of an exec session is counted by the kinds of its lines.  *)
(* What a line more does to the counts is said once (Grows); the invariant *)
(* says of each channel where its chunks are, and each goroutine's step    *)
(* moves at most one of them.                                              *)
(***************************************************************************)
EXTENDS RiskGate, ExecSession, FiniteSetTheorems, SequenceTheorems, TLAPS

-----------------------------------------------------------------------------
(* What holds of a session whose record is r while the mode is m. *)

JudgingNow(r) == r.pc \in {"classify", "asked", "policy", "action"}

\* What it has seen is no stricter than the mode.
SeenIsLax(r, m) ==
  JudgingNow(r) => /\ laxity(m) = "live" => r.seen = "live"
                   /\ laxity(m) = "lax" => r.seen # "strict"

\* Who waits for the service is one whom the rules did not settle.
AskedIsOpen(r) ==
  r.pc \in {"classify", "asked"} =>
    /\ r.ext = "none"
    /\ r.pc = "asked" => /\ r.source \in {"ai", "both"}
                         /\ r.source = "both" => local(r.text) # "red"

\* A verdict is red when a source that was consulted says so.
VerdictIsRed(r) ==
  r.pc \in {"policy", "action"} =>
    /\ r.ext = "failed" => r.source \in {"ai", "both"}
    /\ r.ext = "red" => r.verdict = "red"
    /\ r.source \in {"rules", "both"} /\ local(r.text) = "red" => r.verdict = "red"

\* What the first reading of the mode has settled.
PolicyIsSet(r) ==
  r.pc = "action" =>
    /\ ~r.whole => r.verdict = "red"
    /\ r.stops <=> r.failure = "block"
    /\ r.ext = "failed" /\ r.failure \in {"log", "warn"} => r.seen = "live"
    /\ r.ext # "failed" => r.verdict # "green"

\* It is somebody's, and there is a text to judge.
Named(r) == r.pc # "idle" => r.person \in Persons /\ r.text \in Texts

\* Only a whole command comes to an approval.
WaitsWhole(r) == r.pc \in {"consume", "create"} => r.whole

\* Only a session that may pass holds an approval, its own.
UsedIsOwn(r) ==
  r.used # NotUsed => r.pc = "pass" /\ r.whole /\ r.used.by = r.person /\ r.used.text = r.text

\* What NothingUnjudgedRuns and NothingRedRuns say of one session.
PassesRightly(r) ==
  r.pc = "pass" /\ r.used = NotUsed =>
    /\ r.ext = "failed" => r.seen = "live"
    /\ Red(r) => r.seen # "strict"

Sound(r, m) ==
  /\ SeenIsLax(r, m) /\ AskedIsOpen(r) /\ VerdictIsRed(r) /\ PolicyIsSet(r)
  /\ Named(r) /\ WaitsWhole(r) /\ UsedIsOwn(r) /\ PassesRightly(r)

JudgeInv == \A s \in Sessions : Sound(sess[s], mode)

(* What holds of the approvals. *)

\* Its id is one that was given and has not been spent; who approved it is who
\* it is for; it does not last, and less once it is given.
ApprovalSound(a) ==
  /\ a.id <= issued /\ spent[a.id] = 0
  /\ a.by \in {NoOne, a.person}
  /\ a.expires <= now + TTL
  /\ a.by # NoOne => a.expires <= a.at + TTL

ApprovalsInv ==
  /\ \A a \in approvals : ApprovalSound(a)
  /\ \A a, b \in approvals : a.id = b.id => a = b
  /\ \A i \in Ids : i > issued => spent[i] = 0
  /\ ApprovalRunsOnce /\ OneEntryPerHeldCommand

BooksOK ==
  /\ approvals \subseteq Approval
  /\ now \in 0..MaxTime /\ issued \in 0..MaxIds /\ spent \in [Ids -> Nat]

RiskInv == TypeOK /\ JudgeInv /\ ApprovalsInv

\* The invariant gives both promises.
LEMMA RiskInvSuffices == RiskInv => ApprovalIsExact /\ BarrierHolds
<1>1. SUFFICES ASSUME RiskInv PROVE ApprovalIsExact /\ BarrierHolds
  OBVIOUS
<1>2. ApprovalIsItsOwn
  BY <1>1 DEF RiskInv, JudgeInv, Sound, UsedIsOwn, ApprovalIsItsOwn
<1>3. ApprovalIsShort
  BY <1>1 DEF RiskInv, ApprovalsInv, ApprovalSound, ApprovalIsShort
<1>4. NothingUnjudgedRuns
  BY <1>1 DEF RiskInv, JudgeInv, Sound, PassesRightly, NothingUnjudgedRuns, At
<1>5. NothingRedRuns
  BY <1>1 DEF RiskInv, JudgeInv, Sound, PassesRightly, UsedIsOwn, NothingRedRuns, At
<1>6. QED
  BY <1>1, <1>2, <1>3, <1>4, <1>5
  DEF RiskInv, ApprovalsInv, ApprovalIsExact, BarrierHolds

-----------------------------------------------------------------------------
(* Sessions. *)

\* The record of a session that is not at the barrier.
LEMMA IdleIsSound == Idle \in Sess /\ \A m : Sound(Idle, m)
  BY DEF Idle, Sess, NotUsed, Modes, Levels, Sources, Sound, JudgingNow, SeenIsLax, AskedIsOpen,
         VerdictIsRed, PolicyIsSet, Named, WaitsWhole, UsedIsOwn, PassesRightly

\* One session moves to a sound record.
LEMMA OneMoves ==
  ASSUME TypeOK, JudgeInv, NEW s \in Sessions, NEW r \in Sess, Sound(r, mode),
         Becomes(s, r), mode' = mode
  PROVE  sess' \in [Sessions -> Sess] /\ JudgeInv'
<1>1. sess' \in [Sessions -> Sess]
  BY DEF TypeOK, Becomes
<1>2. ASSUME NEW z \in Sessions PROVE Sound(sess'[z], mode')
  <2>1. sess'[z] = IF z = s THEN r ELSE sess[z]
    BY DEF TypeOK, Becomes
  <2>2. QED
    BY <2>1 DEF JudgeInv
<1>3. QED
  BY <1>1, <1>2 DEF JudgeInv

\* A session that leaves the judgement for the machine, an approval or nothing.
LEMMA GoingIsTyped ==
  ASSUME NEW r \in Sess, NEW pc \in {"pass", "consume", "refused"}
  PROVE  Going(r, pc) \in Sess
<1>1. CASE pc = "refused"
  BY <1>1, IdleIsSound DEF Going
<1>2. CASE pc = "consume"
  BY <1>2, ZenonT(60) DEF Going, Idle, NotUsed, Sess, Modes, Levels, Sources
<1>3. CASE pc = "pass"
  BY <1>3, ZenonT(60) DEF Going, Sess, Modes, Levels
<1>4. QED
  BY <1>1, <1>2, <1>3

LEMMA GoingIsSound ==
  ASSUME NEW r \in Sess, NEW pc \in {"pass", "consume", "refused"}, NEW m, r.used = NotUsed,
         r.person \in Persons, r.text \in Texts,
         pc = "consume" => r.whole,
         pc = "pass" => (r.ext = "failed" => r.seen = "live") /\ (Red(r) => r.seen # "strict")
  PROVE  Sound(Going(r, pc), m)
<1>1. CASE pc = "refused"
  BY <1>1, IdleIsSound DEF Going
<1>2. CASE pc = "consume"
  BY <1>2 DEF Going, Idle, NotUsed, Sess, Sound, JudgingNow, SeenIsLax, AskedIsOpen,
              VerdictIsRed, PolicyIsSet, Named, WaitsWhole, UsedIsOwn, PassesRightly
<1>3. CASE pc = "pass"
  <2>1. /\ Going(r, pc).pc = "pass" /\ Going(r, pc).used = NotUsed
        /\ Going(r, pc).ext = r.ext /\ Going(r, pc).seen = r.seen
        /\ Going(r, pc).whole = r.whole /\ Going(r, pc).source = r.source /\ Going(r, pc).text = r.text
        /\ Going(r, pc).person = r.person
    BY <1>3 DEF Going, Sess
  <2>2. QED
    BY <2>1, <1>3 DEF Sound, JudgingNow, SeenIsLax, AskedIsOpen, VerdictIsRed, PolicyIsSet,
                      Named, WaitsWhole, UsedIsOwn, PassesRightly, Red
<1>4. QED
  BY <1>1, <1>2, <1>3

LEMMA SenderIsTyped ==
  ASSUME TypeOK, NEW s \in Sessions
  PROVE  sess[s] \in Sess
  BY DEF TypeOK

\* The mode is a mode and its laxity one of three.
LEMMA LaxityIsTyped == \A m : laxity(m) \in {"strict", "lax", "live"}
  BY DEF laxity

LEMMA BeginSteps ==
  ASSUME TypeOK, JudgeInv, NEW s \in Sessions, NEW p \in Senders, NEW t \in Texts, NEW w \in BOOLEAN,
         Begin(s, p, t, w)
  PROVE  sess' \in [Sessions -> Sess] /\ JudgeInv'
<1> DEFINE r == [Idle EXCEPT !.pc = "classify", !.person = p, !.text = t, !.whole = w, !.seen = laxity(mode)]
<1>1. r \in Sess
  BY RiskAssumption, LaxityIsTyped, IdleIsSound DEF Idle, Sess
<1>2. Sound(r, mode)
  BY RiskAssumption DEF Idle, NotUsed, Sound, JudgingNow, SeenIsLax, AskedIsOpen, VerdictIsRed, PolicyIsSet,
         Named, WaitsWhole, UsedIsOwn, PassesRightly
<1>3. Becomes(s, r) /\ mode' = mode
  BY DEF Begin, policy
<1>4. QED
  BY <1>1, <1>2, <1>3, OneMoves

LEMMA classifyExecSteps ==
  ASSUME TypeOK, JudgeInv, NEW s \in Sessions, classifyExec(s)
  PROVE  sess' \in [Sessions -> Sess] /\ JudgeInv'
<1> DEFINE r == [sess[s] EXCEPT !.source = source, !.verdict = local(sess[s].text)]
           n == IF source = "rules" \/ (source = "both" /\ r.verdict = "red")
                  THEN [r EXCEPT !.pc = "policy"] ELSE [r EXCEPT !.pc = "asked"]
<1>1. /\ sess[s] \in Sess /\ sess[s].pc = "classify" /\ Sound(sess[s], mode)
      /\ source \in Sources /\ local(sess[s].text) \in Levels
  BY SenderIsTyped DEF TypeOK, JudgeInv, classifyExec, At, local, Levels
<1>2. n \in Sess
  BY <1>1 DEF Sess
<1>3. /\ n.pc \in {"policy", "asked"} /\ n.source = source /\ n.verdict = local(sess[s].text)
      /\ n.text = sess[s].text /\ n.ext = sess[s].ext /\ n.seen = sess[s].seen /\ n.used = sess[s].used
      /\ n.person = sess[s].person
      /\ n.pc = "asked" => source # "rules" /\ (source = "both" => n.verdict # "red")
  BY <1>1 DEF Sess
<1>4. /\ sess[s].ext = "none" /\ sess[s].used = NotUsed /\ SeenIsLax(sess[s], mode)
      /\ sess[s].person \in Persons /\ sess[s].text \in Texts
  BY <1>1 DEF Sound, AskedIsOpen, UsedIsOwn, Named
<1>5. Sound(n, mode)
  BY <1>1, <1>3, <1>4
  DEF Sources, Sound, JudgingNow, SeenIsLax, AskedIsOpen, VerdictIsRed, PolicyIsSet,
      Named, WaitsWhole, UsedIsOwn, PassesRightly
<1>6. Becomes(s, n) /\ mode' = mode
  BY DEF classifyExec, policy
<1>7. QED
  BY <1>2, <1>5, <1>6, OneMoves

LEMMA classifyWithExternalSteps ==
  ASSUME TypeOK, JudgeInv, NEW s \in Sessions, NEW e \in Levels \cup {"failed"},
         classifyWithExternal(s, e)
  PROVE  sess' \in [Sessions -> Sess] /\ JudgeInv'
<1> DEFINE v == IF sess[s].source = "both"
                  THEN IF e = "failed" THEN sess[s].verdict ELSE worseRiskVerdict(sess[s].verdict, e)
                  ELSE IF e = "failed" THEN "green" ELSE e
           n == [sess[s] EXCEPT !.pc = "policy", !.ext = e, !.verdict = v]
<1>1. sess[s] \in Sess /\ sess[s].pc = "asked" /\ Sound(sess[s], mode)
  BY SenderIsTyped DEF JudgeInv, classifyWithExternal, At
<1>2. v \in Levels
  BY <1>1 DEF Sess, worseRiskVerdict, Levels
<1>3. n \in Sess
  BY <1>1, <1>2, ZenonT(60) DEF Sess
<1>4. /\ n.pc = "policy" /\ n.source = sess[s].source /\ n.verdict = v /\ n.text = sess[s].text
      /\ n.ext = e /\ n.seen = sess[s].seen /\ n.used = sess[s].used /\ n.person = sess[s].person
  BY <1>1 DEF Sess
<1>5. /\ sess[s].source \in {"ai", "both"} /\ (sess[s].source = "both" => local(sess[s].text) # "red")
      /\ sess[s].used = NotUsed /\ SeenIsLax(sess[s], mode)
      /\ sess[s].person \in Persons /\ sess[s].text \in Texts
  BY <1>1 DEF Sound, AskedIsOpen, UsedIsOwn, Named
<1>6. e = "red" => v = "red"
  BY DEF worseRiskVerdict
<1>7. Sound(n, mode)
  BY <1>1, <1>4, <1>5, <1>6
  DEF Sound, JudgingNow, SeenIsLax, AskedIsOpen, VerdictIsRed, PolicyIsSet,
      Named, WaitsWhole, UsedIsOwn, PassesRightly
<1>8. Becomes(s, n) /\ mode' = mode
  BY DEF classifyWithExternal, policy
<1>9. QED
  BY <1>3, <1>7, <1>8, OneMoves

\* An unjudged command is let through only by a mode set live.
LEMMA PolicyIsLive ==
  ASSUME TypeOK, NEW r \in Sess, SeenIsLax(r, mode), r.pc = "policy"
  PROVE  /\ failurePolicy(r) \in Modes
         /\ failsClosed(r) /\ failurePolicy(r) \in {"log", "warn"} => r.seen = "live"
  BY DEF TypeOK, failurePolicy, failsClosed, Modes, SeenIsLax, JudgingNow, laxity

LEMMA judgeRiskSteps ==
  ASSUME TypeOK, JudgeInv, NEW s \in Sessions, judgeRisk(s)
  PROVE  sess' \in [Sessions -> Sess] /\ JudgeInv'
<1> DEFINE f == failurePolicy(sess[s])
           v == IF ~sess[s].whole \/ (failsClosed(sess[s]) /\ f = "ask") THEN "red" ELSE sess[s].verdict
           n == [sess[s] EXCEPT !.pc = "action", !.failure = f, !.stops = (f = "block"), !.verdict = v]
<1>1. sess[s] \in Sess /\ sess[s].pc = "policy" /\ Sound(sess[s], mode)
  BY SenderIsTyped DEF JudgeInv, judgeRisk, At
<1>2. /\ SeenIsLax(sess[s], mode) /\ VerdictIsRed(sess[s]) /\ sess[s].used = NotUsed
      /\ sess[s].person \in Persons /\ sess[s].text \in Texts
  BY <1>1 DEF Sound, UsedIsOwn, Named
<1>3. /\ f \in Modes
      /\ failsClosed(sess[s]) /\ f \in {"log", "warn"} => sess[s].seen = "live"
  BY <1>1, <1>2, PolicyIsLive
<1>4. CASE v = "green" /\ sess[s].ext # "failed"
  <2>1. Becomes(s, Going(sess[s], "pass")) /\ mode' = mode
    BY <1>4 DEF judgeRisk, policy
  <2>2. ~Red(sess[s])
    BY <1>1, <1>2, <1>4 DEF Red, VerdictIsRed
  <2>3. Sound(Going(sess[s], "pass"), mode)
    BY <1>1, <1>2, <1>4, <2>2, GoingIsSound
  <2>4. QED
    BY <1>1, <2>1, <2>3, GoingIsTyped, OneMoves
<1>5. CASE ~(v = "green" /\ sess[s].ext # "failed")
  <2>1. Becomes(s, n) /\ mode' = mode
    BY <1>5 DEF judgeRisk, policy
  <2>2. v \in Levels /\ (f = "block") \in BOOLEAN
    BY <1>1 DEF Sess, Levels
  <2>3. n \in Sess
    BY <1>1, <1>3, <2>2, ZenonT(60) DEF Sess
  <2>4. /\ n.pc = "action" /\ n.source = sess[s].source /\ n.verdict = v /\ n.text = sess[s].text
        /\ n.ext = sess[s].ext /\ n.seen = sess[s].seen /\ n.used = sess[s].used
        /\ n.failure = f /\ n.stops = (f = "block") /\ n.whole = sess[s].whole /\ n.person = sess[s].person
    BY <1>1 DEF Sess
  <2>5. SeenIsLax(n, mode) /\ AskedIsOpen(n) /\ Named(n) /\ WaitsWhole(n) /\ UsedIsOwn(n) /\ PassesRightly(n)
    BY <1>1, <1>2, <2>4
    DEF JudgingNow, SeenIsLax, AskedIsOpen, Named, WaitsWhole, UsedIsOwn, PassesRightly
  <2>6. VerdictIsRed(n)
    BY <1>1, <1>2, <2>4 DEF VerdictIsRed
  <2>7. PolicyIsSet(n)
    BY <1>1, <1>2, <1>3, <1>5, <2>4, ZenonT(60) DEF PolicyIsSet, VerdictIsRed, failsClosed
  <2>8. QED
    BY <2>1, <2>3, <2>5, <2>6, <2>7, OneMoves DEF Sound
<1>6. QED
  BY <1>4, <1>5

\* A red command goes on without an approval only in a mode that lets it.
LEMMA RedGoesOnWhenLax ==
  ASSUME TypeOK, NEW r \in Sess, SeenIsLax(r, mode), r.pc = "action", Leads(riskAction("red")) = "pass"
  PROVE  r.seen # "strict"
  BY DEF TypeOK, Leads, riskAction, Modes, SeenIsLax, JudgingNow, laxity

LEMMA decideSteps ==
  ASSUME TypeOK, JudgeInv, NEW s \in Sessions, decide(s)
  PROVE  sess' \in [Sessions -> Sess] /\ JudgeInv'
<1> DEFINE r == sess[s]
           to == CASE ~r.whole -> forcedLeads(r)
                   [] r.whole /\ r.stops -> "refused"
                   [] r.whole /\ ~r.stops /\ r.verdict = "green" -> Leads(r.failure)
                   [] r.whole /\ ~r.stops /\ r.verdict # "green" ->
                        IF failsClosed(r) /\ r.failure = "ask" THEN "consume" ELSE Leads(riskAction(r.verdict))
<1>1. r \in Sess /\ r.pc = "action" /\ Sound(r, mode)
  BY SenderIsTyped DEF JudgeInv, decide, At
<1>2. /\ SeenIsLax(r, mode) /\ VerdictIsRed(r) /\ PolicyIsSet(r) /\ r.used = NotUsed
      /\ r.person \in Persons /\ r.text \in Texts
  BY <1>1 DEF Sound, UsedIsOwn, Named
<1>3. r.whole \in BOOLEAN /\ r.stops \in BOOLEAN
  BY <1>1 DEF Sess
<1>4. to \in {"pass", "consume", "refused"} /\ (to = "consume" => r.whole)
  <2>1. CASE ~r.whole
    BY <2>1 DEF forcedLeads
  <2>2. CASE r.whole /\ r.stops
    BY <2>2
  <2>3. CASE r.whole /\ ~r.stops /\ r.verdict = "green"
    BY <2>3 DEF Leads
  <2>4. CASE r.whole /\ ~r.stops /\ r.verdict # "green"
    BY <2>4 DEF Leads
  <2>5. QED
    BY <1>3, <2>1, <2>2, <2>3, <2>4
<1>5. ASSUME to = "pass" PROVE (r.ext = "failed" => r.seen = "live") /\ (Red(r) => r.seen # "strict")
  <2>1. CASE ~r.whole
    <3>1. riskAction("red") \notin {"ask", "block"} /\ ~r.stops /\ ~(failsClosed(r) /\ r.failure = "ask")
      BY <1>5, <2>1 DEF forcedLeads
    <3>2. Leads(riskAction("red")) = "pass"
      BY <3>1 DEF Leads
    <3>3. r.seen # "strict"
      BY <1>1, <1>2, <3>2, RedGoesOnWhenLax
    <3>4. r.ext = "failed" => r.failure \in {"log", "warn"}
      BY <1>1, <1>2, <3>1 DEF Sess, Modes, PolicyIsSet, VerdictIsRed, failsClosed
    <3>5. QED
      BY <1>1, <1>2, <3>3, <3>4 DEF PolicyIsSet
  <2>2. CASE r.whole /\ r.stops
    BY <1>5, <2>2
  <2>3. CASE r.whole /\ ~r.stops /\ r.verdict = "green"
    <3>1. r.ext = "failed" /\ ~Red(r)
      BY <1>1, <1>2, <2>3 DEF PolicyIsSet, VerdictIsRed, Red
    <3>2. r.failure \in {"log", "warn"}
      BY <1>1, <1>5, <2>3 DEF Leads, Sess, Modes
    <3>3. QED
      BY <1>1, <1>2, <3>1, <3>2 DEF PolicyIsSet
  <2>4. CASE r.whole /\ ~r.stops /\ r.verdict # "green"
    <3>1. ~(failsClosed(r) /\ r.failure = "ask") /\ Leads(riskAction(r.verdict)) = "pass"
      BY <1>5, <2>4
    <3>2. r.ext = "failed" => r.seen = "live"
      BY <1>1, <1>2, <2>4, <3>1 DEF Sess, Modes, PolicyIsSet, VerdictIsRed, failsClosed
    <3>3. Red(r) => r.verdict = "red"
      BY <1>1, <1>2, <2>4 DEF Red, VerdictIsRed
    <3>4. QED
      BY <1>1, <1>2, <3>1, <3>2, <3>3, RedGoesOnWhenLax
  <2>5. QED
    BY <1>3, <2>1, <2>2, <2>3, <2>4
<1>6. Becomes(s, Going(r, to)) /\ mode' = mode
  BY DEF decide, policy
<1>7. Going(r, to) \in Sess
  BY <1>1, <1>4, GoingIsTyped
<1>8. Sound(Going(r, to), mode)
  BY <1>1, <1>2, <1>4, <1>5, GoingIsSound
<1>9. QED
  BY <1>6, <1>7, <1>8, OneMoves

LEMMA endSessionSteps ==
  ASSUME TypeOK, JudgeInv, NEW s \in Sessions, endSession(s)
  PROVE  sess' \in [Sessions -> Sess] /\ JudgeInv'
<1>1. Becomes(s, Idle) /\ mode' = mode
  BY DEF endSession, policy
<1>2. QED
  BY <1>1, IdleIsSound, OneMoves

-----------------------------------------------------------------------------
(* Approvals. *)

\* Approvals expire and are forgotten; time goes on.
LEMMA ApprovalsShrink ==
  ASSUME BooksOK, ApprovalsInv, approvals' \subseteq approvals,
         now' \in 0..MaxTime, now' >= now, UNCHANGED <<issued, spent>>
  PROVE  BooksOK' /\ ApprovalsInv'
<1>1. BooksOK'
  BY DEF BooksOK
<1>2. ASSUME NEW a \in approvals' PROVE ApprovalSound(a)'
  BY <1>2, RiskAssumption DEF BooksOK, ApprovalsInv, ApprovalSound, Approval
<1>3. Fresh' \subseteq Fresh
  BY RiskAssumption DEF BooksOK, Approval, Fresh, Expired
<1>4. OneEntryPerHeldCommand'
  BY <1>3 DEF ApprovalsInv, OneEntryPerHeldCommand
<1>5. QED
  BY <1>1, <1>2, <1>4 DEF ApprovalsInv, ApprovalRunsOnce

\* The ids of approvals are their own: what an approval's change leaves has others.
LEMMA OthersKeepTheirIds ==
  ASSUME ApprovalsInv, NEW a \in approvals, NEW c \in approvals \ {a}
  PROVE  c.id # a.id
  BY DEF ApprovalsInv

LEMMA consumeRiskApprovalSteps ==
  ASSUME TypeOK, JudgeInv, BooksOK, ApprovalsInv, NEW s \in Sessions, consumeRiskApproval(s)
  PROVE  sess' \in [Sessions -> Sess] /\ JudgeInv' /\ BooksOK' /\ ApprovalsInv'
<1>1. /\ sess[s] \in Sess /\ sess[s].pc = "consume" /\ Sound(sess[s], mode) /\ mode' = mode
      /\ UNCHANGED <<now, issued>> /\ Fresh \subseteq approvals
  BY SenderIsTyped DEF JudgeInv, consumeRiskApproval, At, policy, Fresh
<1>2. sess[s].whole /\ sess[s].used = NotUsed /\ sess[s].person \in Persons /\ sess[s].text \in Texts
  BY <1>1 DEF Sound, WaitsWhole, UsedIsOwn, Named
<1>3. CASE approvals' = Fresh /\ Becomes(s, [sess[s] EXCEPT !.pc = "create"]) /\ UNCHANGED spent
  <2> DEFINE n == [sess[s] EXCEPT !.pc = "create"]
  <2>1. /\ n \in Sess /\ n.pc = "create" /\ n.whole = sess[s].whole /\ n.used = sess[s].used
        /\ n.person = sess[s].person /\ n.text = sess[s].text
    BY <1>1 DEF Sess
  <2>2. Sound(n, mode)
    BY <1>2, <2>1 DEF Sound, JudgingNow, SeenIsLax, AskedIsOpen, VerdictIsRed, PolicyIsSet,
                      Named, WaitsWhole, UsedIsOwn, PassesRightly
  <2>3. sess' \in [Sessions -> Sess] /\ JudgeInv'
    BY <1>1, <1>3, <2>1, <2>2, OneMoves
  <2>4. now' \in 0..MaxTime /\ now' >= now
    BY <1>1 DEF BooksOK
  <2>5. QED
    BY <1>1, <1>3, <2>3, <2>4, ApprovalsShrink
<1>4. CASE \E a \in Fresh :
             /\ matches(a, sess[s])
             /\ approvals' = Fresh \ {a}
             /\ spent' = [spent EXCEPT ![a.id] = @ + 1]
             /\ Becomes(s, [sess[s] EXCEPT !.pc = "pass", !.used = [id |-> a.id, text |-> a.text, by |-> a.by]])
  <2>1. PICK a \in Fresh :
             /\ matches(a, sess[s])
             /\ approvals' = Fresh \ {a}
             /\ spent' = [spent EXCEPT ![a.id] = @ + 1]
             /\ Becomes(s, [sess[s] EXCEPT !.pc = "pass", !.used = [id |-> a.id, text |-> a.text, by |-> a.by]])
    BY <1>4
  <2> DEFINE u == [id |-> a.id, text |-> a.text, by |-> a.by]
             n == [sess[s] EXCEPT !.pc = "pass", !.used = u]
  <2>2. /\ a \in approvals /\ a \in Approval /\ ApprovalSound(a)
        /\ a.id \in Ids /\ a.text \in Texts /\ a.by \in Persons \cup {NoOne}
    BY <1>1, <2>1 DEF BooksOK, ApprovalsInv, Approval
  <2>3. a.by = sess[s].person /\ a.text = sess[s].text
    BY <2>1, <2>2 DEF matches, ApprovalSound
  <2>4. u \in [id : Ids \cup {0}, text : Texts \cup {NoOne}, by : Persons \cup {NoOne}] /\ u # NotUsed
    BY <2>2 DEF NotUsed, Ids
  <2>5. /\ n \in Sess /\ n.pc = "pass" /\ n.used = u /\ n.whole = sess[s].whole
        /\ n.person = sess[s].person /\ n.text = sess[s].text
    BY <1>1, <2>4, ZenonT(60) DEF Sess
  <2>6. Sound(n, mode)
    BY <1>2, <2>3, <2>4, <2>5
    DEF Sound, JudgingNow, SeenIsLax, AskedIsOpen, VerdictIsRed, PolicyIsSet,
        Named, WaitsWhole, UsedIsOwn, PassesRightly
  <2>7. sess' \in [Sessions -> Sess] /\ JudgeInv'
    BY <1>1, <2>1, <2>5, <2>6, OneMoves
  <2>8. /\ spent \in [Ids -> Nat] /\ spent' \in [Ids -> Nat] /\ spent[a.id] = 0
        /\ \A i \in Ids : spent'[i] = IF i = a.id THEN spent[i] + 1 ELSE spent[i]
    BY <2>1, <2>2 DEF BooksOK, ApprovalSound
  <2>9. BooksOK'
    BY <1>1, <2>1, <2>8 DEF BooksOK
  <2>10. ASSUME NEW c \in approvals' PROVE ApprovalSound(c)'
    <3>1. c \in approvals \ {a} /\ c.id \in Ids
      BY <1>1, <2>1, <2>10 DEF BooksOK, Approval
    <3>2. c.id # a.id
      BY <2>2, <3>1, OthersKeepTheirIds
    <3>3. QED
      BY <1>1, <2>8, <3>1, <3>2 DEF ApprovalsInv, ApprovalSound
  <2>11. ApprovalRunsOnce'
    BY <2>8 DEF ApprovalsInv, ApprovalRunsOnce
  <2>12. \A i \in Ids : i > issued' => spent'[i] = 0
    BY <1>1, <2>2, <2>8 DEF ApprovalsInv, ApprovalSound, BooksOK, Ids
  <2>13. OneEntryPerHeldCommand'
    BY <1>1, <2>1 DEF ApprovalsInv, OneEntryPerHeldCommand, Fresh, Expired
  <2>14. \A c, d \in approvals' : c.id = d.id => c = d
    BY <1>1, <2>1 DEF ApprovalsInv
  <2>15. QED
    BY <2>7, <2>9, <2>10, <2>11, <2>12, <2>13, <2>14 DEF ApprovalsInv
<1>5. QED
  BY <1>3, <1>4 DEF consumeRiskApproval

\* An approval is replaced by one with its id that is sound, and alone of its
\* command if it is held.
LEMMA OneApprovalChanges ==
  ASSUME BooksOK, ApprovalsInv, NEW a \in approvals, NEW b \in Approval, b.id = a.id,
         ApprovalSound(b), approvals' = (approvals \ {a}) \cup {b}, UNCHANGED <<now, issued, spent>>,
         \A c \in Fresh : c # a /\ c.by = NoOne /\ c.person = b.person /\ c.text = b.text => b.by # NoOne
  PROVE  BooksOK' /\ ApprovalsInv'
<1>1. BooksOK'
  BY DEF BooksOK
<1>2. ASSUME NEW c \in approvals' PROVE ApprovalSound(c)'
  BY <1>2 DEF ApprovalsInv, ApprovalSound
<1>3. \A c, d \in approvals' : c.id = d.id => c = d
  BY OthersKeepTheirIds DEF ApprovalsInv
<1>4. Fresh' \subseteq (Fresh \ {a}) \cup {b}
  BY DEF Fresh, Expired
<1>5. ASSUME NEW c \in Fresh', NEW d \in Fresh', c.by = NoOne, d.by = NoOne,
             c.person = d.person, c.text = d.text
      PROVE  c = d
  <2>1. CASE c = b
    BY <1>4, <1>5, <2>1
  <2>2. CASE d = b
    BY <1>4, <1>5, <2>2
  <2>3. CASE c # b /\ d # b
    BY <1>4, <1>5, <2>3 DEF ApprovalsInv, OneEntryPerHeldCommand
  <2>4. QED
    BY <2>1, <2>2, <2>3
<1>6. OneEntryPerHeldCommand'
  BY <1>5 DEF OneEntryPerHeldCommand
<1>7. QED
  BY <1>1, <1>2, <1>3, <1>6 DEF ApprovalsInv, ApprovalRunsOnce

LEMMA createRiskApprovalSteps ==
  ASSUME TypeOK, JudgeInv, BooksOK, ApprovalsInv, NEW s \in Sessions, createRiskApproval(s)
  PROVE  sess' \in [Sessions -> Sess] /\ JudgeInv' /\ BooksOK' /\ ApprovalsInv'
<1>1. /\ sess[s] \in Sess /\ sess[s].pc = "create" /\ Named(sess[s]) /\ mode' = mode /\ Becomes(s, Idle)
      /\ UNCHANGED <<now, spent>>
  BY SenderIsTyped DEF JudgeInv, Sound, createRiskApproval, At, policy
<1>2. sess' \in [Sessions -> Sess] /\ JudgeInv'
  BY <1>1, IdleIsSound, OneMoves
<1>3. CASE \E a \in held(sess[s]) :
             approvals' = (approvals \ {a}) \cup {[a EXCEPT !.expires = now + TTL]} /\ UNCHANGED issued
  <2>1. PICK a \in held(sess[s]) :
             approvals' = (approvals \ {a}) \cup {[a EXCEPT !.expires = now + TTL]} /\ UNCHANGED issued
    BY <1>3
  <2> DEFINE b == [a EXCEPT !.expires = now + TTL]
  <2>2. a \in Fresh /\ a \in approvals /\ a \in Approval /\ ApprovalSound(a) /\ a.by = NoOne
    BY <2>1 DEF held, Fresh, BooksOK, ApprovalsInv
  <2>3. now + TTL \in Nat
    BY RiskAssumption DEF BooksOK
  <2>4. /\ b \in Approval /\ b.id = a.id /\ b.person = a.person /\ b.text = a.text
        /\ b.by = NoOne /\ b.expires = now + TTL
    BY <2>2, <2>3 DEF Approval
  <2>5. ApprovalSound(b)
    BY <2>2, <2>3, <2>4 DEF ApprovalSound
  <2>6. \A c \in Fresh : ~(c # a /\ c.by = NoOne /\ c.person = b.person /\ c.text = b.text)
    BY <2>2, <2>4 DEF ApprovalsInv, OneEntryPerHeldCommand
  <2>7. BooksOK' /\ ApprovalsInv'
    BY <1>1, <2>1, <2>2, <2>4, <2>5, <2>6, OneApprovalChanges
  <2>8. QED
    BY <1>2, <2>7
<1>4. CASE /\ held(sess[s]) = {} /\ issued < MaxIds /\ issued' = issued + 1
           /\ approvals' = approvals \cup {[id |-> issued + 1, person |-> sess[s].person, text |-> sess[s].text,
                                            expires |-> now + TTL, by |-> NoOne, at |-> 0]}
  <2> DEFINE b == [id |-> issued + 1, person |-> sess[s].person, text |-> sess[s].text,
                   expires |-> now + TTL, by |-> NoOne, at |-> 0]
  <2>1. sess[s].person \in Persons /\ sess[s].text \in Texts
    BY <1>1 DEF Named
  <2>2. issued' \in 0..MaxIds /\ issued + 1 \in Ids /\ now + TTL \in Nat /\ 0 \in 0..MaxTime
    BY <1>4, RiskAssumption DEF BooksOK, Ids
  <2>3. b \in Approval
    BY <2>1, <2>2 DEF Approval
  <2>4. BooksOK'
    BY <1>1, <1>4, <2>2, <2>3 DEF BooksOK
  <2>5. \A a \in approvals : a.id \in Ids /\ a.id <= issued
    BY DEF BooksOK, ApprovalsInv, ApprovalSound, Approval
  <2>6. spent[issued + 1] = 0
    BY <2>2 DEF ApprovalsInv, BooksOK
  <2>7. ASSUME NEW c \in approvals' PROVE ApprovalSound(c)'
    <3>1. CASE c = b
      BY <1>1, <1>4, <2>2, <2>6, <3>1 DEF ApprovalSound
    <3>2. CASE c # b
      BY <1>1, <1>4, <2>5, <2>7, <3>2 DEF ApprovalSound, ApprovalsInv, BooksOK, Ids
    <3>3. QED
      BY <3>1, <3>2
  <2>8. \A c, d \in approvals' : c.id = d.id => c = d
    BY <1>4, <2>5 DEF ApprovalsInv, BooksOK, Ids
  <2>9. \A i \in Ids : i > issued' => spent'[i] = 0
    BY <1>1, <1>4 DEF ApprovalsInv, BooksOK, Ids
  <2>10. Fresh' \subseteq Fresh \cup {b}
    BY <1>1, <1>4 DEF Fresh, Expired
  <2>11. \A c \in Fresh : ~(c.by = NoOne /\ c.person = b.person /\ c.text = b.text)
    BY <1>4 DEF held
  <2>12. OneEntryPerHeldCommand'
    BY <2>10, <2>11 DEF ApprovalsInv, OneEntryPerHeldCommand
  <2>13. QED
    BY <1>1, <1>2, <2>4, <2>7, <2>8, <2>9, <2>12 DEF ApprovalsInv, ApprovalRunsOnce
<1>5. QED
  BY <1>3, <1>4 DEF createRiskApproval

LEMMA cmdRiskApproveSteps ==
  ASSUME BooksOK, ApprovalsInv, NEW p \in Persons, NEW a \in approvals, cmdRiskApprove(p, a)
  PROVE  BooksOK' /\ ApprovalsInv'
<1>1. /\ UNCHANGED <<now, issued, spent>> /\ approvals' = approveRiskApproval(p, a)
      /\ a \in Approval /\ ApprovalSound(a) /\ now' \in 0..MaxTime /\ now' >= now
  BY DEF cmdRiskApprove, BooksOK, ApprovalsInv
<1>2. CASE approvals' \subseteq approvals
  BY <1>1, <1>2, ApprovalsShrink
<1>3. CASE now < a.expires /\ mayApprove(p, a) /\ a.by = NoOne
  <2> DEFINE b == [a EXCEPT !.by = p, !.at = now]
  <2>1. approvals' = (approvals \ {a}) \cup {b}
    BY <1>1, <1>3 DEF approveRiskApproval, BooksOK, Approval
  <2>2. /\ b \in Approval /\ b.id = a.id /\ b.by = p /\ b.at = now /\ b.expires = a.expires
        /\ b.person = a.person
    BY <1>1 DEF Approval, BooksOK
  <2>3. p # NoOne /\ a.person = p
    BY <1>3, RiskAssumption DEF mayApprove
  <2>4. ApprovalSound(b)
    BY <1>1, <2>2, <2>3 DEF ApprovalSound
  <2>5. QED
    BY <1>1, <2>1, <2>2, <2>3, <2>4, OneApprovalChanges
<1>4. QED
  BY <1>1, <1>2, <1>3 DEF approveRiskApproval, BooksOK, Approval

LEMMA cmdRiskDenySteps ==
  ASSUME BooksOK, ApprovalsInv, NEW p \in Persons, NEW a \in approvals, cmdRiskDeny(p, a)
  PROVE  BooksOK' /\ ApprovalsInv'
<1>1. /\ UNCHANGED <<now, issued, spent>> /\ approvals' \subseteq approvals
      /\ now' \in 0..MaxTime /\ now' >= now
  BY DEF cmdRiskDeny, denyRiskApproval, BooksOK
<1>2. QED
  BY <1>1, ApprovalsShrink

-----------------------------------------------------------------------------
(* Administrators, the clock, the process. *)

\* Who is being judged sees the new mode; of the others nothing depends on it.
LEMMA cmdRiskModeSteps ==
  ASSUME TypeOK, JudgeInv, NEW m \in Modes, cmdRiskMode(m)
  PROVE  sess' \in [Sessions -> Sess] /\ JudgeInv'
<1>1. ASSUME NEW s \in Sessions PROVE sess'[s] \in Sess /\ Sound(sess'[s], mode')
  <2>1. sess[s] \in Sess /\ Sound(sess[s], mode) /\ mode' = Live(m)
    BY SenderIsTyped DEF JudgeInv, cmdRiskMode
  <2>2. CASE ~Judging(s)
    <3>1. sess'[s] = sess[s] /\ ~JudgingNow(sess[s])
      BY <2>2 DEF cmdRiskMode, Judging, JudgingNow
    <3>2. QED
      BY <2>1, <3>1 DEF Sound, SeenIsLax
  <2>3. CASE Judging(s)
    <3> DEFINE n == [sess[s] EXCEPT !.seen = laxest(@, laxity(Live(m)))]
    <3>1. sess'[s] = n
      BY <2>3 DEF cmdRiskMode
    <3>2. laxest(sess[s].seen, laxity(Live(m))) \in {"strict", "lax", "live"}
      BY DEF laxest
    <3>3. /\ n \in Sess /\ n.seen = laxest(sess[s].seen, laxity(Live(m)))
          /\ n.pc = sess[s].pc /\ n.person = sess[s].person /\ n.text = sess[s].text /\ n.whole = sess[s].whole
          /\ n.source = sess[s].source /\ n.ext = sess[s].ext /\ n.verdict = sess[s].verdict
          /\ n.failure = sess[s].failure /\ n.stops = sess[s].stops /\ n.used = sess[s].used
      BY <2>1, <3>2 DEF Sess
    <3>4. sess[s].pc # "pass"
      BY <2>3 DEF Judging
    <3>5. SeenIsLax(n, mode') /\ (sess[s].seen = "live" => n.seen = "live")
      BY <2>1, <3>3 DEF SeenIsLax, laxest
    <3>6. AskedIsOpen(n) /\ VerdictIsRed(n)
      BY <2>1, <3>3 DEF Sound, AskedIsOpen, VerdictIsRed
    <3>7. PolicyIsSet(n)
      BY <2>1, <3>3, <3>5 DEF Sound, PolicyIsSet
    <3>8. Named(n) /\ WaitsWhole(n) /\ UsedIsOwn(n) /\ PassesRightly(n)
      BY <2>1, <3>3, <3>4 DEF Sound, Named, WaitsWhole, UsedIsOwn, PassesRightly
    <3>9. QED
      BY <3>1, <3>3, <3>5, <3>6, <3>7, <3>8 DEF Sound
  <2>4. QED
    BY <2>2, <2>3
<1>2. sess' = [s \in Sessions |-> sess'[s]]
  BY DEF cmdRiskMode
<1>3. QED
  BY <1>1, <1>2 DEF JudgeInv

LEMMA RestartSteps ==
  ASSUME TypeOK, ApprovalsInv, Restart
  PROVE  TypeOK' /\ JudgeInv' /\ ApprovalsInv'
<1>1. mode' \in [mode : Modes, source : {"live", "config"}] /\ source' \in Sources
  BY RiskAssumption DEF TypeOK, Restart, loadRiskMode, loadRiskSource
<1>2. TypeOK'
  BY <1>1, IdleIsSound DEF TypeOK, Restart
<1>3. JudgeInv'
  BY IdleIsSound DEF JudgeInv, Restart
<1>4. QED
  BY <1>2, <1>3 DEF Restart, ApprovalsInv, ApprovalRunsOnce, OneEntryPerHeldCommand, Fresh, Expired

-----------------------------------------------------------------------------
(* The invariant. *)

PolicyOK == /\ mode \in [mode : Modes, source : {"live", "config"}] /\ source \in Sources
            /\ switches \in 0..MaxSwitches

LEMMA TypeInParts == TypeOK <=> PolicyOK /\ BooksOK /\ sess \in [Sessions -> Sess]
  BY DEF TypeOK, PolicyOK, BooksOK

LEMMA InitIsSound == Init => RiskInv
<1>1. SUFFICES ASSUME Init PROVE RiskInv
  OBVIOUS
<1>2. TypeOK
  BY <1>1, RiskAssumption, IdleIsSound DEF Init, TypeOK, Ids
<1>3. JudgeInv
  BY <1>1, IdleIsSound DEF Init, JudgeInv
<1>4. ApprovalsInv
  BY <1>1 DEF Init, ApprovalsInv, ApprovalRunsOnce, OneEntryPerHeldCommand, Fresh, Expired
<1>5. QED
  BY <1>2, <1>3, <1>4 DEF RiskInv

\* What a step that is a session's own leaves alone.
SessionsAlone == UNCHANGED <<policy, approvals, now, issued, spent>>

LEMMA SessionsAloneKeep ==
  ASSUME RiskInv, SessionsAlone, sess' \in [Sessions -> Sess] /\ JudgeInv'
  PROVE  RiskInv'
<1>1. PolicyOK' /\ BooksOK'
  BY TypeInParts DEF RiskInv, SessionsAlone, policy, PolicyOK, BooksOK
<1>2. ApprovalsInv'
  BY DEF RiskInv, SessionsAlone, ApprovalsInv, ApprovalSound, ApprovalRunsOnce, OneEntryPerHeldCommand,
         Fresh, Expired
<1>3. TypeOK'
  BY <1>1 DEF TypeOK, PolicyOK, BooksOK
<1>4. QED
  BY <1>2, <1>3 DEF RiskInv

\* What a step on the approvals leaves alone.
LEMMA ApprovalsAloneKeep ==
  ASSUME RiskInv, UNCHANGED <<policy, sess>>, BooksOK' /\ ApprovalsInv'
  PROVE  RiskInv'
<1>1. TypeOK'
  BY DEF RiskInv, TypeOK, BooksOK, policy
<1>2. JudgeInv'
  BY DEF RiskInv, JudgeInv, policy
<1>3. QED
  BY <1>1, <1>2 DEF RiskInv

LEMMA StepIsSound == RiskInv /\ [Next]_vars => RiskInv'
<1>1. SUFFICES ASSUME RiskInv, [Next]_vars PROVE RiskInv'
  OBVIOUS
<1>2. TypeOK /\ JudgeInv /\ ApprovalsInv /\ BooksOK
  BY <1>1, TypeInParts DEF RiskInv
<1>3. ASSUME Tick PROVE RiskInv'
  <2>1. now' \in 0..MaxTime /\ now' >= now
    BY <1>2, <1>3, RiskAssumption DEF Tick, BooksOK
  <2>2. BooksOK' /\ ApprovalsInv'
    BY <1>2, <1>3, <2>1, ApprovalsShrink DEF Tick
  <2>3. QED
    BY <1>1, <1>3, <2>2, ApprovalsAloneKeep DEF Tick
<1>4. ASSUME Restart PROVE RiskInv'
  BY <1>2, <1>4, RestartSteps DEF RiskInv
<1>5. ASSUME cmdRiskPending PROVE RiskInv'
  <2>1. /\ now' \in 0..MaxTime /\ now' >= now /\ approvals' \subseteq approvals /\ UNCHANGED <<issued, spent>>
    BY <1>2, <1>5 DEF cmdRiskPending, pendingRiskApprovals, Fresh, BooksOK
  <2>2. BooksOK' /\ ApprovalsInv'
    BY <1>2, <2>1, ApprovalsShrink
  <2>3. QED
    BY <1>1, <1>5, <2>2, ApprovalsAloneKeep DEF cmdRiskPending
<1>6. ASSUME NEW m \in Modes, cmdRiskMode(m) PROVE RiskInv'
  <2>1. sess' \in [Sessions -> Sess] /\ JudgeInv'
    BY <1>2, <1>6, cmdRiskModeSteps
  <2>2. PolicyOK'
    BY <1>2, <1>6, TypeInParts, RiskAssumption DEF cmdRiskMode, PolicyOK, Live
  <2>3. BooksOK'
    BY <1>2, <1>6 DEF cmdRiskMode, BooksOK
  <2>4. ApprovalsInv'
    BY <1>2, <1>6 DEF cmdRiskMode, ApprovalsInv, ApprovalSound, ApprovalRunsOnce, OneEntryPerHeldCommand,
                      Fresh, Expired
  <2>5. QED
    BY <2>1, <2>2, <2>3, <2>4 DEF RiskInv, TypeOK, PolicyOK, BooksOK
<1>7. ASSUME NEW c \in Sources, cmdRiskSource(c) PROVE RiskInv'
  <2>1. PolicyOK' /\ BooksOK' /\ sess' = sess /\ mode' = mode
    BY <1>2, <1>7, TypeInParts, RiskAssumption DEF cmdRiskSource, PolicyOK, BooksOK
  <2>2. ApprovalsInv'
    BY <1>2, <1>7 DEF cmdRiskSource, ApprovalsInv, ApprovalSound, ApprovalRunsOnce, OneEntryPerHeldCommand,
                      Fresh, Expired
  <2>3. JudgeInv'
    BY <1>2, <2>1 DEF JudgeInv
  <2>4. QED
    BY <1>2, <2>1, <2>2, <2>3 DEF RiskInv, TypeOK, PolicyOK, BooksOK
<1>8. ASSUME NEW p \in Persons, NEW a \in approvals, cmdRiskApprove(p, a) PROVE RiskInv'
  BY <1>1, <1>2, <1>8, cmdRiskApproveSteps, ApprovalsAloneKeep DEF cmdRiskApprove
<1>9. ASSUME NEW p \in Persons, NEW a \in approvals, cmdRiskDeny(p, a) PROVE RiskInv'
  BY <1>1, <1>2, <1>9, cmdRiskDenySteps, ApprovalsAloneKeep DEF cmdRiskDeny
<1>10. ASSUME NEW s \in Sessions, NEW p \in Senders, NEW t \in Texts, NEW w \in BOOLEAN, Begin(s, p, t, w)
       PROVE  RiskInv'
  BY <1>1, <1>2, <1>10, BeginSteps, SessionsAloneKeep DEF Begin, SessionsAlone
<1>11. ASSUME NEW s \in Sessions, NEW e \in Levels \cup {"failed"}, classifyWithExternal(s, e)
       PROVE  RiskInv'
  BY <1>1, <1>2, <1>11, classifyWithExternalSteps, SessionsAloneKeep, ZenonT(60) DEF classifyWithExternal, SessionsAlone
<1>12. ASSUME NEW s \in Sessions, classifyExec(s) PROVE RiskInv'
  BY <1>1, <1>2, <1>12, classifyExecSteps, SessionsAloneKeep DEF classifyExec, SessionsAlone
<1>13. ASSUME NEW s \in Sessions, judgeRisk(s) PROVE RiskInv'
  BY <1>1, <1>2, <1>13, judgeRiskSteps, SessionsAloneKeep DEF judgeRisk, SessionsAlone
<1>14. ASSUME NEW s \in Sessions, decide(s) PROVE RiskInv'
  BY <1>1, <1>2, <1>14, decideSteps, SessionsAloneKeep DEF decide, SessionsAlone
<1>15. ASSUME NEW s \in Sessions, endSession(s) PROVE RiskInv'
  BY <1>1, <1>2, <1>15, endSessionSteps, SessionsAloneKeep DEF endSession, SessionsAlone
<1>16. ASSUME NEW s \in Sessions, consumeRiskApproval(s) \/ createRiskApproval(s) PROVE RiskInv'
  <2>1. sess' \in [Sessions -> Sess] /\ JudgeInv' /\ BooksOK' /\ ApprovalsInv'
    BY <1>2, <1>16, consumeRiskApprovalSteps, createRiskApprovalSteps
  <2>2. PolicyOK'
    BY <1>2, <1>16, TypeInParts DEF consumeRiskApproval, createRiskApproval, policy, PolicyOK
  <2>3. QED
    BY <2>1, <2>2 DEF RiskInv, TypeOK, PolicyOK, BooksOK
<1>17. ASSUME UNCHANGED vars PROVE RiskInv'
  <2>1. SessionsAlone /\ sess' = sess /\ mode' = mode
    BY <1>17 DEF vars, SessionsAlone, policy
  <2>2. sess' \in [Sessions -> Sess] /\ JudgeInv'
    BY <1>2, <2>1 DEF TypeOK, JudgeInv
  <2>3. QED
    BY <1>1, <2>1, <2>2, SessionsAloneKeep
<1>18. QED
  BY <1>1, <1>3, <1>4, <1>5, <1>6, <1>7, <1>8, <1>9, <1>10, <1>11, <1>12, <1>13, <1>14, <1>15, <1>16, <1>17
  DEF Next

\* The invariant of the barrier, whoever asks, approves, switches and restarts.
THEOREM RiskInvariant == Spec => []RiskInv
  BY InitIsSound, StepIsSound, PTL DEF Spec

\* An approval lets one command through, the one that was held for the person
\* who sent it, in its time (risk_approval.go consumeRiskApproval).
THEOREM ApprovalsAreExact == Spec => []ApprovalIsExact
  BY RiskInvariant, RiskInvSuffices, PTL

\* No unjudged and no red command passes but by a person's approval or a mode
\* that lets it (risk_judge.go judgeRisk).
THEOREM TheBarrierHolds == Spec => []BarrierHolds
  BY RiskInvariant, RiskInvSuffices, PTL

-----------------------------------------------------------------------------
(* One exec session: what goes where, and what the recording has of it.     *)

LineKinds == {"in", "out", "err", "exit"}
Count(s, k) == Cardinality({i \in DOMAIN s : s[i] = k})
HasExit(s) == \E i \in DOMAIN s : s[i] = "exit"
OutputFirst(s) == \A i, j \in DOMAIN s : s[i] = "exit" /\ i < j => s[j] \notin {"out", "err"}

Transcript == [status : {"none", "open", "completed", "aborted", "unread"}, lines : Seq(LineKinds), stdinLost : BOOLEAN]
Pump == [pc : {"idle", "inRead", "done"}, buf : Nat, stopped : BOOLEAN]
Client == [left : Nat, end : BOOLEAN, gone : BOOLEAN, early : BOOLEAN]
Seen == [out : Nat, err : Nat, exit : BOOLEAN, refused : BOOLEAN]
Command == [out : Nat, err : Nat, outQ : Nat, errQ : Nat, exit : {"none", "queued", "taken"}, eof : BOOLEAN, closed : BOOLEAN]

ExecTypes ==
  /\ rec \in Transcript /\ pump \in Pump /\ person \in Client /\ shown \in Seen /\ machine \in Command
  /\ preview \in BOOLEAN /\ revoked \in BOOLEAN /\ taken \in Nat /\ sent \in Nat /\ faults \in Nat
  /\ main \in {"script", "judged", "refused", "refusedLate", "late", "bridge", "grace", "join", "ended"}
  /\ h2t \in {"off", "copy", "done"} /\ t2h \in {"off", "copy", "hold", "done", "failed"}
  /\ stderr \in {"off", "copy", "hold", "done"} /\ bridge \in {"off", "run", "draining", "clean", "error"}
  /\ human \in {"open", "eof", "closed"} /\ event \in {"none", "stop", "drop"}

Before == {"script", "judged"}
Refusing == {"refused", "refusedLate", "late"}
Busy == {"copy", "hold"}

\* Where everyone is, and in what state the recording is there.
PlacesFit ==
  /\ main \in Before => rec.status = "none" /\ rec.lines = <<>> /\ ~rec.stdinLost /\ (human = "open" \/ revoked)
  /\ main \in Refusing => rec.status = "open"
  /\ shown.refused => bridge = "off" /\ main \in {"late", "ended"}
  /\ main = "late" => shown.refused
  /\ bridge = "off" => h2t = "off" /\ t2h = "off" /\ stderr = "off" /\ main \in Before \cup Refusing \cup {"ended"}
  /\ bridge \in {"run", "draining"} => main = "bridge"
  /\ bridge # "off" => main \in {"bridge", "grace", "join", "ended"}
  /\ main = "bridge" => bridge \in {"run", "draining"}
  /\ main = "grace" => bridge = "clean"
  /\ main = "join" => bridge # "off"
  /\ bridge \in {"run", "draining", "clean"} /\ main # "ended" => rec.status = "open"
  /\ bridge \in {"clean", "error"} => h2t # "copy" /\ t2h \notin Busy
  /\ bridge = "clean" => t2h = "done"
  /\ bridge = "error" => rec.status # "open"
  /\ main = "ended" => rec.status # "open" /\ stderr \notin Busy
  /\ event = "stop" => main = "ended" /\ bridge = "clean" /\ stderr = "done"

\* The reader of a script, and when it can take no more.
PumpFits ==
  /\ ~preview => pump.pc = "done" /\ pump.buf = 0
  /\ preview /\ (main \in Refusing \/ shown.refused) => pump.stopped
  /\ main = "refused" => pump.pc # "inRead" /\ pump.buf = 0
  /\ shown.refused /\ main = "ended" /\ rec.status \in {"completed", "aborted"} => pump.pc # "inRead"

\* Every chunk of stdin is in the recording, in the buffer, or with the machine.
StdinFits ==
  /\ bridge = "off" => sent = 0
  /\ main \in Before => taken = pump.buf
  /\ main \in Refusing /\ ~rec.stdinLost => Count(rec.lines, "in") + pump.buf = taken
  /\ shown.refused /\ main = "ended" /\ rec.status \in {"completed", "aborted"} /\ ~rec.stdinLost =>
       Count(rec.lines, "in") = taken
  /\ bridge # "off" /\ rec.status \in {"open", "completed"} /\ ~rec.stdinLost => Count(rec.lines, "in") = sent
  /\ rec.status = "completed" => ~rec.stdinLost /\ (shown.refused \/ bridge = "clean")

\* A chunk of output that a copy holds is recorded and not shown.
Held(at) == IF at = "hold" THEN 1 ELSE 0
OutputFits ==
  /\ shown.out + Held(t2h) <= Count(rec.lines, "out") /\ shown.err + Held(stderr) <= Count(rec.lines, "err")
  /\ HasExit(rec.lines) => t2h \notin Busy /\ stderr \notin Busy /\ main \notin Before \cup Refusing
  /\ OutputFirst(rec.lines)

\* A session in which nothing failed, that was not revoked and whose person stayed.
Unbroken == faults = 0 /\ ~revoked /\ ~person.early /\ bridge \in {"run", "clean"}
AllPasses ==
  /\ person.early => person.gone
  /\ person.gone /\ ~person.early => human = "closed"
  /\ faults = 0 => ~rec.stdinLost
  /\ Unbroken =>
       /\ human # "open" => t2h = "done"
       /\ t2h # "failed"
       /\ t2h = "done" => stderr = "done" /\ machine.outQ = 0
       /\ stderr = "done" => machine.errQ = 0 /\ machine.eof
       /\ shown.out + Held(t2h) = Count(rec.lines, "out") /\ shown.err + Held(stderr) = Count(rec.lines, "err")

ExecInv == ExecTypes /\ PlacesFit /\ PumpFits /\ StdinFits /\ OutputFits /\ AllPasses

\* Bytes of a kind behind what is there.
Grows(s, t, k, n) ==
  /\ t \in Seq(LineKinds) /\ \A j \in LineKinds : Count(t, j) = Count(s, j) + (IF j = k THEN n ELSE 0)
  /\ HasExit(t) => HasExit(s) \/ k = "exit"
  /\ OutputFirst(s) /\ (HasExit(s) => k \notin {"out", "err"}) => OutputFirst(t)

LEMMA CountIsNat == \A s \in Seq(LineKinds), k \in LineKinds : Count(s, k) \in Nat
<1> SUFFICES ASSUME NEW s \in Seq(LineKinds), NEW k \in LineKinds PROVE Count(s, k) \in Nat
  OBVIOUS
<1>1. DOMAIN s = 1..Len(s) /\ Len(s) \in Nat
  OBVIOUS
<1>2. IsFiniteSet(1..Len(s))
  BY <1>1, FS_Interval
<1>3. IsFiniteSet({i \in DOMAIN s : s[i] = k})
  BY <1>1, <1>2, FS_Subset
<1>4. QED
  BY <1>3, FS_CardinalityType DEF Count

LEMMA EmptyLines == (\A k \in LineKinds : Count(<<>>, k) = 0) /\ ~HasExit(<<>>) /\ OutputFirst(<<>>)
<1>1. DOMAIN <<>> = {}
  OBVIOUS
<1>2. QED
  BY <1>1, FS_EmptySet DEF Count, HasExit, OutputFirst

LEMMA LongerGrows ==
  ASSUME NEW s \in Seq(LineKinds), NEW k \in LineKinds, NEW n \in Nat, NEW t \in Seq(LineKinds), Len(t) = Len(s) + n,
         \A i \in 1..Len(s) : t[i] = s[i], \A i \in (Len(s) + 1)..(Len(s) + n) : t[i] = k
  PROVE  Grows(s, t, k, n)
<1>1. Len(s) \in Nat /\ DOMAIN s = 1..Len(s) /\ DOMAIN t = 1..(Len(s) + n)
  OBVIOUS
<1>2. ASSUME NEW j \in LineKinds PROVE Count(t, j) = Count(s, j) + (IF j = k THEN n ELSE 0)
  <2> DEFINE S == {i \in DOMAIN s : s[i] = j}
             E == (Len(s) + 1)..(Len(s) + n)
             T == {i \in DOMAIN t : t[i] = j}
  <2>1. IsFiniteSet(S)
    <3>1. IsFiniteSet(1..Len(s))
      BY <1>1, FS_Interval
    <3>2. QED
      BY <1>1, <3>1, FS_Subset
  <2>2. IsFiniteSet(E) /\ Cardinality(E) = n /\ S \cap E = {}
    <3> DEFINE a == Len(s) + 1
               b == Len(s) + n
    <3>1. a \in Int /\ b \in Int /\ a + n = b + 1 /\ b - a + 1 = n /\ (a > b => n = 0)
      BY <1>1
    <3> HIDE DEF a, b
    <3>2. IsFiniteSet(a..b) /\ Cardinality(a..b) = IF a > b THEN 0 ELSE b - a + 1
      BY <3>1, FS_Interval
    <3>3. IsFiniteSet(E) /\ Cardinality(E) = n
      BY <3>1, <3>2 DEF a, b
    <3>4. S \cap E = {}
      BY <1>1
    <3>5. QED
      BY <3>3, <3>4
  <2>3. CASE j = k
    <3>1. T = S \cup E
      BY <1>1, <2>3
    <3>2. Cardinality(S) \in Nat /\ Cardinality(S \cup E) = Cardinality(S) + Cardinality(E) - Cardinality(S \cap E)
      BY <2>1, <2>2, FS_Union, FS_CardinalityType
    <3>3. Cardinality(S \cap E) = 0
      BY <2>2, FS_EmptySet
    <3> HIDE DEF S, E, T
    <3>4. Cardinality(T) = Cardinality(S) + n
      BY <2>2, <3>1, <3>2, <3>3
    <3>5. QED
      BY <2>3, <3>4 DEF Count, S, T
  <2>4. CASE j # k
    <3>1. T = S
      BY <1>1, <2>4
    <3>2. Count(t, j) = Count(s, j) /\ Count(s, j) \in Nat
      BY <3>1, CountIsNat DEF Count
    <3>3. QED
      BY <2>4, <3>2
  <2>5. QED
    BY <2>3, <2>4
<1>3. \A i \in DOMAIN t : (i \in DOMAIN s /\ t[i] = s[i]) \/ (i > Len(s) /\ t[i] = k)
  <2> SUFFICES ASSUME NEW i \in 1..(Len(s) + n) PROVE (i \in DOMAIN s /\ t[i] = s[i]) \/ (i > Len(s) /\ t[i] = k)
    BY <1>1
  <2>1. i \in 1..Len(s) \/ (i > Len(s) /\ i \in (Len(s) + 1)..(Len(s) + n))
    BY <1>1
  <2>2. QED
    BY <1>1, <2>1
<1>4. HasExit(t) => HasExit(s) \/ k = "exit"
  BY <1>3 DEF HasExit
<1>5. ASSUME OutputFirst(s), HasExit(s) => k \notin {"out", "err"} PROVE OutputFirst(t)
  <2> SUFFICES ASSUME NEW i \in DOMAIN t, NEW j \in DOMAIN t, t[i] = "exit", i < j PROVE t[j] \notin {"out", "err"}
    BY DEF OutputFirst
  <2>1. CASE j \in DOMAIN s /\ t[j] = s[j]
    <3>1. i \in DOMAIN s /\ t[i] = s[i]
      BY <1>1, <1>3, <2>1
    <3>2. QED
      BY <1>5, <2>1, <3>1 DEF OutputFirst
  <2>2. CASE j > Len(s) /\ t[j] = k
    BY <1>3, <1>5, <2>2 DEF HasExit
  <2>3. QED
    BY <1>3, <2>1, <2>2
<1>6. QED
  BY <1>2, <1>4, <1>5 DEF Grows

LEMMA OneGrows ==
  ASSUME NEW s \in Seq(LineKinds), NEW k \in LineKinds
  PROVE  Grows(s, s \o <<k>>, k, 1) /\ Grows(s, Append(s, k), k, 1)
<1> DEFINE t == Append(s, k)
<1>1. t \in Seq(LineKinds) /\ Len(t) = Len(s) + 1 /\ (\A i \in 1..Len(s) : t[i] = s[i]) /\ t[Len(s) + 1] = k /\ s \o <<k>> = t
  OBVIOUS
<1>2. \A i \in (Len(s) + 1)..(Len(s) + 1) : i = Len(s) + 1
  OBVIOUS
<1> HIDE DEF t
<1>3. Grows(s, t, k, 1)
  BY <1>1, <1>2, LongerGrows
<1>4. QED
  BY <1>1, <1>3 DEF t

LEMMA StdinGrows ==
  ASSUME NEW s \in Seq(LineKinds), NEW n \in Nat
  PROVE  Grows(s, s \o Stdin(n), "in", n)
<1> DEFINE w == Stdin(n)
           t == s \o w
<1>1. w \in Seq(LineKinds) /\ Len(w) = n /\ \A i \in 1..n : w[i] = "in"
  BY DEF Stdin, LineKinds
<1> HIDE DEF w
<1>2. /\ t \in Seq(LineKinds) /\ Len(t) = Len(s) + n
      /\ \A i \in 1..(Len(s) + n) : t[i] = IF i <= Len(s) THEN s[i] ELSE w[i - Len(s)]
  BY <1>1, ConcatProperties
<1>3. (\A i \in 1..Len(s) : t[i] = s[i]) /\ \A i \in (Len(s) + 1)..(Len(s) + n) : t[i] = "in"
  <2>1. Len(s) \in Nat
    OBVIOUS
  <2>2. \A i \in 1..Len(s) : t[i] = s[i]
    BY <1>2, <2>1
  <2>3. ASSUME NEW i \in (Len(s) + 1)..(Len(s) + n) PROVE t[i] = "in"
    <3>1. i \in 1..(Len(s) + n) /\ ~(i <= Len(s)) /\ i - Len(s) \in 1..n
      BY <2>1
    <3>2. QED
      BY <1>1, <1>2, <3>1
  <2>4. QED
    BY <2>2, <2>3
<1> HIDE DEF t
<1>4. Grows(s, t, "in", n)
  BY <1>2, <1>3, LongerGrows DEF LineKinds
<1>5. QED
  BY <1>4 DEF t, w

\* What AddBytesIn leaves, a[1], with the faults counted by then, a[2].
Took(r, n, q, f) ==
  /\ q \in Transcript /\ q.status = r.status /\ f \in Nat /\ f >= faults /\ (r.stdinLost => q.stdinLost)
  /\ f = 0 => q.stdinLost = r.stdinLost
  /\ r.status = "open" /\ ~q.stdinLost => Count(q.lines, "in") = Count(r.lines, "in") + n
  /\ Count(q.lines, "out") = Count(r.lines, "out") /\ Count(q.lines, "err") = Count(r.lines, "err")
  /\ HasExit(q.lines) => HasExit(r.lines)
  /\ OutputFirst(r.lines) => OutputFirst(q.lines)

LEMMA BytesTaken ==
  ASSUME faults \in Nat, NEW r \in Transcript, NEW n \in Nat, NEW a \in AddBytesIn(r, n)
  PROVE  Took(r, n, a[1], a[2])
<1>1. r.lines \in Seq(LineKinds) /\ Count(r.lines, "out") \in Nat /\ Count(r.lines, "err") \in Nat /\ Count(r.lines, "in") \in Nat
  BY CountIsNat DEF Transcript, LineKinds
<1>2. CASE r.status # "open"
  <2>1. a[1] = r /\ a[2] = faults
    BY <1>2 DEF AddBytesIn
  <2>2. QED
    BY <1>2, <2>1 DEF Took
<1>3. CASE a = <<[r EXCEPT !.lines = @ \o Stdin(n)], faults>>
  <2> DEFINE t == r.lines \o Stdin(n)
  <2>1. Grows(r.lines, t, "in", n)
    BY <1>1, StdinGrows
  <2> HIDE DEF t
  <2>2. a[1] = [r EXCEPT !.lines = t] /\ a[2] = faults
    BY <1>3 DEF t
  <2>3. a[1] \in Transcript /\ a[1].status = r.status /\ a[1].lines = t /\ a[1].stdinLost = r.stdinLost
    BY <2>1, <2>2 DEF Transcript, Grows
  <2>4. /\ Count(t, "in") = Count(r.lines, "in") + n /\ Count(t, "out") = Count(r.lines, "out")
        /\ Count(t, "err") = Count(r.lines, "err") /\ (HasExit(t) => HasExit(r.lines))
        /\ (OutputFirst(r.lines) => OutputFirst(t))
    BY <1>1, <2>1 DEF Grows, LineKinds
  <2>5. QED
    BY <2>2, <2>3, <2>4 DEF Took
<1>4. CASE r.status = "open" /\ a # <<[r EXCEPT !.lines = @ \o Stdin(n)], faults>>
  <2>1. a[1] = stdinFailed(r) /\ a[2] = faults + 1
    BY <1>4 DEF AddBytesIn
  <2>2. a[1] \in Transcript /\ a[1].status = r.status /\ a[1].lines = r.lines /\ a[1].stdinLost = TRUE
    BY <2>1 DEF stdinFailed, Transcript
  <2>3. QED
    BY <2>1, <2>2 DEF Took
<1>5. QED
  BY <1>2, <1>3, <1>4

\* finalize, of an open recording and of a closed one.
LEMMA FinalizedIs ==
  ASSUME NEW r \in Transcript, NEW st \in {"completed", "aborted", "unread"}, NEW q, q = Finalized(r, st)
  PROVE  /\ q \in Transcript /\ q.lines = r.lines /\ q.stdinLost = r.stdinLost /\ q.status # "open"
         /\ r.status # "open" => q = r
         /\ r.status = "open" => q.status = IF r.stdinLost /\ st = "completed" THEN "aborted" ELSE st
  BY DEF Finalized, Transcript

-----------------------------------------------------------------------------
(* The steps of the person and of the machine, and those of the session.    *)

LEMMA LinesCount == ASSUME ExecInv PROVE \A k \in LineKinds : Count(rec.lines, k) \in Nat
  BY CountIsNat DEF ExecInv, ExecTypes, Transcript

\* A revoked session's person is told and the channel closed.
LEMMA EndRevokedKeeps == ASSUME ExecInv, endRevokedSession PROVE ExecInv'
<1>1. /\ UNCHANGED <<main, preview, pump, h2t, t2h, stderr, bridge, rec, person, shown, machine, taken, sent, lost, revoked, event, faults>>
      /\ revoked /\ human' = "closed"
  BY DEF endRevokedSession, goroutines
<1>3. ExecTypes'
  BY <1>1 DEF ExecInv, ExecTypes
<1>4. PlacesFit'
  BY <1>1 DEF ExecInv, ExecTypes, PlacesFit, Before, Refusing, Busy
<1>5. PumpFits'
  BY <1>1 DEF ExecInv, ExecTypes, PlacesFit, Pump, PumpFits, Before, Refusing, Busy
<1>6. StdinFits'
  BY <1>1 DEF ExecInv, ExecTypes, PlacesFit, PumpFits, Transcript, Pump, StdinFits, Before, Refusing, Busy
<1>7. OutputFits'
  BY <1>1 DEF ExecInv, ExecTypes, PlacesFit, OutputFits, Before, Refusing, Busy, Held
<1>8. AllPasses'
  BY <1>1 DEF ExecInv, ExecTypes, PlacesFit, Client, AllPasses, Unbroken
<1>9. QED
  BY <1>3, <1>4, <1>5, <1>6, <1>7, <1>8 DEF ExecInv

\* What the person and the machine do, and a revocation, on their own side only.
LEMMA EnvironmentKeeps == ASSUME ExecInv, Environment, ~endRevokedSession PROVE ExecInv'
<1>1. /\ UNCHANGED <<main, preview, pump, h2t, t2h, stderr, bridge, rec, human, shown, taken, sent, event, faults>>
      /\ revoked' = revoked \/ revoked' = TRUE
      /\ person' = person \/ person' = [person EXCEPT !.end = TRUE, !.left = 0]
         \/ (~person.gone /\ person' = [person EXCEPT !.end = TRUE, !.gone = TRUE, !.early = human # "closed"])
      /\ machine' = machine \/ machine' = [machine EXCEPT !.exit = "queued"]
         \/ machine' = [machine EXCEPT !.eof = TRUE, !.out = 0, !.err = 0]
         \/ machine' = [machine EXCEPT !.eof = TRUE, !.closed = TRUE, !.out = 0, !.err = 0]
         \/ (~machine.eof /\ machine.out > 0 /\ machine' = [machine EXCEPT !.out = @ - 1, !.outQ = @ + 1])
         \/ (~machine.eof /\ machine.err > 0 /\ machine' = [machine EXCEPT !.err = @ - 1, !.errQ = @ + 1])
  BY ZenonT(60) DEF Environment, PersonEnds, PersonCloses, revoke, revokeNoticeTimeout, MachinePrints, MachineExits, MachineEOF, MachineCloses, MachineLost, Runs, goroutines
<1>20. person \in Client /\ machine \in Command
  BY DEF ExecInv, ExecTypes
<1>10. person' \in Client
  <2>1. (human # "closed") \in BOOLEAN
    OBVIOUS
  <2>5. CASE person' = person
    BY <1>20, <2>5
  <2>2. CASE person' = [person EXCEPT !.end = TRUE, !.left = 0]
    BY <1>20, <2>2 DEF Client
  <2>3. CASE person' = [person EXCEPT !.end = TRUE, !.gone = TRUE, !.early = human # "closed"]
    <3> DEFINE b == human # "closed"
    <3>1. b \in BOOLEAN /\ person' = [person EXCEPT !.end = TRUE, !.gone = TRUE, !.early = b]
      BY <2>3
    <3> HIDE DEF b
    <3>2. QED
      BY <1>20, <3>1 DEF Client
  <2>4. QED
    BY <1>1, <2>2, <2>3, <2>5
<1>11. machine' \in Command
  <2>7. CASE machine' = machine
    BY <1>20, <2>7
  <2>1. CASE machine' = [machine EXCEPT !.exit = "queued"]
    BY <1>20, <2>1 DEF Command
  <2>2. CASE machine' = [machine EXCEPT !.eof = TRUE, !.out = 0, !.err = 0]
    BY <1>20, <2>2 DEF Command
  <2>3. CASE machine' = [machine EXCEPT !.eof = TRUE, !.closed = TRUE, !.out = 0, !.err = 0]
    BY <1>20, <2>3 DEF Command
  <2>4. CASE machine.out > 0 /\ machine' = [machine EXCEPT !.out = @ - 1, !.outQ = @ + 1]
    <3> DEFINE x == machine.out - 1
               y == machine.outQ + 1
    <3>1. x \in Nat /\ y \in Nat /\ machine' = [machine EXCEPT !.out = x, !.outQ = y]
      BY <1>20, <2>4 DEF Command
    <3> HIDE DEF x, y
    <3>2. QED
      BY <1>20, <3>1 DEF Command
  <2>5. CASE machine.err > 0 /\ machine' = [machine EXCEPT !.err = @ - 1, !.errQ = @ + 1]
    <3> DEFINE x == machine.err - 1
               y == machine.errQ + 1
    <3>1. x \in Nat /\ y \in Nat /\ machine' = [machine EXCEPT !.err = x, !.errQ = y]
      BY <1>20, <2>5 DEF Command
    <3> HIDE DEF x, y
    <3>2. QED
      BY <1>20, <3>1 DEF Command
  <2>6. QED
    BY <1>1, <2>1, <2>2, <2>3, <2>4, <2>5, <2>7
<1>12. \/ person'.gone = person.gone /\ person'.early = person.early
       \/ ~person.gone /\ person'.gone /\ (person'.early <=> human # "closed")
  BY <1>1 DEF ExecInv, ExecTypes, Client
<1>13. machine.eof => machine'.eof /\ machine'.outQ = machine.outQ /\ machine'.errQ = machine.errQ
  BY <1>1 DEF ExecInv, ExecTypes, Command
<1>2. /\ person' \in Client /\ machine' \in Command
      /\ \/ person'.gone = person.gone /\ person'.early = person.early
         \/ ~person.gone /\ person'.gone /\ (person'.early <=> human # "closed")
      /\ machine.eof => machine'.eof /\ machine'.outQ = machine.outQ /\ machine'.errQ = machine.errQ
  BY <1>10, <1>11, <1>12, <1>13
<1>14. revoked' \in BOOLEAN
  BY <1>1, Zenon DEF ExecInv, ExecTypes
<1>3. ExecTypes'
  BY <1>1, <1>2, <1>14 DEF ExecInv, ExecTypes
<1>4. PlacesFit'
  BY <1>1 DEF ExecInv, ExecTypes, PlacesFit, Before, Refusing, Busy
<1>5. PumpFits'
  BY <1>1 DEF ExecInv, ExecTypes, PlacesFit, Pump, PumpFits, Before, Refusing, Busy
<1>6. StdinFits'
  BY <1>1 DEF ExecInv, ExecTypes, PlacesFit, PumpFits, Transcript, Pump, StdinFits, Before, Refusing, Busy
<1>7. OutputFits'
  BY <1>1 DEF ExecInv, ExecTypes, PlacesFit, OutputFits, Before, Refusing, Busy, Held
<1>8. AllPasses'
  BY <1>1, <1>2, <1>14, SMTT(30) DEF ExecInv, ExecTypes, PlacesFit, OutputFits, Transcript, Client, Seen, Command, Before, Refusing, Busy, AllPasses, Unbroken, Held
<1>9. QED
  BY <1>3, <1>4, <1>5, <1>6, <1>7, <1>8 DEF ExecInv

LEMMA PumpReadsKeeps == ASSUME ExecInv, pumpReads PROVE ExecInv'
<1>1. /\ UNCHANGED <<main, preview, h2t, t2h, stderr, mreqs, closer, bridge, rec, person, human, shown, machine, target, taken, sent, lost, revoked, event, faults>>
      /\ pump.pc = "idle" /\ pump' = [pump EXCEPT !.pc = IF pump.stopped THEN "done" ELSE "inRead"]
  BY DEF pumpReads
<1>2. /\ pump' \in Pump /\ pump'.buf = pump.buf /\ pump'.stopped = pump.stopped
      /\ (pump.stopped => pump'.pc = "done")
  BY <1>1 DEF ExecInv, ExecTypes, Pump
<1>3. ExecTypes'
  BY <1>1, <1>2 DEF ExecInv, ExecTypes
<1>4. PlacesFit'
  BY <1>1 DEF ExecInv, ExecTypes, PlacesFit, Before, Refusing, Busy
<1>5. PumpFits'
  BY <1>1, <1>2 DEF ExecInv, ExecTypes, PlacesFit, Pump, PumpFits, Before, Refusing, Busy
<1>6. StdinFits'
  BY <1>1, <1>2 DEF ExecInv, ExecTypes, PlacesFit, PumpFits, Transcript, Pump, StdinFits, Before, Refusing, Busy
<1>7. OutputFits'
  BY <1>1 DEF ExecInv, ExecTypes, PlacesFit, OutputFits, Before, Refusing, Busy, Held
<1>8. AllPasses'
  BY <1>1 DEF ExecInv, ExecTypes, PlacesFit, OutputFits, Transcript, Client, Seen, Command, Before, Refusing, Busy, AllPasses, Unbroken, Held
<1>9. QED
  BY <1>3, <1>4, <1>5, <1>6, <1>7, <1>8 DEF ExecInv

LEMMA PumpAppendsKeeps == ASSUME ExecInv, pumpAppends PROVE ExecInv'
<1>1. /\ UNCHANGED <<main, preview, h2t, t2h, stderr, mreqs, closer, bridge, rec, human, shown, machine, target, sent, lost, revoked, event, faults>>
      /\ pump.pc = "inRead"
      /\ \/ /\ taken' = taken + 1 /\ person.left > 0 /\ person' = [person EXCEPT !.left = @ - 1]
            /\ pump' = [pump EXCEPT !.pc = "idle", !.buf = @ + 1]
         \/ UNCHANGED <<taken, person>> /\ pump' = [pump EXCEPT !.pc = "done"]
  BY DEF pumpAppends
<1>2. /\ pump' \in Pump /\ person' \in Client /\ taken' \in Nat /\ pump'.pc # "inRead" /\ pump'.stopped = pump.stopped
      /\ person'.gone = person.gone /\ person'.early = person.early
      /\ \/ taken' = taken + 1 /\ pump'.buf = pump.buf + 1 /\ pump'.pc = "idle"
         \/ taken' = taken /\ pump'.buf = pump.buf /\ pump'.pc = "done"
  <2>1. CASE person' = person /\ taken' = taken /\ pump' = [pump EXCEPT !.pc = "done"]
    BY <2>1 DEF ExecInv, ExecTypes, Pump
  <2>2. CASE taken' = taken + 1 /\ person.left > 0 /\ person' = [person EXCEPT !.left = @ - 1] /\ pump' = [pump EXCEPT !.pc = "idle", !.buf = @ + 1]
    <3>3. pump \in Pump /\ pump.buf + 1 \in Nat
      BY DEF ExecInv, ExecTypes, Pump
    <3>1. pump' \in Pump /\ pump'.pc # "inRead" /\ pump'.stopped = pump.stopped /\ pump'.buf = pump.buf + 1 /\ pump'.pc = "idle"
      BY <2>2, <3>3 DEF Pump
    <3>2. person' \in Client /\ person'.gone = person.gone /\ person'.early = person.early /\ taken' \in Nat
      BY <2>2 DEF ExecInv, ExecTypes, Client
    <3>4. QED
      BY <2>2, <3>1, <3>2
  <2>3. QED
    BY <1>1, <2>1, <2>2
<1>13. rec' = rec /\ main' = main /\ bridge' = bridge /\ sent' = sent /\ shown' = shown /\ pump.pc = "inRead"
  BY <1>1
<1>14. Count(rec.lines, "in") \in Nat /\ taken \in Nat /\ pump.buf \in Nat
  BY LinesCount DEF LineKinds, ExecInv, ExecTypes, Pump
<1>3. ExecTypes'
  BY <1>1, <1>2 DEF ExecInv, ExecTypes
<1>4. PlacesFit'
  BY <1>1 DEF ExecInv, ExecTypes, PlacesFit, Before, Refusing, Busy
<1>5. PumpFits'
  BY <1>1, <1>2 DEF ExecInv, ExecTypes, PlacesFit, Pump, PumpFits, Before, Refusing, Busy
<1>6. StdinFits'
  BY <1>2, <1>13, <1>14 DEF ExecInv, StdinFits, PumpFits, Refusing, Before
<1>7. OutputFits'
  BY <1>1 DEF ExecInv, ExecTypes, PlacesFit, OutputFits, Before, Refusing, Busy, Held
<1>8. AllPasses'
  BY <1>1, <1>2 DEF ExecInv, ExecTypes, PlacesFit, OutputFits, Transcript, Client, Seen, Command, Before, Refusing, Busy, AllPasses, Unbroken, Held
<1>9. QED
  BY <1>3, <1>4, <1>5, <1>6, <1>7, <1>8 DEF ExecInv

LEMMA ReadScriptKeeps == ASSUME ExecInv, readScript PROVE ExecInv'
<1>1. /\ UNCHANGED <<preview, pump, h2t, t2h, stderr, mreqs, closer, bridge, rec, person, human, shown, machine, target, taken, sent, lost, revoked, event, faults>>
      /\ main = "script" /\ main' = "judged"
  BY DEF readScript, goroutines
<1>3. ExecTypes'
  BY <1>1 DEF ExecInv, ExecTypes
<1>4. PlacesFit'
  BY <1>1 DEF ExecInv, ExecTypes, PlacesFit, Before, Refusing, Busy
<1>5. PumpFits'
  BY <1>1 DEF ExecInv, ExecTypes, PlacesFit, Pump, PumpFits, Before, Refusing, Busy
<1>6. StdinFits'
  BY <1>1 DEF ExecInv, ExecTypes, PlacesFit, PumpFits, Transcript, Pump, StdinFits, Before, Refusing, Busy
<1>7. OutputFits'
  BY <1>1 DEF ExecInv, ExecTypes, PlacesFit, OutputFits, Before, Refusing, Busy, Held
<1>8. AllPasses'
  BY <1>1 DEF ExecInv, ExecTypes, PlacesFit, OutputFits, Transcript, Client, Seen, Command, Before, Refusing, Busy, AllPasses, Unbroken, Held
<1>9. QED
  BY <1>3, <1>4, <1>5, <1>6, <1>7, <1>8 DEF ExecInv

LEMMA NewRecordingFailsKeeps == ASSUME ExecInv, newRecordingFails PROVE ExecInv'
<1>1. /\ UNCHANGED <<preview, h2t, t2h, stderr, mreqs, closer, bridge, rec, person, shown, machine, target, taken, sent, lost, revoked>>
      /\ main = "judged" /\ main' = "ended" /\ event' = "drop" /\ human' = "closed"
      /\ pump' = [pump EXCEPT !.stopped = TRUE] /\ faults' = faults + 1
  BY DEF newRecordingFails, Fault, Ends, Drops
<1>2. pump' \in Pump /\ pump'.buf = pump.buf /\ pump'.pc = pump.pc /\ pump'.stopped
  BY <1>1 DEF ExecInv, ExecTypes, Pump
<1>3. ExecTypes'
  BY <1>1, <1>2 DEF ExecInv, ExecTypes
<1>4. PlacesFit'
  BY <1>1 DEF ExecInv, ExecTypes, PlacesFit, Before, Refusing, Busy
<1>5. PumpFits'
  BY <1>1, <1>2 DEF ExecInv, ExecTypes, PlacesFit, Pump, PumpFits, Before, Refusing, Busy
<1>6. StdinFits'
  BY <1>1, <1>2 DEF ExecInv, ExecTypes, PlacesFit, PumpFits, Transcript, Pump, StdinFits, Before, Refusing, Busy
<1>7. OutputFits'
  BY <1>1 DEF ExecInv, ExecTypes, PlacesFit, OutputFits, Before, Refusing, Busy, Held
<1>8. AllPasses'
  BY <1>1 DEF ExecInv, ExecTypes, PlacesFit, OutputFits, Transcript, Client, Seen, Command, Before, Refusing, Busy, AllPasses, Unbroken, Held
<1>9. QED
  BY <1>3, <1>4, <1>5, <1>6, <1>7, <1>8 DEF ExecInv

\* A refused command, and what was read ahead of it.
LEMMA RefuseKeeps == ASSUME ExecInv, refuse PROVE ExecInv'
<1>1. /\ UNCHANGED <<preview, h2t, t2h, stderr, mreqs, closer, bridge, person, human, shown, machine, target, taken, sent, lost, revoked, event>>
      /\ main = "judged" /\ main' = IF pump.pc = "inRead" THEN "refusedLate" ELSE "refused"
      /\ pump' = IF preview THEN seal ELSE pump
      /\ \E a \in AddBytesIn(Opened, pump.buf) : rec' = a[1] /\ faults' = a[2]
  BY DEF refuse
<1>2. /\ Opened \in Transcript /\ Opened.status = "open" /\ Opened.lines = <<>> /\ Opened.stdinLost = FALSE /\ pump.buf \in Nat
      /\ pump' \in Pump /\ pump'.buf = 0 /\ pump'.pc = pump.pc /\ (preview => pump'.stopped) /\ (~preview => pump = pump')
  BY <1>1 DEF ExecInv, ExecTypes, PlacesFit, PumpFits, Before, Opened, Transcript, Pump, seal
<1>10. PICK a \in AddBytesIn(Opened, pump.buf) : rec' = a[1] /\ faults' = a[2]
  BY <1>1
<1>11. faults \in Nat /\ Took(Opened, pump.buf, rec', faults')
  BY <1>2, <1>10, BytesTaken DEF ExecInv, ExecTypes
<1>12. /\ rec' \in Transcript /\ rec'.status = "open" /\ faults' \in Nat /\ (faults' = 0 => ~rec'.stdinLost)
       /\ ~rec'.stdinLost => Count(rec'.lines, "in") = pump.buf
       /\ Count(rec'.lines, "out") = 0 /\ Count(rec'.lines, "err") = 0 /\ ~HasExit(rec'.lines) /\ OutputFirst(rec'.lines)
  BY <1>2, <1>11, EmptyLines DEF Took, LineKinds
<1>3. ExecTypes'
  BY <1>1, <1>2, <1>12 DEF ExecInv, ExecTypes
<1>4. PlacesFit'
  BY <1>1, <1>12 DEF ExecInv, ExecTypes, PlacesFit, Before, Refusing, Busy
<1>5. PumpFits'
  BY <1>1, <1>2, <1>12 DEF ExecInv, ExecTypes, PlacesFit, Pump, PumpFits, Before, Refusing, Busy
<1>6. StdinFits'
  BY <1>1, <1>2, <1>12 DEF ExecInv, ExecTypes, PlacesFit, PumpFits, Transcript, Pump, StdinFits, Before, Refusing, Busy
<1>7. OutputFits'
  BY <1>1, <1>12, EmptyLines DEF ExecInv, ExecTypes, PlacesFit, OutputFits, Before, Refusing, Busy, Held, Seen, LineKinds
<1>8. AllPasses'
  BY <1>1, <1>12 DEF ExecInv, ExecTypes, PlacesFit, OutputFits, Transcript, Client, Seen, Command, Before, Refusing, Busy, AllPasses, Unbroken, Held
<1>9. QED
  BY <1>3, <1>4, <1>5, <1>6, <1>7, <1>8 DEF ExecInv

LEMMA TellRefusedKeeps == ASSUME ExecInv, tellRefused PROVE ExecInv'
<1>1. /\ UNCHANGED <<preview, pump, h2t, t2h, stderr, mreqs, closer, bridge, person, machine, target, taken, sent, lost, revoked, faults>>
      /\ \/ main = "refused" /\ main' = "ended" /\ rec' = Finalized([rec EXCEPT !.lines = Append(@, "exit")], "completed")
         \/ main = "refusedLate" /\ main' = "late" /\ rec' = rec
      /\ event' = "drop" /\ human' = "closed" /\ shown' = [shown EXCEPT !.refused = TRUE]
  BY DEF tellRefused, Drops, goroutines
<1>2. shown' \in Seen /\ shown'.refused = TRUE /\ shown'.out = shown.out /\ shown'.err = shown.err
  BY <1>1 DEF ExecInv, ExecTypes, Seen
<1>10. CASE main = "refused"
  <2> DEFINE t == Append(rec.lines, "exit")
             r == [rec EXCEPT !.lines = t]
  <2>1. Grows(rec.lines, t, "exit", 1) /\ rec \in Transcript
    BY OneGrows DEF ExecInv, ExecTypes, Transcript, LineKinds
  <2> HIDE DEF t
  <2>2. r \in Transcript /\ r.status = rec.status /\ r.lines = t /\ r.stdinLost = rec.stdinLost
    BY <2>1 DEF Transcript, Grows
  <2> HIDE DEF r
  <2>3. rec' = Finalized(r, "completed") /\ main' = "ended"
    BY <1>1, <1>10 DEF r, t
  <2>4. /\ rec' \in Transcript /\ rec'.lines = t /\ rec'.stdinLost = rec.stdinLost
        /\ rec'.status = IF rec.stdinLost THEN "aborted" ELSE "completed"
    BY <1>10, <2>2, <2>3, FinalizedIs DEF ExecInv, PlacesFit, Refusing
  <2>5. /\ Count(rec'.lines, "in") = Count(rec.lines, "in") /\ Count(rec'.lines, "out") = Count(rec.lines, "out")
        /\ Count(rec'.lines, "err") = Count(rec.lines, "err") /\ OutputFirst(rec'.lines)
    BY <2>1, <2>4, LinesCount DEF Grows, LineKinds, ExecInv, OutputFits
  <2>6. ExecTypes'
    BY <1>1, <1>2, <2>4 DEF ExecInv, ExecTypes
  <2>7. PlacesFit' /\ PumpFits'
    BY <1>1, <1>2, <1>10, <2>3, <2>4 DEF ExecInv, ExecTypes, PlacesFit, PumpFits, Before, Refusing, Busy
  <2>8. StdinFits'
    BY <1>1, <1>2, <1>10, <2>3, <2>4, <2>5, LinesCount DEF ExecInv, ExecTypes, PlacesFit, PumpFits, StdinFits, Before, Refusing, LineKinds
  <2>9. OutputFits' /\ AllPasses'
    BY <1>1, <1>2, <1>10, <2>3, <2>4, <2>5 DEF ExecInv, ExecTypes, PlacesFit, OutputFits, AllPasses, Unbroken, Before, Refusing, Busy, Held
  <2>10. QED
    BY <2>6, <2>7, <2>8, <2>9 DEF ExecInv
<1>11. CASE main = "refusedLate"
  <2>1. rec' = rec /\ main' = "late"
    BY <1>1, <1>11
  <2>2. ExecTypes'
    BY <1>1, <1>2, <2>1 DEF ExecInv, ExecTypes
  <2>3. PlacesFit' /\ PumpFits'
    BY <1>1, <1>2, <1>11, <2>1 DEF ExecInv, ExecTypes, PlacesFit, PumpFits, Before, Refusing, Busy
  <2>4. StdinFits'
    BY <1>1, <1>2, <1>11, <2>1 DEF ExecInv, ExecTypes, PlacesFit, StdinFits, Before, Refusing
  <2>5. OutputFits' /\ AllPasses'
    BY <1>1, <1>2, <1>11, <2>1 DEF ExecInv, ExecTypes, PlacesFit, OutputFits, AllPasses, Unbroken, Before, Refusing, Busy, Held
  <2>6. QED
    BY <2>2, <2>3, <2>4, <2>5 DEF ExecInv
<1>12. QED
  BY <1>1, <1>10, <1>11

\* One line more in an open recording.
Grew(k) ==
  /\ rec.status = "open" /\ faults' = faults
  /\ rec' \in Transcript /\ rec'.status = rec.status /\ rec'.stdinLost = rec.stdinLost /\ Grows(rec.lines, rec'.lines, k, 1)

LEMMA WritesGrow == ASSUME ExecInv, NEW k \in LineKinds, Writes(<<k>>) PROVE Grew(k)
<1> DEFINE t == rec.lines \o <<k>>
<1>1. rec \in Transcript /\ rec.lines \in Seq(LineKinds)
  BY DEF ExecInv, ExecTypes, Transcript
<1>2. Grows(rec.lines, t, k, 1)
  BY <1>1, OneGrows
<1> HIDE DEF t
<1>3. rec.status = "open" /\ rec' = [rec EXCEPT !.lines = t] /\ faults' = faults
  BY DEF Writes, t
<1>4. rec' \in Transcript /\ rec'.status = rec.status /\ rec'.stdinLost = rec.stdinLost /\ rec'.lines = t
  BY <1>1, <1>2, <1>3 DEF Transcript, Grows
<1>5. QED
  BY <1>2, <1>3, <1>4 DEF Grew

\* What Fails says of the counter.
LEMMA FailsCounts == ASSUME ExecInv, Fails PROVE faults' \in Nat /\ (faults' = 0 => faults = 0) /\ (rec.status = "open" => faults' # 0)
  BY DEF ExecInv, ExecTypes, Fails, Fault

LEMMA LateStdinUnreadKeeps == ASSUME ExecInv, lateStdinUnread PROVE ExecInv'
<1>1. /\ UNCHANGED <<preview, pump, h2t, t2h, stderr, mreqs, closer, bridge, person, human, shown, machine, target, taken, sent, lost, revoked, event, faults>>
      /\ main = "late" /\ pump.pc # "done" /\ main' = "ended" /\ rec' = Finalized(rec, "unread")
  BY DEF lateStdinUnread, Ends, goroutines
<1>2. rec' \in Transcript /\ rec'.lines = rec.lines /\ rec'.stdinLost = rec.stdinLost /\ rec'.status = "unread"
  BY <1>1, FinalizedIs DEF ExecInv, ExecTypes, PlacesFit, Refusing
<1>3. ExecTypes'
  BY <1>1, <1>2 DEF ExecInv, ExecTypes
<1>4. PlacesFit'
  BY <1>1, <1>2 DEF ExecInv, ExecTypes, PlacesFit, Before, Refusing, Busy
<1>5. PumpFits'
  BY <1>1, <1>2 DEF ExecInv, ExecTypes, PlacesFit, Pump, PumpFits, Before, Refusing, Busy
<1>6. StdinFits'
  BY <1>1, <1>2 DEF ExecInv, ExecTypes, PlacesFit, PumpFits, Transcript, Pump, StdinFits, Before, Refusing, Busy
<1>7. OutputFits'
  BY <1>1, <1>2 DEF ExecInv, ExecTypes, PlacesFit, OutputFits, Before, Refusing, Busy, Held
<1>8. AllPasses'
  BY <1>1, <1>2 DEF ExecInv, ExecTypes, PlacesFit, OutputFits, Transcript, Client, Seen, Command, Before, Refusing, Busy, AllPasses, Unbroken, Held
<1>9. QED
  BY <1>3, <1>4, <1>5, <1>6, <1>7, <1>8 DEF ExecInv

\* Nothing is started: the recording is aborted.
LEMMA StartFailsKeeps == ASSUME ExecInv, startFails PROVE ExecInv'
<1>1. /\ UNCHANGED <<preview, h2t, t2h, stderr, mreqs, closer, bridge, person, shown, machine, target, taken, sent, lost, revoked, faults>>
      /\ \/ main = "judged" /\ rec' = Finalized(Opened, "aborted")
         \/ main \in {"refused", "refusedLate"} /\ rec' = Finalized(rec, "aborted")
      /\ main' = "ended" /\ event' = "drop" /\ human' = "closed" /\ pump' = [pump EXCEPT !.stopped = TRUE]
  BY DEF startFails, Ends, Drops
<1>2. pump' \in Pump /\ pump'.buf = pump.buf /\ pump'.pc = pump.pc /\ pump'.stopped
  BY <1>1 DEF ExecInv, ExecTypes, Pump
<1>10. rec' \in Transcript /\ rec'.lines = rec.lines /\ rec'.stdinLost = rec.stdinLost /\ rec'.status = "aborted"
  <2>1. CASE main = "judged"
    <3>1. /\ Opened \in Transcript /\ Opened.status = "open" /\ Opened.lines = rec.lines /\ Opened.stdinLost = rec.stdinLost
      BY DEF ExecInv, ExecTypes, Opened, Transcript
    <3>2. QED
      BY <1>1, <2>1, <3>1, FinalizedIs
  <2>2. CASE main \in {"refused", "refusedLate"}
    BY <1>1, <2>2, FinalizedIs DEF ExecInv, ExecTypes, PlacesFit, Refusing
  <2>3. QED
    BY <1>1, <2>1, <2>2
<1>3. ExecTypes'
  BY <1>1, <1>2, <1>10 DEF ExecInv, ExecTypes
<1>4. PlacesFit'
  BY <1>1, <1>10 DEF ExecInv, ExecTypes, PlacesFit, Before, Refusing, Busy
<1>5. PumpFits'
  BY <1>1, <1>2, <1>10 DEF ExecInv, ExecTypes, PlacesFit, Pump, PumpFits, Before, Refusing, Busy
<1>6. StdinFits'
  BY <1>1, <1>2, <1>10 DEF ExecInv, ExecTypes, PlacesFit, PumpFits, Transcript, Pump, StdinFits, Before, Refusing, Busy
<1>7. OutputFits'
  BY <1>1, <1>10 DEF ExecInv, ExecTypes, PlacesFit, OutputFits, Before, Refusing, Busy, Held
<1>8. AllPasses'
  BY <1>1, <1>10 DEF ExecInv, ExecTypes, PlacesFit, OutputFits, Transcript, Client, Seen, Command, Before, Refusing, Busy, AllPasses, Unbroken, Held
<1>9. QED
  BY <1>3, <1>4, <1>5, <1>6, <1>7, <1>8 DEF ExecInv

\* The session begins.
LEMMA StartKeeps == ASSUME ExecInv, start PROVE ExecInv'
<1>1. /\ UNCHANGED <<preview, pump, person, human, shown, machine, target, taken, sent, lost, revoked, event, faults>>
      /\ ~revoked /\ main = "judged" /\ main' = "bridge" /\ rec' = Opened /\ bridge' = "run"
      /\ h2t' = "copy" /\ t2h' = "copy" /\ stderr' = "copy"
  BY DEF start
<1>2. rec' \in Transcript /\ rec'.status = "open" /\ rec'.lines = <<>> /\ rec'.stdinLost = FALSE
  BY <1>1 DEF ExecInv, ExecTypes, PlacesFit, Before, Opened, Transcript
<1>10. bridge = "off" /\ sent = 0 /\ human = "open" /\ ~shown.refused /\ ~revoked
  BY <1>1 DEF ExecInv, PlacesFit, StdinFits, Before
<1>11. shown.out = 0 /\ shown.err = 0
  BY <1>1, EmptyLines DEF ExecInv, ExecTypes, PlacesFit, OutputFits, Before, Seen, Held, LineKinds
<1>3. ExecTypes'
  BY <1>1, <1>2 DEF ExecInv, ExecTypes
<1>4. PlacesFit'
  BY <1>1, <1>2, <1>10 DEF ExecInv, ExecTypes, PlacesFit, Before, Refusing, Busy
<1>5. PumpFits'
  BY <1>1, <1>2, <1>10 DEF ExecInv, ExecTypes, PlacesFit, Pump, PumpFits, Before, Refusing, Busy
<1>6. StdinFits'
  BY <1>1, <1>2, <1>10, EmptyLines DEF ExecInv, ExecTypes, PlacesFit, PumpFits, Transcript, Pump, StdinFits, Before, Refusing, Busy, LineKinds
<1>7. OutputFits'
  BY <1>1, <1>2, <1>11, EmptyLines DEF ExecInv, ExecTypes, PlacesFit, OutputFits, Before, Refusing, Busy, Held, LineKinds
<1>8. AllPasses'
  BY <1>1, <1>2, <1>10, <1>11, EmptyLines DEF ExecInv, ExecTypes, PlacesFit, OutputFits, Transcript, Client, Seen, Command, Before, Refusing, Busy, AllPasses, Unbroken, Held, LineKinds
<1>9. QED
  BY <1>3, <1>4, <1>5, <1>6, <1>7, <1>8 DEF ExecInv

\* The copy towards the machine.
LEMMA H2tEndsKeeps == ASSUME ExecInv, h2tEnds PROVE ExecInv'
<1>1. /\ UNCHANGED <<main, preview, pump, t2h, stderr, bridge, rec, person, human, shown, machine, taken, sent, revoked, event, faults>>
      /\ h2t = "copy" /\ h2t' = "done"
  BY DEF h2tEnds
<1>3. ExecTypes'
  BY <1>1 DEF ExecInv, ExecTypes
<1>4. PlacesFit'
  BY <1>1 DEF ExecInv, ExecTypes, PlacesFit, Before, Refusing, Busy
<1>5. PumpFits'
  BY <1>1 DEF ExecInv, ExecTypes, PlacesFit, Pump, PumpFits, Before, Refusing, Busy
<1>6. StdinFits'
  BY <1>1 DEF ExecInv, ExecTypes, PlacesFit, PumpFits, Transcript, Pump, StdinFits, Before, Refusing, Busy
<1>7. OutputFits'
  BY <1>1 DEF ExecInv, ExecTypes, PlacesFit, OutputFits, Before, Refusing, Busy, Held
<1>8. AllPasses'
  BY <1>1 DEF ExecInv, ExecTypes, PlacesFit, OutputFits, Transcript, Client, Seen, Command, Before, Refusing, Busy, AllPasses, Unbroken, Held
<1>9. QED
  BY <1>3, <1>4, <1>5, <1>6, <1>7, <1>8 DEF ExecInv

LEMMA H2tCopiesKeeps == ASSUME ExecInv, h2tCopies PROVE ExecInv'
<1>1. /\ UNCHANGED <<main, preview, t2h, stderr, bridge, human, shown, machine, revoked, event>>
      /\ h2t = "copy" /\ bridge # "off"
  BY DEF h2tCopies
<1>2. /\ pump' \in Pump /\ pump'.pc = pump.pc /\ pump'.stopped = pump.stopped /\ (~preview => pump' = pump)
      /\ person' \in Client /\ person'.gone = person.gone /\ person'.early = person.early /\ taken' \in Nat
  <2>1. CASE preview
    <3>1. pump.buf > 0 /\ pump' = Read /\ UNCHANGED <<taken, person>>
      BY <2>1 DEF h2tCopies
    <3>2. pump \in Pump /\ pump.buf - 1 \in Nat
      BY <3>1 DEF ExecInv, ExecTypes, Pump
    <3>3. pump' \in Pump /\ pump'.pc = pump.pc /\ pump'.stopped = pump.stopped
      BY <3>1, <3>2 DEF Read, Pump
    <3>4. QED
      BY <2>1, <3>1, <3>3 DEF ExecInv, ExecTypes
  <2>2. CASE ~preview
    <3>1. person.left > 0 /\ taken' = taken + 1 /\ person' = [person EXCEPT !.left = @ - 1] /\ pump' = pump
      BY <2>2 DEF h2tCopies
    <3>2. person \in Client /\ person.left - 1 \in Nat /\ taken \in Nat
      BY <3>1 DEF ExecInv, ExecTypes, Client
    <3>3. person' \in Client /\ person'.gone = person.gone /\ person'.early = person.early
      BY <3>1, <3>2 DEF Client
    <3>4. QED
      BY <3>1, <3>2, <3>3 DEF ExecInv, ExecTypes
  <2>3. QED
    BY <2>1, <2>2 DEF ExecInv, ExecTypes
<1>3. /\ main \notin Before \cup Refusing /\ ~shown.refused /\ rec.status # "completed"
      /\ rec.status = "completed" => shown.refused \/ bridge = "clean"
  BY <1>1 DEF ExecInv, PlacesFit, StdinFits, Before, Refusing, ExecTypes
<1>4. /\ rec' \in Transcript /\ rec'.status = rec.status /\ faults' \in Nat /\ sent' \in Nat /\ (faults' = 0 => faults = 0)
      /\ faults' = 0 => rec'.stdinLost = rec.stdinLost
      /\ rec.status = "open" /\ ~rec'.stdinLost /\ bridge # "off" => Count(rec'.lines, "in") = sent'
      /\ Count(rec'.lines, "out") = Count(rec.lines, "out") /\ Count(rec'.lines, "err") = Count(rec.lines, "err")
      /\ (HasExit(rec'.lines) => HasExit(rec.lines)) /\ OutputFirst(rec'.lines) /\ h2t' \in {"copy", "done"}
  <2>1. CASE target = "open" /\ ~machine.closed
    <3>1. sent' = sent + 1 /\ h2t' = h2t /\ \E a \in AddBytesIn(rec, 1) : rec' = a[1] /\ faults' = a[2]
      BY <2>1 DEF h2tCopies
    <3>2. PICK a \in AddBytesIn(rec, 1) : rec' = a[1] /\ faults' = a[2]
      BY <3>1
    <3>3. rec \in Transcript /\ faults \in Nat /\ sent \in Nat /\ 1 \in Nat
      BY DEF ExecInv, ExecTypes
    <3>4. Took(rec, 1, rec', faults')
      BY <3>2, <3>3, BytesTaken
    <3>5. Count(rec.lines, "in") \in Nat /\ OutputFirst(rec.lines)
      BY LinesCount DEF LineKinds, ExecInv, OutputFits
    <3>6. rec.status = "open" /\ ~rec.stdinLost => Count(rec.lines, "in") = sent
      BY <1>1 DEF ExecInv, StdinFits
    <3>7. (rec.stdinLost => rec'.stdinLost) /\ rec' \in Transcript /\ rec \in Transcript
      BY <3>3, <3>4 DEF Took
    <3>8. rec.status = "open" /\ ~rec'.stdinLost => Count(rec'.lines, "in") = sent'
      BY <3>1, <3>3, <3>4, <3>5, <3>6, <3>7 DEF Took
    <3>9. faults' \in Nat /\ (faults' = 0 => faults = 0) /\ sent' \in Nat
      BY <3>1, <3>3, <3>4 DEF Took
    <3>10. QED
      BY <1>1, <3>1, <3>4, <3>5, <3>8, <3>9 DEF Took
  <2>2. CASE ~(target = "open" /\ ~machine.closed)
    <3>1. UNCHANGED <<sent, rec, faults>> /\ h2t' = "done"
      BY <2>2 DEF h2tCopies
    <3>2. QED
      BY <1>1, <3>1 DEF ExecInv, ExecTypes, StdinFits, OutputFits
  <2>3. QED
    BY <2>1, <2>2
<1>5. ExecTypes'
  BY <1>1, <1>2, <1>4 DEF ExecInv, ExecTypes
<1>6. PlacesFit'
  BY <1>1, <1>3, <1>4 DEF ExecInv, PlacesFit, Before, Refusing, Busy
<1>7. PumpFits'
  BY <1>1, <1>2, <1>3 DEF ExecInv, PumpFits, Before, Refusing, h2tCopies
<1>8. StdinFits'
  BY <1>1, <1>3, <1>4 DEF ExecInv, StdinFits, Before, Refusing
<1>9. OutputFits'
  BY <1>1, <1>4 DEF ExecInv, OutputFits, Before, Refusing, Busy, Held
<1>10. AllPasses'
  BY <1>1, <1>2, <1>4 DEF ExecInv, AllPasses, Unbroken, Held
<1>11. QED
  BY <1>5, <1>6, <1>7, <1>8, <1>9, <1>10 DEF ExecInv

\* The end of the output.
LEMMA T2hEndsKeeps == ASSUME ExecInv, t2hEnds PROVE ExecInv'
<1>1. /\ UNCHANGED <<main, preview, pump, h2t, stderr, bridge, rec, person, shown, machine, taken, sent, revoked, event, faults>>
      /\ t2h = "copy" /\ t2h' = "done" /\ stderr = "done" /\ machine.outQ = 0 /\ CloseWrite
  BY DEF t2hEnds, drainedAfter
<1>3. ExecTypes'
  BY <1>1 DEF ExecInv, ExecTypes, CloseWrite
<1>4. PlacesFit'
  BY <1>1 DEF ExecInv, ExecTypes, PlacesFit, Before, Refusing, Busy, CloseWrite
<1>5. PumpFits'
  BY <1>1 DEF ExecInv, ExecTypes, PlacesFit, Pump, PumpFits, Before, Refusing, Busy, CloseWrite
<1>6. StdinFits'
  BY <1>1 DEF ExecInv, ExecTypes, PlacesFit, PumpFits, Transcript, Pump, StdinFits, Before, Refusing, Busy, CloseWrite
<1>7. OutputFits'
  BY <1>1 DEF ExecInv, ExecTypes, PlacesFit, OutputFits, Before, Refusing, Busy, Held, CloseWrite
<1>8. AllPasses'
  BY <1>1 DEF ExecInv, ExecTypes, PlacesFit, OutputFits, Transcript, Client, Seen, Command, Before, Refusing, Busy, AllPasses, Unbroken, Held, CloseWrite
<1>9. QED
  BY <1>3, <1>4, <1>5, <1>6, <1>7, <1>8 DEF ExecInv

LEMMA StderrEndsKeeps == ASSUME ExecInv, stderrEnds PROVE ExecInv'
<1>1. /\ UNCHANGED <<main, preview, pump, h2t, t2h, bridge, rec, person, human, shown, machine, taken, sent, revoked, event, faults>>
      /\ stderr = "copy" /\ stderr' = "done" /\ machine.errQ = 0 /\ machine.eof
  BY DEF stderrEnds
<1>3. ExecTypes'
  BY <1>1 DEF ExecInv, ExecTypes
<1>4. PlacesFit'
  BY <1>1 DEF ExecInv, ExecTypes, PlacesFit, Before, Refusing, Busy
<1>5. PumpFits'
  BY <1>1 DEF ExecInv, ExecTypes, PlacesFit, Pump, PumpFits, Before, Refusing, Busy
<1>6. StdinFits'
  BY <1>1 DEF ExecInv, ExecTypes, PlacesFit, PumpFits, Transcript, Pump, StdinFits, Before, Refusing, Busy
<1>7. OutputFits'
  BY <1>1 DEF ExecInv, ExecTypes, PlacesFit, OutputFits, Before, Refusing, Busy, Held
<1>8. AllPasses'
  BY <1>1 DEF ExecInv, ExecTypes, PlacesFit, OutputFits, Transcript, Client, Seen, Command, Before, Refusing, Busy, AllPasses, Unbroken, Held
<1>9. QED
  BY <1>3, <1>4, <1>5, <1>6, <1>7, <1>8 DEF ExecInv

LEMMA ProxyEndsKeeps == ASSUME ExecInv, proxyEnds PROVE ExecInv'
<1>1. UNCHANGED <<main, preview, pump, h2t, t2h, stderr, bridge, rec, person, human, shown, machine, taken, sent, revoked, event, faults>>
  BY DEF proxyEnds
<1>3. ExecTypes'
  BY <1>1 DEF ExecInv, ExecTypes
<1>4. PlacesFit'
  BY <1>1 DEF ExecInv, ExecTypes, PlacesFit, Before, Refusing, Busy
<1>5. PumpFits'
  BY <1>1 DEF ExecInv, ExecTypes, PlacesFit, Pump, PumpFits, Before, Refusing, Busy
<1>6. StdinFits'
  BY <1>1 DEF ExecInv, ExecTypes, PlacesFit, PumpFits, Transcript, Pump, StdinFits, Before, Refusing, Busy
<1>7. OutputFits'
  BY <1>1 DEF ExecInv, ExecTypes, PlacesFit, OutputFits, Before, Refusing, Busy, Held
<1>8. AllPasses'
  BY <1>1 DEF ExecInv, ExecTypes, PlacesFit, OutputFits, Transcript, Client, Seen, Command, Before, Refusing, Busy, AllPasses, Unbroken, Held
<1>9. QED
  BY <1>3, <1>4, <1>5, <1>6, <1>7, <1>8 DEF ExecInv

LEMMA ExecOverKeeps == ASSUME ExecInv, execOver PROVE ExecInv'
<1>1. /\ UNCHANGED <<main, preview, pump, h2t, t2h, stderr, bridge, rec, person, shown, machine, taken, sent, revoked, event, faults>>
      /\ t2h \in {"done", "failed"} /\ human' = "closed"
  BY DEF execOver, outputDrained
<1>3. ExecTypes'
  BY <1>1 DEF ExecInv, ExecTypes
<1>4. PlacesFit'
  BY <1>1 DEF ExecInv, ExecTypes, PlacesFit, Before, Refusing, Busy
<1>5. PumpFits'
  BY <1>1 DEF ExecInv, ExecTypes, PlacesFit, Pump, PumpFits, Before, Refusing, Busy
<1>6. StdinFits'
  BY <1>1 DEF ExecInv, ExecTypes, PlacesFit, PumpFits, Transcript, Pump, StdinFits, Before, Refusing, Busy
<1>7. OutputFits'
  BY <1>1 DEF ExecInv, ExecTypes, PlacesFit, OutputFits, Before, Refusing, Busy, Held
<1>8. AllPasses'
  BY <1>1 DEF ExecInv, ExecTypes, PlacesFit, OutputFits, Transcript, Client, Seen, Command, Before, Refusing, Busy, AllPasses, Unbroken, Held
<1>9. QED
  BY <1>3, <1>4, <1>5, <1>6, <1>7, <1>8 DEF ExecInv

LEMMA BridgeCancelledKeeps == ASSUME ExecInv, bridgeCancelled PROVE ExecInv'
<1>1. /\ UNCHANGED <<main, preview, pump, h2t, t2h, stderr, rec, person, shown, machine, taken, sent, revoked, event, faults>>
      /\ bridge = "run" /\ bridge' = "draining" /\ human' = "closed"
  BY DEF bridgeCancelled, Stop
<1>3. ExecTypes'
  BY <1>1 DEF ExecInv, ExecTypes
<1>4. PlacesFit'
  BY <1>1 DEF ExecInv, ExecTypes, PlacesFit, Before, Refusing, Busy
<1>5. PumpFits'
  BY <1>1 DEF ExecInv, ExecTypes, PlacesFit, Pump, PumpFits, Before, Refusing, Busy
<1>6. StdinFits'
  BY <1>1 DEF ExecInv, ExecTypes, PlacesFit, PumpFits, Transcript, Pump, StdinFits, Before, Refusing, Busy
<1>7. OutputFits'
  BY <1>1 DEF ExecInv, ExecTypes, PlacesFit, OutputFits, Before, Refusing, Busy, Held
<1>8. AllPasses'
  BY <1>1 DEF ExecInv, ExecTypes, PlacesFit, OutputFits, Transcript, Client, Seen, Command, Before, Refusing, Busy, AllPasses, Unbroken, Held
<1>9. QED
  BY <1>3, <1>4, <1>5, <1>6, <1>7, <1>8 DEF ExecInv

LEMMA CloseAfterMachineDrainKeeps == ASSUME ExecInv, closeAfterMachineDrain PROVE ExecInv'
<1>1. /\ UNCHANGED <<preview, pump, h2t, t2h, stderr, bridge, rec, person, shown, machine, taken, sent, revoked, event, faults>>
      /\ main = "grace" /\ main' = "join" /\ human' = "closed"
  BY DEF closeAfterMachineDrain, Stop, goroutines
<1>3. ExecTypes'
  BY <1>1 DEF ExecInv, ExecTypes
<1>4. PlacesFit'
  BY <1>1 DEF ExecInv, ExecTypes, PlacesFit, Before, Refusing, Busy
<1>5. PumpFits'
  BY <1>1 DEF ExecInv, ExecTypes, PlacesFit, Pump, PumpFits, Before, Refusing, Busy
<1>6. StdinFits'
  BY <1>1 DEF ExecInv, ExecTypes, PlacesFit, PumpFits, Transcript, Pump, StdinFits, Before, Refusing, Busy
<1>7. OutputFits'
  BY <1>1 DEF ExecInv, ExecTypes, PlacesFit, OutputFits, Before, Refusing, Busy, Held
<1>8. AllPasses'
  BY <1>1 DEF ExecInv, ExecTypes, PlacesFit, OutputFits, Transcript, Client, Seen, Command, Before, Refusing, Busy, AllPasses, Unbroken, Held
<1>9. QED
  BY <1>3, <1>4, <1>5, <1>6, <1>7, <1>8 DEF ExecInv

LEMMA BridgeReturnsKeeps == ASSUME ExecInv, bridgeReturns PROVE ExecInv'
<1>1. /\ UNCHANGED <<preview, pump, h2t, t2h, stderr, person, shown, machine, taken, sent, revoked, event, faults>>
      /\ bridge \in {"run", "draining"} /\ h2t # "copy" /\ t2h \in {"done", "failed"}
      /\ \/ bridge' = "error" /\ rec' = Finalized(rec, "aborted") /\ human' = "closed" /\ main' = "join"
         \/ bridge = "run" /\ t2h # "failed" /\ bridge' = "clean" /\ main' = "grace" /\ UNCHANGED <<rec, human>>
  BY DEF bridgeReturns, CopiesDone, Stop
<1>2. main = "bridge" /\ rec.status = "open" /\ ~shown.refused /\ rec \in Transcript
  BY <1>1 DEF ExecInv, ExecTypes, PlacesFit
<1>10. /\ rec' \in Transcript /\ rec'.lines = rec.lines /\ rec'.stdinLost = rec.stdinLost
       /\ rec'.status = IF bridge' = "error" THEN "aborted" ELSE "open"
  BY <1>1, <1>2, FinalizedIs
<1>3. ExecTypes'
  BY <1>1, <1>10 DEF ExecInv, ExecTypes
<1>4. PlacesFit'
  BY <1>1, <1>2, <1>10 DEF ExecInv, ExecTypes, PlacesFit, Before, Refusing, Busy
<1>5. PumpFits'
  BY <1>1, <1>2, <1>10 DEF ExecInv, ExecTypes, PlacesFit, Pump, PumpFits, Before, Refusing, Busy
<1>6. StdinFits'
  BY <1>1, <1>2, <1>10 DEF ExecInv, ExecTypes, PlacesFit, PumpFits, Transcript, Pump, StdinFits, Before, Refusing, Busy
<1>7. OutputFits'
  BY <1>1, <1>2, <1>10 DEF ExecInv, ExecTypes, PlacesFit, OutputFits, Before, Refusing, Busy, Held
<1>8. AllPasses'
  BY <1>1, <1>2, <1>10 DEF ExecInv, ExecTypes, PlacesFit, OutputFits, Transcript, Client, Seen, Command, Before, Refusing, Busy, AllPasses, Unbroken, Held
<1>9. QED
  BY <1>3, <1>4, <1>5, <1>6, <1>7, <1>8 DEF ExecInv

LEMMA FinishKeeps == ASSUME ExecInv, finish PROVE ExecInv'
<1>1. /\ UNCHANGED <<preview, h2t, t2h, stderr, bridge, person, human, shown, machine, taken, sent, revoked>>
      /\ main = "join" /\ stderr = "done" /\ main' = "ended" /\ pump' = [pump EXCEPT !.stopped = TRUE]
      /\ \/ bridge # "clean" /\ event' = "drop" /\ UNCHANGED <<rec, faults>>
         \/ bridge = "clean" /\ rec' = Finalized(rec, "completed") /\ UNCHANGED faults /\ event' \in {"stop", "drop"}
         \/ bridge = "clean" /\ rec' = Finalized(rec, "aborted") /\ event' = "drop" /\ faults' = faults + 1
  BY DEF finish, Fault, Ends
<1>2. pump' \in Pump /\ pump'.buf = pump.buf /\ pump'.pc = pump.pc /\ pump'.stopped
  BY <1>1 DEF ExecInv, ExecTypes, Pump
<1>10. bridge \in {"clean", "error"} /\ ~shown.refused /\ rec \in Transcript /\ faults \in Nat
       /\ (bridge = "clean" => rec.status = "open") /\ (bridge = "error" => rec.status # "open")
  BY <1>1 DEF ExecInv, ExecTypes, PlacesFit
<1>11. /\ rec' \in Transcript /\ rec'.lines = rec.lines /\ rec'.stdinLost = rec.stdinLost /\ rec'.status # "open"
       /\ rec'.status = "completed" => rec.status = "completed" \/ (bridge = "clean" /\ ~rec.stdinLost)
       /\ faults' \in Nat /\ (faults' = 0 => faults = 0) /\ event' \in {"stop", "drop"} /\ (event' = "stop" => bridge = "clean")
  <2>1. CASE bridge # "clean" /\ event' = "drop" /\ UNCHANGED <<rec, faults>>
    BY <1>10, <2>1
  <2>2. CASE bridge = "clean" /\ rec' = Finalized(rec, "completed") /\ faults' = faults /\ event' \in {"stop", "drop"}
    BY <1>10, <2>2, FinalizedIs
  <2>3. CASE bridge = "clean" /\ rec' = Finalized(rec, "aborted") /\ event' = "drop" /\ faults' = faults + 1
    <3>1. rec' \in Transcript /\ rec'.lines = rec.lines /\ rec'.stdinLost = rec.stdinLost /\ rec'.status = "aborted"
      BY <1>10, <2>3, FinalizedIs
    <3>2. QED
      BY <1>10, <2>3, <3>1
  <2>4. QED
    BY <1>1, <2>1, <2>2, <2>3
<1>3. ExecTypes'
  BY <1>1, <1>2, <1>11 DEF ExecInv, ExecTypes
<1>4. PlacesFit'
  BY <1>1, <1>10, <1>11 DEF ExecInv, ExecTypes, PlacesFit, Before, Refusing, Busy
<1>5. PumpFits'
  BY <1>1, <1>2, <1>10, <1>11 DEF ExecInv, ExecTypes, PlacesFit, Pump, PumpFits, Before, Refusing, Busy
<1>6. StdinFits'
  BY <1>1, <1>10, <1>11 DEF ExecInv, ExecTypes, PlacesFit, PumpFits, Transcript, Pump, StdinFits, Before, Refusing, Busy
<1>7. OutputFits'
  BY <1>1, <1>10, <1>11 DEF ExecInv, ExecTypes, PlacesFit, OutputFits, Before, Refusing, Busy, Held
<1>8. AllPasses'
  BY <1>1, <1>10, <1>11 DEF ExecInv, ExecTypes, PlacesFit, OutputFits, Transcript, Client, Seen, Command, Before, Refusing, Busy, AllPasses, Unbroken, Held
<1>9. QED
  BY <1>3, <1>4, <1>5, <1>6, <1>7, <1>8 DEF ExecInv

LEMMA T2hRecordsKeeps == ASSUME ExecInv, t2hRecords PROVE ExecInv'
<1>1. /\ UNCHANGED <<main, preview, pump, h2t, stderr, bridge, person, shown, taken, sent, revoked, event>>
      /\ t2h = "copy" /\ machine.outQ > 0 /\ machine' = [machine EXCEPT !.outQ = @ - 1]
      /\ \/ Writes(<<"out">>) /\ t2h' = "hold" /\ human' = human
         \/ Fails /\ t2h' = "failed" /\ human' = "closed" /\ rec' = rec
  BY DEF t2hRecords, Stop
<1>2. /\ machine' \in Command /\ machine'.eof = machine.eof
      /\ machine.outQ > 0 /\ machine'.errQ = machine.errQ
  <2> DEFINE x == machine.outQ - 1
  <2>1. machine \in Command /\ machine.outQ > 0 /\ x \in Nat /\ machine' = [machine EXCEPT !.outQ = x]
    BY <1>1 DEF ExecInv, ExecTypes, Command
  <2> HIDE DEF x
  <2>2. QED
    BY <2>1 DEF Command
<1>10. bridge # "off" /\ (bridge \in {"run", "clean"} => rec.status = "open") /\ ~HasExit(rec.lines) /\ main \notin Before \cup Refusing /\ main # "ended"
  BY <1>1 DEF ExecInv, ExecTypes, PlacesFit, OutputFits, Before, Refusing, Busy
<1>11. CASE Writes(<<"out">>) /\ t2h' = "hold" /\ human' = human
  <2>1. Grew("out")
    BY <1>11, WritesGrow DEF LineKinds
  <2>2. /\ rec.status = "open" /\ faults' = faults /\ rec' \in Transcript /\ rec'.status = rec.status /\ rec'.stdinLost = rec.stdinLost
        /\ Count(rec'.lines, "in") = Count(rec.lines, "in") /\ Count(rec'.lines, "out") = Count(rec.lines, "out") + 1
        /\ Count(rec'.lines, "err") = Count(rec.lines, "err") /\ OutputFirst(rec'.lines) /\ ~HasExit(rec'.lines)
    BY <1>10, <2>1, LinesCount DEF Grew, Grows, LineKinds, ExecInv, OutputFits
  <2>3. shown \in Seen /\ Count(rec.lines, "out") \in Nat
    BY LinesCount DEF ExecInv, ExecTypes, LineKinds
  <2>4. ExecTypes'
    BY <1>1, <1>2, <1>11, <2>2 DEF ExecInv, ExecTypes
  <2>5. PlacesFit' /\ PumpFits' /\ StdinFits'
    BY <1>1, <1>10, <1>11, <2>2 DEF ExecInv, PlacesFit, PumpFits, StdinFits, Before, Refusing, Busy
  <2>6. OutputFits'
    BY <1>1, <1>10, <1>11, <2>2, <2>3 DEF ExecInv, OutputFits, Before, Refusing, Busy, Held, Seen
  <2>7. AllPasses'
    BY <1>1, <1>2, <1>11, <2>2, <2>3 DEF ExecInv, ExecTypes, AllPasses, Unbroken, Held, Seen, Command
  <2>8. QED
    BY <2>4, <2>5, <2>6, <2>7 DEF ExecInv
<1>12. CASE Fails /\ t2h' = "failed" /\ human' = "closed" /\ rec' = rec
  <2>1. faults' \in Nat /\ (faults' = 0 => faults = 0) /\ (rec.status = "open" => faults' # 0)
    BY <1>12, FailsCounts
  <2>2. shown \in Seen /\ Count(rec.lines, "out") \in Nat
    BY LinesCount DEF ExecInv, ExecTypes, LineKinds
  <2>3. ExecTypes'
    BY <1>1, <1>2, <1>12, <2>1 DEF ExecInv, ExecTypes
  <2>4. PlacesFit' /\ PumpFits' /\ StdinFits'
    BY <1>1, <1>10, <1>12 DEF ExecInv, PlacesFit, PumpFits, StdinFits, Before, Refusing, Busy
  <2>5. OutputFits'
    BY <1>1, <1>10, <1>12, <2>2 DEF ExecInv, OutputFits, Before, Refusing, Busy, Held, Seen
  <2>6. AllPasses'
    BY <1>1, <1>2, <1>10, <1>12, <2>1 DEF ExecInv, ExecTypes, AllPasses, Unbroken, Held
  <2>7. QED
    BY <2>3, <2>4, <2>5, <2>6 DEF ExecInv
<1>13. QED
  BY <1>1, <1>11, <1>12

LEMMA StderrRecordsKeeps == ASSUME ExecInv, stderrRecords PROVE ExecInv'
<1>1. /\ UNCHANGED <<main, preview, pump, h2t, t2h, bridge, person, shown, taken, sent, revoked, event>>
      /\ stderr = "copy" /\ machine.errQ > 0 /\ machine' = [machine EXCEPT !.errQ = @ - 1]
      /\ \/ Writes(<<"err">>) /\ stderr' = "hold" /\ human' = human
         \/ Fails /\ stderr' = "done" /\ human' = "closed" /\ rec' = rec
  BY DEF stderrRecords, Stop
<1>2. /\ machine' \in Command /\ machine'.eof = machine.eof
      /\ machine.errQ > 0 /\ machine'.outQ = machine.outQ
  <2> DEFINE x == machine.errQ - 1
  <2>1. machine \in Command /\ machine.errQ > 0 /\ x \in Nat /\ machine' = [machine EXCEPT !.errQ = x]
    BY <1>1 DEF ExecInv, ExecTypes, Command
  <2> HIDE DEF x
  <2>2. QED
    BY <2>1 DEF Command
<1>10. bridge # "off" /\ (bridge \in {"run", "clean"} => rec.status = "open") /\ ~HasExit(rec.lines) /\ main \notin Before \cup Refusing /\ main # "ended"
  BY <1>1 DEF ExecInv, ExecTypes, PlacesFit, OutputFits, Before, Refusing, Busy
<1>11. CASE Writes(<<"err">>) /\ stderr' = "hold" /\ human' = human
  <2>1. Grew("err")
    BY <1>11, WritesGrow DEF LineKinds
  <2>2. /\ rec.status = "open" /\ faults' = faults /\ rec' \in Transcript /\ rec'.status = rec.status /\ rec'.stdinLost = rec.stdinLost
        /\ Count(rec'.lines, "in") = Count(rec.lines, "in") /\ Count(rec'.lines, "err") = Count(rec.lines, "err") + 1
        /\ Count(rec'.lines, "out") = Count(rec.lines, "out") /\ OutputFirst(rec'.lines) /\ ~HasExit(rec'.lines)
    BY <1>10, <2>1, LinesCount DEF Grew, Grows, LineKinds, ExecInv, OutputFits
  <2>3. shown \in Seen /\ Count(rec.lines, "err") \in Nat
    BY LinesCount DEF ExecInv, ExecTypes, LineKinds
  <2>4. ExecTypes'
    BY <1>1, <1>2, <1>11, <2>2 DEF ExecInv, ExecTypes
  <2>5. PlacesFit' /\ PumpFits' /\ StdinFits'
    BY <1>1, <1>10, <1>11, <2>2 DEF ExecInv, PlacesFit, PumpFits, StdinFits, Before, Refusing, Busy
  <2>6. OutputFits'
    BY <1>1, <1>10, <1>11, <2>2, <2>3 DEF ExecInv, OutputFits, Before, Refusing, Busy, Held, Seen
  <2>7. AllPasses'
    BY <1>1, <1>2, <1>11, <2>2, <2>3 DEF ExecInv, ExecTypes, AllPasses, Unbroken, Held, Seen, Command
  <2>8. QED
    BY <2>4, <2>5, <2>6, <2>7 DEF ExecInv
<1>12. CASE Fails /\ stderr' = "done" /\ human' = "closed" /\ rec' = rec
  <2>1. faults' \in Nat /\ (faults' = 0 => faults = 0) /\ (rec.status = "open" => faults' # 0)
    BY <1>12, FailsCounts
  <2>2. shown \in Seen /\ Count(rec.lines, "err") \in Nat
    BY LinesCount DEF ExecInv, ExecTypes, LineKinds
  <2>3. ExecTypes'
    BY <1>1, <1>2, <1>12, <2>1 DEF ExecInv, ExecTypes
  <2>4. PlacesFit' /\ PumpFits' /\ StdinFits'
    BY <1>1, <1>10, <1>12 DEF ExecInv, PlacesFit, PumpFits, StdinFits, Before, Refusing, Busy
  <2>5. OutputFits'
    BY <1>1, <1>10, <1>12, <2>2 DEF ExecInv, OutputFits, Before, Refusing, Busy, Held, Seen
  <2>6. AllPasses'
    BY <1>1, <1>2, <1>10, <1>12, <2>1 DEF ExecInv, ExecTypes, AllPasses, Unbroken, Held
  <2>7. QED
    BY <2>3, <2>4, <2>5, <2>6 DEF ExecInv
<1>13. QED
  BY <1>1, <1>11, <1>12

LEMMA T2hShowsKeeps == ASSUME ExecInv, t2hShows PROVE ExecInv'
<1>1. /\ UNCHANGED <<main, preview, pump, h2t, stderr, bridge, rec, person, machine, taken, sent, revoked, event, faults>>
      /\ t2h = "hold"
      /\ \/ CanShow /\ shown' = [shown EXCEPT !.out = @ + 1] /\ t2h' = "copy" /\ human' = human
         \/ ~CanShow /\ t2h' = "done" /\ CloseWrite /\ shown' = shown
  BY DEF t2hShows, Stop
<1>2. /\ shown' \in Seen /\ shown'.refused = shown.refused /\ shown'.err = shown.err
      /\ shown.out \in Nat /\ Count(rec.lines, "out") \in Nat
      /\ \/ CanShow /\ shown'.out = shown.out + 1 /\ t2h' = "copy" /\ human' = human
         \/ ~CanShow /\ shown'.out = shown.out /\ t2h' = "done" /\ CloseWrite
  <2>1. shown \in Seen /\ Count(rec.lines, "out") \in Nat
    BY LinesCount DEF ExecInv, ExecTypes, LineKinds
  <2>2. CASE CanShow /\ shown' = [shown EXCEPT !.out = @ + 1] /\ t2h' = "copy" /\ human' = human
    <3>1. shown' \in Seen /\ shown'.refused = shown.refused /\ shown'.err = shown.err /\ shown'.out = shown.out + 1 /\ shown.out \in Nat
      BY <2>1, <2>2 DEF Seen
    <3>2. QED
      BY <2>1, <2>2, <3>1
  <2>3. CASE ~CanShow /\ t2h' = "done" /\ CloseWrite /\ shown' = shown
    BY <2>1, <2>3 DEF Seen
  <2>4. QED
    BY <1>1, <2>2, <2>3
<1>3. /\ bridge # "off" /\ (bridge \in {"run", "clean"} => rec.status = "open") /\ ~HasExit(rec.lines)
      /\ main \notin Before \cup Refusing /\ main # "ended" /\ h2t = h2t
  BY <1>1 DEF ExecInv, ExecTypes, PlacesFit, OutputFits, Before, Refusing, Busy, CloseWrite
<1>4. (person.early \/ ~person.gone \/ human = "closed") /\ (Unbroken => CanShow)
  BY <1>1 DEF ExecInv, AllPasses, Unbroken, CanShow
<1>5. ExecTypes'
  BY <1>1, <1>2 DEF ExecInv, ExecTypes, CloseWrite
<1>6. PlacesFit' /\ PumpFits' /\ StdinFits'
  BY <1>1, <1>2, <1>3 DEF ExecInv, PlacesFit, PumpFits, StdinFits, Before, Refusing, Busy, CloseWrite
<1>7. OutputFits'
  BY <1>1, <1>2, <1>3 DEF ExecInv, OutputFits, Before, Refusing, Busy, Held
<1>8. AllPasses'
  BY <1>1, <1>2, <1>4 DEF ExecInv, AllPasses, Unbroken, Held, CloseWrite
<1>9. QED
  BY <1>5, <1>6, <1>7, <1>8 DEF ExecInv

LEMMA StderrShowsKeeps == ASSUME ExecInv, stderrShows PROVE ExecInv'
<1>1. /\ UNCHANGED <<main, preview, pump, h2t, t2h, bridge, rec, person, machine, taken, sent, revoked, event, faults>>
      /\ stderr = "hold"
      /\ \/ CanShow /\ shown' = [shown EXCEPT !.err = @ + 1] /\ stderr' = "copy" /\ human' = human
         \/ ~CanShow /\ stderr' = "done" /\ human' = "closed" /\ shown' = shown
  BY DEF stderrShows, Stop
<1>2. /\ shown' \in Seen /\ shown'.refused = shown.refused /\ shown'.out = shown.out
      /\ shown.err \in Nat /\ Count(rec.lines, "err") \in Nat
      /\ \/ CanShow /\ shown'.err = shown.err + 1 /\ stderr' = "copy" /\ human' = human
         \/ ~CanShow /\ shown'.err = shown.err /\ stderr' = "done" /\ human' = "closed"
  <2>1. shown \in Seen /\ Count(rec.lines, "err") \in Nat
    BY LinesCount DEF ExecInv, ExecTypes, LineKinds
  <2>2. CASE CanShow /\ shown' = [shown EXCEPT !.err = @ + 1] /\ stderr' = "copy" /\ human' = human
    <3>1. shown' \in Seen /\ shown'.refused = shown.refused /\ shown'.out = shown.out /\ shown'.err = shown.err + 1 /\ shown.err \in Nat
      BY <2>1, <2>2 DEF Seen
    <3>2. QED
      BY <2>1, <2>2, <3>1
  <2>3. CASE ~CanShow /\ stderr' = "done" /\ human' = "closed" /\ shown' = shown
    BY <2>1, <2>3 DEF Seen
  <2>4. QED
    BY <1>1, <2>2, <2>3
<1>3. /\ bridge # "off" /\ (bridge \in {"run", "clean"} => rec.status = "open") /\ ~HasExit(rec.lines)
      /\ main \notin Before \cup Refusing /\ main # "ended" /\ h2t = h2t
  BY <1>1 DEF ExecInv, ExecTypes, PlacesFit, OutputFits, Before, Refusing, Busy
<1>4. (person.early \/ ~person.gone \/ human = "closed") /\ (Unbroken => CanShow)
  BY <1>1 DEF ExecInv, AllPasses, Unbroken, CanShow
<1>5. ExecTypes'
  BY <1>1, <1>2 DEF ExecInv, ExecTypes
<1>6. PlacesFit' /\ PumpFits' /\ StdinFits'
  BY <1>1, <1>2, <1>3 DEF ExecInv, PlacesFit, PumpFits, StdinFits, Before, Refusing, Busy
<1>7. OutputFits'
  BY <1>1, <1>2, <1>3 DEF ExecInv, OutputFits, Before, Refusing, Busy, Held
<1>8. AllPasses'
  BY <1>1, <1>2, <1>4 DEF ExecInv, AllPasses, Unbroken, Held
<1>9. QED
  BY <1>5, <1>6, <1>7, <1>8 DEF ExecInv

\* The exit status.
LEMMA ProxyExitKeeps == ASSUME ExecInv, proxyExit PROVE ExecInv'
<1>1. /\ UNCHANGED <<main, preview, pump, h2t, t2h, stderr, bridge, person, taken, sent, revoked, event>>
      /\ t2h \in {"done", "failed"} /\ stderr = "done" /\ machine' = [machine EXCEPT !.exit = "taken"]
      /\ \/ Writes(<<"exit">>) /\ human' = human /\ shown' = [shown EXCEPT !.exit = human # "closed" /\ ~person.gone]
         \/ Fails /\ human' = "closed" /\ UNCHANGED <<rec, shown>>
  BY DEF proxyExit, outputDrained, Stop
<1>2. machine' \in Command /\ machine'.outQ = machine.outQ /\ machine'.errQ = machine.errQ /\ machine'.eof = machine.eof
  BY <1>1 DEF ExecInv, ExecTypes, Command
<1>3. bridge # "off" /\ main \notin Before \cup Refusing
  BY <1>1 DEF ExecInv, ExecTypes, PlacesFit, Before, Refusing
<1>4. shown' \in Seen /\ shown'.out = shown.out /\ shown'.err = shown.err /\ shown'.refused = shown.refused
  <2> DEFINE b == human # "closed" /\ ~person.gone
  <2>1. shown \in Seen /\ b \in BOOLEAN /\ (shown' = shown \/ shown' = [shown EXCEPT !.exit = b])
    BY <1>1 DEF ExecInv, ExecTypes
  <2> HIDE DEF b
  <2>2. CASE shown' = shown
    BY <2>1, <2>2
  <2>3. CASE shown' = [shown EXCEPT !.exit = b]
    BY <2>1, <2>3 DEF Seen
  <2>4. QED
    BY <2>1, <2>2, <2>3
<1>5. /\ rec' \in Transcript /\ rec'.status = rec.status /\ rec'.stdinLost = rec.stdinLost /\ faults' \in Nat /\ (faults' = 0 => faults = 0)
      /\ \A k \in {"in", "out", "err"} : Count(rec'.lines, k) = Count(rec.lines, k)
      /\ OutputFirst(rec'.lines) /\ human' \in {human, "closed"}
  <2>1. CASE Writes(<<"exit">>) /\ human' = human
    <3>1. Grew("exit")
      BY <2>1, WritesGrow DEF LineKinds
    <3>2. /\ rec' \in Transcript /\ rec'.status = rec.status /\ rec'.stdinLost = rec.stdinLost /\ faults' = faults
          /\ \A k \in {"in", "out", "err"} : Count(rec'.lines, k) = Count(rec.lines, k)
          /\ OutputFirst(rec'.lines)
      BY <3>1, LinesCount DEF Grew, Grows, LineKinds, ExecInv, OutputFits
    <3>3. QED
      BY <2>1, <3>2 DEF ExecInv, ExecTypes
  <2>2. CASE Fails /\ human' = "closed" /\ rec' = rec
    BY <2>2, FailsCounts DEF ExecInv, ExecTypes, OutputFits
  <2>3. QED
    BY <1>1, <2>1, <2>2
<1>6. ExecTypes'
  BY <1>1, <1>2, <1>4, <1>5 DEF ExecInv, ExecTypes
<1>7. PlacesFit' /\ PumpFits' /\ StdinFits'
  <2>1. rec.lines = rec'.lines \/ ~(main \in Before)
    BY <1>3
  <2>2. QED
    BY <1>1, <1>3, <1>4, <1>5 DEF ExecInv, PlacesFit, PumpFits, StdinFits, Before, Refusing, Busy
<1>8. OutputFits'
  BY <1>1, <1>3, <1>4, <1>5 DEF ExecInv, OutputFits, Before, Refusing, Busy, Held
<1>9. AllPasses'
  BY <1>1, <1>2, <1>4, <1>5 DEF ExecInv, AllPasses, Unbroken, Held
<1>10. QED
  BY <1>6, <1>7, <1>8, <1>9 DEF ExecInv

\* The late end of a refused command's stdin.
LEMMA FinishLateStdinKeeps == ASSUME ExecInv, finishLateStdin PROVE ExecInv'
<1>1. /\ UNCHANGED <<preview, h2t, t2h, stderr, bridge, person, human, shown, machine, taken, sent, revoked, event>>
      /\ main = "late" /\ pump.pc = "done" /\ main' = "ended" /\ pump' = [pump EXCEPT !.buf = 0]
  BY DEF finishLateStdin, Ends
<1>2. PICK status \in {"completed", "aborted"}, a \in AddBytesIn(rec, pump.buf) :
        rec' = Finalized([a[1] EXCEPT !.lines = Append(@, "exit")], status) /\ faults' = a[2]
  BY DEF finishLateStdin
<1>3. rec \in Transcript /\ faults \in Nat /\ pump.buf \in Nat /\ rec.status = "open" /\ shown.refused /\ bridge = "off" /\ pump \in Pump
  BY <1>1 DEF ExecInv, ExecTypes, PlacesFit, Refusing, Pump
<1> DEFINE q == a[1]
<1>4. Took(rec, pump.buf, q, faults')
  BY <1>2, <1>3, BytesTaken
<1> HIDE DEF q
<1> DEFINE t == Append(q.lines, "exit")
           r == [q EXCEPT !.lines = t]
<1>5. q \in Transcript /\ q.status = "open" /\ q.lines \in Seq(LineKinds)
  BY <1>3, <1>4 DEF Took, Transcript
<1>6. Grows(q.lines, t, "exit", 1)
  BY <1>5, OneGrows DEF LineKinds
<1> HIDE DEF t
<1>7. r \in Transcript /\ r.status = "open" /\ r.lines = t /\ r.stdinLost = q.stdinLost
  BY <1>5, <1>6 DEF Transcript, Grows
<1> HIDE DEF r
<1>8. rec' = Finalized(r, status)
  BY <1>2 DEF q, r, t
<1>9. /\ rec' \in Transcript /\ rec'.lines = t /\ rec'.stdinLost = q.stdinLost /\ rec'.status \in {"completed", "aborted"}
      /\ rec'.status = "completed" => ~rec'.stdinLost
  BY <1>7, <1>8, FinalizedIs
<1>10. \A k \in {"in", "out", "err"} : Count(t, k) = Count(q.lines, k) /\ Count(q.lines, k) \in Nat
  BY <1>5, <1>6, CountIsNat DEF Grows, LineKinds
<1>11. ~rec'.stdinLost => Count(rec'.lines, "in") = taken
  <2>1. ~rec.stdinLost => Count(rec.lines, "in") + pump.buf = taken
    BY <1>1 DEF ExecInv, StdinFits, Refusing
  <2>2. ~q.stdinLost => Count(q.lines, "in") = Count(rec.lines, "in") + pump.buf /\ ~rec.stdinLost
    BY <1>3, <1>4, <1>5 DEF Took, Transcript
  <2>3. QED
    BY <1>9, <1>10, <2>1, <2>2
<1>12. /\ Count(rec'.lines, "out") = Count(rec.lines, "out") /\ Count(rec'.lines, "err") = Count(rec.lines, "err")
       /\ OutputFirst(rec'.lines)
  BY <1>4, <1>6, <1>9, <1>10 DEF Took, Grows, ExecInv, OutputFits
<1>13. pump' \in Pump /\ pump'.buf = 0 /\ pump'.pc = pump.pc /\ pump'.stopped = pump.stopped /\ faults' \in Nat
       /\ (faults' = 0 => faults = 0 /\ q.stdinLost = rec.stdinLost)
  BY <1>1, <1>3, <1>4 DEF Pump, Took
<1>14. ExecTypes'
  BY <1>1, <1>9, <1>13 DEF ExecInv, ExecTypes
<1>15. PlacesFit' /\ PumpFits'
  BY <1>1, <1>3, <1>9, <1>13 DEF ExecInv, ExecTypes, PlacesFit, PumpFits, Before, Refusing, Busy
<1>16. StdinFits'
  BY <1>1, <1>3, <1>9, <1>11 DEF ExecInv, StdinFits, Before, Refusing
<1>17. OutputFits'
  BY <1>1, <1>3, <1>12 DEF ExecInv, PlacesFit, OutputFits, Before, Refusing, Busy, Held
<1>18. AllPasses'
  BY <1>1, <1>3, <1>9, <1>13 DEF ExecInv, AllPasses, Unbroken, Held
<1>19. QED
  BY <1>14, <1>15, <1>16, <1>17, <1>18 DEF ExecInv

LEMMA ExecInitIs == ASSUME ExecInit PROVE ExecInv
<1>1. /\ rec = [status |-> "none", lines |-> <<>>, stdinLost |-> FALSE] /\ preview \in BOOLEAN
      /\ main = (IF preview THEN "script" ELSE "judged") /\ pump = [pc |-> IF preview THEN "idle" ELSE "done", buf |-> 0, stopped |-> FALSE]
      /\ person = [left |-> MaxIn, end |-> FALSE, gone |-> FALSE, early |-> FALSE]
      /\ shown = [out |-> 0, err |-> 0, exit |-> FALSE, refused |-> FALSE]
      /\ machine = [out |-> MaxOut, err |-> MaxErr, outQ |-> 0, errQ |-> 0, exit |-> "none", eof |-> FALSE, closed |-> FALSE]
      /\ h2t = "off" /\ t2h = "off" /\ stderr = "off" /\ bridge = "off" /\ human = "open"
      /\ taken = 0 /\ sent = 0 /\ revoked = FALSE /\ event = "none" /\ faults = 0
  BY DEF ExecInit
<1>2. MaxIn \in Nat /\ MaxOut \in Nat /\ MaxErr \in Nat
  BY SessionAssumption
<1>3. <<>> \in Seq(LineKinds)
  OBVIOUS
<1>4. rec \in Transcript /\ pump \in Pump
  BY <1>1, <1>3 DEF Transcript, Pump
<1>5. person \in Client /\ shown \in Seen /\ machine \in Command
  BY <1>1, <1>2 DEF Client, Seen, Command
<1>6. ExecTypes
  BY <1>1, <1>4, <1>5 DEF ExecTypes
<1>7. PlacesFit /\ PumpFits /\ StdinFits
  BY <1>1 DEF PlacesFit, PumpFits, StdinFits, Before, Refusing, Busy
<1>8. OutputFits /\ AllPasses
  BY <1>1, EmptyLines DEF OutputFits, AllPasses, Unbroken, Before, Refusing, Busy, Held, LineKinds
<1>9. QED
  BY <1>6, <1>7, <1>8 DEF ExecInv

\* Every step of a session keeps its books.
THEOREM SessionInvariant == ExecSpec => []ExecInv
<1>1. ExecInit => ExecInv
  BY ExecInitIs
<1>2. ASSUME ExecInv, [ExecNext]_execVars PROVE ExecInv'
  <2>1. CASE Environment
    BY <1>2, <2>1, EnvironmentKeeps, EndRevokedKeeps
  <2>2. CASE pumpReads \/ pumpAppends \/ readScript
    BY <1>2, <2>2, PumpReadsKeeps, PumpAppendsKeeps, ReadScriptKeeps
  <2>3. CASE newRecordingFails \/ refuse \/ tellRefused \/ finishLateStdin \/ lateStdinUnread \/ startFails \/ start
    BY <1>2, <2>3, NewRecordingFailsKeeps, RefuseKeeps, TellRefusedKeeps, FinishLateStdinKeeps, LateStdinUnreadKeeps,
       StartFailsKeeps, StartKeeps
  <2>4. CASE h2tCopies \/ h2tEnds \/ t2hRecords \/ t2hShows \/ t2hEnds \/ stderrRecords \/ stderrShows \/ stderrEnds
    BY <1>2, <2>4, H2tCopiesKeeps, H2tEndsKeeps, T2hRecordsKeeps, T2hShowsKeeps, T2hEndsKeeps, StderrRecordsKeeps,
       StderrShowsKeeps, StderrEndsKeeps
  <2>5. CASE proxyExit \/ proxyEnds \/ execOver \/ bridgeCancelled \/ bridgeReturns \/ closeAfterMachineDrain \/ finish
    BY <1>2, <2>5, ProxyExitKeeps, ProxyEndsKeeps, ExecOverKeeps, BridgeCancelledKeeps, BridgeReturnsKeeps,
       CloseAfterMachineDrainKeeps, FinishKeeps
  <2>6. CASE UNCHANGED execVars
    <3>1. UNCHANGED <<main, preview, pump, h2t, t2h, stderr, bridge, rec, person, human, shown, machine, taken, sent, revoked, event, faults>>
      BY <2>6 DEF execVars, goroutines
    <3>2. ExecTypes' /\ PlacesFit' /\ PumpFits'
      BY <1>2, <3>1 DEF ExecInv, ExecTypes, PlacesFit, PumpFits
    <3>3. StdinFits' /\ OutputFits' /\ AllPasses'
      BY <1>2, <3>1 DEF ExecInv, StdinFits, OutputFits, AllPasses, Unbroken
    <3>4. QED
      BY <3>2, <3>3 DEF ExecInv
  <2>7. QED
    BY <1>2, <2>1, <2>2, <2>3, <2>4, <2>5, <2>6 DEF ExecNext, Session
<1>3. QED
  BY <1>1, <1>2, PTL DEF ExecSpec

\* The recording has all that passed, in both directions: the person has seen
\* nothing that is not in it, a refused person's stdin is in it though a read
\* was in flight (exec_stdin.go seal), and one that is called completed holds
\* all that the machine was sent (exec_recorder.go finalize), for any numbers
\* of chunks and of writes that fail.
THEOREM RecordingStaysTrue == ExecSpec => []RecordingIsTrue
<1>1. ExecInv => RecordingIsTrue
  <2> SUFFICES ASSUME ExecInv PROVE RecordingIsTrue
    OBVIOUS
  <2>1. /\ Lines("out") = Count(rec.lines, "out") /\ Lines("err") = Count(rec.lines, "err") /\ Lines("in") = Count(rec.lines, "in")
    BY DEF Lines, Count
  <2>2. /\ Count(rec.lines, "out") \in Nat /\ Count(rec.lines, "err") \in Nat /\ shown.out \in Nat /\ shown.err \in Nat
    BY LinesCount DEF LineKinds, ExecInv, ExecTypes, Seen
  <2>3. SeenIsRecorded
    BY <2>1, <2>2 DEF SeenIsRecorded, ExecInv, OutputFits, Held
  <2>4. RefusedStdinIsRecorded
    BY <2>1 DEF RefusedStdinIsRecorded, ExecInv, PlacesFit, StdinFits, Refusing
  <2>5. CompletedIsWhole
    BY <2>1 DEF CompletedIsWhole, ExecInv, PlacesFit, StdinFits
  <2>6. QED
    BY <2>3, <2>4, <2>5 DEF RecordingIsTrue
<1>2. QED
  BY <1>1, SessionInvariant, PTL

\* The end of a session is its end: no output is recorded behind the exit
\* status (proxyMachineRequests), and a session that stopped of itself, not
\* revoked, with its person there to the end and its recording never failing,
\* has shown that person all that the machine sent (drainedAfter).
THEOREM EndStaysLast == ExecSpec => []EndIsLast
<1>1. ExecInv => EndIsLast
  <2> SUFFICES ASSUME ExecInv PROVE EndIsLast
    OBVIOUS
  <2>1. ExitAfterOutput
    BY DEF ExitAfterOutput, ExecInv, OutputFits, OutputFirst
  <2>2. ASSUME event = "stop", ~revoked, ~person.early, faults = 0
        PROVE  machine.outQ = 0 /\ machine.errQ = 0 /\ shown.out = Lines("out") /\ shown.err = Lines("err")
    <3>1. Unbroken /\ t2h = "done" /\ stderr = "done"
      BY <2>2 DEF Unbroken, ExecInv, PlacesFit
    <3>2. /\ machine.outQ = 0 /\ machine.errQ = 0
          /\ shown.out + 0 = Count(rec.lines, "out") /\ shown.err + 0 = Count(rec.lines, "err")
      BY <3>1 DEF ExecInv, AllPasses, Held
    <3>3. shown.out \in Nat /\ shown.err \in Nat
      BY DEF ExecInv, ExecTypes, Seen
    <3>4. QED
      BY <3>2, <3>3 DEF Lines, Count
  <2>3. QED
    BY <2>1, <2>2 DEF EndIsLast, StopIsComplete
<1>2. QED
  BY <1>1, SessionInvariant, PTL
=============================================================================
