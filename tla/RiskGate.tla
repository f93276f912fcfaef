----------------------------- MODULE RiskGate -----------------------------
(***************************************************************************)
(* The barrier a person's command passes before the machine sees it:       *)
(* risk_judge.go judgeRisk with the classifiers (risk_classifier.go), the  *)
(* live mode and source (risk_mode.go, risk_source.go), the one-time       *)
(* approvals (risk_approval.go) and what becomes of the decision in        *)
(* human_role.go serveHumanSession.  A changing SFTP request goes through  *)
(* the same judgement (sftp_session.go judge).                             *)
(*                                                                         *)
(* The judgement of one session is many steps: the source is read, the     *)
(* external service answers when it likes, the mode is read twice, and an  *)
(* approval is looked for and asked for under two separate locks.          *)
(* Administrators, approvers, other sessions and the clock go on between.  *)
(*                                                                         *)
(* A text stands for what is judged: the command, with the script that     *)
(* came on its standard input where it has one (exec_stdin.go).            *)
(***************************************************************************)
EXTENDS Naturals, FiniteSets

CONSTANTS
  Persons, Senders,              \* people, and those with a grant on the machine
  Sessions,
  Texts, RedTexts, YellowTexts,  \* what the local rules say of a text
  ConfigMode, ConfigSource,      \* Config.RiskAction, Config.RiskClassifier
  HasClient,                     \* the gateway was started with a classifier key
  TTL,                           \* riskApprovalTTL
  NoOne,
  MaxTime, MaxIds, MaxSwitches

Modes == {"log", "warn", "ask", "block"}
Sources == {"rules", "ai", "both"}
Levels == {"green", "yellow", "red"}
Ids == 1..MaxIds

ASSUME RiskAssumption ==
  /\ Senders \subseteq Persons /\ RedTexts \subseteq Texts /\ YellowTexts \subseteq Texts \ RedTexts
  /\ HasClient \in BOOLEAN /\ ConfigMode \in Modes /\ ConfigSource \in Sources
  /\ NoOne \notin Persons /\ NoOne \notin Texts
  /\ TTL \in Nat \ {0} /\ {MaxTime, MaxIds, MaxSwitches} \subseteq Nat

VARIABLES
  mode,       \* riskLive: the mode, and whether an administrator chose it
  source,     \* riskSourceLive
  approvals,  \* riskApprovals; by is who approved, NoOne before that
  sess,       \* the sessions at the barrier
  now,
  issued,     \* approval ids given so far
  switches,   \* changes of mode and source so far
  spent       \* by id: how many commands an approval let through

vars == <<mode, source, approvals, sess, now, issued, switches, spent>>
policy == <<mode, source, switches>>

Live(m) == [mode |-> m, source |-> "live"]
NotUsed == [id |-> 0, text |-> NoOne, by |-> NoOne]
Idle == [pc |-> "idle", person |-> NoOne, text |-> NoOne, whole |-> TRUE, source |-> "rules",
         ext |-> "none", verdict |-> "green", failure |-> "log", stops |-> FALSE, used |-> NotUsed, seen |-> "strict"]

Init ==
  /\ mode = [mode |-> ConfigMode, source |-> "config"] /\ source = ConfigSource
  /\ approvals = {}
  /\ sess = [s \in Sessions |-> Idle]
  /\ now = 0 /\ issued = 0 /\ switches = 0
  /\ spent = [i \in Ids |-> 0]

\* How far the strictest reading of a mode is from what a session has seen of
\* the modes while it was judged: none that lets red pass, one, one set live.
laxity(m) == IF m.mode \in {"ask", "block"} THEN "strict" ELSE IF m.source = "live" THEN "live" ELSE "lax"
laxest(a, b) == IF "live" \in {a, b} THEN "live" ELSE IF "lax" \in {a, b} THEN "lax" ELSE "strict"

At(s, pc) == sess[s].pc = pc
Becomes(s, r) == sess' = [sess EXCEPT ![s] = r]
Judging(s) == sess[s].pc \in {"classify", "asked", "policy", "action"}

local(t) == IF t \in RedTexts THEN "red" ELSE IF t \in YellowTexts THEN "yellow" ELSE "green"

-----------------------------------------------------------------------------
(* A session comes to the barrier. *)

\* A command, whole or with a script that was not read to its end, was too
\* long or was not text.
Begin(s, p, t, whole) ==
  /\ At(s, "idle")
  /\ Becomes(s, [Idle EXCEPT !.pc = "classify", !.person = p, !.text = t, !.whole = whole, !.seen = laxity(mode)])
  /\ UNCHANGED <<policy, approvals, now, issued, spent>>

\* classifyExec: the source is read; a local red does not wait for a second
\* opinion.
classifyExec(s) ==
  /\ At(s, "classify")
  /\ LET r == [sess[s] EXCEPT !.source = source, !.verdict = local(sess[s].text)] IN
     Becomes(s, IF source = "rules" \/ (source = "both" /\ r.verdict = "red")
                  THEN [r EXCEPT !.pc = "policy"] ELSE [r EXCEPT !.pc = "asked"])
  /\ UNCHANGED <<policy, approvals, now, issued, spent>>

worseRiskVerdict(l, e) == IF e = "red" \/ (e = "yellow" /\ l = "green") THEN e ELSE l

\* Mutant: the error is not looked at.
classifyUnchecked(s, e) ==
  /\ At(s, "asked") /\ (~HasClient => e = "failed")
  /\ Becomes(s, [sess[s] EXCEPT !.pc = "policy", !.ext = e,
       !.verdict = IF sess[s].source = "both" THEN worseRiskVerdict(@, e) ELSE e])
  /\ UNCHANGED <<policy, approvals, now, issued, spent>>

\* classifyWithExternal: the service answers, or does not in time, or is not
\* configured.
classifyWithExternal(s, e) ==
  /\ At(s, "asked") /\ (~HasClient => e = "failed")
  /\ Becomes(s, [sess[s] EXCEPT !.pc = "policy", !.ext = e,
       !.verdict = IF sess[s].source = "both"
                     THEN IF e = "failed" THEN @ ELSE worseRiskVerdict(@, e)
                     ELSE IF e = "failed" THEN "green" ELSE e])
  /\ UNCHANGED <<policy, approvals, now, issued, spent>>

\* Mutant: under both, the rules have spoken.
failsClosedOnlyAlone(r) == r.ext = "failed" /\ r.source = "ai"

failsClosed(r) == r.ext = "failed" /\ r.source \in {"ai", "both"}

\* riskClassifierFailurePolicy: only a live log or warn lets an unjudged
\* command pass, and block offers no choice.
failurePolicy(r) ==
  IF ~failsClosed(r) THEN "warn"
  ELSE IF mode.source = "live" /\ mode.mode \in {"log", "warn"} THEN mode.mode
  ELSE IF mode.mode = "block" THEN "block" ELSE "ask"

\* A refused command has been answered with exit status 126 and is gone; of one
\* that needs an approval only what names it is still looked at, of one that
\* may pass only where it came from.
Going(r, pc) ==
  CASE pc = "refused" -> Idle
    [] pc = "consume" -> [Idle EXCEPT !.pc = pc, !.person = r.person, !.text = r.text, !.whole = r.whole]
    [] OTHER -> [r EXCEPT !.pc = pc, !.verdict = "green", !.failure = "log", !.stops = FALSE]

\* The first half of judgeRisk: the mode is read, the verdict settled (a
\* script not judged whole is red, and so is a command that waits for a person
\* because nobody judged it), and a green one goes on at once.
judgeRisk(s) ==
  /\ At(s, "policy")
  /\ LET f == failurePolicy(sess[s])
         v == IF ~sess[s].whole \/ (failsClosed(sess[s]) /\ f = "ask") THEN "red" ELSE sess[s].verdict IN
     Becomes(s, IF v = "green" /\ sess[s].ext # "failed" THEN Going(sess[s], "pass")
                ELSE [sess[s] EXCEPT !.pc = "action", !.failure = f, !.stops = (f = "block"), !.verdict = v])
  /\ UNCHANGED <<policy, approvals, now, issued, spent>>

riskAction(level) == IF mode.mode \in {"ask", "block"} /\ level # "red" THEN "warn" ELSE mode.mode

\* Where an action leads.
Leads(action) ==
  CASE action = "ask" -> "consume" [] action = "block" -> "refused" [] OTHER -> "pass"

\* Mutant: a script that was not judged whole may be approved.
forcedLeadsToApproval(r) == Leads(riskAction("red"))

\* It never meets an approval: it could release what nobody has seen.
forcedLeads(r) ==
  IF r.stops \/ (failsClosed(r) /\ r.failure = "ask") \/ riskAction("red") \in {"ask", "block"}
  THEN "refused" ELSE "pass"

\* The second half: the mode is read again.
decide(s) ==
  /\ At(s, "action")
  /\ LET r == sess[s] IN
     Becomes(s, Going(r,
       CASE ~r.whole -> forcedLeads(r)
         [] r.whole /\ r.stops -> "refused"
         [] r.whole /\ ~r.stops /\ r.verdict = "green" -> Leads(r.failure)
         [] r.whole /\ ~r.stops /\ r.verdict # "green" ->
              IF failsClosed(r) /\ r.failure = "ask" THEN "consume" ELSE Leads(riskAction(r.verdict))))
  /\ UNCHANGED <<policy, approvals, now, issued, spent>>

-----------------------------------------------------------------------------
(* Approvals.  Each operation holds riskApprovalMu; between looking for one  *)
(* and asking for one it is free.                                           *)

Expired == {a \in approvals : now >= a.expires}
Fresh == approvals \ Expired

\* Mutant: the command is not part of what is matched.
matchesAnyCommand(a, r) == a.person = r.person /\ a.by # NoOne

matches(a, r) == a.person = r.person /\ a.text = r.text /\ a.by # NoOne

\* Mutant: the record stays.
consumeKeeps(s) ==
  /\ At(s, "consume")
  /\ \/ \E a \in Fresh : /\ matches(a, sess[s])
                         /\ approvals' = Fresh
                         /\ spent' = [spent EXCEPT ![a.id] = @ + 1]
                         /\ Becomes(s, [sess[s] EXCEPT !.pc = "pass", !.used = [id |-> a.id, text |-> a.text, by |-> a.by]])
     \/ /\ \A a \in Fresh : ~matches(a, sess[s])
        /\ approvals' = Fresh /\ Becomes(s, [sess[s] EXCEPT !.pc = "create"]) /\ UNCHANGED spent
  /\ UNCHANGED <<policy, now, issued>>

consumeRiskApproval(s) ==
  /\ At(s, "consume")
  /\ \/ \E a \in Fresh : /\ matches(a, sess[s])
                         /\ approvals' = Fresh \ {a}
                         /\ spent' = [spent EXCEPT ![a.id] = @ + 1]
                         /\ Becomes(s, [sess[s] EXCEPT !.pc = "pass", !.used = [id |-> a.id, text |-> a.text, by |-> a.by]])
     \/ /\ \A a \in Fresh : ~matches(a, sess[s])
        /\ approvals' = Fresh /\ Becomes(s, [sess[s] EXCEPT !.pc = "create"]) /\ UNCHANGED spent
  /\ UNCHANGED <<policy, now, issued>>

\* Mutant: every attempt gets a record of its own.
heldNever(r) == {}

\* The record that is reused: the same command, held and not yet approved.
held(r) == {a \in Fresh : a.person = r.person /\ a.text = r.text /\ a.by = NoOne}

createRiskApproval(s) ==
  /\ At(s, "create")
  /\ \/ \E a \in held(sess[s]) :
          approvals' = (approvals \ {a}) \cup {[a EXCEPT !.expires = now + TTL]} /\ UNCHANGED issued
     \/ /\ held(sess[s]) = {} /\ issued < MaxIds /\ issued' = issued + 1
        /\ approvals' = approvals \cup {[id |-> issued + 1, person |-> sess[s].person, text |-> sess[s].text,
                                         expires |-> now + TTL, by |-> NoOne, at |-> 0]}
  /\ Becomes(s, Idle)
  /\ UNCHANGED <<policy, now, spent>>

\* Mutant: whoever knows the id may approve.
mayApproveAnybody(p, a) == TRUE

mayApprove(p, a) == a.person = p

\* Mutant: approving again begins the window again.
approveExtends(p, a) ==
  IF now >= a.expires THEN approvals \ {a}
  ELSE (approvals \ {a}) \cup
       {IF a.by = NoOne THEN [a EXCEPT !.by = p, !.at = now] ELSE [a EXCEPT !.expires = now + TTL]}

\* The approvals once p has approved a; approving again changes nothing.
approveRiskApproval(p, a) ==
  IF now >= a.expires THEN approvals \ {a}
  ELSE IF mayApprove(p, a) /\ a.by = NoOne THEN (approvals \ {a}) \cup {[a EXCEPT !.by = p, !.at = now]}
  ELSE approvals

denyRiskApproval(p, a) == IF now >= a.expires \/ mayApprove(p, a) THEN approvals \ {a} ELSE approvals

\* What is held is shown, and what has expired dropped on the way.
pendingRiskApprovals == Fresh

cmdRiskApprove(p, a) ==
  /\ approvals' = approveRiskApproval(p, a)
  /\ UNCHANGED <<policy, sess, now, issued, spent>>

cmdRiskDeny(p, a) ==
  /\ approvals' = denyRiskApproval(p, a)
  /\ UNCHANGED <<policy, sess, now, issued, spent>>

cmdRiskPending ==
  /\ approvals' = pendingRiskApprovals
  /\ UNCHANGED <<policy, sess, now, issued, spent>>

-----------------------------------------------------------------------------
(* What becomes of the decision. *)

\* For a command that may pass the recording is opened, the notice written and
\* the machine asked; each may fail, and an approval that was used is then gone like one that served.
endSession(s) ==
  /\ At(s, "pass") /\ Becomes(s, Idle)
  /\ UNCHANGED <<policy, approvals, now, issued, spent>>

-----------------------------------------------------------------------------
(* Administrators, the clock, the process. *)

\* The file is written and the pointer replaced, one administrator at a time;
\* a mode that could not be written is not taken.  A session being judged has
\* seen it.
cmdRiskMode(m) ==
  /\ switches < MaxSwitches /\ switches' = switches + 1 /\ mode' = Live(m)
  /\ sess' = [s \in Sessions |-> IF Judging(s) THEN [sess[s] EXCEPT !.seen = laxest(@, laxity(Live(m)))] ELSE sess[s]]
  /\ UNCHANGED <<source, approvals, now, issued, spent>>

cmdRiskSource(c) ==
  /\ c # source /\ (c = "rules" \/ HasClient) /\ switches < MaxSwitches /\ switches' = switches + 1
  /\ source' = c
  /\ UNCHANGED <<mode, approvals, sess, now, issued, spent>>

\* What a starting process finds: the file, or the configuration where the
\* file cannot be used.
loadRiskMode == {mode, [mode |-> ConfigMode, source |-> "config"]}
loadRiskSource == {source, ConfigSource}

\* The process starts again: approvals and sessions are gone.
Restart ==
  /\ mode' \in loadRiskMode /\ source' \in loadRiskSource
  /\ approvals' = {} /\ sess' = [s \in Sessions |-> Idle]
  /\ UNCHANGED <<now, issued, switches, spent>>

Tick == now < MaxTime /\ now' = now + 1
        /\ UNCHANGED <<policy, approvals, sess, issued, spent>>

Next ==
  \/ Tick \/ Restart \/ cmdRiskPending
  \/ \E m \in Modes : cmdRiskMode(m)
  \/ \E c \in Sources : cmdRiskSource(c)
  \/ \E p \in Persons, a \in approvals : cmdRiskApprove(p, a) \/ cmdRiskDeny(p, a)
  \/ \E s \in Sessions :
       \/ \E p \in Senders, t \in Texts, w \in BOOLEAN : Begin(s, p, t, w)
       \/ \E e \in Levels \cup {"failed"} : classifyWithExternal(s, e)
       \/ classifyExec(s) \/ judgeRisk(s) \/ decide(s)
       \/ consumeRiskApproval(s) \/ createRiskApproval(s)
       \/ endSession(s)

Spec == Init /\ [][Next]_vars

-----------------------------------------------------------------------------
(* What the barrier promises. *)

Sess ==
  [pc : {"idle", "classify", "asked", "policy", "action", "consume", "create", "pass"},
   person : Persons \cup {NoOne}, text : Texts \cup {NoOne}, whole : BOOLEAN, source : Sources,
   ext : Levels \cup {"failed", "none"}, verdict : Levels, failure : Modes, stops : BOOLEAN,
   used : [id : Ids \cup {0}, text : Texts \cup {NoOne}, by : Persons \cup {NoOne}], seen : {"strict", "lax", "live"}]

Approval == [id : Ids, person : Persons, text : Texts, expires : Nat, by : Persons \cup {NoOne}, at : 0..MaxTime]

TypeOK ==
  /\ mode \in [mode : Modes, source : {"live", "config"}] /\ source \in Sources
  /\ approvals \subseteq Approval
  /\ sess \in [Sessions -> Sess]
  /\ now \in 0..MaxTime /\ issued \in 0..MaxIds /\ switches \in 0..MaxSwitches
  /\ spent \in [Ids -> Nat]

\* An approval lets one command through (risk_approval.go
\* consumeRiskApproval), however many sessions repeat the command at once.
ApprovalRunsOnce == \A i \in Ids : spent[i] <= 1

\* What an approval let through is the command that was held, text for text,
\* and it was given, by the person who sent it.
ApprovalIsItsOwn ==
  \A s \in Sessions : sess[s].used # NotUsed =>
    sess[s].used.by = sess[s].person /\ sess[s].used.text = sess[s].text

\* An approval is spent within riskApprovalTTL of being given: attempts after
\* it do not keep it alive.
ApprovalIsShort == \A a \in approvals : a.by # NoOne => a.expires <= a.at + TTL

\* A person who looks sees one entry for a held command, whatever the attempts
\* (the comment in createRiskApproval).
OneEntryPerHeldCommand ==
  \A a, b \in Fresh : a.by = NoOne /\ b.by = NoOne /\ a.person = b.person /\ a.text = b.text => a = b

\* An approval is of one held command and good for one run of it, soon: not for
\* two sessions at once, another text or person, or an extended time; and
\* there is one of it to approve.
ApprovalIsExact == ApprovalRunsOnce /\ ApprovalIsItsOwn /\ ApprovalIsShort /\ OneEntryPerHeldCommand

\* A command that the external service should have judged and did not passes with
\* a person's approval, or because an administrator had set log or warn live
\* while it was being judged (human_role.go riskClassifierFailurePolicy).
NothingUnjudgedRuns ==
  \A s \in Sessions : At(s, "pass") /\ sess[s].ext = "failed" /\ sess[s].used = NotUsed =>
    sess[s].seen = "live"

\* The sources that were consulted found the command red, or its script was
\* not seen whole.
Red(r) == \/ r.ext = "red" \/ ~r.whole \/ (r.source \in {"rules", "both"} /\ local(r.text) = "red")

\* A red command passes with an approval, or because the mode was log or warn
\* while it was being judged; a script not seen whole passes with no approval.
NothingRedRuns ==
  \A s \in Sessions : At(s, "pass") /\ Red(sess[s]) =>
    \/ sess[s].used # NotUsed /\ sess[s].whole
    \/ sess[s].seen # "strict"

\* Whatever is switched, fails or restarts while a command is being judged, it
\* passes judged and not red, or because a person said so.
BarrierHolds == NothingUnjudgedRuns /\ NothingRedRuns
=============================================================================
