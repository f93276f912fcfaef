------------------------------- MODULE Drain -------------------------------
(***************************************************************************)
(* Starting and stopping the gateway (internal/gateway/drain.go; Serve,    *)
(* Close and handleConn in gateway.go; the run loop of                     *)
(* cmd/iamtunnel/gateway.go) against people's connections on their way in  *)
(* and out (serveHumanSession in human_role.go).                           *)
(*                                                                         *)
(* A connection carries at most one session.  What a session's setup does  *)
(* on the machine's side is left to MachineConn: here it succeeds or is    *)
(* refused, and may have to wait for the machine's driveMu before.  A      *)
(* connection that never asks for a session stands for command and machine *)
(* connections too.                                                        *)
(***************************************************************************)
EXTENDS Naturals

CONSTANT Conns

VARIABLES
  serve,     \* the goroutine in Serve: "starting", "accepting", "returned"
  ln,        \* g.ln is registered
  lnOpen,    \* the listening socket is open
  stop,      \* where the run loop stands
  draining,  \* the flag of drainState
  toTell,    \* the channels Drain has taken from notices
  emptied,   \* the drain's poll found no session left
  pc,        \* where each connection's handler stands
  conns,     \* g.conns
  cut,       \* connections whose transport is closed
  counting,  \* setupWG: the setups it counts
  live,      \* sessions the access engine lists
  notices,   \* sessions registered for the restart line
  told       \* sessions the restart line is on its way to

listener == <<serve, ln, lnOpen>>
drain == <<draining, toTell, emptied>>
people == <<pc, conns, cut, counting, live, notices, told>>
vars == <<listener, stop, drain, people>>

Goes(c, from, to) == pc[c] = from /\ pc' = [pc EXCEPT ![c] = to]

closed == stop \in {"closing", "cutting", "returned"}

-----------------------------------------------------------------------------
(* Serve and the connections it accepts. *)

\* Mutant: Serve does not look whether the gateway is closed already.
ServeBlindly ==
  /\ serve = "starting"
  /\ serve' = "accepting" /\ ln' = TRUE
  /\ UNCHANGED <<lnOpen, stop, drain, people>>

\* Registering the listener and reading the flag are one step under g.mu.
Serve ==
  /\ serve = "starting"
  /\ IF closed THEN serve' = "returned" /\ lnOpen' = FALSE /\ UNCHANGED ln
     ELSE serve' = "accepting" /\ ln' = TRUE /\ UNCHANGED lnOpen
  /\ UNCHANGED <<stop, drain, people>>

\* Accept fails: the listener was closed, or an error of the system.
AcceptFails ==
  /\ serve = "accepting"
  /\ serve' = "returned"
  /\ UNCHANGED <<ln, lnOpen, stop, drain, people>>

Accept(c) ==
  /\ serve = "accepting" /\ lnOpen
  /\ Goes(c, "out", "accepted")
  /\ UNCHANGED <<listener, stop, drain, conns, cut, counting, live, notices, told>>

\* Mutant: a connection accepted just before Close is served after it.
handleConnBlindly(c) ==
  /\ Goes(c, "accepted", "in")
  /\ conns' = conns \cup {c}
  /\ UNCHANGED <<listener, stop, drain, cut, counting, live, notices, told>>

\* Reading the flag and being counted are one step under g.mu.
handleConn(c) ==
  /\ IF closed THEN Goes(c, "accepted", "gone") /\ UNCHANGED conns
     ELSE Goes(c, "accepted", "in") /\ conns' = conns \cup {c}
  /\ UNCHANGED <<listener, stop, drain, cut, counting, live, notices, told>>

\* The handler returns; forgetConn takes the transport off the list.
forgetConn(c) ==
  /\ Goes(c, "in", "gone")
  /\ conns' = conns \ {c}
  /\ UNCHANGED <<listener, stop, drain, cut, counting, live, notices, told>>

-----------------------------------------------------------------------------
(* serveHumanSession. *)

\* Mutant: the setup reads the flag and goes on uncounted.
serveHumanSessionUncounted(c) ==
  /\ c \notin cut
  /\ stop # "waiting"
  /\ Goes(c, "in", IF draining THEN "refusing" ELSE "setup")
  /\ UNCHANGED <<listener, stop, drain, conns, cut, counting, live, notices, told>>

\* The flag is read and the setup counted under setupMu, which Drain holds
\* while it waits for the setups.
serveHumanSession(c) ==
  /\ c \notin cut
  /\ stop # "waiting"
  /\ Goes(c, "in", IF draining THEN "refusing" ELSE "setup")
  /\ counting' = IF draining THEN counting ELSE counting \cup {c}
  /\ UNCHANGED <<listener, stop, drain, conns, cut, live, notices, told>>

\* A setup waits for driveMu without its budget (reserveWire and the two ends of
\* the nested handshake).  The status loop of a machine that answers nothing may
\* hold it for ever: with a session live there the loop does not let go of the
\* machine, and that session's finishSession waits for driveMu as well
\* (MachineConn).  Close tears every machine connection down.
awaitsDriveMu(c) ==
  /\ stop \notin {"cutting", "returned"}
  /\ Goes(c, "setup", "parked")
  /\ UNCHANGED <<listener, stop, drain, conns, cut, counting, live, notices, told>>

takesDriveMu(c) ==
  /\ Goes(c, "parked", "setup")
  /\ UNCHANGED <<listener, stop, drain, conns, cut, counting, live, notices, told>>

\* The access engine, the door or the machine says no.
denyHuman(c) ==
  /\ Goes(c, "setup", "denying")
  /\ UNCHANGED <<listener, stop, drain, conns, cut, counting, live, notices, told>>

\* The refusal is written to the person's channel, which takes the client's
\* part: the step happens when it has read, or its transport is cut.  The
\* setup is counted until the handler returns.
writeAndClose(c) ==
  /\ Goes(c, pc[c], "gone")
  /\ pc[c] \in {"refusing", "denying"}
  /\ conns' = conns \ {c}
  /\ counting' = counting \ {c}
  /\ UNCHANGED <<listener, stop, drain, cut, live, notices, told>>

OpenSession(c) ==
  /\ Goes(c, "setup", "opened")
  /\ live' = live \cup {c}
  /\ UNCHANGED <<listener, stop, drain, conns, cut, counting, notices, told>>

\* Mutant: the setup stays counted when its session is registered.
setupDoneLate(c) ==
  /\ Goes(c, "opened", "registered")
  /\ UNCHANGED <<listener, stop, drain, conns, cut, counting, live, notices, told>>

setupDone(c) ==
  /\ Goes(c, "opened", "registered")
  /\ counting' = counting \ {c}
  /\ UNCHANGED <<listener, stop, drain, conns, cut, live, notices, told>>

\* Mutant: a session that registers during the drain is not told.
watchDrainLateUntold(c) ==
  /\ Goes(c, "registered", "watched")
  /\ notices' = notices \cup {c}
  /\ UNCHANGED <<listener, stop, drain, conns, cut, counting, live, told>>

\* Registering and reading the flag are one step under noticeMu.
watchDrain(c) ==
  /\ Goes(c, "registered", "watched")
  /\ notices' = notices \cup {c}
  /\ told' = IF draining THEN told \cup {c} ELSE told
  /\ UNCHANGED <<listener, stop, drain, conns, cut, counting, live>>

\* The session is over: the engine forgets it, then the deferred
\* unregistration runs and the connection ends.
endSession(c) ==
  /\ Goes(c, "watched", "gone")
  /\ live' = live \ {c}
  /\ notices' = notices \ {c}
  /\ conns' = conns \ {c}
  /\ UNCHANGED <<listener, stop, drain, cut, counting, told>>

-----------------------------------------------------------------------------
(* The run loop: Drain, then Close. *)

\* The flag is set and the channels to tell are taken under noticeMu.
Drain ==
  /\ stop = "running"
  /\ stop' = "flagged"
  /\ draining' = TRUE
  /\ toTell' = notices
  /\ UNCHANGED <<listener, emptied, people>>

\* Only a listener that Serve has registered can be closed.
closeListener ==
  /\ stop = "flagged"
  /\ stop' = "telling"
  /\ lnOpen' = IF ln THEN FALSE ELSE lnOpen
  /\ UNCHANGED <<serve, ln, drain, people>>

\* Each line has a goroutine of its own, so nobody's reading is waited for.
sendDrainNotice ==
  /\ stop = "telling"
  /\ stop' = "waiting"
  /\ told' = told \cup toTell
  /\ toTell' = {}
  /\ UNCHANGED <<listener, draining, emptied, pc, conns, cut, counting, live, notices>>

\* setupWG.Wait under setupMu.
setupsSettled ==
  /\ stop = "waiting"
  /\ counting = {}
  /\ stop' = "polling"
  /\ UNCHANGED <<listener, drain, people>>

\* The poll finds nobody left, or the time is up.
pollEnds ==
  /\ stop = "polling"
  /\ stop' = "drained"
  /\ emptied' = (live = {})
  /\ UNCHANGED <<listener, draining, toTell, people>>

\* Close follows Drain, or a Serve that ended by itself.
Close ==
  /\ stop = "drained" \/ (stop = "running" /\ serve = "returned")
  /\ stop' = "closing"
  /\ UNCHANGED <<listener, drain, people>>

\* Mutant: Close waits for handlers whose transports it has not cut.
cutTransportsOnlyListener ==
  /\ stop = "closing"
  /\ stop' = "cutting"
  /\ lnOpen' = IF ln THEN FALSE ELSE lnOpen
  /\ UNCHANGED <<serve, ln, drain, people>>

cutTransports ==
  /\ stop = "closing"
  /\ stop' = "cutting"
  /\ lnOpen' = IF ln THEN FALSE ELSE lnOpen
  /\ cut' = cut \cup conns
  /\ UNCHANGED <<serve, ln, drain, pc, conns, counting, live, notices, told>>

\* g.wg.Wait: every handler that was counted has returned.
CloseReturns ==
  /\ stop = "cutting"
  /\ conns = {}
  /\ stop' = "returned"
  /\ UNCHANGED <<listener, drain, people>>

-----------------------------------------------------------------------------
Init ==
  /\ serve = "starting" /\ ln = FALSE /\ lnOpen = TRUE
  /\ stop = "running"
  /\ draining = FALSE /\ toTell = {} /\ emptied = FALSE
  /\ pc = [c \in Conns |-> "out"]
  /\ conns = {} /\ cut = {} /\ counting = {}
  /\ live = {} /\ notices = {} /\ told = {}

Handler(c) ==
  \/ Accept(c) \/ handleConn(c) \/ forgetConn(c)
  \/ serveHumanSession(c) \/ awaitsDriveMu(c) \/ takesDriveMu(c) \/ denyHuman(c) \/ writeAndClose(c)
  \/ OpenSession(c) \/ setupDone(c) \/ watchDrain(c) \/ endSession(c)

Stop ==
  \/ Drain \/ closeListener \/ sendDrainNotice \/ setupsSettled
  \/ pollEnds \/ Close \/ cutTransports \/ CloseReturns

Next == Serve \/ AcceptFails \/ (\E c \in Conns : Handler(c)) \/ Stop

Spec == Init /\ [][Next]_vars

\* What depends on no client and no machine goes on: the run loop, Serve, a
\* handler up to its next write or its next wait for driveMu, and any handler
\* whose transport, or whose machine's, is cut.  The stop signal need not come.
FairSpec ==
  /\ Spec
  /\ WF_vars(Serve) /\ WF_vars(~lnOpen /\ AcceptFails)
  /\ WF_vars(Stop /\ ~Drain)
  /\ \A c \in Conns :
       /\ WF_vars(handleConn(c)) /\ WF_vars(OpenSession(c) \/ denyHuman(c))
       /\ WF_vars(setupDone(c)) /\ WF_vars(watchDrain(c))
       /\ WF_vars(stop \in {"cutting", "returned"} /\ takesDriveMu(c))
       /\ WF_vars(c \in cut /\ (forgetConn(c) \/ writeAndClose(c) \/ endSession(c)))

-----------------------------------------------------------------------------
\* Only a setup is counted as one, and only a handler at work is on the list.
TypeOK ==
  /\ serve \in {"starting", "accepting", "returned"}
  /\ ln \in BOOLEAN /\ lnOpen \in BOOLEAN
  /\ stop \in {"running", "flagged", "telling", "waiting", "polling", "drained",
               "closing", "cutting", "returned"}
  /\ draining \in BOOLEAN /\ emptied \in BOOLEAN
  /\ pc \in [Conns -> {"out", "accepted", "in", "refusing", "setup", "parked", "denying",
                       "opened", "registered", "watched", "gone"}]
  /\ toTell \subseteq Conns /\ told \subseteq Conns /\ cut \subseteq Conns
  /\ conns = {c \in Conns : pc[c] \notin {"out", "accepted", "gone"}}
  /\ counting \subseteq {c \in Conns : pc[c] \in {"setup", "parked", "denying", "opened"}}
  /\ live = {c \in Conns : pc[c] \in {"opened", "registered", "watched"}}
  /\ notices = {c \in Conns : pc[c] = "watched"}

\* A drain that reports everybody gone has overlooked nobody: no session is
\* there, and none that was being set up turns up later (setupMu, setupWG).
DrainMissesNobody == emptied => live = {} /\ \A c \in Conns : pc[c] \notin {"setup", "parked", "denying"}

\* Every session there is to tell is told that the gateway stops, those that
\* register behind the drain's back included (watchDrain).
EveryoneIsTold == draining => notices \subseteq told \cup toTell

\* Once Close has returned nothing of the gateway is at work, and nothing
\* starts again (handleConn's look at the flag, CloseReturns' wait).
NothingAfterClose == stop = "returned" => conns = {} /\ live = {}

\* Once Close has returned no Accept waits for a listener nobody will close
\* (the comment in Serve).
NoAcceptAfterClose == stop = "returned" /\ serve = "accepting" => ~lnOpen

\* Close is the end, whenever it comes: before Serve has run, beside a
\* connection just accepted, or after a drain.
CloseIsTheEnd == NothingAfterClose /\ NoAcceptAfterClose

\* A setup that the drain waits for is itself held: by a machine's driveMu, or by
\* a client that does not take its refusal.
SetupHeld == stop = "waiting" /\ \E c \in counting : pc[c] \in {"parked", "denying"}

\* A stop that has begun comes to its end, Drain and Close return and so does
\* Serve, unless for as long as a setup is held in the drain's wait, which has no
\* time limit (setupWG.Wait); past it nothing holds the stop, not even handlers
\* whose clients or machines are silent (Close).
StopEnds == (stop # "running") ~> (SetupHeld \/ (stop = "returned" /\ serve = "returned"))

\* "The setup budget bounds the wait: a setup parked on a quiet machine resolves
\* within it" (Drain).
BudgetBoundsTheWait == stop = "waiting" ~> stop # "waiting"

\* Once Drain has closed the listener no connection is taken at all.
DrainTakesNobody == draining /\ stop # "flagged" => ~(serve = "accepting" /\ lnOpen)

=============================================================================
