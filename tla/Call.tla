-------------------------------- MODULE Call --------------------------------
(***************************************************************************)
(* apps/call-core/src/call-core.js: a 1:1 call between two endpoints over  *)
(* a channel that may lose, delay and reorder messages.  An endpoint holds *)
(* one CallSession; its timers are the set of the armed ones, and an armed *)
(* timer may fire at any time.  The session's promise queue runs one job   *)
(* at a time: "job" is where the running one waits, and an offer or an     *)
(* answer that arrives meanwhile stays in flight.  ICE candidates, relay   *)
(* choice, muting and video are left out; what the peer connection reports *)
(* is the environment's choice.                                            *)
(***************************************************************************)
EXTENDS Integers, FiniteSets

CONSTANTS
  A, B,       \* the endpoints
  MaxCalls,   \* bound: how many calls are dialled
  MaxEpoch,   \* bound: how often a call's link is renegotiated
  MaxNet      \* bound: messages in flight

ASSUME EndpointsAssumption == A # B
ASSUME CallBounds == MaxCalls \in Nat \ {0} /\ MaxEpoch \in Nat /\ MaxNet \in Nat

Endpoints == {A, B}
Peer(e) == IF e = A THEN B ELSE A
CallIds == 1 .. MaxCalls

VARIABLES
  call,      \* call[e]: the session endpoint e holds, live or over
  ended,     \* ended[e]: the calls that are over at e
  net,       \* the messages in flight
  dialled,   \* how many call ids have been handed out
  accepted   \* history: the calls somebody tapped accept for

vars == <<call, ended, net, dialled, accepted>>

NoCall == [id |-> 0, role |-> "caller", state |-> "idle", media |-> FALSE,
           pc |-> FALSE, conn |-> "new", signaling |-> "stable", offered |-> -1,
           remote |-> -1, epoch |-> 0, got |-> -1, answered |-> -1, atLoss |-> 0,
           job |-> "none", timers |-> {}]

Init ==
  /\ call = [e \in Endpoints |-> NoCall]
  /\ ended = [e \in Endpoints |-> {}]
  /\ net = {} /\ dialled = 0 /\ accepted = {}

-----------------------------------------------------------------------------
(* A message to endpoint e; sending again what is still in flight adds      *)
(* nothing, as delivery is in any order anyway.                             *)
Msg(e, type, id, epoch) == [to |-> e, type |-> type, id |-> id, epoch |-> epoch]
Tell(e, type) == {Msg(Peer(e), type, call[e].id, call[e].epoch)}

IsOver(c) == c.state = "ended"

(* Variant: a session that never started counts as a call. *)
Active_NotOver(c) == c.state # "ended"

Active(c) == c.state \notin {"idle", "ended"}

Arm(c, names) == [c EXCEPT !.timers = @ \union names]
Clear(c, names) == [c EXCEPT !.timers = @ \ names]

(* finish(): timers, media and the peer connection are given back. *)
Finish(c) ==
  [c EXCEPT !.state = "ended", !.timers = {}, !.media = FALSE, !.pc = FALSE,
            !.conn = "new", !.signaling = "stable", !.offered = -1, !.remote = -1]

(* Variant: the window is only opened for a call that was connected. *)
LinkLost_NoWindow(c) ==
  IF IsOver(c) \/ ~c.pc THEN c
  ELSE Arm([c EXCEPT !.state = "reconnecting", !.atLoss = c.epoch,
                     !.timers = (@ \ {"connect"})
                        \union (IF c.state = "connected" THEN {"window"} ELSE {})], {"restart"})

(* onLinkLost(): reconnecting, with a window that ends the call; a restart  *)
(* is arranged unless one is under way.                                     *)
LinkLost(c) ==
  IF IsOver(c) \/ ~c.pc THEN c
  ELSE LET d == IF c.state = "reconnecting" THEN c
                ELSE [c EXCEPT !.state = "reconnecting", !.atLoss = c.epoch,
                               !.timers = (@ \ {"connect"}) \union {"window"}]
       IN IF d.role = "callee" /\ d.answered > d.atLoss THEN d ELSE Arm(d, {"restart"})

(* The callee asks for the restart at once, the caller waits its backoff.   *)
LostTells(e) ==
  IF /\ call[e].role = "callee" /\ "restart" \notin call[e].timers
     /\ "restart" \in LinkLost(call[e]).timers
  THEN Tell(e, "restart") ELSE {}

MarkConnected(c) == Clear([c EXCEPT !.state = "connected"], {"restart", "window", "offer"})

-----------------------------------------------------------------------------
(* What one endpoint does: c becomes its session (onEnded notes its end),   *)
(* the messages in are taken and the messages out are sent.  More than the  *)
(* 64 calls "ended" remembers are beyond the bound MaxCalls.                *)
Becomes(e, c, in, out) ==
  /\ call' = [call EXCEPT ![e] = c]
  /\ ended' = [ended EXCEPT ![e] = IF IsOver(c) THEN @ \union {c.id} ELSE @]
  /\ net' = (net \ in) \union out /\ Cardinality(net') <= MaxNet

Step(e, c, out) == Becomes(e, c, {}, out) /\ UNCHANGED <<dialled, accepted>>
Handle(e, m, c, out) == Becomes(e, c, {m}, out) /\ UNCHANGED <<dialled, accepted>>

Lost(e) == Step(e, LinkLost(call[e]), LostTells(e))

(* CallEndpoint.dial() and CallSession.dial(). *)
Dial(e) ==
  /\ ~Active(call[e]) /\ dialled < MaxCalls
  /\ dialled' = dialled + 1
  /\ Becomes(e, [NoCall EXCEPT !.id = dialled + 1, !.state = "calling", !.timers = {"invite", "ring"}],
             {}, {Msg(Peer(e), "invite", dialled + 1, 0)})
  /\ UNCHANGED accepted

Accept(e) ==
  /\ call[e].state = "ringing-in"
  /\ accepted' = accepted \union {call[e].id}
  /\ Becomes(e, Clear([call[e] EXCEPT !.state = "connecting", !.job = "media"], {"ring"}), {}, {})
  /\ UNCHANGED dialled

Decline(e) ==
  /\ call[e].state = "ringing-in"
  /\ Step(e, Finish(call[e]), Tell(e, "decline"))

(* hangup(), also through CallEndpoint.close(). *)
Hangup(e) == Active(call[e]) /\ Step(e, Finish(call[e]), Tell(e, "bye"))

NetworkChanged(e) == call[e].state \in {"connected", "reconnecting"} /\ Lost(e)

-----------------------------------------------------------------------------
(* The jobs of the promise queue, one await at a time. *)

(* Variant: the answer of getUserMedia is kept although the call is over. *)
MediaGranted_Kept(c) == [c EXCEPT !.media = TRUE, !.job = IF IsOver(c) THEN "none" ELSE "servers"]

MediaGranted(c) ==
  IF IsOver(c) THEN [c EXCEPT !.job = "none"]
  ELSE [c EXCEPT !.media = TRUE, !.job = "servers"]

(* prepareConnection(): getUserMedia answers, or is refused. *)
PrepareMedia(e) ==
  /\ call[e].job = "media"
  /\ \/ Step(e, MediaGranted(call[e]), {})
     \/ IF IsOver(call[e]) THEN Step(e, [call[e] EXCEPT !.job = "none"], {})
        ELSE Step(e, [Finish(call[e]) EXCEPT !.job = "none"], Tell(e, "bye"))

(* The ICE servers are there: the connection is made; the callee sends      *)
(* call.accept, once; the caller goes on to its offer.                      *)
PrepareConnection(e) ==
  /\ call[e].job = "servers"
  /\ LET made == [call[e] EXCEPT !.pc = TRUE, !.timers = @ \union {"stats"}]
     IN IF IsOver(call[e]) THEN Step(e, [call[e] EXCEPT !.job = "none"], {})
        ELSE IF call[e].role = "callee"
        THEN Step(e, Arm([made EXCEPT !.job = "none"], {"connect"}), Tell(e, "accept"))
        ELSE Step(e, [made EXCEPT !.job = "first-offer"], {})

(* sendOffer() from peerIceServers() on.  The timer for the first offer is  *)
(* armed even when the call ended meanwhile.                                *)
SendOffer(e) ==
  /\ call[e].job \in {"first-offer", "offer"}
  /\ LET first == IF call[e].job = "first-offer" THEN {"connect"} ELSE {}
         c == Arm([call[e] EXCEPT !.job = "none"], first)
     IN IF IsOver(call[e]) THEN Step(e, c, {})
        ELSE Step(e, Arm([c EXCEPT !.signaling = "have-local-offer", !.offered = c.epoch], {"offer"}),
                  Tell(e, "offer"))

(* restartIce() up to the servers: nothing to do while an offer is fresh    *)
(* and unanswered.                                                          *)
RestartIce(e) ==
  /\ call[e].job = "restart"
  /\ \/ /\ IsOver(call[e]) \/ call[e].signaling = "have-local-offer"
        /\ Step(e, [call[e] EXCEPT !.job = "none"], {})
     \/ /\ ~IsOver(call[e])
        /\ Step(e, [call[e] EXCEPT !.job = "rollback"], {})

(* sendOffer(true) up to peerIceServers(): an open offer is rolled back. *)
RestartOffer(e) ==
  /\ call[e].job = "rollback"
  /\ IF IsOver(call[e]) THEN Step(e, [call[e] EXCEPT !.job = "none"], {})
     ELSE Step(e, [call[e] EXCEPT !.signaling = "stable", !.offered = call[e].remote,
                                  !.epoch = @ + 1, !.job = "offer"], {})

(* onOffer() once the fresh ICE servers are there. *)
TakeOffer(c, epoch) == [c EXCEPT !.epoch = epoch, !.got = -1, !.job = "answer"]

RenewServers(e) ==
  /\ call[e].job = "renew"
  /\ IF IsOver(call[e]) THEN Step(e, [call[e] EXCEPT !.job = "none"], {})
     ELSE Step(e, TakeOffer(call[e], call[e].got), {})

(* onOffer() from setRemoteDescription() on. *)
SendAnswer(e) ==
  /\ call[e].job = "answer"
  /\ IF IsOver(call[e]) THEN Step(e, [call[e] EXCEPT !.job = "none"], {})
     ELSE Step(e, Clear([call[e] EXCEPT !.answered = call[e].epoch, !.job = "none"], {"restart"}),
               Tell(e, "answer"))

Work(e) ==
  \/ PrepareMedia(e) \/ PrepareConnection(e) \/ SendOffer(e)
  \/ RestartIce(e) \/ RestartOffer(e) \/ RenewServers(e) \/ SendAnswer(e)

-----------------------------------------------------------------------------
(* Timers. *)

Timed(e, name) == name \in call[e].timers

FireInvite(e) == Timed(e, "invite") /\ Step(e, call[e], Tell(e, "invite"))

(* Nobody picked up: the caller says bye, the callee just stops ringing. *)
FireRing(e) ==
  /\ Timed(e, "ring")
  /\ Step(e, Finish(call[e]), IF call[e].role = "caller" THEN Tell(e, "bye") ELSE {})

FireConnect(e) ==
  /\ Timed(e, "connect")
  /\ LET c == Clear(call[e], {"connect"}) IN Step(e, LinkLost(c), LostTells(e))

FireGrace(e) ==
  /\ Timed(e, "grace")
  /\ LET c == Clear(call[e], {"grace"}) IN Step(e, LinkLost(c), LostTells(e))

FireWindow(e) == Timed(e, "window") /\ Step(e, Finish(call[e]), Tell(e, "bye"))

FireOffer(e) ==
  /\ Timed(e, "offer") /\ call[e].offered = call[e].epoch
  /\ Step(e, call[e], Tell(e, "offer"))

(* The callee asks again; the caller queues restartIce() and, as both       *)
(* halves of scheduleRestart() arm the next one, stays armed.               *)
FireRestart(e) ==
  /\ Timed(e, "restart")
  /\ IF call[e].role = "callee" THEN Step(e, call[e], Tell(e, "restart"))
     ELSE /\ call[e].job = "none" /\ call[e].epoch < MaxEpoch
          /\ Step(e, [call[e] EXCEPT !.job = "restart"], {})

(* renegotiated(). *)
Renegotiated(c) ==
  /\ c.conn = "connected" /\ c.epoch > c.atLoss
  /\ c.signaling = "stable" /\ (c.role = "caller" \/ c.answered = c.epoch)

(* watchMedia(): packets came, or none did for mediaStallMs. *)
PacketsMoved(e) ==
  /\ Timed(e, "stats") /\ call[e].state = "reconnecting" /\ Renegotiated(call[e])
  /\ Step(e, MarkConnected(call[e]), {})

MediaStalled(e) == Timed(e, "stats") /\ call[e].state = "connected" /\ Lost(e)

Fire(e) ==
  \/ FireInvite(e) \/ FireRing(e) \/ FireConnect(e) \/ FireGrace(e) \/ FireWindow(e)
  \/ FireOffer(e) \/ FireRestart(e) \/ PacketsMoved(e) \/ MediaStalled(e)

(* onPcState(); the peer connection (external) reports once both            *)
(* descriptions are set.                                                    *)
PcState(e) ==
  /\ call[e].pc /\ (call[e].remote >= 0 \/ call[e].answered >= 0)
  /\ \E s \in {"connected", "disconnected", "failed"} \ {call[e].conn} :
       LET c == [call[e] EXCEPT !.conn = s]
       IN CASE s = "connected" ->
                 LET d == Clear(c, {"connect", "grace"})
                 IN Step(e, IF c.state = "connecting" THEN MarkConnected(d) ELSE d, {})
            [] s = "failed" -> Step(e, LinkLost(c), LostTells(e))
            [] s = "disconnected" -> Step(e, Arm(c, {"grace"}), {})

-----------------------------------------------------------------------------
(* Messages. *)

(* handle() and receive(): a message of another call, or of one that is     *)
(* over here, is ignored.                                                   *)
Concerns(e, m) == m.id = call[e].id /\ Active(call[e])

(* Variant: a call that is over may ring again. *)
OnInvite_Forgets(e, m) ==
  IF m.id = call[e].id
  THEN Handle(e, m, call[e], IF Active(call[e]) THEN {Msg(Peer(e), "ringing", m.id, 0)} ELSE {})
  ELSE IF Active(call[e]) THEN Handle(e, m, call[e], {Msg(Peer(e), "busy", m.id, 0)})
  ELSE Handle(e, m, [NoCall EXCEPT !.id = m.id, !.role = "callee", !.state = "ringing-in", !.timers = {"ring"}],
            {Msg(Peer(e), "ringing", m.id, 0)})

OnInvite(e, m) ==
  IF m.id = call[e].id
  THEN Handle(e, m, call[e], IF Active(call[e]) THEN {Msg(Peer(e), "ringing", m.id, 0)} ELSE {})
  ELSE IF m.id \in ended[e] THEN Handle(e, m, call[e], {})
  ELSE IF Active(call[e]) THEN Handle(e, m, call[e], {Msg(Peer(e), "busy", m.id, 0)})
  ELSE Handle(e, m, [NoCall EXCEPT !.id = m.id, !.role = "callee", !.state = "ringing-in", !.timers = {"ring"}],
            {Msg(Peer(e), "ringing", m.id, 0)})

(* Variant: the caller gets its media ready while it still rings. *)
OnRinging_Prepares(e, m) ==
  IF call[e].state = "calling"
  THEN Handle(e, m, Clear([call[e] EXCEPT !.state = "ringing-out", !.job = "media"], {"invite"}), {})
  ELSE Handle(e, m, call[e], {})

OnRinging(e, m) ==
  IF call[e].state = "calling"
  THEN Handle(e, m, Clear([call[e] EXCEPT !.state = "ringing-out"], {"invite"}), {})
  ELSE Handle(e, m, call[e], {})

OnAccepted(e, m) ==
  IF call[e].role = "caller" /\ call[e].state \in {"calling", "ringing-out"}
  THEN Handle(e, m, Clear([call[e] EXCEPT !.state = "connecting", !.job = "media"], {"invite", "ring"}), {})
  ELSE Handle(e, m, call[e], {})

(* The offer brings ICE servers of its own, or a restart fetches fresh ones. *)
OnOffer(e, m) ==
  IF call[e].role # "callee" \/ ~call[e].pc \/ m.epoch < call[e].answered
  THEN Handle(e, m, call[e], {})
  ELSE IF m.epoch = call[e].answered THEN Handle(e, m, call[e], {Msg(Peer(e), "answer", m.id, m.epoch)})
  ELSE \/ Handle(e, m, TakeOffer(call[e], m.epoch), {})
       \/ m.epoch > 0 /\ Handle(e, m, [call[e] EXCEPT !.got = m.epoch, !.job = "renew"], {})

(* Variant: the answer's epoch is not compared. *)
OnAnswer_AnyEpoch(e, m) ==
  IF call[e].role = "caller" /\ call[e].pc /\ call[e].signaling = "have-local-offer"
  THEN Handle(e, m, Clear([call[e] EXCEPT !.remote = m.epoch, !.signaling = "stable"], {"offer"}), {})
  ELSE Handle(e, m, call[e], {})

OnAnswer(e, m) ==
  IF /\ call[e].role = "caller" /\ call[e].pc /\ m.epoch = call[e].epoch
     /\ call[e].signaling = "have-local-offer"
  THEN Handle(e, m, Clear([call[e] EXCEPT !.remote = m.epoch, !.signaling = "stable"], {"offer"}), {})
  ELSE Handle(e, m, call[e], {})

(* call.restart: a late one is for an epoch that has been replaced. *)
OnRestart(e, m) ==
  IF call[e].role = "caller" /\ m.epoch >= call[e].epoch THEN Handle(e, m, LinkLost(call[e]), LostTells(e)) ELSE Handle(e, m, call[e], {})

Receive(e, m) ==
  \/ m.type = "invite" /\ OnInvite(e, m)
  \/ m.type # "invite" /\ ~Concerns(e, m) /\ Handle(e, m, call[e], {})
  \/ /\ Concerns(e, m)
     /\ \/ m.type = "ringing" /\ OnRinging(e, m)
        \/ m.type = "accept" /\ OnAccepted(e, m)
        \/ m.type \in {"decline", "busy", "bye"} /\ Handle(e, m, Finish(call[e]), {})
        \/ m.type = "offer" /\ call[e].job = "none" /\ OnOffer(e, m)
        \/ m.type = "answer" /\ call[e].job = "none" /\ OnAnswer(e, m)
        \/ m.type = "restart" /\ OnRestart(e, m)

Lose(m) == net' = net \ {m} /\ UNCHANGED <<call, ended, dialled, accepted>>

-----------------------------------------------------------------------------
User(e) == Dial(e) \/ Accept(e) \/ Decline(e) \/ Hangup(e) \/ NetworkChanged(e)

Next ==
  \/ \E e \in Endpoints : User(e) \/ Work(e) \/ Fire(e) \/ PcState(e)
  \/ \E m \in net : Receive(m.to, m) \/ Lose(m)

Spec == Init /\ [][Next]_vars

(* Timers fire and promises settle (getUserMedia when the user answers the  *)
(* browser's question, the fetches after iceFetchTimeoutMs at the latest).  *)
(* Nothing is assumed of the channel, of the link or of the users.          *)
FairSpec ==
  /\ Spec
  /\ \A e \in Endpoints : /\ WF_vars(Work(e)) /\ WF_vars(FireRing(e))
                          /\ WF_vars(FireConnect(e)) /\ WF_vars(FireWindow(e))

-----------------------------------------------------------------------------
(* Properties *)

States == {"idle", "calling", "ringing-out", "ringing-in", "connecting",
           "connected", "reconnecting", "ended"}
Timers == {"invite", "ring", "connect", "grace", "window", "offer", "restart", "stats"}
Jobs == {"none", "media", "servers", "first-offer", "restart", "rollback", "offer", "renew", "answer"}

(* The sessions, and the epochs in particular, stay in their ranges. *)
TypeOK ==
  /\ call \in [Endpoints -> [id : 0 .. MaxCalls, role : {"caller", "callee"}, state : States,
       media : BOOLEAN, pc : BOOLEAN, conn : {"new", "connected", "disconnected", "failed"},
       signaling : {"stable", "have-local-offer"}, offered : -1 .. MaxEpoch,
       remote : -1 .. MaxEpoch, epoch : 0 .. MaxEpoch, got : -1 .. MaxEpoch, answered : -1 .. MaxEpoch,
       atLoss : 0 .. MaxEpoch, job : Jobs, timers : SUBSET Timers]]
  /\ ended \in [Endpoints -> SUBSET CallIds]
  /\ dialled \in 0 .. MaxCalls /\ accepted \subseteq CallIds

(* Microphone and camera are open at an endpoint only in a call that the    *)
(* callee has accepted, also at the caller's end, and never after the call  *)
(* is over, whenever getUserMedia answers.                                  *)
MediaOnlyInAcceptedCall ==
  \A e \in Endpoints : call[e].media => Active(call[e]) /\ call[e].id \in accepted

(* A call that is over holds no peer connection and no media: no late       *)
(* answer of a promise opens one again after finish() closed it.            *)
OverHoldsNothing ==
  \A e \in Endpoints : IsOver(call[e]) => ~call[e].media /\ ~call[e].pc

(* No state waits for ever: while an endpoint rings, connects or reconnects *)
(* a timer that ends the wait is armed, or the job that arms it is running, *)
(* whatever was lost and whichever timers and messages crossed.             *)
WaitsAreBounded ==
  \A e \in Endpoints :
    /\ call[e].state \in {"calling", "ringing-out", "ringing-in"} => Timed(e, "ring")
    /\ call[e].state = "connecting" => call[e].job # "none" \/ Timed(e, "connect")
    /\ call[e].state = "reconnecting" => Timed(e, "window")

(* A caller in the stable state holds the answer to the very offer it made  *)
(* last, and the callee of that call, while it lasts, gave that answer: no  *)
(* stale answer of a replaced epoch is ever paired with a newer offer.      *)
StableMeansAgreed ==
  \A e \in Endpoints :
    call[e].role = "caller" /\ call[e].pc =>
      /\ call[e].signaling = "stable" => call[e].remote = call[e].offered
      /\ call[Peer(e)].id = call[e].id => call[e].remote <= call[Peer(e)].answered

(* A call that is over at an endpoint never rings there again, however late *)
(* an invite arrives, and a live call is never displaced by another.        *)
NoGhostCalls ==
  [][\A e \in Endpoints :
       call'[e].id # call[e].id => ~Active(call[e]) /\ call'[e].id \notin ended[e]]_vars

(* Every wait ends: ringing, connecting or reconnecting leads to a          *)
(* connected or to an ended call.                                           *)
EveryWaitEnds ==
  \A e \in Endpoints :
    call[e].state \in {"calling", "ringing-out", "ringing-in", "connecting", "reconnecting"}
      ~> call[e].state \in {"connected", "ended"}

(* "Neuaufbau zaehlt erst, wenn der Neustart ausgehandelt ist" (call-core.js, *)
(* renegotiated()): a caller leaves reconnecting for connected only when the  *)
(* offer of the epoch it is in has been made and answered.                    *)
ResumesOnlyRenegotiated ==
  [][\A e \in Endpoints :
       /\ call[e].role = "caller" /\ call[e].state = "reconnecting"
       /\ call'[e].state = "connected"
       => call[e].offered = call[e].epoch /\ call[e].remote = call[e].epoch]_vars

=============================================================================
