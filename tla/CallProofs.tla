----------------------------- MODULE CallProofs -----------------------------
(***************************************************************************)
(* Safety of Call for every value of its constants: any number of calls,   *)
(* of renegotiations and of messages in flight.  Every step but the loss   *)
(* of a message is a Becomes: one endpoint's session becomes c.  So the    *)
(* invariant is a condition on one session (Sound), one on what the two    *)
(* ends know of each other, and one on the messages; BecomesKeeps reduces  *)
(* a step to what has to be shown of c and of the messages sent.           *)
(***************************************************************************)
EXTENDS Call, TLAPS

Sessions ==
  [id : 0 .. MaxCalls, role : {"caller", "callee"}, state : States,
   media : BOOLEAN, pc : BOOLEAN, conn : {"new", "connected", "disconnected", "failed"},
   signaling : {"stable", "have-local-offer"}, offered : -1 .. MaxEpoch,
   remote : -1 .. MaxEpoch, epoch : 0 .. MaxEpoch, got : -1 .. MaxEpoch, answered : -1 .. MaxEpoch,
   atLoss : 0 .. MaxEpoch, job : Jobs, timers : SUBSET Timers]

MsgTypes == {"invite", "ringing", "accept", "decline", "busy", "bye", "offer", "answer", "restart"}
Messages == [to : Endpoints, type : MsgTypes, id : CallIds, epoch : 0 .. MaxEpoch]

Ringing == {"calling", "ringing-out", "ringing-in"}
Linking == {"connecting", "connected", "reconnecting"}
EarlyJobs == {"media", "servers", "first-offer"}

-----------------------------------------------------------------------------
(* What holds of one session c: of its life cycle, its timers, the job of   *)
(* its queue, and the offers and answers it has seen.                       *)
LifeCycle(c) ==
  /\ c.state = "idle" => c = NoCall
  /\ c.state # "idle" => c.id # 0
  /\ c.state \in Ringing => c.job = "none" /\ ~c.pc /\ ~c.media /\ "ring" \in c.timers
  /\ c.state = "ended" => ~c.pc /\ ~c.media /\ c.timers \subseteq {"connect"}
  /\ c.media \/ c.pc => c.state \in Linking

TimersSound(c) ==
  /\ c.state = "connecting" => c.job \in EarlyJobs \/ "connect" \in c.timers
  /\ c.state = "reconnecting" => "window" \in c.timers
  /\ c.state # "ended" /\ ~(c.timers \subseteq {"invite", "ring"}) => c.pc

JobsSound(c) ==
  /\ c.state # "ended" /\ c.job # "none" => c.state \in Linking
  /\ c.state # "ended" /\ c.job \notin {"none", "media", "servers"} => c.pc
  /\ c.job \in {"restart", "rollback"} => c.epoch < MaxEpoch
  /\ c.job = "renew" => c.role = "callee" /\ c.got > c.answered
  /\ c.job = "answer" => c.role = "callee" /\ c.epoch > c.answered

OffersSound(c) ==
  c.role = "caller" =>
    /\ c.signaling = "stable" => c.remote = c.offered
    /\ c.signaling = "have-local-offer" => c.pc /\ c.offered = c.epoch

Sound(c) == LifeCycle(c) /\ TimersSound(c) /\ JobsSound(c) /\ OffersSound(c)

(* A session that has got as far as its link has been accepted. *)
Consented(c, acc) == c.state \in Linking => c.id \in acc

(* Endpoint p holds, or has held, call i, and if it still holds it, it has  *)
(* answered the offer of this epoch or of a later one.                      *)
Vouches(p, i, epoch) ==
  /\ call[p].id = i \/ i \in ended[p]
  /\ call[p].id = i => epoch <= call[p].answered

SessionsInv == \A e \in Endpoints : Sound(call[e]) /\ Consented(call[e], accepted)

EndedInv ==
  \A e \in Endpoints :
    /\ call[e].state = "ended" => call[e].id \in ended[e]
    /\ call[e].id <= dialled /\ \A i \in ended[e] : i <= dialled

NetInv ==
  \A m \in net :
    /\ m \in Messages /\ m.id <= dialled
    /\ m.type = "accept" => m.id \in accepted
    /\ m.type = "answer" => Vouches(Peer(m.to), m.id, m.epoch)

RemoteInv ==
  \A e \in Endpoints : call[e].remote >= 0 => Vouches(Peer(e), call[e].id, call[e].remote)

IInv == TypeOK /\ SessionsInv /\ EndedInv /\ NetInv /\ RemoteInv

-----------------------------------------------------------------------------
(* A step of endpoint e to session c goes on with its call, or replaces one *)
(* that is idle or over by one that was never here.                         *)
Follows(e, c) ==
  \/ c.id = call[e].id /\ c.answered >= call[e].answered
  \/ ~Active(call[e]) /\ c.id # call[e].id /\ c.id \notin ended[e]

(* What e may send when its session becomes c. *)
MaySend(e, c, out, d, acc) ==
  \A m \in out :
    /\ m \in Messages /\ m.to = Peer(e) /\ m.id <= d
    /\ m.type = "accept" => m.id \in acc
    /\ m.type = "answer" => m.id = c.id /\ m.epoch <= c.answered

(* All that has to be shown of a step. *)
GoodStep(e, c, out, d, acc) ==
  /\ c \in Sessions /\ Sound(c) /\ Consented(c, acc)
  /\ c.id <= d /\ Follows(e, c)
  /\ c.remote >= 0 => Vouches(Peer(e), c.id, c.remote)
  /\ MaySend(e, c, out, d, acc)

(* The step of NoGhostCalls. *)
NoGhosts ==
  \A e \in Endpoints :
    call'[e].id # call[e].id => ~Active(call[e]) /\ call'[e].id \notin ended[e]

LEMMA PeerFacts ==
  ASSUME NEW e \in Endpoints
  PROVE  /\ Peer(e) \in Endpoints /\ Peer(e) # e /\ Peer(Peer(e)) = e
         /\ \A f \in Endpoints : f = e \/ f = Peer(e)
  BY EndpointsAssumption DEF Endpoints, Peer

LEMMA SessionTyped ==
  ASSUME TypeOK, NEW e \in Endpoints
  PROVE  call[e] \in Sessions
  BY DEF TypeOK, Sessions

(* What an endpoint vouches for, it goes on vouching for. *)
LEMMA VouchesKept ==
  ASSUME IInv, NEW e \in Endpoints, NEW c \in Sessions, Follows(e, c),
         NEW in, NEW out, Becomes(e, c, in, out),
         NEW p \in Endpoints, NEW i \in CallIds, NEW n \in 0 .. MaxEpoch, Vouches(p, i, n)
  PROVE  Vouches(p, i, n)'
<1>1. /\ call' = [call EXCEPT ![e] = c]
      /\ ended' = [ended EXCEPT ![e] = IF IsOver(c) THEN @ \union {c.id} ELSE @]
  BY DEF Becomes
<1>2. call \in [Endpoints -> Sessions] /\ ended \in [Endpoints -> SUBSET CallIds]
  BY DEF IInv, TypeOK, Sessions
<1>3. \A f \in Endpoints : ended[f] \subseteq ended'[f]
  BY <1>1, <1>2
<1>4. CASE p # e
  BY <1>1, <1>2, <1>3, <1>4 DEF Vouches
<1>5. CASE p = e
  <2>1. call'[e] = c
    BY <1>1, <1>2
  <2>2. CASE c.id = call[e].id /\ c.answered >= call[e].answered
    <3>1. call[e].answered \in Int /\ c.answered \in Int /\ n \in Int
      BY <1>2, CallBounds DEF Sessions
    <3>2. QED
      BY <1>3, <1>5, <2>1, <2>2, <3>1 DEF Vouches
  <2>3. CASE ~Active(call[e]) /\ c.id # call[e].id /\ c.id \notin ended[e]
    <3>1. call[e].id = i => i \in ended[e]
      <4>1. i # 0
        BY CallBounds DEF CallIds
      <4>2. call[e].state = "idle" => call[e].id = 0
        BY DEF IInv, SessionsInv, Sound, LifeCycle, NoCall
      <4>3. QED
        BY <2>3, <4>1, <4>2 DEF Active, IInv, EndedInv
    <3>2. i \in ended[e] /\ c.id # i
      BY <1>5, <2>3, <3>1 DEF Vouches
    <3>3. QED
      BY <1>3, <1>5, <2>1, <3>2 DEF Vouches
  <2>4. QED
    BY <2>2, <2>3 DEF Follows
<1>6. QED
  BY <1>4, <1>5

LEMMA BecomesKeeps ==
  ASSUME IInv, NEW e \in Endpoints, NEW c, NEW in, NEW out, Becomes(e, c, in, out),
         dialled' \in 0 .. MaxCalls, dialled <= dialled',
         accepted' \subseteq CallIds, accepted \subseteq accepted',
         GoodStep(e, c, out, dialled', accepted')
  PROVE  IInv' /\ NoGhosts
<1>1. /\ call' = [call EXCEPT ![e] = c]
      /\ ended' = [ended EXCEPT ![e] = IF IsOver(c) THEN @ \union {c.id} ELSE @]
      /\ net' = (net \ in) \union out
  BY DEF Becomes
<1>2. /\ call \in [Endpoints -> Sessions] /\ ended \in [Endpoints -> SUBSET CallIds]
      /\ dialled \in 0 .. MaxCalls
  BY DEF IInv, TypeOK, Sessions
<1>3. c \in Sessions /\ Sound(c) /\ Consented(c, accepted') /\ Follows(e, c)
  BY DEF GoodStep
<1>4. /\ call'[e] = c
      /\ \A f \in Endpoints : f # e => call'[f] = call[f] /\ ended'[f] = ended[f]
      /\ ended'[e] = IF IsOver(c) THEN ended[e] \union {c.id} ELSE ended[e]
  BY <1>1, <1>2
<1>5. IsOver(c) => c.id \in CallIds
  BY <1>3, CallBounds DEF IsOver, Sound, LifeCycle, Sessions, CallIds
<1>6. TypeOK'
  <2>1. call' \in [Endpoints -> Sessions]
    BY <1>1, <1>2, <1>3
  <2>2. ended' \in [Endpoints -> SUBSET CallIds]
    BY <1>1, <1>2, <1>5
  <2>3. QED
    BY <2>1, <2>2 DEF TypeOK, Sessions
<1>7. SessionsInv'
  <2>1. \A f \in Endpoints : f # e => Sound(call'[f]) /\ Consented(call'[f], accepted')
    BY <1>4 DEF IInv, SessionsInv, Consented
  <2>2. QED
    BY <1>3, <1>4, <2>1 DEF SessionsInv
<1>8. EndedInv'
  <2>1. ASSUME NEW f \in Endpoints
        PROVE  /\ call'[f].state = "ended" => call'[f].id \in ended'[f]
               /\ call'[f].id <= dialled' /\ \A i \in ended'[f] : i <= dialled'
    <3>1. dialled \in Int /\ dialled' \in Int /\ ended[f] \subseteq Int /\ call[f].id \in Int
      BY <1>2, CallBounds DEF Sessions, CallIds
    <3>2. /\ call[f].state = "ended" => call[f].id \in ended[f]
          /\ call[f].id <= dialled /\ \A i \in ended[f] : i <= dialled
      BY DEF IInv, EndedInv
    <3>3. CASE f # e
      BY <1>4, <3>1, <3>2, <3>3
    <3>4. CASE f = e
      BY <1>4, <3>1, <3>2, <3>4 DEF GoodStep, IsOver
    <3>5. QED
      BY <3>3, <3>4
  <2>2. QED
    BY <2>1 DEF EndedInv
<1>9. NetInv'
  <2>1. ASSUME NEW m \in net'
        PROVE  /\ m \in Messages /\ m.id <= dialled'
               /\ m.type = "accept" => m.id \in accepted'
               /\ m.type = "answer" => Vouches(Peer(m.to), m.id, m.epoch)'
    <3>1. CASE m \in net
      <4>1. /\ m \in Messages /\ m.id <= dialled
            /\ m.type = "accept" => m.id \in accepted
            /\ m.type = "answer" => Vouches(Peer(m.to), m.id, m.epoch)
        BY <3>1 DEF IInv, NetInv
      <4>2. m.id \in Int /\ dialled \in Int /\ dialled' \in Int
        BY <1>2, <4>1, CallBounds DEF Messages, CallIds
      <4>3. m.to \in Endpoints /\ m.id \in CallIds /\ m.epoch \in 0 .. MaxEpoch
        BY <4>1 DEF Messages
      <4>4. Peer(m.to) \in Endpoints
        BY <4>3, PeerFacts
      <4>5. m.type = "answer" => Vouches(Peer(m.to), m.id, m.epoch)'
        BY <1>3, <4>1, <4>3, <4>4, VouchesKept
      <4>6. QED
        BY <4>1, <4>2, <4>5
    <3>2. CASE m \in out
      <4>1. /\ m \in Messages /\ m.to = Peer(e) /\ m.id <= dialled'
            /\ m.type = "accept" => m.id \in accepted'
            /\ m.type = "answer" => m.id = c.id /\ m.epoch <= c.answered
        BY <3>2 DEF GoodStep, MaySend
      <4>2. Peer(m.to) = e
        BY <4>1, PeerFacts
      <4>3. m.type = "answer" => Vouches(e, m.id, m.epoch)'
        BY <1>4, <4>1 DEF Vouches
      <4>4. QED
        BY <4>1, <4>2, <4>3
    <3>3. QED
      BY <1>1, <3>1, <3>2
  <2>2. QED
    BY <2>1 DEF NetInv
<1>10. RemoteInv'
  <2>1. ASSUME NEW f \in Endpoints, call'[f].remote >= 0
        PROVE  Vouches(Peer(f), call[f].id, call[f].remote)'
    <3>1. call'[f] \in Sessions /\ Sound(call'[f])
      BY <1>6, <1>7, SessionTyped DEF SessionsInv, TypeOK, Sessions
    <3>2. call'[f].id \in CallIds /\ call'[f].remote \in 0 .. MaxEpoch
      BY <2>1, <3>1, CallBounds DEF Sessions, Sound, LifeCycle, NoCall, CallIds
    <3>3. PICK i \in CallIds, n \in 0 .. MaxEpoch : i = call'[f].id /\ n = call'[f].remote
      BY <3>2
    <3>4. Vouches(Peer(f), i, n)
      <4>1. CASE f = e
        BY <1>4, <2>1, <3>3, <4>1 DEF GoodStep
      <4>2. CASE f # e
        BY <1>4, <2>1, <3>3, <4>2 DEF IInv, RemoteInv
      <4>3. QED
        BY <4>1, <4>2
    <3>5. Vouches(Peer(f), i, n)'
      BY <1>3, <3>4, PeerFacts, VouchesKept
    <3>6. QED
      BY <3>3, <3>5
  <2>2. QED
    BY <2>1 DEF RemoteInv
<1>11. NoGhosts
  BY <1>3, <1>4 DEF NoGhosts, Follows
<1>12. QED
  BY <1>6, <1>7, <1>8, <1>9, <1>10, <1>11 DEF IInv

-----------------------------------------------------------------------------
(* What the invariant says of one endpoint. *)
LEMMA EndpointFacts ==
  ASSUME IInv, NEW e \in Endpoints
  PROVE  /\ call[e] \in Sessions /\ Sound(call[e]) /\ Consented(call[e], accepted)
         /\ call[e].id <= dialled
         /\ call[e].remote >= 0 => Vouches(Peer(e), call[e].id, call[e].remote)
  BY SessionTyped DEF IInv, SessionsInv, EndedInv, RemoteInv

(* Messages of the call in progress may be sent; an answer and an accept    *)
(* have a condition more.                                                   *)
LEMMA TellMaySend ==
  ASSUME IInv, NEW e \in Endpoints, NEW c, NEW type \in MsgTypes, NEW out,
         out \in {{}, Tell(e, type)}, call[e].state # "idle",
         type = "accept" => call[e].id \in accepted,
         type = "answer" => c.id = call[e].id /\ call[e].epoch <= c.answered
  PROVE  MaySend(e, c, out, dialled, accepted)
<1>1. call[e] \in Sessions /\ call[e].id # 0 /\ call[e].id <= dialled
  BY EndpointFacts DEF Sound, LifeCycle
<1>2. call[e].id \in CallIds /\ call[e].epoch \in 0 .. MaxEpoch
  BY <1>1, CallBounds DEF Sessions, CallIds
<1>3. QED
  BY <1>1, <1>2, PeerFacts DEF MaySend, Tell, Msg, Messages

(* A step within a call, no new answer taken. *)
LEMMA GoesOn ==
  ASSUME IInv, NEW e \in Endpoints, NEW c \in Sessions, NEW in, NEW out,
         Becomes(e, c, in, out), UNCHANGED <<dialled, accepted>>,
         c.id = call[e].id, c.answered >= call[e].answered, c.remote \in {-1, call[e].remote},
         Sound(c), Consented(c, accepted), MaySend(e, c, out, dialled, accepted)
  PROVE  IInv' /\ NoGhosts
<1>1. GoodStep(e, c, out, dialled, accepted)
  BY EndpointFacts DEF GoodStep, Follows
<1>2. dialled \in 0 .. MaxCalls /\ dialled <= dialled /\ accepted \subseteq CallIds
  BY CallBounds DEF IInv, TypeOK
<1>3. QED
  BY <1>1, <1>2, BecomesKeeps

(* finish() *)
LEMMA FinishSound ==
  ASSUME NEW c \in Sessions, Sound(c), c.state # "idle", NEW job \in {c.job, "none"}
  PROVE  LET d == [Finish(c) EXCEPT !.job = job]
         IN /\ d \in Sessions /\ Sound(d) /\ d.state = "ended" /\ d.id = c.id
            /\ d.answered = c.answered /\ d.remote = -1
<1> DEFINE d == [Finish(c) EXCEPT !.job = job]
<1>0. -1 \in -1 .. MaxEpoch /\ {} \in SUBSET Timers /\ job \in Jobs /\ "ended" \in States
  BY CallBounds DEF Sessions, Jobs, States
<1>1. d \in Sessions
  BY <1>0 DEF Finish, Sessions
<1>11. /\ d.state = "ended" /\ d.id = c.id /\ d.answered = c.answered /\ d.remote = -1
      /\ d.timers = {} /\ ~d.pc /\ ~d.media /\ d.job = job /\ d.epoch = c.epoch /\ d.got = c.got
      /\ d.role = c.role /\ d.signaling = "stable" /\ d.offered = -1
  BY DEF Finish, Sessions
<1>2. Sound(d)
  BY <1>11 DEF Sound, LifeCycle, TimersSound, JobsSound, OffersSound, Ringing, Linking
<1>3. QED
  BY <1>1, <1>11, <1>2

(* onLinkLost(), which also takes sessions whose connect or grace timer has *)
(* just fired, or whose peer connection has just reported.                  *)
LEMMA LinkLostSound ==
  ASSUME NEW c \in Sessions, Sound(c), c.state # "idle",
         NEW t \in SUBSET Timers, c.timers \ {"connect", "grace"} \subseteq t, t \subseteq c.timers,
         NEW s \in {"new", "connected", "disconnected", "failed"},
         c.state = "ended" \/ c.pc \/ t = c.timers
  PROVE  LET d == LinkLost([c EXCEPT !.timers = t, !.conn = s])
         IN /\ d \in Sessions /\ Sound(d) /\ d.id = c.id
            /\ d.answered = c.answered /\ d.remote = c.remote
            /\ d.state \in Linking => c.state \in Linking
<1> DEFINE b == [c EXCEPT !.timers = t, !.conn = s]
           d == LinkLost(b)
<1>1. b \in Sessions
  BY DEF Sessions
<1>2. /\ b.id = c.id /\ b.answered = c.answered /\ b.remote = c.remote /\ b.state = c.state
      /\ b.pc = c.pc /\ b.media = c.media /\ b.job = c.job /\ b.role = c.role /\ b.epoch = c.epoch
      /\ b.got = c.got /\ b.signaling = c.signaling /\ b.offered = c.offered /\ b.timers = t
      /\ b.atLoss = c.atLoss
  BY DEF Sessions
<1>3. CASE IsOver(c) \/ ~c.pc
  <2>1. d = b
    BY <1>2, <1>3 DEF LinkLost, IsOver
  <2>2. Sound(b)
    BY <1>2, <1>3 DEF Sound, LifeCycle, TimersSound, JobsSound, OffersSound, Ringing, Linking, IsOver, EarlyJobs
  <2>3. QED
    BY <1>1, <1>2, <2>1, <2>2
<1>4. CASE ~IsOver(c) /\ c.pc
  <2>0. c.state \in Linking
    BY <1>4 DEF Sound, LifeCycle
  <2> DEFINE g == IF c.state = "reconnecting" THEN b
                  ELSE [b EXCEPT !.state = "reconnecting", !.atLoss = b.epoch,
                                 !.timers = (@ \ {"connect"}) \union {"window"}]
  <2>1. /\ g \in Sessions
        /\ g.id = c.id /\ g.answered = c.answered /\ g.remote = c.remote /\ g.state = "reconnecting"
        /\ g.pc /\ g.job = c.job /\ g.role = c.role /\ g.epoch = c.epoch
        /\ g.got = c.got /\ g.signaling = c.signaling /\ g.offered = c.offered
        /\ g.timers = IF c.state = "reconnecting" THEN t ELSE (t \ {"connect"}) \union {"window"}
    <3>1. CASE c.state = "reconnecting"
      BY <1>1, <1>2, <1>4, <3>1
    <3>2. CASE c.state # "reconnecting"
      <4>1. (b.timers \ {"connect"}) \union {"window"} \in SUBSET Timers /\ "reconnecting" \in States
        BY <1>2 DEF Timers, States
      <4>2. b.epoch \in 0 .. MaxEpoch
        BY <1>1 DEF Sessions
      <4>3. g \in Sessions
        BY <1>1, <3>2, <4>1, <4>2 DEF Sessions
      <4>4. QED
        BY <1>1, <1>2, <1>4, <3>2, <4>3 DEF Sessions
    <3>3. QED
      BY <3>1, <3>2
  <2>2. d = g \/ d = [g EXCEPT !.timers = @ \union {"restart"}]
    BY <1>2, <1>4 DEF LinkLost, IsOver, Arm
  <2> HIDE DEF g, d
  <2>3. d \in Sessions
    <3>1. g.timers \union {"restart"} \in SUBSET Timers
      BY <2>1 DEF Timers
    <3>2. QED
      BY <2>1, <2>2, <3>1 DEF Sessions
  <2>4. /\ d.id = c.id /\ d.answered = c.answered /\ d.remote = c.remote /\ d.state = "reconnecting"
        /\ d.pc /\ d.job = c.job /\ d.role = c.role /\ d.epoch = c.epoch
        /\ d.got = c.got /\ d.signaling = c.signaling /\ d.offered = c.offered
        /\ g.timers \subseteq d.timers
    BY <2>1, <2>2 DEF Sessions
  <2>5. "window" \in d.timers
    BY <2>0, <2>1, <2>4 DEF Sound, TimersSound
  <2>6. Sound(d)
    BY <1>4, <2>0, <2>4, <2>5 DEF Sound, LifeCycle, TimersSound, JobsSound, OffersSound, Ringing, Linking, IsOver
  <2>7. QED
    BY <2>0, <2>3, <2>4, <2>6 DEF d
<1>5. QED
  BY <1>3, <1>4

-----------------------------------------------------------------------------
(* One lemma per action. *)

(* A step that leaves e's session as it is. *)
LEMMA SameSession ==
  ASSUME IInv, NEW e \in Endpoints, NEW in, NEW out,
         Becomes(e, call[e], in, out), UNCHANGED <<dialled, accepted>>,
         MaySend(e, call[e], out, dialled, accepted)
  PROVE  IInv' /\ NoGhosts
<1>1. call[e] \in Sessions /\ call[e].answered \in Int
  BY EndpointFacts, CallBounds DEF Sessions
<1>2. QED
  BY <1>1, EndpointFacts, GoesOn

(* A step that ends e's call, telling the other end or not. *)
LEMMA Finishes ==
  ASSUME IInv, NEW e \in Endpoints, call[e].state # "idle", NEW job \in {call[e].job, "none"},
         NEW in, NEW out, NEW type \in {"decline", "bye"}, out \in {{}, Tell(e, type)},
         Becomes(e, [Finish(call[e]) EXCEPT !.job = job], in, out), UNCHANGED <<dialled, accepted>>
  PROVE  IInv' /\ NoGhosts
<1> DEFINE d == [Finish(call[e]) EXCEPT !.job = job]
<1>1. call[e] \in Sessions /\ Sound(call[e])
  BY EndpointFacts
<1>2. /\ d \in Sessions /\ Sound(d) /\ d.state = "ended" /\ d.id = call[e].id
      /\ d.answered = call[e].answered /\ d.remote = -1
  BY <1>1, FinishSound
<1>3. Becomes(e, d, in, out)
  OBVIOUS
<1> HIDE DEF d
<1>4. d.answered \in Int /\ Consented(d, accepted)
  BY <1>2, CallBounds DEF Sessions, Consented, Linking
<1>5. MaySend(e, d, out, dialled, accepted)
  BY TellMaySend DEF MsgTypes
<1>6. d.answered >= call[e].answered
  BY <1>2, <1>4
<1>7. QED
  BY <1>2, <1>3, <1>4, <1>5, <1>6, GoesOn

(* The same, written as the actions write it. *)
LEMMA FinishesAsIs ==
  ASSUME IInv, NEW e \in Endpoints, call[e].state # "idle",
         NEW in, NEW out, NEW type \in {"decline", "bye"}, out \in {{}, Tell(e, type)},
         Becomes(e, Finish(call[e]), in, out), UNCHANGED <<dialled, accepted>>
  PROVE  IInv' /\ NoGhosts
<1>1. call[e] \in Sessions
  BY EndpointFacts
<1>2. Finish(call[e]) = [Finish(call[e]) EXCEPT !.job = call[e].job]
  BY <1>1 DEF Finish, Sessions
<1>3. Becomes(e, [Finish(call[e]) EXCEPT !.job = call[e].job], in, out)
  BY <1>2
<1>4. QED
  BY <1>3, Finishes

(* A step that takes the link for lost. *)
LEMMA LosesLink ==
  ASSUME IInv, NEW e \in Endpoints, call[e].state # "idle",
         NEW t \in SUBSET Timers,
         call[e].timers \ {"connect", "grace"} \subseteq t, t \subseteq call[e].timers,
         NEW s \in {"new", "connected", "disconnected", "failed"},
         call[e].state = "ended" \/ call[e].pc \/ t = call[e].timers,
         NEW b, b = [call[e] EXCEPT !.timers = t, !.conn = s],
         NEW in, NEW out, out \in {{}, Tell(e, "restart")}, Becomes(e, LinkLost(b), in, out),
         UNCHANGED <<dialled, accepted>>
  PROVE  IInv' /\ NoGhosts
<1> DEFINE d == LinkLost(b)
<1>1. call[e] \in Sessions /\ Sound(call[e]) /\ Consented(call[e], accepted)
  BY EndpointFacts
<1>2. /\ d \in Sessions /\ Sound(d) /\ d.id = call[e].id /\ d.answered = call[e].answered
      /\ d.remote = call[e].remote
      /\ d.state \in Linking => call[e].state \in Linking
  BY <1>1, LinkLostSound
<1>3. Becomes(e, d, in, out)
  OBVIOUS
<1> HIDE DEF d
<1>4. d.answered \in Int /\ d.answered >= call[e].answered /\ Consented(d, accepted)
  BY <1>1, <1>2, CallBounds DEF Sessions, Consented
<1>5. MaySend(e, d, out, dialled, accepted)
  BY TellMaySend DEF MsgTypes
<1>6. QED
  BY <1>2, <1>3, <1>4, <1>5, GoesOn

LEMMA LosesLinkAsIs ==
  ASSUME IInv, NEW e \in Endpoints, call[e].state # "idle",
         NEW in, NEW out, out \in {{}, Tell(e, "restart")},
         Becomes(e, LinkLost(call[e]), in, out), UNCHANGED <<dialled, accepted>>
  PROVE  IInv' /\ NoGhosts
<1>1. call[e] \in Sessions
  BY EndpointFacts
<1>2. PICK t \in SUBSET Timers, s \in {"new", "connected", "disconnected", "failed"} :
        t = call[e].timers /\ s = call[e].conn
  BY <1>1 DEF Sessions
<1>3. PICK b : b = call[e]
  OBVIOUS
<1>4. b = [call[e] EXCEPT !.timers = t, !.conn = s]
  BY <1>1, <1>2, <1>3 DEF Sessions
<1>5. call[e].timers \ {"connect", "grace"} \subseteq t /\ t \subseteq call[e].timers
  BY <1>2
<1>6. Becomes(e, LinkLost(b), in, out)
  BY <1>3
<1>7. call[e].state = "ended" \/ call[e].pc \/ t = call[e].timers
  BY <1>2
<1>8. QED
  BY <1>4, <1>5, <1>6, <1>7, LosesLink

(* A step within a call whose new session is spelled out as c. *)
LEMMA WithinCall ==
  ASSUME IInv, NEW e \in Endpoints, NEW c \in Sessions, NEW in, NEW out, NEW type \in MsgTypes,
         Becomes(e, c, in, out), UNCHANGED <<dialled, accepted>>,
         call[e].state # "idle", out \in {{}, Tell(e, type)},
         type = "accept" => call[e].id \in accepted,
         type = "answer" => call[e].epoch <= c.answered,
         Sound(c), c.state \in Linking => call[e].state \in Linking,
         c.id = call[e].id, c.answered >= call[e].answered, c.remote = call[e].remote
  PROVE  IInv' /\ NoGhosts
<1>1. Consented(c, accepted)
  BY EndpointFacts DEF Consented
<1>2. MaySend(e, c, out, dialled, accepted)
  BY TellMaySend
<1>3. QED
  BY <1>1, <1>2, GoesOn

(* The end of a job whose call is over. *)
LEMMA JobDropped ==
  ASSUME IInv, NEW e \in Endpoints, IsOver(call[e]), Step(e, [call[e] EXCEPT !.job = "none"], {})
  PROVE  IInv' /\ NoGhosts
<1> DEFINE c == [call[e] EXCEPT !.job = "none"]
<1>1. call[e] \in Sessions /\ Sound(call[e])
  BY EndpointFacts
<1>2. c \in Sessions
  BY <1>1 DEF Sessions, Jobs
<1>3. Becomes(e, c, {}, {}) /\ UNCHANGED <<dialled, accepted>>
  BY DEF Step
<1>4. /\ c.id = call[e].id /\ c.answered = call[e].answered /\ c.remote = call[e].remote
      /\ c.state = "ended" /\ ~c.pc /\ ~c.media /\ c.timers \subseteq {"connect"} /\ c.job = "none"
      /\ c.id # 0 /\ c.role = call[e].role /\ c.signaling = call[e].signaling
      /\ c.offered = call[e].offered /\ c.epoch = call[e].epoch /\ call[e].pc = c.pc
  BY <1>1 DEF Sessions, IsOver, Sound, LifeCycle
<1> HIDE DEF c
<1>5. Sound(c) /\ c.state \notin Linking
  BY <1>1, <1>4 DEF Sound, LifeCycle, TimersSound, JobsSound, OffersSound, Ringing, Linking
<1>6. c.answered >= call[e].answered
  BY <1>2, <1>4, CallBounds DEF Sessions
<1>7. "bye" \in MsgTypes
  BY DEF MsgTypes
<1>8. QED
  BY <1>1, <1>2, <1>3, <1>4, <1>5, <1>6, <1>7, WithinCall DEF IsOver

LEMMA NoCallTyped == NoCall \in Sessions
<1>1. -1 \in -1 .. MaxEpoch /\ 0 \in 0 .. MaxEpoch /\ 0 \in 0 .. MaxCalls
  BY CallBounds
<1>2. "idle" \in States /\ "none" \in Jobs /\ {} \in SUBSET Timers
  BY DEF States, Jobs
<1>3. QED
  BY <1>1, <1>2 DEF NoCall, Sessions

LEMMA DialInv ==
  ASSUME IInv, NEW e \in Endpoints, Dial(e)
  PROVE  IInv' /\ NoGhosts
<1> DEFINE c == [NoCall EXCEPT !.id = dialled + 1, !.state = "calling", !.timers = {"invite", "ring"}]
           out == {Msg(Peer(e), "invite", dialled + 1, 0)}
<1>1. /\ ~Active(call[e]) /\ dialled < MaxCalls /\ dialled' = dialled + 1
      /\ Becomes(e, c, {}, out) /\ UNCHANGED accepted
  BY DEF Dial
<1>2. dialled \in 0 .. MaxCalls /\ accepted \subseteq CallIds
  BY DEF IInv, TypeOK
<1>3. dialled + 1 \in CallIds /\ dialled + 1 \in 0 .. MaxCalls
  BY <1>1, <1>2, CallBounds DEF CallIds
<1>4. c \in Sessions
  <2>1. "calling" \in States /\ {"invite", "ring"} \in SUBSET Timers
    BY DEF States, Timers
  <2>2. QED
    BY <1>3, <2>1, NoCallTyped DEF Sessions
<1>5. /\ c.id = dialled + 1 /\ c.state = "calling" /\ c.timers = {"invite", "ring"} /\ c.remote = -1
      /\ ~c.pc /\ ~c.media /\ c.job = "none" /\ c.signaling = "stable" /\ c.offered = -1
  BY DEF NoCall
<1>6. MaySend(e, c, out, dialled', accepted')
  BY <1>1, <1>3, CallBounds, PeerFacts DEF MaySend, Msg, Messages, MsgTypes
<1> HIDE DEF c, out
<1>7. Sound(c) /\ Consented(c, accepted')
  BY <1>3, <1>5, CallBounds DEF Sound, LifeCycle, TimersSound, JobsSound, OffersSound, Ringing, Linking, Consented, CallIds
<1>8. Follows(e, c)
  <2>1. call[e].id <= dialled /\ (\A i \in ended[e] : i <= dialled) /\ call[e].id \in Int /\ ended[e] \subseteq Int
    BY SessionTyped, CallBounds DEF IInv, EndedInv, TypeOK, Sessions, CallIds
  <2>2. QED
    BY <1>1, <1>2, <1>5, <2>1 DEF Follows
<1>9. GoodStep(e, c, out, dialled', accepted')
  BY <1>1, <1>2, <1>4, <1>5, <1>6, <1>7, <1>8 DEF GoodStep
<1>10. dialled' \in 0 .. MaxCalls /\ dialled <= dialled' /\ accepted' = accepted
  BY <1>1, <1>2, <1>3
<1>11. QED
  BY <1>1, <1>2, <1>9, <1>10, BecomesKeeps

LEMMA AcceptInv ==
  ASSUME IInv, NEW e \in Endpoints, Accept(e)
  PROVE  IInv' /\ NoGhosts
<1> DEFINE c == Clear([call[e] EXCEPT !.state = "connecting", !.job = "media"], {"ring"})
<1>1. /\ call[e].state = "ringing-in" /\ accepted' = accepted \union {call[e].id}
      /\ Becomes(e, c, {}, {}) /\ UNCHANGED dialled
  BY DEF Accept
<1>2. call[e] \in Sessions /\ Sound(call[e]) /\ call[e].id <= dialled
  BY EndpointFacts
<1>3. c \in Sessions
  BY <1>2 DEF Clear, Sessions, States, Jobs
<1>4. /\ c.id = call[e].id /\ c.answered = call[e].answered /\ c.remote = call[e].remote /\ c.state = "connecting"
      /\ c.pc = call[e].pc /\ c.media = call[e].media /\ c.job = "media" /\ c.timers = call[e].timers \ {"ring"}
      /\ c.role = call[e].role /\ c.signaling = call[e].signaling
      /\ c.offered = call[e].offered /\ c.epoch = call[e].epoch
  BY <1>2 DEF Clear, Sessions
<1> HIDE DEF c
<1>5. call[e].id \in CallIds
  BY <1>1, <1>2, CallBounds DEF Sessions, CallIds, Sound, LifeCycle
<1>6. Sound(c) /\ Consented(c, accepted')
  BY <1>1, <1>2, <1>4 DEF Sound, LifeCycle, TimersSound, JobsSound, OffersSound, Ringing, Linking, Consented, EarlyJobs
<1>7. Follows(e, c)
  BY <1>2, <1>4, CallBounds DEF Follows, Sessions
<1>8. GoodStep(e, c, {}, dialled', accepted')
  BY <1>1, <1>2, <1>3, <1>4, <1>6, <1>7, EndpointFacts DEF GoodStep, MaySend
<1>9. dialled' \in 0 .. MaxCalls /\ dialled <= dialled' /\ accepted \subseteq accepted' /\ accepted' \subseteq CallIds
  BY <1>1, <1>5, CallBounds DEF IInv, TypeOK
<1>10. QED
  BY <1>1, <1>8, <1>9, BecomesKeeps

LEMMA HangupInv ==
  ASSUME IInv, NEW e \in Endpoints, Decline(e) \/ Hangup(e)
  PROVE  IInv' /\ NoGhosts
<1>1. PICK type \in {"decline", "bye"} : call[e].state # "idle" /\ Step(e, Finish(call[e]), Tell(e, type))
  BY DEF Decline, Hangup, Active
<1>2. QED
  BY <1>1, FinishesAsIs DEF Step

LEMMA LostInv ==
  ASSUME IInv, NEW e \in Endpoints, call[e].state # "idle", Lost(e)
  PROVE  IInv' /\ NoGhosts
  BY LosesLinkAsIs DEF Lost, Step, LostTells

LEMMA MediaGrantedInv ==
  ASSUME IInv, NEW e \in Endpoints, call[e].job = "media", ~IsOver(call[e]),
         Step(e, [call[e] EXCEPT !.media = TRUE, !.job = "servers"], {})
  PROVE  IInv' /\ NoGhosts
<1> DEFINE c == [call[e] EXCEPT !.media = TRUE, !.job = "servers"]
<1>1. call[e] \in Sessions /\ Sound(call[e]) /\ Consented(call[e], accepted)
  BY EndpointFacts
<1>2. Becomes(e, c, {}, {}) /\ UNCHANGED <<dialled, accepted>>
  BY DEF Step
<1>3. c \in Sessions
  BY <1>1 DEF Sessions, States, Jobs, Timers, Arm, Clear
<1>4. /\ c.id = call[e].id /\ c.answered = call[e].answered /\ c.remote = call[e].remote
      /\ c.state = call[e].state /\ c.role = call[e].role /\ c.pc = call[e].pc
      /\ c.job = "servers" /\ c.timers = call[e].timers /\ c.signaling = call[e].signaling
      /\ c.offered = call[e].offered /\ c.epoch = call[e].epoch
  BY <1>1 DEF Sessions, Arm, Clear
<1> HIDE DEF c
<1>5. Sound(c) /\ (c.state \in Linking => call[e].state \in Linking) /\ call[e].state # "idle"
  BY <1>1, <1>4, CallBounds DEF Sound, LifeCycle, TimersSound, JobsSound, OffersSound, Ringing,
       Linking, EarlyJobs, NoCall, IsOver, Sessions
<1>6. c.answered >= call[e].answered
  BY <1>1, <1>3, <1>4, CallBounds DEF Sessions, Sound, JobsSound, Consented, IsOver
<1>7. "bye" \in MsgTypes
  BY DEF MsgTypes
<1>8. QED
  BY <1>2, <1>3, <1>4, <1>5, <1>6, <1>7, WithinCall

LEMMA PrepareMediaInv ==
  ASSUME IInv, NEW e \in Endpoints, PrepareMedia(e)
  PROVE  IInv' /\ NoGhosts
<1>1. call[e].job = "media" /\ call[e].state # "idle"
  BY EndpointFacts DEF PrepareMedia, Sound, LifeCycle, NoCall
<1>2. CASE IsOver(call[e])
  BY <1>2, JobDropped DEF PrepareMedia, MediaGranted
<1>3. CASE ~IsOver(call[e])
  <2>1. CASE Step(e, MediaGranted(call[e]), {})
    BY <1>1, <1>3, <2>1, MediaGrantedInv DEF MediaGranted
  <2>2. CASE Step(e, [Finish(call[e]) EXCEPT !.job = "none"], Tell(e, "bye"))
    BY <1>1, <2>2, Finishes DEF Step
  <2>3. QED
    BY <1>3, <2>1, <2>2 DEF PrepareMedia
<1>4. QED
  BY <1>2, <1>3

LEMMA CalleeConnected ==
  ASSUME IInv, NEW e \in Endpoints, call[e].job = "servers", ~IsOver(call[e]), call[e].role = "callee",
         Step(e, [call[e] EXCEPT !.pc = TRUE, !.job = "none", !.timers = @ \union {"stats", "connect"}],
              Tell(e, "accept"))
  PROVE  IInv' /\ NoGhosts
<1> DEFINE c == [call[e] EXCEPT !.pc = TRUE, !.job = "none", !.timers = @ \union {"stats", "connect"}]
<1>1. call[e] \in Sessions /\ Sound(call[e]) /\ Consented(call[e], accepted)
  BY EndpointFacts
<1>2. Becomes(e, c, {}, Tell(e, "accept")) /\ UNCHANGED <<dialled, accepted>>
  BY DEF Step
<1>3. c \in Sessions
  BY <1>1 DEF Sessions, States, Jobs, Timers, Arm, Clear
<1>4. /\ c.id = call[e].id /\ c.answered = call[e].answered /\ c.remote = call[e].remote
      /\ c.state = call[e].state /\ c.role = "callee" /\ c.pc /\ c.job = "none"
      /\ c.timers = call[e].timers \union {"stats", "connect"}
  BY <1>1 DEF Sessions, Arm, Clear
<1> HIDE DEF c
<1>5. Sound(c) /\ (c.state \in Linking => call[e].state \in Linking) /\ call[e].state # "idle"
  BY <1>1, <1>4, CallBounds DEF Sound, LifeCycle, TimersSound, JobsSound, OffersSound, Ringing,
       Linking, EarlyJobs, NoCall, IsOver, Sessions
<1>6. c.answered >= call[e].answered /\ call[e].id \in accepted
  BY <1>1, <1>3, <1>4, CallBounds DEF Sessions, Sound, JobsSound, Consented, IsOver
<1>7. "accept" \in MsgTypes
  BY DEF MsgTypes
<1>8. QED
  BY <1>2, <1>3, <1>4, <1>5, <1>6, <1>7, WithinCall

LEMMA CallerConnected ==
  ASSUME IInv, NEW e \in Endpoints, call[e].job = "servers", ~IsOver(call[e]), call[e].role = "caller",
         Step(e, [call[e] EXCEPT !.pc = TRUE, !.job = "first-offer", !.timers = @ \union {"stats"}], {})
  PROVE  IInv' /\ NoGhosts
<1> DEFINE c == [call[e] EXCEPT !.pc = TRUE, !.job = "first-offer", !.timers = @ \union {"stats"}]
<1>1. call[e] \in Sessions /\ Sound(call[e]) /\ Consented(call[e], accepted)
  BY EndpointFacts
<1>2. Becomes(e, c, {}, {}) /\ UNCHANGED <<dialled, accepted>>
  BY DEF Step
<1>3. c \in Sessions
  BY <1>1 DEF Sessions, States, Jobs, Timers, Arm, Clear
<1>4. /\ c.id = call[e].id /\ c.answered = call[e].answered /\ c.remote = call[e].remote
      /\ c.state = call[e].state /\ c.role = call[e].role /\ c.pc /\ c.job = "first-offer"
      /\ c.timers = call[e].timers \union {"stats"} /\ c.signaling = call[e].signaling
      /\ c.offered = call[e].offered /\ c.epoch = call[e].epoch
  BY <1>1 DEF Sessions, Arm, Clear
<1> HIDE DEF c
<1>5. Sound(c) /\ (c.state \in Linking => call[e].state \in Linking) /\ call[e].state # "idle"
  BY <1>1, <1>4, CallBounds DEF Sound, LifeCycle, TimersSound, JobsSound, OffersSound, Ringing,
       Linking, EarlyJobs, NoCall, IsOver, Sessions
<1>6. c.answered >= call[e].answered
  BY <1>1, <1>3, <1>4, CallBounds DEF Sessions, Sound, JobsSound, Consented, IsOver
<1>7. "bye" \in MsgTypes
  BY DEF MsgTypes
<1>8. QED
  BY <1>2, <1>3, <1>4, <1>5, <1>6, <1>7, WithinCall

LEMMA PrepareConnectionInv ==
  ASSUME IInv, NEW e \in Endpoints, PrepareConnection(e)
  PROVE  IInv' /\ NoGhosts
<1>1. call[e].job = "servers" /\ call[e] \in Sessions
  BY EndpointFacts DEF PrepareConnection
<1>2. CASE IsOver(call[e])
  BY <1>2, JobDropped DEF PrepareConnection
<1>3. CASE ~IsOver(call[e]) /\ call[e].role = "callee"
  <2>1. Arm([[call[e] EXCEPT !.pc = TRUE, !.timers = @ \union {"stats"}] EXCEPT !.job = "none"], {"connect"})
          = [call[e] EXCEPT !.pc = TRUE, !.job = "none", !.timers = @ \union {"stats", "connect"}]
    BY <1>1 DEF Arm, Sessions
  <2>2. QED
    BY <1>1, <1>3, <2>1, CalleeConnected DEF PrepareConnection
<1>4. CASE ~IsOver(call[e]) /\ call[e].role # "callee"
  <2>1. [[call[e] EXCEPT !.pc = TRUE, !.timers = @ \union {"stats"}] EXCEPT !.job = "first-offer"]
          = [call[e] EXCEPT !.pc = TRUE, !.job = "first-offer", !.timers = @ \union {"stats"}]
    BY <1>1 DEF Sessions
  <2>2. call[e].role = "caller"
    BY <1>1, <1>4 DEF Sessions
  <2>3. QED
    BY <1>1, <1>4, <2>1, <2>2, CallerConnected DEF PrepareConnection
<1>5. QED
  BY <1>2, <1>3, <1>4

LEMMA OfferTooLate ==
  ASSUME IInv, NEW e \in Endpoints, call[e].job \in {"first-offer", "offer"}, IsOver(call[e]), NEW first,
         first = IF call[e].job = "first-offer" THEN {"connect"} ELSE {},
         Step(e, Arm([call[e] EXCEPT !.job = "none"], first), {})
  PROVE  IInv' /\ NoGhosts
<1> DEFINE c == Arm([call[e] EXCEPT !.job = "none"], first)
<1>1. call[e] \in Sessions /\ Sound(call[e]) /\ Consented(call[e], accepted)
  BY EndpointFacts
<1>2. Becomes(e, c, {}, {}) /\ UNCHANGED <<dialled, accepted>>
  BY DEF Step
<1>3. c \in Sessions
  <2>1. call[e].timers \union first \in SUBSET Timers
    BY <1>1 DEF Sessions, Timers
  <2>2. QED
    BY <1>1, <2>1 DEF Sessions, Jobs, Arm
<1>4. /\ c.id = call[e].id /\ c.answered = call[e].answered /\ c.remote = call[e].remote
      /\ c.state = "ended" /\ c.role = call[e].role /\ c.pc = FALSE /\ c.media = FALSE
      /\ c.job = "none" /\ c.timers \subseteq {"connect"} /\ c.signaling = call[e].signaling
      /\ c.offered = call[e].offered /\ c.epoch = call[e].epoch
  BY <1>1 DEF Sessions, Arm, IsOver, Sound, LifeCycle
<1> HIDE DEF c
<1>5. Sound(c) /\ (c.state \in Linking => call[e].state \in Linking) /\ call[e].state # "idle"
  BY <1>1, <1>4, CallBounds DEF Sound, LifeCycle, TimersSound, JobsSound, OffersSound, Ringing,
       Linking, EarlyJobs, NoCall, IsOver, Sessions
<1>6. c.answered >= call[e].answered
  BY <1>1, <1>3, <1>4, CallBounds DEF Sessions, Sound, JobsSound, Consented, IsOver
<1>7. "bye" \in MsgTypes
  BY DEF MsgTypes
<1>8. QED
  BY <1>2, <1>3, <1>4, <1>5, <1>6, <1>7, WithinCall

LEMMA OfferMade ==
  ASSUME IInv, NEW e \in Endpoints, call[e].job \in {"first-offer", "offer"}, ~IsOver(call[e]), NEW first,
         first = IF call[e].job = "first-offer" THEN {"connect"} ELSE {},
         NEW b, b = Arm([call[e] EXCEPT !.job = "none"], first),
         Step(e, Arm([b EXCEPT !.signaling = "have-local-offer", !.offered = b.epoch], {"offer"}), Tell(e, "offer"))
  PROVE  IInv' /\ NoGhosts
<1> DEFINE c == Arm([b EXCEPT !.signaling = "have-local-offer", !.offered = b.epoch], {"offer"})
<1>1. call[e] \in Sessions /\ Sound(call[e]) /\ Consented(call[e], accepted)
  BY EndpointFacts
<1>2. Becomes(e, c, {}, Tell(e, "offer")) /\ UNCHANGED <<dialled, accepted>>
  BY DEF Step
<1>3. c \in Sessions
  <2>1. b \in Sessions /\ b.timers = call[e].timers \union first
    <3>1. call[e].timers \union first \in SUBSET Timers
      BY <1>1 DEF Sessions, Timers
    <3>2. QED
      BY <1>1, <3>1 DEF Sessions, Jobs, Arm
  <2>2. b.timers \union {"offer"} \in SUBSET Timers /\ b.epoch \in -1 .. MaxEpoch
    BY <2>1, CallBounds DEF Sessions, Timers
  <2> DEFINE g == [b EXCEPT !.signaling = "have-local-offer", !.offered = b.epoch]
  <2>3. g \in Sessions /\ g.timers = b.timers
    BY <2>1, <2>2 DEF Sessions
  <2> HIDE DEF g
  <2>4. Arm(g, {"offer"}) \in Sessions
    BY <2>2, <2>3 DEF Sessions, Arm
  <2>5. QED
    BY <2>4 DEF g
<1>4. /\ c.id = call[e].id /\ c.answered = call[e].answered /\ c.remote = call[e].remote
      /\ c.state = call[e].state /\ c.role = call[e].role /\ c.pc = call[e].pc
      /\ c.media = call[e].media /\ c.job = "none"
      /\ c.timers = call[e].timers \union first \union {"offer"}
      /\ c.signaling = "have-local-offer" /\ c.offered = call[e].epoch
      /\ c.epoch = call[e].epoch
  BY <1>1 DEF Sessions, Arm, Clear
<1> HIDE DEF c
<1>5. Sound(c) /\ (c.state \in Linking => call[e].state \in Linking) /\ call[e].state # "idle"
  BY <1>1, <1>4, CallBounds DEF Sound, LifeCycle, TimersSound, JobsSound, OffersSound, Ringing,
       Linking, EarlyJobs, NoCall, IsOver, Sessions
<1>6. c.answered >= call[e].answered
  BY <1>1, <1>3, <1>4, CallBounds DEF Sessions, Sound, JobsSound, Consented, IsOver
<1>7. "offer" \in MsgTypes
  BY DEF MsgTypes
<1>8. QED
  BY <1>2, <1>3, <1>4, <1>5, <1>6, <1>7, WithinCall

LEMMA SendOfferInv ==
  ASSUME IInv, NEW e \in Endpoints, SendOffer(e)
  PROVE  IInv' /\ NoGhosts
<1>1. PICK first : first = IF call[e].job = "first-offer" THEN {"connect"} ELSE {}
  OBVIOUS
<1>2. PICK b : b = Arm([call[e] EXCEPT !.job = "none"], first)
  OBVIOUS
<1>3. CASE IsOver(call[e])
  BY <1>1, <1>2, <1>3, OfferTooLate DEF SendOffer
<1>4. CASE ~IsOver(call[e])
  BY <1>1, <1>2, <1>4, OfferMade DEF SendOffer
<1>5. QED
  BY <1>3, <1>4

LEMMA JobPassed ==
  ASSUME IInv, NEW e \in Endpoints, ~IsOver(call[e]), call[e].job = "restart", NEW job \in {"none", "rollback"},
         Step(e, [call[e] EXCEPT !.job = job], {})
  PROVE  IInv' /\ NoGhosts
<1> DEFINE c == [call[e] EXCEPT !.job = job]
<1>1. call[e] \in Sessions /\ Sound(call[e]) /\ Consented(call[e], accepted)
  BY EndpointFacts
<1>2. Becomes(e, c, {}, {}) /\ UNCHANGED <<dialled, accepted>>
  BY DEF Step
<1>3. c \in Sessions
  BY <1>1 DEF Sessions, States, Jobs, Timers, Arm, Clear
<1>4. /\ c.id = call[e].id /\ c.answered = call[e].answered /\ c.remote = call[e].remote
      /\ c.state = call[e].state /\ c.role = call[e].role /\ c.pc = call[e].pc
      /\ c.media = call[e].media /\ c.job = job /\ c.timers = call[e].timers
      /\ c.signaling = call[e].signaling /\ c.offered = call[e].offered
      /\ c.epoch = call[e].epoch
  BY <1>1 DEF Sessions, Arm, Clear
<1> HIDE DEF c
<1>5. Sound(c) /\ (c.state \in Linking => call[e].state \in Linking) /\ call[e].state # "idle"
  BY <1>1, <1>4, CallBounds DEF Sound, LifeCycle, TimersSound, JobsSound, OffersSound, Ringing,
       Linking, EarlyJobs, NoCall, IsOver, Sessions
<1>6. c.answered >= call[e].answered
  BY <1>1, <1>3, <1>4, CallBounds DEF Sessions, Sound, JobsSound, Consented, IsOver
<1>7. "bye" \in MsgTypes
  BY DEF MsgTypes
<1>8. QED
  BY <1>2, <1>3, <1>4, <1>5, <1>6, <1>7, WithinCall

LEMMA RestartIceInv ==
  ASSUME IInv, NEW e \in Endpoints, RestartIce(e)
  PROVE  IInv' /\ NoGhosts
<1>1. call[e].job = "restart"
  BY DEF RestartIce
<1>2. CASE IsOver(call[e])
  BY <1>2, JobDropped DEF RestartIce
<1>3. CASE ~IsOver(call[e])
  BY <1>1, <1>3, JobPassed DEF RestartIce
<1>4. QED
  BY <1>2, <1>3

LEMMA OfferRolledBack ==
  ASSUME IInv, NEW e \in Endpoints, ~IsOver(call[e]), call[e].job = "rollback",
         Step(e, [call[e] EXCEPT !.signaling = "stable", !.offered = call[e].remote,
                                 !.epoch = @ + 1, !.job = "offer"], {})
  PROVE  IInv' /\ NoGhosts
<1> DEFINE c == [call[e] EXCEPT !.signaling = "stable", !.offered = call[e].remote,
                              !.epoch = @ + 1, !.job = "offer"]
<1>1. call[e] \in Sessions /\ Sound(call[e]) /\ Consented(call[e], accepted)
  BY EndpointFacts
<1>2. Becomes(e, c, {}, {}) /\ UNCHANGED <<dialled, accepted>>
  BY DEF Step
<1>3. c \in Sessions
  <2>1. call[e].epoch + 1 \in 0 .. MaxEpoch
    BY <1>1, CallBounds DEF Sessions, Sound, JobsSound
  <2>2. QED
    BY <1>1, <2>1 DEF Sessions, Jobs
<1>4. /\ c.id = call[e].id /\ c.answered = call[e].answered /\ c.remote = call[e].remote
      /\ c.state = call[e].state /\ c.role = call[e].role /\ c.pc = call[e].pc
      /\ c.media = call[e].media /\ c.job = "offer" /\ c.timers = call[e].timers
      /\ c.signaling = "stable" /\ c.offered = call[e].remote /\ c.epoch = call[e].epoch + 1
  BY <1>1 DEF Sessions, Arm, Clear
<1> HIDE DEF c
<1>5. Sound(c) /\ (c.state \in Linking => call[e].state \in Linking) /\ call[e].state # "idle"
  BY <1>1, <1>4, CallBounds DEF Sound, LifeCycle, TimersSound, JobsSound, OffersSound, Ringing,
       Linking, EarlyJobs, NoCall, IsOver, Sessions
<1>6. c.answered >= call[e].answered
  BY <1>1, <1>3, <1>4, CallBounds DEF Sessions, Sound, JobsSound, Consented, IsOver
<1>7. "bye" \in MsgTypes
  BY DEF MsgTypes
<1>8. QED
  BY <1>2, <1>3, <1>4, <1>5, <1>6, <1>7, WithinCall

LEMMA RestartOfferInv ==
  ASSUME IInv, NEW e \in Endpoints, RestartOffer(e)
  PROVE  IInv' /\ NoGhosts
<1>1. CASE IsOver(call[e])
  BY <1>1, JobDropped DEF RestartOffer
<1>2. CASE ~IsOver(call[e])
  BY <1>2, OfferRolledBack DEF RestartOffer
<1>3. QED
  BY <1>1, <1>2

(* The start of an answer: the epoch of the offer is taken over. *)
LEMMA TakesOffer ==
  ASSUME IInv, NEW e \in Endpoints, ~IsOver(call[e]), call[e].role = "callee", call[e].pc,
         call[e].job \in {"none", "renew"},
         NEW n \in 0 .. MaxEpoch, n > call[e].answered,
         NEW in, Becomes(e, TakeOffer(call[e], n), in, {}), UNCHANGED <<dialled, accepted>>
  PROVE  IInv' /\ NoGhosts
<1> DEFINE c == TakeOffer(call[e], n)
<1>1. call[e] \in Sessions /\ Sound(call[e])
  BY EndpointFacts
<1>2. Becomes(e, c, in, {})
  OBVIOUS
<1>3. c \in Sessions
  <2>1. -1 \in -1 .. MaxEpoch /\ "answer" \in Jobs
    BY CallBounds DEF Jobs
  <2>2. QED
    BY <1>1, <2>1 DEF TakeOffer, Sessions
<1>4. /\ c.id = call[e].id /\ c.answered = call[e].answered /\ c.remote = call[e].remote
      /\ c.state = call[e].state /\ c.role = "callee" /\ c.pc /\ c.job = "answer"
      /\ c.timers = call[e].timers /\ c.epoch = n
  BY <1>1 DEF TakeOffer, Sessions
<1> HIDE DEF c
<1>5. Sound(c) /\ call[e].state # "idle"
  <2>1. call[e].state \in Linking
    BY <1>1 DEF Sound, LifeCycle
  <2>2. QED
    BY <1>1, <1>4, <2>1 DEF Sound, LifeCycle, TimersSound, JobsSound, OffersSound, Ringing, Linking, EarlyJobs
<1>6. c.answered >= call[e].answered
  BY <1>3, <1>4, CallBounds DEF Sessions
<1>7. "bye" \in MsgTypes
  BY DEF MsgTypes
<1>8. QED
  BY <1>2, <1>3, <1>4, <1>5, <1>6, <1>7, WithinCall

LEMMA RenewServersInv ==
  ASSUME IInv, NEW e \in Endpoints, RenewServers(e)
  PROVE  IInv' /\ NoGhosts
<1>1. call[e].job = "renew" /\ call[e] \in Sessions /\ Sound(call[e])
  BY EndpointFacts DEF RenewServers
<1>2. CASE IsOver(call[e])
  BY <1>2, JobDropped DEF RenewServers
<1>3. CASE ~IsOver(call[e])
  <2>1. call[e].role = "callee" /\ call[e].pc /\ call[e].got > call[e].answered
    BY <1>1, <1>3 DEF Sound, JobsSound, IsOver
  <2>2. call[e].got \in 0 .. MaxEpoch
    BY <1>1, <2>1, CallBounds DEF Sessions
  <2>3. QED
    BY <1>1, <1>3, <2>1, <2>2, TakesOffer DEF RenewServers, Step
<1>4. QED
  BY <1>2, <1>3

LEMMA AnswerMade ==
  ASSUME IInv, NEW e \in Endpoints, ~IsOver(call[e]), call[e].job = "answer",
         Step(e, Clear([call[e] EXCEPT !.answered = call[e].epoch, !.job = "none"], {"restart"}), Tell(e, "answer"))
  PROVE  IInv' /\ NoGhosts
<1> DEFINE c == Clear([call[e] EXCEPT !.answered = call[e].epoch, !.job = "none"], {"restart"})
<1>1. call[e] \in Sessions /\ Sound(call[e]) /\ Consented(call[e], accepted)
  BY EndpointFacts
<1>2. Becomes(e, c, {}, Tell(e, "answer")) /\ UNCHANGED <<dialled, accepted>>
  BY DEF Step
<1>3. c \in Sessions
  <2>1. call[e].timers \ {"restart"} \in SUBSET Timers /\ call[e].epoch \in -1 .. MaxEpoch
    BY <1>1, CallBounds DEF Sessions
  <2>2. QED
    BY <1>1, <2>1 DEF Sessions, Jobs, Clear
<1>4. /\ c.id = call[e].id /\ c.answered = call[e].epoch /\ c.remote = call[e].remote
      /\ c.state = call[e].state /\ c.role = "callee" /\ c.pc = call[e].pc
      /\ c.media = call[e].media /\ c.job = "none" /\ c.timers = call[e].timers \ {"restart"}
      /\ c.epoch = call[e].epoch
  BY <1>1 DEF Sessions, Clear, Sound, JobsSound
<1> HIDE DEF c
<1>5. Sound(c) /\ (c.state \in Linking => call[e].state \in Linking) /\ call[e].state # "idle"
  BY <1>1, <1>4, CallBounds DEF Sound, LifeCycle, TimersSound, JobsSound, OffersSound, Ringing,
       Linking, EarlyJobs, NoCall, IsOver, Sessions
<1>6. c.answered >= call[e].answered /\ call[e].epoch <= c.answered
  BY <1>1, <1>3, <1>4, CallBounds DEF Sessions, Sound, JobsSound, Consented, IsOver
<1>7. "answer" \in MsgTypes
  BY DEF MsgTypes
<1>8. QED
  BY <1>2, <1>3, <1>4, <1>5, <1>6, <1>7, WithinCall

LEMMA SendAnswerInv ==
  ASSUME IInv, NEW e \in Endpoints, SendAnswer(e)
  PROVE  IInv' /\ NoGhosts
<1>1. CASE IsOver(call[e])
  BY <1>1, JobDropped DEF SendAnswer
<1>2. CASE ~IsOver(call[e])
  BY <1>2, AnswerMade DEF SendAnswer
<1>3. QED
  BY <1>1, <1>2

LEMMA WorkInv ==
  ASSUME IInv, NEW e \in Endpoints, Work(e)
  PROVE  IInv' /\ NoGhosts
  BY PrepareMediaInv, PrepareConnectionInv, SendOfferInv, RestartIceInv, RestartOfferInv,
     RenewServersInv, SendAnswerInv DEF Work

-----------------------------------------------------------------------------
(* Timers *)

LEMMA TellsAgain ==
  ASSUME IInv, NEW e \in Endpoints, call[e].state # "idle",
         NEW type \in {"invite", "offer", "restart"}, Step(e, call[e], Tell(e, type))
  PROVE  IInv' /\ NoGhosts
<1>1. MaySend(e, call[e], Tell(e, type), dialled, accepted)
  BY TellMaySend DEF MsgTypes
<1>2. QED
  BY <1>1, SameSession DEF Step

LEMMA TimedFacts ==
  ASSUME IInv, NEW e \in Endpoints, NEW name, Timed(e, name)
  PROVE  /\ call[e].state # "idle" /\ call[e] \in Sessions /\ Sound(call[e])
         /\ name \notin {"invite", "ring"} => call[e].pc \/ call[e].state = "ended"
  BY EndpointFacts DEF Timed, Sound, LifeCycle, TimersSound, NoCall

LEMMA FireRingInv ==
  ASSUME IInv, NEW e \in Endpoints, FireRing(e) \/ FireWindow(e)
  PROVE  IInv' /\ NoGhosts
<1>1. call[e].state # "idle"
  BY TimedFacts DEF FireRing, FireWindow
<1>2. PICK out \in {{}, Tell(e, "bye")} : Step(e, Finish(call[e]), out)
  BY DEF FireRing, FireWindow
<1>3. QED
  BY <1>1, <1>2, FinishesAsIs DEF Step

LEMMA FireConnectInv ==
  ASSUME IInv, NEW e \in Endpoints, FireConnect(e) \/ FireGrace(e)
  PROVE  IInv' /\ NoGhosts
<1>1. PICK name \in {"connect", "grace"} :
        Timed(e, name) /\ Step(e, LinkLost(Clear(call[e], {name})), LostTells(e))
  BY DEF FireConnect, FireGrace
<1>2. /\ call[e].state # "idle" /\ call[e] \in Sessions
      /\ call[e].pc \/ call[e].state = "ended"
  BY <1>1, TimedFacts
<1>3. PICK t \in SUBSET Timers, s \in {"new", "connected", "disconnected", "failed"} :
        t = call[e].timers \ {name} /\ s = call[e].conn
  BY <1>2 DEF Sessions
<1>4. PICK b : b = Clear(call[e], {name})
  OBVIOUS
<1>5. b = [call[e] EXCEPT !.timers = t, !.conn = s]
  BY <1>2, <1>3, <1>4 DEF Sessions, Clear
<1>6. call[e].timers \ {"connect", "grace"} \subseteq t /\ t \subseteq call[e].timers
  BY <1>1, <1>3
<1>7. Becomes(e, LinkLost(b), {}, LostTells(e)) /\ UNCHANGED <<dialled, accepted>>
  BY <1>1, <1>4 DEF Step
<1>8. LostTells(e) \in {{}, Tell(e, "restart")}
  BY DEF LostTells
<1>9. QED
  BY <1>2, <1>5, <1>6, <1>7, <1>8, LosesLink

LEMMA RestartQueued ==
  ASSUME IInv, NEW e \in Endpoints, call[e].role = "caller", Timed(e, "restart"),
         call[e].job = "none", call[e].epoch < MaxEpoch, Step(e, [call[e] EXCEPT !.job = "restart"], {})
  PROVE  IInv' /\ NoGhosts
<1> DEFINE c == [call[e] EXCEPT !.job = "restart"]
<1>1. call[e] \in Sessions /\ Sound(call[e]) /\ Consented(call[e], accepted)
  BY EndpointFacts
<1>2. Becomes(e, c, {}, {}) /\ UNCHANGED <<dialled, accepted>>
  BY DEF Step
<1>3. c \in Sessions
  BY <1>1 DEF Sessions, States, Jobs, Timers, Arm, Clear
<1>4. /\ c.id = call[e].id /\ c.answered = call[e].answered /\ c.remote = call[e].remote
      /\ c.state = call[e].state /\ c.role = call[e].role /\ c.pc = call[e].pc
      /\ c.media = call[e].media /\ c.job = "restart" /\ c.timers = call[e].timers
      /\ c.signaling = call[e].signaling /\ c.offered = call[e].offered
      /\ c.epoch = call[e].epoch /\ (call[e].pc \/ call[e].state = "ended")
  BY <1>1, TimedFacts DEF Sessions
<1> HIDE DEF c
<1>5. Sound(c) /\ (c.state \in Linking => call[e].state \in Linking) /\ call[e].state # "idle"
  <2>1. call[e].state # "idle" /\ (call[e].state # "ended" => call[e].state \in Linking)
    BY <1>1, <1>4, TimedFacts DEF Sound, LifeCycle
  <2>2. LifeCycle(c)
    BY <1>1, <1>4, <2>1 DEF Sound, LifeCycle, Ringing, Linking
  <2>3. TimersSound(c)
    BY <1>1, <1>4 DEF Sound, TimersSound, EarlyJobs
  <2>4. JobsSound(c) /\ OffersSound(c)
    BY <1>1, <1>4, <2>1 DEF Sound, JobsSound, OffersSound
  <2>5. QED
    BY <1>4, <2>1, <2>2, <2>3, <2>4 DEF Sound
<1>6. c.answered >= call[e].answered
  BY <1>1, <1>3, <1>4, CallBounds DEF Sessions, Sound, JobsSound, Consented, IsOver
<1>7. "bye" \in MsgTypes
  BY DEF MsgTypes
<1>8. QED
  BY <1>2, <1>3, <1>4, <1>5, <1>6, <1>7, WithinCall

LEMMA FireRestartInv ==
  ASSUME IInv, NEW e \in Endpoints, FireRestart(e)
  PROVE  IInv' /\ NoGhosts
<1>1. Timed(e, "restart") /\ call[e].state # "idle" /\ call[e] \in Sessions
  BY TimedFacts DEF FireRestart
<1>2. CASE call[e].role = "callee"
  BY <1>1, <1>2, TellsAgain DEF FireRestart
<1>3. CASE call[e].role # "callee"
  <2>1. call[e].role = "caller"
    BY <1>1, <1>3 DEF Sessions
  <2>2. QED
    BY <1>1, <1>3, <2>1, RestartQueued DEF FireRestart
<1>4. QED
  BY <1>2, <1>3

(* A session whose link is up: connected, or still connecting when onPcState *)
(* saw it.                                                                   *)
LEMMA MarksConnected ==
  ASSUME IInv, NEW e \in Endpoints, call[e].state \in {"connecting", "reconnecting"}, call[e].pc,
         NEW t \in SUBSET Timers, t \subseteq call[e].timers,
         NEW s \in {"new", "connected", "disconnected", "failed"},
         NEW b, b = [call[e] EXCEPT !.timers = t, !.conn = s], Step(e, MarkConnected(b), {})
  PROVE  IInv' /\ NoGhosts
<1> DEFINE c == MarkConnected(b)
<1>1. call[e] \in Sessions /\ Sound(call[e])
  BY EndpointFacts
<1>2. Becomes(e, c, {}, {}) /\ UNCHANGED <<dialled, accepted>>
  BY DEF Step
<1>3. /\ b \in Sessions /\ b.timers = t /\ b.id = call[e].id /\ b.answered = call[e].answered
      /\ b.remote = call[e].remote /\ b.role = call[e].role /\ b.pc = call[e].pc /\ b.job = call[e].job
      /\ b.signaling = call[e].signaling /\ b.offered = call[e].offered /\ b.epoch = call[e].epoch
      /\ b.got = call[e].got
  BY <1>1 DEF Sessions
<1>4. /\ c \in Sessions /\ c.timers = t \ {"restart", "window", "offer"} /\ c.state = "connected"
      /\ c.id = b.id /\ c.answered = b.answered /\ c.remote = b.remote /\ c.role = b.role
      /\ c.pc = b.pc /\ c.job = b.job /\ c.signaling = b.signaling /\ c.offered = b.offered
      /\ c.epoch = b.epoch /\ c.got = b.got
  <2> DEFINE g == [b EXCEPT !.state = "connected"]
  <2>1. g \in Sessions
    BY <1>3 DEF Sessions, States
  <2>2. /\ g.timers = t /\ g.state = "connected"
        /\ g.id = b.id /\ g.answered = b.answered /\ g.remote = b.remote /\ g.role = b.role
        /\ g.pc = b.pc /\ g.job = b.job /\ g.signaling = b.signaling /\ g.offered = b.offered
        /\ g.epoch = b.epoch /\ g.got = b.got
    BY <1>3 DEF Sessions
  <2>3. c = [g EXCEPT !.timers = @ \ {"restart", "window", "offer"}]
    BY DEF MarkConnected, Clear
  <2> HIDE DEF g, c
  <2>4. QED
    BY <2>1, <2>2, <2>3 DEF Sessions
<1> HIDE DEF c
<1>5. Sound(c) /\ call[e].state \in Linking
  BY <1>1, <1>3, <1>4, CallBounds DEF Sound, LifeCycle, TimersSound, JobsSound, OffersSound, Ringing, Linking
<1>6. c.answered >= call[e].answered
  BY <1>3, <1>4, CallBounds DEF Sessions
<1>7. "bye" \in MsgTypes /\ call[e].state # "idle"
  BY DEF MsgTypes
<1>8. QED
  BY <1>2, <1>3, <1>4, <1>5, <1>6, <1>7, WithinCall

LEMMA PacketsMovedInv ==
  ASSUME IInv, NEW e \in Endpoints, PacketsMoved(e)
  PROVE  IInv' /\ NoGhosts
<1>1. /\ call[e].state = "reconnecting" /\ call[e].pc /\ call[e] \in Sessions
      /\ Step(e, MarkConnected(call[e]), {})
  BY TimedFacts DEF PacketsMoved
<1>2. PICK t \in SUBSET Timers, s \in {"new", "connected", "disconnected", "failed"} :
        t = call[e].timers /\ s = call[e].conn
  BY <1>1 DEF Sessions
<1>3. PICK b : b = call[e]
  OBVIOUS
<1>4. b = [call[e] EXCEPT !.timers = t, !.conn = s] /\ t \subseteq call[e].timers
  BY <1>1, <1>2, <1>3 DEF Sessions
<1>5. Step(e, MarkConnected(b), {})
  BY <1>1, <1>3
<1>6. QED
  BY <1>1, <1>4, <1>5, MarksConnected

LEMMA FireInv ==
  ASSUME IInv, NEW e \in Endpoints, Fire(e)
  PROVE  IInv' /\ NoGhosts
<1>1. CASE FireInvite(e)
  BY <1>1, TimedFacts, TellsAgain DEF FireInvite
<1>2. CASE FireOffer(e)
  BY <1>2, TimedFacts, TellsAgain DEF FireOffer
<1>3. CASE MediaStalled(e)
  BY <1>3, TimedFacts, LostInv DEF MediaStalled
<1>4. QED
  BY <1>1, <1>2, <1>3, FireRingInv, FireConnectInv, FireRestartInv, PacketsMovedInv DEF Fire

(* What onPcState() does besides marking the call connected or lost: a      *)
(* timer is cleared or armed.                                               *)
LEMMA PcReports ==
  ASSUME IInv, NEW e \in Endpoints, call[e].pc,
         NEW t \in SUBSET Timers, call[e].timers \ {"connect", "grace"} \subseteq t,
         call[e].state = "connecting" => call[e].timers \subseteq t,
         NEW s \in {"new", "connected", "disconnected", "failed"},
         NEW c, c = [call[e] EXCEPT !.timers = t, !.conn = s], Step(e, c, {})
  PROVE  IInv' /\ NoGhosts
<1>1. call[e] \in Sessions /\ Sound(call[e])
  BY EndpointFacts
<1>2. Becomes(e, c, {}, {}) /\ UNCHANGED <<dialled, accepted>>
  BY DEF Step
<1>3. /\ c \in Sessions /\ c.timers = t /\ c.id = call[e].id /\ c.answered = call[e].answered
      /\ c.remote = call[e].remote /\ c.role = call[e].role /\ c.pc = call[e].pc /\ c.job = call[e].job
      /\ c.signaling = call[e].signaling /\ c.offered = call[e].offered /\ c.epoch = call[e].epoch
      /\ c.got = call[e].got /\ c.state = call[e].state
  BY <1>1 DEF Sessions
<1>4. Sound(c) /\ call[e].state \in Linking
  BY <1>1, <1>3, CallBounds DEF Sound, LifeCycle, TimersSound, JobsSound, OffersSound, Ringing, Linking
<1>5. c.answered >= call[e].answered
  <2>1. call[e].answered \in Int
    BY <1>1, CallBounds DEF Sessions
  <2>2. QED
    BY <1>3, <2>1
<1>6. "bye" \in MsgTypes /\ call[e].state # "idle"
  BY <1>4 DEF MsgTypes, Linking
<1>7. QED
  BY <1>2, <1>3, <1>4, <1>5, <1>6, WithinCall

LEMMA PcStateInv ==
  ASSUME IInv, NEW e \in Endpoints, PcState(e)
  PROVE  IInv' /\ NoGhosts
<1>1. call[e] \in Sessions /\ call[e].pc /\ call[e].state # "idle"
  BY EndpointFacts DEF PcState, Sound, LifeCycle, NoCall
<1>2. PICK s \in {"connected", "disconnected", "failed"} :
        \/ /\ s = "connected"
           /\ \E d : /\ d = Clear([call[e] EXCEPT !.conn = s], {"connect", "grace"})
                     /\ Step(e, IF call[e].state = "connecting" THEN MarkConnected(d) ELSE d, {})
        \/ s = "failed" /\ Step(e, LinkLost([call[e] EXCEPT !.conn = s]), LostTells(e))
        \/ s = "disconnected" /\ Step(e, Arm([call[e] EXCEPT !.conn = s], {"grace"}), {})
  BY <1>1 DEF PcState, Sessions
<1>3. CASE s = "connected"
  <2>1. PICK d : /\ d = Clear([call[e] EXCEPT !.conn = s], {"connect", "grace"})
                 /\ Step(e, IF call[e].state = "connecting" THEN MarkConnected(d) ELSE d, {})
    BY <1>2, <1>3
  <2>2. PICK t \in SUBSET Timers : t = call[e].timers \ {"connect", "grace"}
    BY <1>1 DEF Sessions
  <2>3. d = [call[e] EXCEPT !.timers = t, !.conn = s]
    BY <1>1, <2>1, <2>2 DEF Clear, Sessions
  <2>4. CASE call[e].state = "connecting"
    <3>1. Step(e, MarkConnected(d), {})
      BY <2>1, <2>4
    <3>2. t \subseteq call[e].timers
      BY <2>2
    <3>3. QED
      BY <1>1, <2>3, <2>4, <3>1, <3>2, MarksConnected
  <2>5. CASE call[e].state # "connecting"
    <3>1. Step(e, d, {})
      BY <2>1, <2>5
    <3>2. call[e].timers \ {"connect", "grace"} \subseteq t
      BY <2>2
    <3>3. QED
      BY <1>1, <2>3, <2>5, <3>1, <3>2, PcReports
  <2>6. QED
    BY <2>4, <2>5
<1>4. CASE s = "failed"
  <2>1. Step(e, LinkLost([call[e] EXCEPT !.conn = s]), LostTells(e))
    BY <1>2, <1>4
  <2>2. PICK t \in SUBSET Timers : t = call[e].timers
    BY <1>1 DEF Sessions
  <2>3. PICK b : b = [call[e] EXCEPT !.conn = s]
    OBVIOUS
  <2>4. b = [call[e] EXCEPT !.timers = t, !.conn = s]
    BY <1>1, <2>2, <2>3 DEF Sessions
  <2>5. Becomes(e, LinkLost(b), {}, LostTells(e)) /\ UNCHANGED <<dialled, accepted>>
    BY <2>1, <2>3 DEF Step
  <2>6. LostTells(e) \in {{}, Tell(e, "restart")}
    BY DEF LostTells
  <2>7. call[e].timers \ {"connect", "grace"} \subseteq t /\ t \subseteq call[e].timers
    BY <2>2
  <2>8. QED
    BY <1>1, <2>4, <2>5, <2>6, <2>7, LosesLink
<1>5. CASE s = "disconnected"
  <2>1. Step(e, Arm([call[e] EXCEPT !.conn = s], {"grace"}), {})
    BY <1>2, <1>5
  <2>2. PICK t \in SUBSET Timers : t = call[e].timers \union {"grace"}
    BY <1>1 DEF Sessions, Timers
  <2>3. PICK c : c = Arm([call[e] EXCEPT !.conn = s], {"grace"})
    OBVIOUS
  <2>4. c = [call[e] EXCEPT !.timers = t, !.conn = s]
    BY <1>1, <2>2, <2>3 DEF Arm, Sessions
  <2>5. Step(e, c, {})
    BY <2>1, <2>3
  <2>6. call[e].timers \subseteq t
    BY <2>2
  <2>7. QED
    BY <1>1, <2>4, <2>5, <2>6, PcReports
<1>6. QED
  BY <1>3, <1>4, <1>5

-----------------------------------------------------------------------------
(* Messages *)

LEMMA MsgFacts ==
  ASSUME IInv, NEW m \in net
  PROVE  /\ m.to \in Endpoints /\ m.id \in CallIds /\ m.id \in Int /\ m.id # 0 /\ m.id <= dialled
         /\ m.epoch \in 0 .. MaxEpoch /\ m.epoch \in Int
         /\ m.type = "accept" => m.id \in accepted
         /\ m.type = "answer" => Vouches(Peer(m.to), m.id, m.epoch)
  BY CallBounds DEF IInv, NetInv, Messages, CallIds

(* A message that is only taken, or answered by another one. *)
LEMMA Ignored ==
  ASSUME IInv, NEW e \in Endpoints, NEW m, NEW out, Handle(e, m, call[e], out),
         MaySend(e, call[e], out, dialled, accepted)
  PROVE  IInv' /\ NoGhosts
  BY SameSession DEF Handle

LEMMA NothingSent ==
  ASSUME NEW e, NEW c, NEW d, NEW acc
  PROVE  MaySend(e, c, {}, d, acc)
  BY DEF MaySend

(* A reply that names the call of the invite. *)
LEMMA ReplyMaySend ==
  ASSUME IInv, NEW e \in Endpoints, NEW c, NEW m \in net, NEW type \in {"ringing", "busy"},
         NEW out, out \in {{}, {Msg(Peer(e), type, m.id, 0)}}
  PROVE  MaySend(e, c, out, dialled, accepted)
<1>1. m.id \in CallIds /\ m.id <= dialled /\ 0 \in 0 .. MaxEpoch
  BY MsgFacts, CallBounds
<1>2. QED
  BY <1>1, PeerFacts DEF MaySend, Msg, Messages, MsgTypes

LEMMA NewCallRings ==
  ASSUME IInv, NEW m \in net, NEW e \in Endpoints,
         m.id # call[e].id, m.id \notin ended[e], ~Active(call[e]),
         Handle(e, m, [NoCall EXCEPT !.id = m.id, !.role = "callee", !.state = "ringing-in", !.timers = {"ring"}],
                {Msg(Peer(e), "ringing", m.id, 0)})
  PROVE  IInv' /\ NoGhosts
<1> DEFINE c == [NoCall EXCEPT !.id = m.id, !.role = "callee", !.state = "ringing-in", !.timers = {"ring"}]
           out == {Msg(Peer(e), "ringing", m.id, 0)}
<1>1. Becomes(e, c, {m}, out) /\ UNCHANGED <<dialled, accepted>>
  BY DEF Handle
<1>2. m.id \in CallIds /\ m.id \in 0 .. MaxCalls /\ m.id <= dialled /\ m.id # 0
  BY MsgFacts, CallBounds DEF CallIds
<1>3. c \in Sessions
  <2>1. "ringing-in" \in States /\ {"ring"} \in SUBSET Timers
    BY DEF States, Timers
  <2>2. QED
    BY <1>2, <2>1, NoCallTyped DEF Sessions
<1>4. /\ c.id = m.id /\ c.state = "ringing-in" /\ c.timers = {"ring"} /\ c.remote = -1
      /\ ~c.pc /\ ~c.media /\ c.job = "none" /\ c.role = "callee"
  BY DEF NoCall
<1>5. MaySend(e, c, out, dialled, accepted)
  BY ReplyMaySend
<1> HIDE DEF c, out
<1>6. Sound(c) /\ Consented(c, accepted)
  BY <1>2, <1>4 DEF Sound, LifeCycle, TimersSound, JobsSound, OffersSound, Ringing, Linking, Consented
<1>7. Follows(e, c)
  BY <1>4 DEF Follows
<1>8. GoodStep(e, c, out, dialled, accepted)
  BY <1>2, <1>3, <1>4, <1>5, <1>6, <1>7 DEF GoodStep
<1>9. dialled \in 0 .. MaxCalls /\ dialled <= dialled /\ accepted \subseteq CallIds
  BY CallBounds DEF IInv, TypeOK
<1>10. QED
  BY <1>1, <1>8, <1>9, BecomesKeeps

LEMMA OnInviteInv ==
  ASSUME IInv, NEW m \in net, NEW e \in Endpoints, OnInvite(e, m)
  PROVE  IInv' /\ NoGhosts
<1>1. CASE m.id = call[e].id
  BY <1>1, Ignored, ReplyMaySend DEF OnInvite
<1>2. CASE m.id # call[e].id /\ m.id \in ended[e]
  BY <1>2, Ignored, NothingSent DEF OnInvite
<1>3. CASE m.id # call[e].id /\ m.id \notin ended[e] /\ Active(call[e])
  BY <1>3, Ignored, ReplyMaySend DEF OnInvite
<1>4. CASE m.id # call[e].id /\ m.id \notin ended[e] /\ ~Active(call[e])
  BY <1>4, NewCallRings DEF OnInvite
<1>5. QED
  BY <1>1, <1>2, <1>3, <1>4

(* call.ringing and call.accept only change the state, the job and timers. *)
LEMMA CallerAdvances ==
  ASSUME IInv, NEW m \in net, NEW e \in Endpoints, m.id = call[e].id,
         call[e].state \in {"calling", "ringing-out"},
         NEW state, NEW job, NEW gone,
         \/ state = "ringing-out" /\ job = call[e].job /\ gone = {"invite"}
         \/ state = "connecting" /\ job = "media" /\ gone = {"invite", "ring"} /\ call[e].id \in accepted,
         NEW b, b = [call[e] EXCEPT !.state = state, !.job = job],
         Handle(e, m, Clear(b, gone), {})
  PROVE  IInv' /\ NoGhosts
<1> DEFINE c == Clear(b, gone)
<1>1. call[e] \in Sessions /\ Sound(call[e])
  BY EndpointFacts
<1>2. Becomes(e, c, {m}, {}) /\ UNCHANGED <<dialled, accepted>>
  BY DEF Handle
<1>3. state \in States /\ job \in Jobs
  BY <1>1 DEF States, Jobs, Sessions
<1>4. b \in Sessions /\ b.timers = call[e].timers
  BY <1>1, <1>3 DEF Sessions
<1>5. c \in Sessions
  BY <1>4 DEF Clear, Sessions
<1>6. /\ c.id = call[e].id /\ c.answered = call[e].answered /\ c.remote = call[e].remote
      /\ c.state = state /\ c.job = job /\ c.timers = call[e].timers \ gone
      /\ c.pc = call[e].pc /\ c.media = call[e].media /\ c.role = call[e].role /\ c.epoch = call[e].epoch
      /\ c.signaling = call[e].signaling /\ c.offered = call[e].offered
  BY <1>1, <1>4 DEF Clear, Sessions
<1> HIDE DEF c
<1>7. Sound(c) /\ Consented(c, accepted)
  BY <1>1, <1>6 DEF Sound, LifeCycle, TimersSound, JobsSound, OffersSound, Ringing, Linking, EarlyJobs, Consented
<1>8. c.answered >= call[e].answered
  BY <1>5, <1>6, CallBounds DEF Sessions
<1>9. QED
  BY <1>2, <1>5, <1>6, <1>7, <1>8, NothingSent, GoesOn

LEMMA OnRingingInv ==
  ASSUME IInv, NEW m \in net, NEW e \in Endpoints, m.id = call[e].id, OnRinging(e, m)
  PROVE  IInv' /\ NoGhosts
<1>1. CASE call[e].state # "calling"
  BY <1>1, Ignored, NothingSent DEF OnRinging
<1>2. CASE call[e].state = "calling"
  <2>1. call[e] \in Sessions
    BY EndpointFacts
  <2>2. PICK b : b = [call[e] EXCEPT !.state = "ringing-out"]
    OBVIOUS
  <2>3. PICK job : job = call[e].job
    OBVIOUS
  <2>4. b = [call[e] EXCEPT !.state = "ringing-out", !.job = job]
    BY <2>1, <2>2, <2>3 DEF Sessions
  <2>5. Handle(e, m, Clear(b, {"invite"}), {})
    BY <1>2, <2>2 DEF OnRinging
  <2>6. QED
    BY <1>2, <2>3, <2>4, <2>5, CallerAdvances
<1>3. QED
  BY <1>1, <1>2

LEMMA OnAcceptedInv ==
  ASSUME IInv, NEW m \in net, NEW e \in Endpoints, m.id = call[e].id, m.type = "accept", OnAccepted(e, m)
  PROVE  IInv' /\ NoGhosts
<1>1. CASE ~(call[e].role = "caller" /\ call[e].state \in {"calling", "ringing-out"})
  BY <1>1, Ignored, NothingSent DEF OnAccepted
<1>2. CASE call[e].role = "caller" /\ call[e].state \in {"calling", "ringing-out"}
  <2>1. PICK b : b = [call[e] EXCEPT !.state = "connecting", !.job = "media"]
    OBVIOUS
  <2>2. Handle(e, m, Clear(b, {"invite", "ring"}), {})
    BY <1>2, <2>1 DEF OnAccepted
  <2>3. call[e].id \in accepted
    BY MsgFacts
  <2>4. QED
    BY <1>2, <2>1, <2>2, <2>3, CallerAdvances
<1>3. QED
  BY <1>1, <1>2

LEMMA OfferWaits ==
  ASSUME IInv, NEW m \in net, NEW e \in Endpoints, Active(call[e]),
         call[e].role = "callee", call[e].pc, call[e].job = "none",
         NEW n \in 0 .. MaxEpoch, n > call[e].answered,
         NEW c, c = [call[e] EXCEPT !.got = n, !.job = "renew"], Handle(e, m, c, {})
  PROVE  IInv' /\ NoGhosts
<1>1. call[e] \in Sessions /\ Sound(call[e])
  BY EndpointFacts
<1>2. c \in Sessions
  <2>1. n \in -1 .. MaxEpoch /\ "renew" \in Jobs
    BY CallBounds DEF Jobs
  <2>2. QED
    BY <1>1, <2>1 DEF Sessions
<1>3. /\ c.id = call[e].id /\ c.answered = call[e].answered /\ c.remote = call[e].remote
      /\ c.state = call[e].state /\ c.role = "callee" /\ c.pc /\ c.media = call[e].media
      /\ c.job = "renew" /\ c.got = n /\ c.timers = call[e].timers
  BY <1>1 DEF Sessions
<1>4. Sound(c) /\ call[e].state # "idle"
  BY <1>1, <1>3 DEF Sound, LifeCycle, TimersSound, JobsSound, OffersSound, Ringing, Linking, EarlyJobs, Active
<1>5. c.answered >= call[e].answered
  <2>1. call[e].answered \in Int
    BY <1>1, CallBounds DEF Sessions
  <2>2. QED
    BY <1>3, <2>1
<1>6. "bye" \in MsgTypes
  BY DEF MsgTypes
<1>7. QED
  BY <1>2, <1>3, <1>4, <1>5, <1>6, WithinCall DEF Handle

LEMMA OnOfferInv ==
  ASSUME IInv, NEW m \in net, NEW e \in Endpoints, Concerns(e, m), call[e].job = "none", OnOffer(e, m)
  PROVE  IInv' /\ NoGhosts
<1>1. m.id = call[e].id /\ Active(call[e]) /\ ~IsOver(call[e])
  BY DEF Concerns, Active, IsOver
<1>2. m.epoch \in 0 .. MaxEpoch /\ call[e].answered \in Int /\ m.epoch \in Int
  BY MsgFacts, EndpointFacts, CallBounds DEF Sessions
<1>3. CASE call[e].role # "callee" \/ ~call[e].pc \/ m.epoch < call[e].answered
  BY <1>3, Ignored, NothingSent DEF OnOffer
<1>4. CASE call[e].role = "callee" /\ call[e].pc /\ m.epoch = call[e].answered
  <2>1. MaySend(e, call[e], {Msg(Peer(e), "answer", m.id, m.epoch)}, dialled, accepted)
    BY <1>1, <1>2, <1>4, MsgFacts, PeerFacts DEF MaySend, Msg, Messages, MsgTypes
  <2>2. Handle(e, m, call[e], {Msg(Peer(e), "answer", m.id, m.epoch)})
    BY <1>2, <1>4 DEF OnOffer
  <2>3. QED
    BY <2>1, <2>2, Ignored
<1>5. CASE call[e].role = "callee" /\ call[e].pc /\ m.epoch > call[e].answered
  <2>1. \/ Handle(e, m, TakeOffer(call[e], m.epoch), {})
        \/ Handle(e, m, [call[e] EXCEPT !.got = m.epoch, !.job = "renew"], {})
    BY <1>2, <1>5 DEF OnOffer
  <2>2. CASE Handle(e, m, TakeOffer(call[e], m.epoch), {})
    BY <1>1, <1>2, <1>5, <2>2, TakesOffer DEF Handle
  <2>3. CASE Handle(e, m, [call[e] EXCEPT !.got = m.epoch, !.job = "renew"], {})
    BY <1>1, <1>2, <1>5, <2>3, OfferWaits
  <2>4. QED
    BY <2>1, <2>2, <2>3
<1>6. QED
  BY <1>2, <1>3, <1>4, <1>5

(* The answer taken is the one to the offer made last: have-local-offer     *)
(* means that the offer of this epoch is open.                              *)
LEMMA OnAnswerInv ==
  ASSUME IInv, NEW m \in net, NEW e \in Endpoints, m.to = e, m.type = "answer",
         Concerns(e, m), OnAnswer(e, m)
  PROVE  IInv' /\ NoGhosts
<1> DEFINE Taken == /\ call[e].role = "caller" /\ call[e].pc /\ m.epoch = call[e].epoch
                    /\ call[e].signaling = "have-local-offer"
<1>1. CASE ~Taken
  BY <1>1, Ignored, NothingSent DEF OnAnswer
<1>2. CASE Taken
  <2> DEFINE b == [call[e] EXCEPT !.remote = m.epoch, !.signaling = "stable"]
             c == Clear(b, {"offer"})
  <2>1. call[e] \in Sessions /\ Sound(call[e]) /\ Consented(call[e], accepted) /\ call[e].id <= dialled
    BY EndpointFacts
  <2>2. Becomes(e, c, {m}, {}) /\ UNCHANGED <<dialled, accepted>>
    BY <1>2 DEF OnAnswer, Handle
  <2>3. m.id = call[e].id /\ m.epoch \in 0 .. MaxEpoch /\ Vouches(Peer(e), m.id, m.epoch)
    BY MsgFacts DEF Concerns
  <2>4. b \in Sessions /\ b.timers = call[e].timers
    <3>1. m.epoch \in -1 .. MaxEpoch
      BY <2>3, CallBounds
    <3>2. QED
      BY <2>1, <3>1 DEF Sessions
  <2>5. c \in Sessions
    BY <2>4 DEF Clear, Sessions
  <2>6. /\ c.id = call[e].id /\ c.answered = call[e].answered /\ c.remote = m.epoch
        /\ c.state = call[e].state /\ c.job = call[e].job /\ c.timers = call[e].timers \ {"offer"}
        /\ c.pc = call[e].pc /\ c.media = call[e].media /\ c.role = call[e].role /\ c.epoch = call[e].epoch
        /\ c.signaling = "stable" /\ c.offered = call[e].offered
    BY <2>1, <2>4 DEF Clear, Sessions
  <2> HIDE DEF b, c
  <2>7. Sound(c) /\ Consented(c, accepted)
    BY <1>2, <2>1, <2>6 DEF Sound, LifeCycle, TimersSound, JobsSound, OffersSound, Ringing, Linking, EarlyJobs, Consented
  <2>8. Follows(e, c)
    BY <2>5, <2>6, CallBounds DEF Follows, Sessions
  <2>9. GoodStep(e, c, {}, dialled, accepted)
    BY <2>1, <2>3, <2>5, <2>6, <2>7, <2>8, NothingSent DEF GoodStep
  <2>10. dialled \in 0 .. MaxCalls /\ dialled <= dialled /\ accepted \subseteq CallIds
    BY CallBounds DEF IInv, TypeOK
  <2>11. QED
    BY <2>2, <2>9, <2>10, BecomesKeeps
<1>3. QED
  BY <1>1, <1>2

LEMMA OnRestartInv ==
  ASSUME IInv, NEW m \in net, NEW e \in Endpoints, Concerns(e, m), OnRestart(e, m)
  PROVE  IInv' /\ NoGhosts
<1>1. call[e].state # "idle" /\ LostTells(e) \in {{}, Tell(e, "restart")}
  BY DEF Concerns, Active, LostTells
<1>2. CASE Handle(e, m, LinkLost(call[e]), LostTells(e))
  BY <1>1, <1>2, LosesLinkAsIs DEF Handle
<1>3. CASE Handle(e, m, call[e], {})
  BY <1>3, Ignored, NothingSent
<1>4. QED
  BY <1>2, <1>3 DEF OnRestart

LEMMA ReceiveInv ==
  ASSUME IInv, NEW m \in net, Receive(m.to, m)
  PROVE  IInv' /\ NoGhosts
<1>1. PICK e \in Endpoints : e = m.to /\ Receive(e, m)
  BY MsgFacts
<1>2. CASE m.type = "invite" /\ OnInvite(e, m)
  BY <1>2, OnInviteInv
<1>3. CASE Handle(e, m, call[e], {})
  BY <1>3, Ignored, NothingSent
<1>4. CASE Concerns(e, m)
  <2>1. m.id = call[e].id /\ call[e].state # "idle"
    BY <1>4 DEF Concerns, Active
  <2>2. CASE Handle(e, m, Finish(call[e]), {})
    BY <2>1, <2>2, FinishesAsIs DEF Handle
  <2>3. CASE m.type = "ringing" /\ OnRinging(e, m)
    BY <2>1, <2>3, OnRingingInv
  <2>4. CASE m.type = "accept" /\ OnAccepted(e, m)
    BY <2>1, <2>4, OnAcceptedInv
  <2>5. CASE m.type = "offer" /\ call[e].job = "none" /\ OnOffer(e, m)
    BY <1>4, <2>5, OnOfferInv
  <2>6. CASE m.type = "answer" /\ call[e].job = "none" /\ OnAnswer(e, m)
    BY <1>1, <1>4, <2>6, OnAnswerInv
  <2>7. CASE m.type = "restart" /\ OnRestart(e, m)
    BY <1>4, <2>7, OnRestartInv
  <2>8. QED
    BY <1>1, <1>2, <1>3, <2>2, <2>3, <2>4, <2>5, <2>6, <2>7 DEF Receive
<1>5. QED
  BY <1>1, <1>2, <1>3, <1>4 DEF Receive

(* What is lost was never needed. *)
LEMMA LoseInv ==
  ASSUME IInv, NEW m \in net, Lose(m)
  PROVE  IInv' /\ NoGhosts
<1>1. net' \subseteq net /\ UNCHANGED <<call, ended, dialled, accepted>>
  BY DEF Lose
<1>2. TypeOK' /\ SessionsInv' /\ EndedInv' /\ RemoteInv'
  BY <1>1 DEF IInv, TypeOK, SessionsInv, EndedInv, RemoteInv, Vouches
<1>3. NetInv'
  BY <1>1 DEF IInv, NetInv, Vouches
<1>4. QED
  BY <1>1, <1>2, <1>3 DEF IInv, NoGhosts

-----------------------------------------------------------------------------
LEMMA InitInv == Init => IInv
<1> SUFFICES ASSUME Init PROVE IInv
  OBVIOUS
<1>1. /\ call = [e \in Endpoints |-> NoCall] /\ ended = [e \in Endpoints |-> {}]
      /\ net = {} /\ dialled = 0 /\ accepted = {}
  BY DEF Init
<1>2. TypeOK
  <2>1. call \in [Endpoints -> Sessions]
    BY <1>1, NoCallTyped
  <2>2. 0 \in 0 .. MaxCalls
    BY CallBounds
  <2>3. QED
    BY <1>1, <2>1, <2>2 DEF TypeOK, Sessions
<1>3. \A e \in Endpoints : call[e] = NoCall
  BY <1>1
<1>4. Sound(NoCall) /\ Consented(NoCall, accepted)
  BY DEF NoCall, Sound, LifeCycle, TimersSound, JobsSound, OffersSound, Ringing, Linking, Consented
<1>5. NoCall.state = "idle" /\ NoCall.id = 0 /\ NoCall.remote = -1
  BY DEF NoCall
<1>6. SessionsInv /\ EndedInv /\ NetInv /\ RemoteInv
  BY <1>1, <1>3, <1>4, <1>5 DEF SessionsInv, EndedInv, NetInv, RemoteInv
<1>7. QED
  BY <1>2, <1>6 DEF IInv

LEMMA NextInv == IInv /\ [Next]_vars => IInv' /\ [NoGhosts]_vars
<1> SUFFICES ASSUME IInv, [Next]_vars PROVE IInv' /\ [NoGhosts]_vars
  OBVIOUS
<1>1. ASSUME NEW e \in Endpoints, User(e) PROVE IInv' /\ NoGhosts
  <2>1. CASE Dial(e)
    BY <2>1, DialInv
  <2>2. CASE Accept(e)
    BY <2>2, AcceptInv
  <2>3. CASE Decline(e) \/ Hangup(e)
    BY <2>3, HangupInv
  <2>4. CASE NetworkChanged(e)
    BY <2>4, LostInv DEF NetworkChanged
  <2>5. QED
    BY <1>1, <2>1, <2>2, <2>3, <2>4 DEF User
<1>2. ASSUME NEW e \in Endpoints, Work(e) \/ Fire(e) \/ PcState(e) PROVE IInv' /\ NoGhosts
  BY <1>2, WorkInv, FireInv, PcStateInv
<1>3. ASSUME NEW m \in net, Receive(m.to, m) \/ Lose(m) PROVE IInv' /\ NoGhosts
  BY <1>3, ReceiveInv, LoseInv
<1>4. CASE UNCHANGED vars
  BY <1>4 DEF vars, IInv, TypeOK, SessionsInv, EndedInv, NetInv, RemoteInv, Vouches
<1>5. QED
  BY <1>1, <1>2, <1>3, <1>4 DEF Next

-----------------------------------------------------------------------------
(* The strengthened invariant holds whatever the two users do, whichever    *)
(* timers fire, and whatever the channel loses, delays and reorders.        *)
THEOREM Invariance == Spec => []IInv
  BY InitInv, NextInv, PTL DEF Spec

(* Type correctness of both endpoints' sessions: in particular no epoch     *)
(* runs past the last renegotiation.                                        *)
THEOREM TypeCorrect == Spec => []TypeOK
<1>1. IInv => TypeOK
  BY DEF IInv
<1>2. QED
  BY Invariance, <1>1, PTL

(* Whenever getUserMedia answers, microphone and camera are open only in a  *)
(* live call that somebody tapped accept for (prepareConnection, finish).   *)
THEOREM MediaConsented == Spec => []MediaOnlyInAcceptedCall
<1>1. IInv => MediaOnlyInAcceptedCall
  BY DEF IInv, SessionsInv, Sound, LifeCycle, Consented, Linking, MediaOnlyInAcceptedCall, Active
<1>2. QED
  BY Invariance, <1>1, PTL

(* No promise that settles after finish() opens media or a peer connection  *)
(* again.                                                                   *)
THEOREM NothingHeld == Spec => []OverHoldsNothing
<1>1. IInv => OverHoldsNothing
  BY DEF IInv, SessionsInv, Sound, LifeCycle, OverHoldsNothing, IsOver
<1>2. QED
  BY Invariance, <1>1, PTL

(* Ringing, connecting and reconnecting are always bounded by an armed      *)
(* timer, or by the job that arms it.                                       *)
THEOREM WaitsBounded == Spec => []WaitsAreBounded
<1>1. IInv => WaitsAreBounded
  BY DEF IInv, SessionsInv, Sound, LifeCycle, TimersSound, Ringing, EarlyJobs, WaitsAreBounded, Timed
<1>2. QED
  BY Invariance, <1>1, PTL

(* onAnswer() compares the epochs, so caller and callee never pair an offer *)
(* with the answer to another one.                                          *)
THEOREM Agreement == Spec => []StableMeansAgreed
<1>1. ASSUME IInv PROVE StableMeansAgreed
  <2>1. ASSUME NEW e \in Endpoints, call[e].role = "caller", call[e].pc
        PROVE  /\ call[e].signaling = "stable" => call[e].remote = call[e].offered
               /\ call[Peer(e)].id = call[e].id => call[e].remote <= call[Peer(e)].answered
    <3>1. call[e].signaling = "stable" => call[e].remote = call[e].offered
      BY <1>1, <2>1, EndpointFacts DEF Sound, OffersSound
    <3>2. /\ call[e].remote \in -1 .. MaxEpoch /\ call[Peer(e)].answered \in -1 .. MaxEpoch
      BY <1>1, EndpointFacts, PeerFacts DEF Sessions
    <3>3. CASE call[e].remote >= 0
      BY <1>1, <3>1, <3>3, EndpointFacts DEF Vouches
    <3>4. CASE ~(call[e].remote >= 0)
      BY <3>1, <3>2, <3>4, CallBounds
    <3>5. QED
      BY <3>3, <3>4
  <2>2. QED
    BY <2>1 DEF StableMeansAgreed
<1>2. QED
  BY Invariance, <1>1, PTL

(* CallEndpoint remembers the calls that are over: no late invite lets one  *)
(* ring again, and none displaces a live call.                              *)
THEOREM NoGhosting == Spec => NoGhostCalls
<1>1. [NoGhosts]_vars <=> [\A e \in Endpoints :
         call'[e].id # call[e].id => ~Active(call[e]) /\ call'[e].id \notin ended[e]]_vars
  BY DEF NoGhosts
<1>2. QED
  BY Invariance, NextInv, <1>1, PTL DEF Spec, NoGhostCalls

=============================================================================
