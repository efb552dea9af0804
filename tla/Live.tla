-------------------------------- MODULE Live --------------------------------
(***************************************************************************)
(* Live play between two browsers (live.js, live-ui.js, rpslive.js,        *)
(* ballduell.js): a one-time invitation, the connection set up through a   *)
(* server, then a game over an ordered data channel: rock-paper-scissors   *)
(* with sealed hands, or the ball duel in which each phone decides about   *)
(* the balls that fly towards it.                                          *)
(*                                                                         *)
(* Page 1 invites, page 2 accepts.  Where the ball and the paddles are, and *)
(* how they are smoothed and drawn, is left out: a ball flies towards a    *)
(* page or away from it, and whether the paddle meets it is open.          *)
(***************************************************************************)
EXTENDS Integers, Sequences, FiniteSets, SequencesExt

CONSTANTS
  LiveKinds,    \* the games that are explored, of "rps" and "ball"
  WIN,          \* points that win a game (5 in the code)
  MaxRounds,    \* bound: rounds of one rock-paper-scissors game
  MaxGames,     \* bound: rematches
  MaxInvites,   \* bound: invitations, per game
  MaxHits       \* bound: hits in one rally

VARIABLE live

Pages == 1..2
Other(p) == 3 - p
NoHand == -1

(* rpslive match(): mine and theirs are the hand and the seal of a round. *)
Match(g) == [game |-> g, round |-> 0, score |-> <<0, 0>>, mine |-> NoHand,
             theirs |-> <<>>, sent |-> FALSE, done |-> FALSE, cheat |-> FALSE]
(* live-ui play(): the ball in this page's frame. *)
Rally(serving) == [serving |-> serving, ball |-> "none", n |-> 0, score |-> <<0, 0>>,
                   hits |-> 0, due |-> FALSE, done |-> FALSE]

Page0 == [scr |-> "off", ph |-> "none", tries |-> 0, conn |-> FALSE, games |-> 0, watch |-> FALSE,
          again |-> <<FALSE, FALSE>>, m |-> Match(0), b |-> Rally(FALSE)]

LiveInit == \E k \in LiveKinds :
  live = [kind |-> k, token |-> "none", invites |-> 0, broken |-> FALSE,
          page |-> [p \in Pages |-> Page0], to |-> [p \in Pages |-> <<>>]]

Pg(p) == live.page[p]
Set(p, r) == [live EXCEPT !.page[p] = r]

(* conn.send: nothing goes out on a closed channel. *)
Sent(L, p, msgs) == IF L.broken THEN L ELSE [L EXCEPT !.to[Other(p)] = @ \o msgs]

(* close, stop, lost and fail: no timer, no game, no link on this page. *)
Bare(pg, scr) == [Page0 EXCEPT !.scr = scr, !.m.cheat = pg.m.cheat]
(* The channel ends for both once one side closes it. *)
CloseConn(L, p, scr) ==
  [L EXCEPT !.page[p] = Bare(@, scr),
            !.broken = @ \/ L.page[p].conn \/ L.page[p].ph = "rtc"]

-----------------------------------------------------------------------------
(* The invitation and the connection *)

(* invite: a new token, the waiting screen; the page then asks the server  *)
(* until the friend came.  A new invitation needs a new channel.           *)
Invite ==
  /\ Pg(1).scr \in {"off", "msg"} /\ Pg(2).scr \in {"off", "msg"} /\ live.invites < MaxInvites[live.kind]
  /\ live' = [live EXCEPT !.token = "open", !.invites = @ + 1, !.broken = FALSE,
                          !.to = [p \in Pages |-> <<>>],
                          !.page[1] = [Page0 EXCEPT !.scr = "wait"]]

(* The cross hides the waiting screen, not the wait: the page comes back   *)
(* when the channel opens.  While it is hidden the person starts nothing   *)
(* else here.                                                              *)
Hide(p) ==
  /\ Pg(p).scr \in {"wait", "connecting"}
  /\ live' = Set(p, [Pg(p) EXCEPT !.scr = "hidden"])

(* The link opened on the inviter's own device never joins: it brings back *)
(* the waiting screen.                                                     *)
OwnLink ==
  /\ Pg(1).scr = "hidden" /\ live.token # "gone"
  /\ live' = Set(1, [Pg(1) EXCEPT !.scr = "wait"])

Waiting == Pg(1).scr \in {"wait", "hidden"} /\ Pg(1).ph = "none"

(* The wait ends after a quarter of an hour, or the server has forgotten.  *)
Expire ==
  /\ Waiting /\ live.token # "joined"
  /\ live' = [CloseConn(live, 1, "msg") EXCEPT !.token = "gone"]

(* accept: the token works once. *)
Accept ==
  /\ Pg(2).scr \in {"off", "msg"} /\ live.token = "open"
  /\ live' = [Set(2, [Page0 EXCEPT !.scr = "connecting", !.ph = "attest"]) EXCEPT !.token = "joined"]

(* status answers joined: the inviter connects, too. *)
Found ==
  /\ Waiting /\ live.token = "joined"
  /\ live' = Set(1, [Pg(1) EXCEPT !.ph = "attest"])

Attest(p) == Pg(p).ph = "attest" /\ live' = Set(p, [Pg(p) EXCEPT !.ph = "register"])

Past(p, phs) == Pg(p).ph \in phs \/ Pg(p).conn

(* registered: once both have attested. *)
Register(p) ==
  /\ Pg(p).ph = "register" /\ Past(Other(p), {"register", "join", "rtc"})
  /\ live' = Set(p, [Pg(p) EXCEPT !.ph = "join"])

(* joinEdge: three attempts. *)
JoinFails(p) ==
  /\ Pg(p).ph = "join" /\ Pg(p).tries < 2
  /\ live' = Set(p, [Pg(p) EXCEPT !.tries = @ + 1])

(* The edge lets both in, and the handshake needs both. *)
Join(p) ==
  /\ Pg(p).ph = "join" /\ Past(Other(p), {"join", "rtc"})
  /\ live' = Set(p, [Pg(p) EXCEPT !.ph = "rtc"])

(* The data channel opens here: the inviter shows the badge and the start  *)
(* button, the friend waits for the start.                                 *)
ChannelOpens(p) ==
  /\ Pg(p).ph = "rtc" /\ ~live.broken /\ Past(Other(p), {"rtc"})
  /\ live' = Set(p, [Pg(p) EXCEPT !.ph = "none", !.conn = TRUE, !.scr = IF p = 1 THEN "here" ELSE "ready"])

(* Any step of connect may fail or take too long: the word on the screen,  *)
(* and a half-open channel is closed.                                      *)
ConnectFails(p) ==
  /\ Pg(p).ph # "none"
  /\ live' = CloseConn(live, p, "msg")

(* The channel breaks on its own; messages under way are lost. *)
Break ==
  /\ ~live.broken /\ \E p \in Pages : Pg(p).conn
  /\ live' = [live EXCEPT !.broken = TRUE, !.to = [p \in Pages |-> <<>>]]

(* lost: the other side closed, after its last message, or it broke. *)
Lost(p) ==
  /\ Pg(p).conn /\ live.broken /\ live.to[p] = <<>>
  /\ live' = Set(p, Bare(Pg(p), "msg"))

(* The cross, or home after a game. *)
LeaveGame(p) ==
  /\ Pg(p).conn
  /\ live' = CloseConn(live, p, "off")

-----------------------------------------------------------------------------
(* The games *)

Fresh(pg, kind, serving) ==
  [pg EXCEPT !.scr = "play", !.watch = FALSE, !.again = <<FALSE, FALSE>>,
             !.m = Match(pg.games), !.b = Rally(serving)]

(* begin: rock-paper-scissors introduces the own agent first. *)
Greeting(kind) == IF kind = "rps" THEN <<[t |-> "ag"]>> ELSE <<>>
BeginGame(L, p, serving) == Sent([L EXCEPT !.page[p] = Fresh(@, L.kind, serving)], p, Greeting(L.kind))

Start ==
  /\ Pg(1).scr = "here"
  /\ live' = BeginGame(Sent(live, 1, <<[t |-> "go"]>>), 1, TRUE)

Outcome(x, y) == IF x = y THEN 0 ELSE IF (x + 2) % 3 = y THEN 1 ELSE -1
IsOver(score) == score[1] >= WIN \/ score[2] >= WIN

Seal(g, n, h) == <<g, n, h>>

(* Mutant of RevealOf: the own hand is shown before the other one is sealed. *)
RevealAtOnce(m) ==
  IF m.mine # NoHand /\ ~m.sent THEN <<[t |-> "r", n |-> m.round, h |-> m.mine]>> ELSE <<>>

(* reveal: once both seals are here, and once only. *)
RevealOf(m) ==
  IF m.mine # NoHand /\ m.theirs # <<>> /\ ~m.sent
  THEN <<[t |-> "r", n |-> m.round, h |-> m.mine]>> ELSE <<>>
Revealed(m) == IF RevealOf(m) = <<>> THEN m ELSE [m EXCEPT !.sent = TRUE]

Pick(p, h) ==
  LET m == [Pg(p).m EXCEPT !.mine = h]
  IN /\ live.kind = "rps" /\ Pg(p).scr = "play" /\ Pg(p).conn
     /\ Pg(p).m.mine = NoHand /\ ~Pg(p).m.done /\ Pg(p).m.round < MaxRounds
     /\ live' = Sent(Set(p, [Pg(p) EXCEPT !.m = Revealed(m), !.watch = TRUE]), p,
                     <<[t |-> "c", n |-> m.round, h |-> Seal(m.game, m.round, h)]>> \o RevealOf(m))

(* result: the round is over on this page. *)
RoundOver(m, y) ==
  LET o == Outcome(m.mine, y)
      score == IF o > 0 THEN <<m.score[1] + 1, m.score[2]>>
               ELSE IF o < 0 THEN <<m.score[1], m.score[2] + 1>> ELSE m.score
  IN [m EXCEPT !.score = score, !.round = @ + 1, !.mine = NoHand, !.theirs = <<>>, !.sent = FALSE,
               !.done = IsOver(score)]

(* receive: a seal, or a reveal that must fit it; everything else drops. *)
TakeSeal(p, x) ==
  LET m == [Pg(p).m EXCEPT !.theirs = x.h]
  IN IF Pg(p).m.theirs # <<>> THEN live
     ELSE Sent(Set(p, [Pg(p) EXCEPT !.m = Revealed(m), !.watch = @ \/ RevealOf(m) # <<>>]), p, RevealOf(m))

TakeReveal(p, x) ==
  LET m == Pg(p).m
      after == RoundOver(m, x.h)
  IN IF m.theirs = <<>> \/ ~m.sent THEN live
     ELSE IF Seal(m.game, m.round, x.h) # m.theirs
     THEN CloseConn(Set(p, [Pg(p) EXCEPT !.m.done = TRUE, !.m.cheat = TRUE]), p, "msg")
     ELSE Set(p, [Pg(p) EXCEPT !.m = after, !.watch = FALSE, !.scr = IF after.done THEN "end" ELSE @])

TakeRps(p, x) ==
  IF Pg(p).m.done \/ x.n # Pg(p).m.round THEN live
  ELSE IF x.t = "c" THEN TakeSeal(p, x) ELSE TakeReveal(p, x)

(* watch: a seal without its reveal ends the game after half a minute. *)
Stall(p) ==
  /\ Pg(p).watch /\ Pg(p).conn /\ Pg(p).m.mine # NoHand /\ Pg(p).m.theirs # <<>>
  /\ live' = CloseConn(live, p, "msg")

-----------------------------------------------------------------------------
(* The ball duel *)

Playing(p) == live.kind = "ball" /\ Pg(p).scr = "play" /\ Pg(p).conn

Served(b) == [b EXCEPT !.ball = "away", !.n = @ + 1, !.due = FALSE, !.hits = 0]
Serve(p) ==
  LET b == Pg(p).b
  IN /\ Playing(p)
     /\ (b.serving /\ b.n = 0 /\ b.ball = "none") \/ b.due
     /\ live' = Sent(Set(p, [Pg(p) EXCEPT !.b = Served(b)]), p, <<[t |-> "serve", n |-> b.n]>>)

Hit(p) ==
  /\ Playing(p) /\ Pg(p).b.ball = "toward" /\ Pg(p).b.hits < MaxHits
  /\ live' = Sent(Set(p, [Pg(p) EXCEPT !.b.ball = "away", !.b.hits = @ + 1]), p, <<[t |-> "hit", n |-> 0]>>)

Point(b, i) == [b EXCEPT !.score[i] = @ + 1, !.ball = "none"]
Checked(pg, b) == [pg EXCEPT !.b = [b EXCEPT !.done = IsOver(b.score)],
                             !.scr = IF IsOver(b.score) THEN "end" ELSE @]

(* The page that misses loses the point and serves the next ball. *)
Miss(p) ==
  LET b == Point(Pg(p).b, 2)
  IN /\ Playing(p) /\ Pg(p).b.ball = "toward"
     /\ live' = Sent(Set(p, Checked(Pg(p), [b EXCEPT !.due = ~IsOver(b.score)])), p, <<[t |-> "miss"]>>)

(* Mutant of TakeBall: the page that wins the point serves as well. *)
TakeBallServes(p, x) ==
  LET b == Pg(p).b
  IN IF x.t = "miss" THEN Set(p, Checked(Pg(p), [Point(b, 1) EXCEPT !.due = TRUE]))
     ELSE Set(p, [Pg(p) EXCEPT !.b = [b EXCEPT !.ball = "toward", !.n = IF x.t = "serve" THEN x.n + 1 ELSE @]])

TakeBall(p, x) ==
  LET b == Pg(p).b
  IN IF x.t = "miss" THEN Set(p, Checked(Pg(p), Point(b, 1)))
     ELSE Set(p, [Pg(p) EXCEPT !.b = [b EXCEPT !.ball = "toward", !.n = IF x.t = "serve" THEN x.n + 1 ELSE @,
                                               !.hits = IF x.t = "serve" THEN 0 ELSE @]])

-----------------------------------------------------------------------------
(* restart: once both asked, the game begins anew, the other one serves. *)
Again(L, p) ==
  IF L.page[p].again = <<TRUE, TRUE>>
  THEN BeginGame([L EXCEPT !.page[p].games = @ + 1], p, ~L.page[p].b.serving)
  ELSE L

AskAgain(p) ==
  /\ Pg(p).scr = "end" /\ Pg(p).conn /\ ~Pg(p).again[1] /\ Pg(p).games < MaxGames
  /\ live' = Again(Sent(Set(p, [Pg(p) EXCEPT !.again[1] = TRUE]), p, <<[t |-> "again"]>>), p)

(* The handlers of conn.on: the friend's waits for the start; the          *)
(* inviter's comes with the game, before it nothing is listened to.        *)
Taken(p, x) ==
  IF Pg(p).scr = "ready" THEN (IF x.t = "go" THEN BeginGame(live, p, FALSE) ELSE live)
  ELSE IF Pg(p).scr = "here" \/ x.t \in {"ag", "go"} THEN live
  ELSE IF x.t = "again" THEN Again(Set(p, [Pg(p) EXCEPT !.again[2] = TRUE]), p)
  ELSE IF live.kind = "rps" THEN TakeRps(p, x) ELSE TakeBall(p, x)

Deliver(p) ==
  /\ Pg(p).conn /\ live.to[p] # <<>>
  /\ LET L == Taken(p, Head(live.to[p]))
     IN live' = [L EXCEPT !.to[p] = Tail(@)]

LiveNext ==
  \/ Invite \/ OwnLink \/ Expire \/ Accept \/ Found \/ Start \/ Break
  \/ \E p \in Pages :
       \/ Attest(p) \/ Register(p) \/ JoinFails(p) \/ Join(p) \/ ChannelOpens(p) \/ ConnectFails(p)
       \/ Hide(p) \/ Lost(p) \/ LeaveGame(p) \/ Deliver(p) \/ AskAgain(p)
       \/ (\E h \in 0..2 : Pick(p, h)) \/ Stall(p)
       \/ Serve(p) \/ Hit(p) \/ Miss(p)

LiveSpec == LiveInit /\ [][LiveNext]_live

-----------------------------------------------------------------------------
Linked == \A p \in Pages : Pg(p).conn /\ ~live.broken
Underway(p, t) == Cardinality({i \in 1..Len(live.to[p]) : live.to[p][i].t = t})
InGame(p) == Pg(p).scr \in {"play", "end"}
SameGame == Linked /\ InGame(1) /\ InGame(2) /\ Pg(1).games = Pg(2).games

(* While the link holds the two pages play one game: no honest player is   *)
(* called a cheat, rounds finished on both pages have the mirrored score,  *)
(* two players who have both picked always have the message on its way     *)
(* that ends the round, and a hand is known to nobody who has not sealed   *)
(* an own one for that round.                                              *)
HandsStaySealed ==
  live.kind = "rps" =>
    /\ \A p \in Pages : ~Pg(p).m.cheat
    /\ SameGame /\ Pg(1).m.round = Pg(2).m.round =>
         /\ Pg(1).m.score[1] = Pg(2).m.score[2] /\ Pg(1).m.score[2] = Pg(2).m.score[1]
         /\ Pg(1).m.mine # NoHand /\ Pg(2).m.mine # NoHand => live.to[1] # <<>> \/ live.to[2] # <<>>
    /\ \A p \in Pages : \A i \in 1..Len(live.to[p]) :
         live.to[p][i].t = "r" /\ live.to[p][i].n = Pg(p).m.round /\ SameGame => Pg(p).m.mine # NoHand

(* While the link holds there is one ball: it flies towards one page, or   *)
(* is on its way to it, or somebody is about to serve it; the two scores   *)
(* are one score seen from both ends but for a point that is on its way;   *)
(* and no page waits for a start or a rematch the other one already plays. *)
OneBall ==
  /\ live.kind = "ball" /\ SameGame =>
       /\ \A p \in Pages : Pg(p).b.score[1] + Underway(p, "miss") = Pg(Other(p)).b.score[2]
       /\ Cardinality({p \in Pages : Pg(p).b.ball = "toward"} \cup {p + 2 : p \in {q \in Pages : Pg(q).b.due}}
                      \cup {p + 4 : p \in {q \in Pages : Pg(q).b.serving /\ Pg(q).b.n = 0 /\ Pg(q).b.ball = "none"}})
            + Underway(1, "serve") + Underway(2, "serve") + Underway(1, "hit") + Underway(2, "hit")
          = IF \E p \in Pages : Pg(p).b.done THEN 0 ELSE 1
  /\ Linked /\ Pg(1).scr = "play" /\ Pg(2).scr = "ready" => Underway(2, "go") = 1
  /\ Linked => \A p \in Pages : Pg(p).games > Pg(Other(p)).games => Underway(Other(p), "again") = 1
=============================================================================
