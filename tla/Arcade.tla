------------------------------- MODULE Arcade -------------------------------
(***************************************************************************)
(* The arcade duels (arcade.js, arcade2.js, match and playLive of          *)
(* arcade-ui.js): two phones, each with its own side of the game, joined   *)
(* by an ordered channel.  Whoever's half the ball or the shell is in      *)
(* decides about it; the throws of the turn games run on both phones.      *)
(*                                                                         *)
(* The ten games are six kinds here: "half" (puck, volley, kick and       *)
(* flipper), "ziegel", "shells" (panzer and snow), "elfer", "stock" and    *)
(* "murmel".  Where things are and how they fly is open: a ball in a half  *)
(* may be hit, cross, be missed.  The plausibility checks are those of     *)
(* honest phones, which pass them.                                         *)
(***************************************************************************)
EXTENDS Integers, Sequences, FiniteSets, SequencesExt

CONSTANTS
  Matches,      \* the matches that are explored: kind, and how much happens in
                \* one (bounds): sent, serves, shots or throws; rematches; and
                \* hides, how often a player looks away
  GoalsToWin,   \* points that win (3 or 5 in the code)
  Kicks,        \* penalties each before it goes shot for shot (5 in the code)
  PerRound,     \* stones each in a round of Eis-Stock (3 in the code)
  Marbles,      \* marbles in the ring (9 in the code)
  Bricks        \* bricks in a wall (7 in the code)

VARIABLE arc

Off == [kind |-> "off"]
Sides == 1..2
Foe(p) == 3 - p

(* base(): what every side has, and the state of the five kinds: the ball, *)
(* the walls; the shells in the air; the penalty n; the round of a turn    *)
(* game.  due: a serve is waiting in serveAt.                              *)
Side(serving) ==
  [serving |-> serving, started |-> FALSE, score |-> <<0, 0>>, over |-> FALSE, n |-> 0, due |-> FALSE,
   ending |-> FALSE, oppFin |-> -1, draw |-> FALSE, rejected |-> FALSE, late |-> FALSE,
   ball |-> "none", walls |-> <<Bricks, Bricks>>, air |-> {}, ids |-> 0,
   phase |-> "wait", taken |-> <<0, 0>>,
   turn |-> 0, rolling |-> -1, queue |-> <<>>, first |-> 0, base |-> 0, thrown |-> 0,
   paused |-> FALSE, hidden |-> FALSE, again |-> <<FALSE, FALSE>>, round |-> 0]

ArcadeInit == \E m \in Matches :
  arc = [kind |-> m.kind, s |-> [p \in Sides |-> Side(p = 1)], to |-> [p \in Sides |-> <<>>],
         hides |-> m.hides, sent |-> m.sent, rematches |-> m.rematches]

S(p) == arc.s[p]
Msg(t, n) == [t |-> t, n |-> n]
(* A side and the messages it sends, as the next state. *)
Does(p, side, msgs) ==
  arc' = [arc EXCEPT !.s[p] = side, !.to[Foe(p)] = @ \o msgs]

-----------------------------------------------------------------------------
(* The score and the end *)

Finish(s) == [s EXCEPT !.over = TRUE, !.ending = FALSE, !.due = FALSE, !.draw = s.score[1] = s.score[2]]
LastPoint(s) == s.score[1] >= GoalsToWin \/ s.score[2] >= GoalsToWin

(* Mutant of Check: the phone that sees the last hit ends at once. *)
CheckAtOnce(k, s) ==
  IF s.over \/ ~(LastPoint(s) \/ s.oppFin >= 0) THEN <<s, <<>>>> ELSE <<Finish(s), <<>>>>

(* check: with shells in the air both may take the last hit: each freezes  *)
(* and says how many it took, and ends with the other one's word.          *)
Check(k, s) ==
  IF s.over \/ ~(LastPoint(s) \/ s.oppFin >= 0) THEN <<s, <<>>>>
  ELSE IF k # "shells" THEN <<Finish(s), <<>>>>
  ELSE LET e == [s EXCEPT !.ending = TRUE, !.due = FALSE]
           more == IF s.oppFin > s.score[1] THEN s.oppFin ELSE s.score[1]
       IN <<IF s.oppFin >= 0 THEN Finish([e EXCEPT !.score[1] = more]) ELSE e,
            IF s.ending THEN <<>> ELSE <<Msg("fin", s.score[2])>>>>

(* concede: the one who lost the point serves next; gain; fin. *)
Conceded(k, s) ==
  LET c == Check(k, [s EXCEPT !.score[2] = @ + 1])
  IN IF s.over \/ s.ending THEN <<s, <<>>>>
     ELSE <<[c[1] EXCEPT !.due = ~c[1].over /\ k \in {"half", "ziegel"}],
            (IF k = "shells" THEN <<>> ELSE <<Msg("pt", 0)>>) \o c[2]>>
Gained(k, s) == Check(k, [s EXCEPT !.score[1] = @ + 1])

TakeFin(k, s, c) ==
  IF s.oppFin < 0 /\ (c >= GoalsToWin \/ s.score[2] >= GoalsToWin)
  THEN Check(k, [s EXCEPT !.oppFin = IF c < GoalsToWin THEN c ELSE GoalsToWin])
  ELSE <<s, <<>>>>

(* loop: a side moves once started, while its page is shown and not paused *)
(* and until the end; frozen at the end, it only waits.                    *)
Ticks(p) == LET s == S(p) IN s.started /\ ~s.paused /\ ~s.hidden /\ ~s.over
Runs(p, k) == arc.kind = k /\ Ticks(p) /\ ~S(p).ending

(* finWait: six seconds without the other one's word. *)
FinWait(p) ==
  /\ Ticks(p) /\ S(p).ending
  /\ Does(p, [Finish(S(p)) EXCEPT !.late = TRUE], <<>>)

-----------------------------------------------------------------------------
(* One ball, owned by the half it is in *)

Owns(k) == IF k = "half" THEN "own" ELSE "theirs"
(* In Ziegel-Duell the serve flies away from the server. *)
Serve(p) ==
  /\ arc.kind \in {"half", "ziegel"} /\ Ticks(p) /\ S(p).due
  /\ Does(p, [S(p) EXCEPT !.ball = Owns(arc.kind), !.due = FALSE, !.n = @ + 1], <<Msg("serve", S(p).n)>>)

(* hit and the regular st report of a ball that stays here.  Bound: one at *)
(* a time is under way.                                                    *)
Report(p) ==
  /\ Runs(p, "half") /\ S(p).ball = "own" /\ arc.to[Foe(p)] = <<>>
  /\ Does(p, S(p), <<Msg("st", 0)>>)

Cross(p) ==
  /\ Runs(p, "half") /\ S(p).ball = "own" /\ arc.sent > 0
  /\ arc' = [arc EXCEPT !.s[p].ball = "theirs", !.to[Foe(p)] = Append(@, Msg("pass", 0)), !.sent = @ - 1]

(* give: held for too long, the ball goes to the serve spot over there. *)
Give(p) ==
  /\ Runs(p, "half") /\ S(p).ball = "own" /\ arc.sent > 0
  /\ arc' = [arc EXCEPT !.s[p].ball = "theirs", !.s[p].n = @ + 1,
                        !.to[Foe(p)] = Append(@, Msg("give", S(p).n)), !.sent = @ - 1]

(* At the line the ball waits for the other phone's word. *)
Holds(p) ==
  /\ arc.kind \in {"half", "ziegel"} /\ Ticks(p) /\ S(p).ball = "theirs"
  /\ Does(p, [S(p) EXCEPT !.ball = "held"], <<>>)

Misses(p) ==
  /\ \/ Runs(p, "half") /\ S(p).ball = "own"
     \/ Runs(p, "ziegel") /\ S(p).ball = "past"
  /\ LET c == Conceded(arc.kind, [S(p) EXCEPT !.ball = "none"]) IN Does(p, c[1], c[2])

(* Ziegel: the paddle sends the ball back, or it goes past it, where a     *)
(* brick may still stand.                                                  *)
Paddle(p) ==
  /\ Runs(p, "ziegel") /\ S(p).ball = "own" /\ arc.sent > 0
  /\ arc' = [arc EXCEPT !.s[p].ball = "theirs", !.to[Foe(p)] = Append(@, Msg("hit", 0)), !.sent = @ - 1]
GoesPast(p) ==
  /\ Runs(p, "ziegel") /\ S(p).ball = "own"
  /\ Does(p, [S(p) EXCEPT !.ball = "past"], <<>>)
Brick(p) ==
  /\ Runs(p, "ziegel") /\ S(p).ball = "past" /\ S(p).walls[1] > 0
  /\ Does(p, [S(p) EXCEPT !.ball = "theirs", !.walls[1] = @ - 1], <<Msg("brk", 0)>>)

(* receive: what is already here is decided here.  A point and a serve are *)
(* taken in every ball game.                                               *)
TakeHalf(s, m) ==
  IF s.ball = "own" THEN s
  ELSE [s EXCEPT !.ball = IF m.t = "st" THEN "theirs" ELSE "own",
                 !.n = IF m.t = "give" THEN m.n + 1 ELSE @]
TakeZiegel(s, m) ==
  IF s.ball \in {"own", "past"} THEN s
  ELSE [s EXCEPT !.ball = "own", !.walls[2] = IF m.t = "brk" THEN @ - 1 ELSE @]
TakeBall(k, s, m) ==
  CASE m.t = "pt" -> Gained(k, [s EXCEPT !.ball = "none"])
    [] m.t = "serve" -> <<[s EXCEPT !.ball = IF k = "half" THEN "theirs" ELSE "own", !.n = m.n + 1], <<>>>>
    [] OTHER -> <<IF k = "half" THEN TakeHalf(s, m) ELSE TakeZiegel(s, m), <<>>>>

-----------------------------------------------------------------------------
(* Shells and snowballs: several in the air *)

Fire(p) ==
  /\ Runs(p, "shells") /\ arc.sent > 0
  /\ arc' = [arc EXCEPT !.s[p].air = @ \cup {<<p, S(p).ids>>}, !.s[p].ids = @ + 1, !.sent = @ - 1,
                        !.to[Foe(p)] = Append(@, Msg("shot", S(p).ids))]

(* Only what comes down in the own half is decided here; into the sea, off *)
(* the screen or into the other half it is merely gone.                    *)
Vanish(p, x) == Runs(p, "shells") /\ x \in S(p).air /\ Does(p, [S(p) EXCEPT !.air = @ \ {x}], <<>>)
Land(p, x, hit) ==
  /\ Runs(p, "shells") /\ x \in S(p).air
  /\ LET s == [S(p) EXCEPT !.air = @ \ {x}]
         c == IF hit THEN Conceded("shells", s) ELSE <<s, <<>>>>
     IN Does(p, c[1], <<[t |-> "boom", n |-> x, hit |-> hit]>> \o c[2])

(* A shot is drawn and flown here, too; at the end only hits still count.  *)
(* The budget of snowballs is one an honest thrower keeps to.              *)
TakeShot(p, s, m) == IF s.ending THEN s ELSE [s EXCEPT !.air = @ \cup {<<Foe(p), m.n>>}]
TakeBoom(s, m) ==
  LET t == [s EXCEPT !.air = @ \ {m.n}] IN IF m.hit THEN Gained("shells", t) ELSE <<t, <<>>>>
TakeShell(p, s, m) ==
  CASE m.t = "fin" -> TakeFin("shells", s, m.n)
    [] m.t = "shot" -> <<TakeShot(p, s, m), <<>>>>
    [] m.t = "boom" -> TakeBoom(s, m)

-----------------------------------------------------------------------------
(* Penalties: the shooter's shot, the keeper's verdict *)

Shooting(s) == (s.n % 2 = 0) = s.serving
NextKick(s) == [s EXCEPT !.n = @ + 1, !.phase = "aim"]
Left(k) == IF k < Kicks THEN Kicks - k ELSE 0
Decided(s) ==
  LET a == s.score[1]
      b == s.score[2]
  IN \/ a + Left(s.taken[1]) < b \/ b + Left(s.taken[2]) < a
     \/ s.taken[1] >= Kicks /\ s.taken[1] = s.taken[2] /\ a # b
(* result: both phones run this with the same verdict. *)
Verdict(s, goal) ==
  LET i == IF Shooting(s) THEN 1 ELSE 2
      t == [s EXCEPT !.phase = "done", !.taken[i] = @ + 1, !.score[i] = IF goal THEN @ + 1 ELSE @]
  IN [t EXCEPT !.over = Decided(t)]

(* The swipe, or after eight seconds a soft shot.  Bound: the keeper's     *)
(* countdown has ended, too; a shot that arrives before that is refused.   *)
Shoot(p) ==
  /\ Runs(p, "elfer") /\ S(p).phase = "aim" /\ Shooting(S(p)) /\ S(Foe(p)).started /\ S(Foe(p)).round = S(p).round /\ arc.sent > 0
  /\ arc' = [arc EXCEPT !.s[p].phase = "fly", !.sent = @ - 1, !.to[Foe(p)] = Append(@, Msg("shot", S(p).n))]
Judge(p, goal) ==
  /\ Runs(p, "elfer") /\ S(p).phase = "fly" /\ ~Shooting(S(p))
  /\ Does(p, Verdict(S(p), goal), <<[t |-> "res", n |-> S(p).n, hit |-> goal]>>)
MoveOn(p) ==
  /\ Runs(p, "elfer") /\ S(p).phase = "done"
  /\ Does(p, NextKick(S(p)), <<>>)

(* A shot for the next penalty ends the pause after the last one. *)
TakeKick(s, m) ==
  IF m.t = "shot"
  THEN LET t == IF s.phase = "done" /\ m.n = s.n + 1 /\ ~Shooting(NextKick(s)) THEN NextKick(s) ELSE s
       IN IF Shooting(t) \/ t.phase # "aim" \/ m.n # t.n THEN [t EXCEPT !.rejected = TRUE]
          ELSE [t EXCEPT !.phase = "fly"]
  ELSE IF m.n = s.n /\ Shooting(s) /\ s.phase = "fly" THEN Verdict(s, m.hit) ELSE s

-----------------------------------------------------------------------------
(* Turn games: every throw runs on both phones in one shared frame, so the *)
(* throw carries how it ends.  Players are 1, the inviter, and 2.          *)

TurnOf(s, n) == 1 + ((s.first + (n - s.base)) % 2)
Seat(s) == IF s.serving THEN 1 ELSE 2
Launch(s, v) == [s EXCEPT !.rolling = v, !.n = @ + 1, !.thrown = @ + 1]
RunsTurns(p) == Runs(p, "stock") \/ Runs(p, "murmel")
MineTurn(s) == s.rolling < 0 /\ s.turn = Seat(s) - 1 /\ s.queue = <<>>

Throw(p, v) ==
  /\ RunsTurns(p) /\ (arc.kind = "murmel" => v < 2) /\ MineTurn(S(p)) /\ arc.sent > 0
  /\ arc' = [arc EXCEPT !.s[p] = Launch(S(p), v), !.sent = @ - 1,
                        !.to[Foe(p)] = Append(@, [t |-> "throw", n |-> S(p).n, hit |-> v])]

(* The queue is worked off until a stone rolls. *)
WorkOff(p) ==
  LET s == [S(p) EXCEPT !.queue = Tail(@)]
  IN /\ RunsTurns(p) /\ S(p).rolling < 0 /\ S(p).queue # <<>>
     /\ Does(p, IF TurnOf(s, s.n) = Seat(s) THEN [s EXCEPT !.rejected = TRUE]
                ELSE Launch(s, Head(S(p).queue)), <<>>)

(* settle: after the last stone of a round the closest one scores, and the *)
(* next round begins with the other player.                                *)
NewRound(s) == LET f == 1 - s.first IN [s EXCEPT !.first = f, !.turn = f, !.base = s.n, !.thrown = 0]
Scored(s, player) ==
  Check("stock", [s EXCEPT !.score[IF player = Seat(s) THEN 1 ELSE 2] = @ + 1])[1]
StockSettled(s) ==
  LET t == [s EXCEPT !.rolling = -1]
      pt == IF s.rolling = 0 THEN t ELSE Scored(t, s.rolling)
  IN IF s.thrown < 2 * PerRound THEN [t EXCEPT !.turn = TurnOf(t, t.n) - 1]
     ELSE IF pt.over THEN pt ELSE NewRound(pt)

(* Murmel-Ring: what was knocked out of the ring counts for the thrower;   *)
(* an empty ring ends the match.                                           *)
MarblesLeft(s) == Marbles - s.score[1] - s.score[2]
MurmelSettled(s) ==
  LET t == [s EXCEPT !.rolling = -1, !.turn = s.n % 2]
      pt == IF s.rolling = 0 THEN t ELSE Scored(t, TurnOf(s, s.n - 1))
  IN IF MarblesLeft(pt) = 0 THEN [pt EXCEPT !.over = TRUE] ELSE pt
Settle(p) ==
  /\ RunsTurns(p) /\ S(p).rolling >= 0
  /\ Does(p, IF arc.kind = "stock" THEN StockSettled(S(p)) ELSE MurmelSettled(S(p)), <<>>)

(* Whose turn it is is known once nothing rolls or waits; else the throw   *)
(* waits, two at most.                                                     *)
TakeThrow(s, m) ==
  IF \/ m.n # s.n + Len(s.queue)
     \/ s.rolling < 0 /\ s.queue = <<>> /\ TurnOf(s, s.n) = Seat(s)
     \/ Len(s.queue) >= 2
  THEN [s EXCEPT !.rejected = TRUE]
  ELSE [s EXCEPT !.queue = Append(@, m.hit)]

-----------------------------------------------------------------------------
(* The match on the screen *)

(* The countdown ends. *)
Start(p) ==
  /\ ~S(p).started /\ ~S(p).hidden
  /\ Does(p, [S(p) EXCEPT !.started = TRUE, !.due = S(p).serving /\ arc.kind \in {"half", "ziegel"},
                          !.phase = IF @ = "wait" THEN "aim" ELSE @], <<>>)

(* visibilitychange: a page that is not shown does not tick, and the other *)
(* one pauses.                                                             *)
Look(p, hidden) ==
  /\ S(p).hidden # hidden /\ (hidden => arc.hides > 0)
  /\ arc' = [arc EXCEPT !.s[p].hidden = hidden, !.hides = IF hidden THEN @ - 1 ELSE @,
                        !.to[Foe(p)] = Append(@, Msg(IF hidden THEN "pause" ELSE "resume", 0))]

(* restart: both asked; the other one serves, the seed is a new one. *)
Rematch(s) ==
  IF s.again = <<TRUE, TRUE>>
  THEN [Side(~s.serving) EXCEPT !.round = s.round + 1, !.hidden = s.hidden] ELSE s
More(p) ==
  /\ S(p).over /\ ~S(p).again[1] /\ ~S(p).hidden /\ S(p).round < arc.rematches
  /\ Does(p, Rematch([S(p) EXCEPT !.again[1] = TRUE]), <<Msg("again", 0)>>)

(* conn.on of playLive. *)
Taken(p, m) ==
  LET s == S(p)
  IN CASE m.t = "again" -> <<Rematch([s EXCEPT !.again[2] = TRUE]), <<>>>>
       [] m.t = "pause" -> <<[s EXCEPT !.paused = TRUE], <<>>>>
       [] m.t = "resume" -> <<[s EXCEPT !.paused = FALSE], <<>>>>
       [] OTHER -> IF s.over THEN <<s, <<>>>>
                   ELSE IF arc.kind = "shells" THEN TakeShell(p, s, m)
                   ELSE IF arc.kind = "elfer" THEN <<TakeKick(s, m), <<>>>>
                   ELSE IF arc.kind \in {"stock", "murmel"} THEN <<TakeThrow(s, m), <<>>>>
                   ELSE TakeBall(arc.kind, s, m)

Receive(p) ==
  /\ arc.to[p] # <<>>
  /\ LET r == Taken(p, Head(arc.to[p]))
     IN arc' = [arc EXCEPT !.s[p] = r[1], !.to[p] = Tail(@), !.to[Foe(p)] = @ \o r[2]]

ArcadeNext ==
  /\ arc # Off
  /\ \E p \in Sides :
       \/ Start(p) \/ Receive(p) \/ More(p) \/ FinWait(p)
       \/ (\E hidden \in BOOLEAN : Look(p, hidden))
       \/ Serve(p) \/ Report(p) \/ Cross(p) \/ Give(p) \/ Holds(p) \/ Misses(p)
       \/ Paddle(p) \/ GoesPast(p) \/ Brick(p)
       \/ Fire(p) \/ (\E x \in S(p).air : Vanish(p, x) \/ \E hit \in BOOLEAN : Land(p, x, hit))
       \/ Shoot(p) \/ (\E goal \in BOOLEAN : Judge(p, goal)) \/ MoveOn(p)
       \/ (\E v \in 0..2 : Throw(p, v)) \/ WorkOff(p) \/ Settle(p)

ArcadeSpec == ArcadeInit /\ [][ArcadeNext]_arc

-----------------------------------------------------------------------------
OnWire(p, ts) == Cardinality({i \in 1..Len(arc.to[p]) : arc.to[p][i].t \in ts})
SameMatch == S(1).round = S(2).round
Alike(x, y) == x[1] = y[2] /\ x[2] = y[1]

(* Where one ball is played: who has it, owes it or has it coming. *)
BallHere(p) ==
  (IF S(p).ball \in {"own", "past"} THEN 1 ELSE 0) + (IF S(p).due THEN 1 ELSE 0)
    + (IF S(p).serving /\ ~S(p).started THEN 1 ELSE 0)
    + OnWire(p, {"pass", "give", "hit", "brk"}) + (IF arc.kind = "ziegel" THEN OnWire(p, {"serve"}) ELSE 0)
OneBallOneScore ==
  /\ BallHere(1) + BallHere(2) = IF \E p \in Sides : S(p).over THEN 0 ELSE 1
  /\ \A p \in Sides : /\ S(p).score[1] + OnWire(p, {"pt"}) = S(Foe(p)).score[2]
                      /\ S(p).walls[2] - OnWire(p, {"brk"}) = S(Foe(p)).walls[1]

(* Both can take the last hit at once, and still both phones end with the  *)
(* same score, unless the wait for the other one's word ran out.           *)
SameEnd ==
  S(1).over /\ S(2).over /\ ~S(1).late /\ ~S(2).late =>
    Alike(S(1).score, S(2).score) /\ S(1).draw = S(2).draw /\ S(1).score[1] <= GoalsToWin

SameKicks ==
  /\ S(1).n = S(2).n /\ (S(1).phase = "done") = (S(2).phase = "done") =>
       Alike(S(1).score, S(2).score) /\ Alike(S(1).taken, S(2).taken) /\ S(1).over = S(2).over
  /\ arc.to[1] = <<>> /\ arc.to[2] = <<>> /\ (\A p \in Sides : S(p).started) => \E p \in Sides :
       S(p).over \/ S(p).phase = "done" \/ (S(p).phase = "aim" /\ Shooting(S(p))) \/ (S(p).phase = "fly" /\ ~Shooting(S(p)))

SameThrows ==
  /\ S(1).n = S(2).n /\ S(1).rolling = S(2).rolling =>
       Alike(S(1).score, S(2).score) /\ S(1).turn = S(2).turn /\ S(1).over = S(2).over
  /\ arc.to[1] = <<>> /\ arc.to[2] = <<>> => \E p \in Sides :
       ~S(p).started \/ S(p).over \/ S(p).rolling >= 0 \/ S(p).queue # <<>> \/ MineTurn(S(p))

(* The two phones play one match however the messages and the looking away *)
(* fall: there is one ball and one score, a double last hit is a draw on   *)
(* both, penalties and throws are judged alike on both, an honest phone is *)
(* never refused, and somebody can always go on; the next match begins on  *)
(* both with nothing left of the last one.                                 *)
BothPhonesPlayOneMatch ==
  /\ \A p \in Sides : ~S(p).rejected
  /\ SameMatch =>
       /\ arc.kind \in {"half", "ziegel"} => OneBallOneScore
       /\ arc.kind = "shells" => SameEnd
       /\ arc.kind = "elfer" => SameKicks
       /\ arc.kind \in {"stock", "murmel"} => SameThrows
  /\ ~SameMatch => \E p \in Sides : S(p).round + 1 = S(Foe(p)).round /\ OnWire(p, {"again"}) = 1
=============================================================================
