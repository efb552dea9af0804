----------------------------- MODULE Bauernskat -----------------------------
(***************************************************************************)
(* apps/duell-web/src/bauernskat.js, Skat for two without a hand, on the   *)
(* two devices of table.js: a card lies face down until both have sent     *)
(* their key of its position, which reveals() allows for the open row and, *)
(* once the trick above it is over, for the card below.  The state of the  *)
(* rules is the same on both devices up to messages on the way.            *)
(***************************************************************************)
EXTENDS Integers, Sequences, SequencesExt, FiniteSets, FiniteSetsExt

CONSTANTS
  STACKS,     \* stacks of a player
  StackDeck,  \* <<seat, stack, kind>> -> card
  StackRules  \* the sets of house rules played with

VARIABLE
  bauer       \* dev[seat]: the hand on that device; net[from]: messages to the other

Sk == INSTANCE SkatRules WITH HAND <- STACKS
Seats == {0, 1}
Other(p) == 1 - p
TRICKS == 2 * STACKS
Stacks == 1 .. STACKS
Positions == Seats \X Stacks \X {"up", "down"}
Face == <<"none", "none">>  \* nothing showing on a stack

-----------------------------------------------------------------------------
(* The rules. *)

Start(dealer, rules) ==
  [rules |-> rules, kontra |-> 0, phase |-> "deal", declarer |-> Other(dealer), game |-> "",
   top |-> [s \in Seats |-> [i \in Stacks |-> Face]], under |-> [s \in Seats |-> [i \in Stacks |-> TRUE]],
   flip |-> {}, trick |-> <<>>, tricks |-> <<>>, next |-> -1]

Tops(s, seat) == {s.top[seat][i] : i \in Stacks} \ {Face}
PlayedBy(s, seat) == Len(s.tricks) + Cardinality({i \in DOMAIN s.trick : s.trick[i].seat = seat})
Turn(s) == CASE s.phase = "declare" -> s.declarer [] s.phase = "play" -> s.next [] OTHER -> -1
Done(s) == s.phase = "done"
Played(s) == UNION {Sk!PlayedIn(s.tricks[i].cards) : i \in DOMAIN s.tricks} \union Sk!PlayedIn(s.trick)

(* mutant: a face-down card may be opened as soon as the one above it is played *)
RevealsEarly(s) ==
  CASE s.phase = "deal" -> {x \in Positions : x[3] = "up" /\ s.top[x[1]][x[2]] = Face}
    [] s.phase = "play" -> {x \in Positions : x[3] = "down" /\ s.top[x[1]][x[2]] = Face /\ s.under[x[1]][x[2]]}
    [] OTHER -> {}
(* the positions that may be opened now *)
Reveals(s) ==
  CASE s.phase = "deal" -> {x \in Positions : x[3] = "up" /\ s.top[x[1]][x[2]] = Face}
    [] s.phase = "play" -> {<<f[1], f[2], "down">> : f \in s.flip}
    [] OTHER -> {}
KontraOk(s, seat, t) ==
  /\ "kontra" \in s.rules /\ s.phase = "play"
  /\ IF t = "kontra" THEN s.kontra = 0 /\ seat # s.declarer /\ PlayedBy(s, seat) = 0
     ELSE s.kontra = 1 /\ seat = s.declarer /\ PlayedBy(s, seat) <= 1
Games(s) == {"C", "S", "H", "D", "G"} \union IF "null" \in s.rules THEN {"N"} ELSE {}
Actions(s, seat) ==
  CASE s.phase = "declare" /\ seat = s.declarer -> {[t |-> "declare", seat |-> seat, game |-> g] : g \in Games(s)}
    [] s.phase = "play" ->
         {[t |-> "play", seat |-> seat, card |-> c] :
            c \in {c \in Tops(s, seat) : seat = s.next /\ s.flip = {} /\ Sk!MayPlay(s.game, Tops(s, seat), c, s.trick)}}
         \union {[t |-> t, seat |-> seat] : t \in {t \in {"kontra", "re"} : KontraOk(s, seat, t)}}
    [] OTHER -> {}

TurnUp(s, a) ==
  LET u == [s EXCEPT !.top[a.seat][a.i] = a.card]
      v == [u EXCEPT !.under[a.seat][a.i] = FALSE, !.flip = @ \ {<<a.seat, a.i>>}]
      open == \A q \in Seats, i \in Stacks : u.top[q][i] # Face
  IN IF a.card \in Tops(s, 0) \union Tops(s, 1) \union Played(s) THEN {}
     ELSE CASE s.phase = "deal" /\ s.top[a.seat][a.i] = Face -> {IF open THEN [u EXCEPT !.phase = "declare"] ELSE u}
            [] s.phase = "play" /\ <<a.seat, a.i>> \in s.flip -> {v}
            [] OTHER -> {}

Play(s, a) ==
  LET at == CHOOSE i \in Stacks : s.top[a.seat][i] = a.card
      trick == Append(s.trick, [seat |-> a.seat, card |-> a.card])
      u == [s EXCEPT !.top[a.seat][at] = Face, !.trick = trick]
      w == Sk!TrickWinner(s.game, trick)
      v == [u EXCEPT !.tricks = Append(@, [cards |-> trick, winner |-> w]), !.trick = <<>>]
      bare == {x \in Seats \X Stacks : u.top[x[1]][x[2]] = Face /\ u.under[x[1]][x[2]]}
  IN IF s.flip # {} \/ a.card \notin Tops(s, a.seat) \/ ~Sk!MayPlay(s.game, Tops(s, a.seat), a.card, s.trick) THEN {}
     ELSE IF Len(trick) < 2 THEN {[u EXCEPT !.next = Other(a.seat)]}
     ELSE IF Len(v.tricks) = TRICKS \/ (s.game = "N" /\ w = s.declarer) THEN {[v EXCEPT !.phase = "done", !.next = -1]}
     ELSE {[v EXCEPT !.flip = bare, !.next = w]}

Apply(s, a) ==
  CASE Done(s) -> {}
    [] ~Done(s) /\ a.t = "turn" -> TurnUp(s, a)
    [] ~Done(s) /\ a.t \in {"kontra", "re"} -> IF KontraOk(s, a.seat, a.t) THEN {[s EXCEPT !.kontra = @ + 1]} ELSE {}
    [] ~Done(s) /\ a.t = "declare" ->
         IF a.seat = Turn(s) /\ s.phase = "declare" /\ a.game \in Games(s)
         THEN {[s EXCEPT !.game = a.game, !.phase = "play", !.next = s.declarer]} ELSE {}
    [] ~Done(s) /\ a.t = "play" -> IF a.seat = Turn(s) /\ s.phase = "play" THEN Play(s, a) ELSE {}

Result(s) ==
  LET d == s.declarer
      mine == {i \in DOMAIN s.tricks : s.tricks[i].winner = d}
      n == Cardinality(mine)
      de == Sk!EyesOf(UNION {Sk!PlayedIn(s.tricks[i].cards) : i \in mine})
      level(b) == IF b THEN 1 ELSE 0
      cards == {StackDeck[x] : x \in {x \in Positions : x[1] = d}}
      value == IF s.game = "N" THEN 23
               ELSE Sk!BASE[s.game] * (Sk!Tops(s.game, cards) + 1 + level(de >= 90 \/ de <= 30) + level(n \in {0, TRICKS}))
      won == IF s.game = "N" THEN n = 0 ELSE de >= 61
  IN [points |-> [p \in Seats |-> IF p # d THEN 0 ELSE IF won THEN value * 2^s.kontra ELSE -2 * value * 2^s.kontra]]

(* every card against what lay open when it was played, replayed from the deal *)
Audit(s) ==
  LET gone(n) == UNION {Sk!PlayedIn(s.tricks[i].cards) : i \in 1 .. n}
      open(seat, n) == {StackDeck[x] : x \in {x \in Positions : x[1] = seat
                          /\ StackDeck[x] \notin gone(n) /\ (x[3] = "up" \/ StackDeck[<<x[1], x[2], "up">>] \in gone(n))}}
      wrong(i, j) == LET t == s.tricks[i].cards[j] IN
        ~Sk!MayPlay(s.game, open(t.seat, i - 1), t.card, SubSeq(s.tricks[i].cards, 1, j - 1))
      lies(q, i) == s.top[q][i] \notin {Face, StackDeck[<<q, i, IF s.under[q][i] THEN "up" ELSE "down">>]}
  IN {"follow" : x \in {x \in (DOMAIN s.tricks) \X {1, 2} : wrong(x[1], x[2])}}
       \union {"stack" : x \in {x \in Seats \X Stacks : lies(x[1], x[2])}}

Auto(s, seat) ==
  LET mine == Tops(s, seat)
      may == {c \in mine : Sk!MayPlay(s.game, mine, c, s.trick)}
      power == [c \in may |-> Sk!Power(s.game, c, IF s.trick = <<>> THEN Sk!SuitOf(s.game, c) ELSE Sk!SuitOf(s.game, s.trick[1].card))]
      jacks == {c \in mine : c[2] = "J"}
  IN IF s.phase = "declare" THEN [t |-> "declare", seat |-> seat, game |-> IF Cardinality(jacks) >= 3 THEN "G" ELSE Sk!Longest(mine)]
     ELSE [t |-> "play", seat |-> seat, card |-> Sk!Weakest(may, power)]

-----------------------------------------------------------------------------
(* The two devices: bare(), game(), act(). *)

Send(h, m) == [h EXCEPT !.out = Append(@, m)]
(* one round of bare(): send my keys once, turn up what opens; a key that *)
(* opens no card that fits is held against the other player               *)
BareOnce(h) ==
  LET list == Reveals(h.st)
      fresh == list \ h.sent
      u == IF fresh = {} THEN h ELSE Send([h EXCEPT !.sent = @ \union fresh], [t |-> "keys", pos |-> fresh])
      ripe == {x \in list : x \in h.keys \ h.bad /\ u.st.top[x[1]][x[2]] = Face}
      turn(g, x) == LET r == Apply(g.st, [t |-> "turn", seat |-> x[1], i |-> x[2], card |-> StackDeck[x]])
                    IN IF r = {} THEN [g EXCEPT !.bad = @ \union {x}] ELSE [g EXCEPT !.st = CHOOSE st \in r : TRUE]
  IN FoldLeft(turn, u, SetToSeq(ripe))
Bare(h) == IF Done(h.st) THEN h ELSE BareOnce(BareOnce(h))

(* a message that has to wait stays in the queue: nothing changes *)
Take(h, m) ==
  CASE m.t = "keys" -> {Bare([h EXCEPT !.keys = @ \union m.pos])}
    [] m.t = "act" -> {Bare([h EXCEPT !.st = st]) : st \in Apply(h.st, m.a)}

Commit(p, h) == bauer' = [bauer EXCEPT !.dev[p] = [h EXCEPT !.out = <<>>], !.net[p] = @ \o h.out]
Begin(p) ==
  /\ ~bauer.dev[p].begun
  /\ Commit(p, Bare([bauer.dev[p] EXCEPT !.begun = TRUE]))
Deliver(p) ==
  LET q == Other(p) IN
  /\ bauer.dev[p].begun /\ bauer.net[q] # <<>>
  /\ \E h \in Take(bauer.dev[p], Head(bauer.net[q])) :
       bauer' = [bauer EXCEPT !.dev[p] = [h EXCEPT !.out = <<>>],
                              !.net = [r \in Seats |-> IF r = q THEN Tail(@[r]) ELSE @[r] \o h.out]]
Move(p) ==
  LET h == bauer.dev[p] IN
  \E a \in Actions(h.st, p) : \E u \in Take(Send(h, [t |-> "act", a |-> a]), [t |-> "act", a |-> a]) : Commit(p, u)

Init ==
  \E r \in StackRules :
    bauer = [dev |-> [p \in Seats |-> [begun |-> FALSE, st |-> Start(0, r), sent |-> {}, keys |-> {}, bad |-> {}, out |-> <<>>]],
             net |-> [p \in Seats |-> <<>>]]

Next ==
  \E p \in Seats :
    \/ Begin(p)
    \/ Deliver(p)
    \/ Move(p)

Spec == Init /\ [][Next]_bauer

-----------------------------------------------------------------------------

(* table.js bare(), bauernskat.js reveals(): no device ever has both keys of *)
(* a face-down card before the trick that took the card above it is over in  *)
(* its own state, whoever of the two is ahead.                               *)
NoPeeking ==
  \A p \in Seats : \A x \in bauer.dev[p].keys :
    LET s == bauer.dev[p].st IN
    x[3] = "down" => /\ s.top[x[1]][x[2]] # StackDeck[<<x[1], x[2], "up">>]
                     /\ s.trick = <<>> \/ StackDeck[<<x[1], x[2], "up">>] \notin Sk!PlayedIn(s.trick)

(* bauernskat.js actions(), apply(), auto(), audit(): with everything         *)
(* delivered both devices show the same cards and somebody can move until the *)
(* hand is over, every move offered and Auto's move are taken, nobody is      *)
(* accused of a wrong key, and the audit of a finished hand finds nothing.    *)
SameCards ==
  LET quiet == \A p \in Seats : bauer.net[p] = <<>> /\ bauer.dev[p].begun IN
  /\ quiet => LET s == bauer.dev[0].st IN
                /\ s = bauer.dev[1].st
                /\ ~Done(s) => Turn(s) \in Seats /\ Actions(s, Turn(s)) # {} /\ Apply(s, Auto(s, Turn(s))) # {}
                /\ s.phase # "declare" \/ s.flip = {}
  /\ \A p \in Seats : LET s == bauer.dev[p].st IN bauer.dev[p].bad = {} /\ (Done(s) => Audit(s) = {})
=============================================================================
