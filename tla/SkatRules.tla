----------------------------- MODULE SkatRules -----------------------------
(***************************************************************************)
(* apps/duell-web/src/skat.js: the rules of Skat as every device of the    *)
(* table runs them.  The state is public, nobody's hand is in it; whether  *)
(* suit was followed is only audited when the hands are revealed.  apply() *)
(* is an operator from a state and an action to the set of next states,    *)
(* empty where the code answers fail(...).                                 *)
(***************************************************************************)
EXTENDS Integers, Sequences, SequencesExt, FiniteSets, FiniteSetsExt

CONSTANT HAND      \* cards in a hand

SEATS == 3
Seats == 0 .. SEATS - 1
SUITS == {"C", "S", "H", "D"}
JACKS == << <<"C", "J">>, <<"S", "J">>, <<"H", "J">>, <<"D", "J">> >>
PLAIN == <<"A", "T", "K", "Q", "9", "8", "7">>
NULLRANK == <<"A", "K", "Q", "J", "T", "9", "8", "7">>
DECK == SUITS \X ToSet(NULLRANK)
EYES == [r \in ToSet(NULLRANK) |->
           CASE r = "A" -> 11 [] r = "T" -> 10 [] r = "K" -> 4 [] r = "Q" -> 3 [] r = "J" -> 2 [] OTHER -> 0]
BASE == [g \in SUITS \union {"G"} |->
           CASE g = "D" -> 9 [] g = "H" -> 10 [] g = "S" -> 11 [] g = "C" -> 12 [] g = "G" -> 24]
NullValue(c) == IF c.ouvert THEN IF c.hand THEN 59 ELSE 46 ELSE IF c.hand THEN 35 ELSE 23
BIDS == {BASE[g] * m : g \in SUITS, m \in 2 .. 18} \union {BASE["G"] * m : m \in 2 .. 11}
          \union {23, 35, 46, 59}

Forehand(d) == (d + 1) % 3
Middlehand(d) == (d + 2) % 3
EyesOf(cs) == MapThenSumSet(LAMBDA c : EYES[c[2]], cs)

-----------------------------------------------------------------------------
(* Cards in a contract. *)

TrumpOrder(g) ==
  IF g = "N" THEN <<>>
  ELSE IF g = "G" THEN JACKS
  ELSE JACKS \o [i \in DOMAIN PLAIN |-> <<g, PLAIN[i]>>]
IsTrump(g, c) == g # "N" /\ (c[2] = "J" \/ (g # "G" /\ c[1] = g))
SuitOf(g, c) == IF IsTrump(g, c) THEN "T" ELSE c[1]
IndexIn(seq, e) == CHOOSE i \in DOMAIN seq : seq[i] = e
Power(g, c, led) ==
  IF IsTrump(g, c) THEN 100 - IndexIn(TrumpOrder(g), c)
  ELSE IF c[1] # led THEN -1
  ELSE 50 - IndexIn(IF g = "N" THEN NULLRANK ELSE PLAIN, c[2])
TrickWinner(g, played) ==
  LET led == SuitOf(g, played[1].card)
      best == CHOOSE i \in DOMAIN played :
                \A j \in DOMAIN played :
                  LET x == Power(g, played[i].card, led)  y == Power(g, played[j].card, led)
                  IN x > y \/ (x = y /\ i <= j)
  IN played[best].seat
MayPlay(g, hand, c, before) ==
  /\ c \in hand
  /\ \/ before = <<>>
     \/ LET led == SuitOf(g, before[1].card)
        IN SuitOf(g, c) = led \/ \A x \in hand : SuitOf(g, x) # led
(* how many trumps from the top a side has, or lacks, in a row *)
Tops(g, cs) ==
  LET order == TrumpOrder(g)
      same(n) == \A i \in 1 .. n : (order[i] \in cs) = (order[1] \in cs)
  IN Max({n \in 1 .. Len(order) : same(n)})

-----------------------------------------------------------------------------
(* Bidding, the skat and the announcement. *)

Nothing == "none"
Start(dealer, rules) ==
  [rules |-> rules, kontra |-> 0, dealer |-> dealer, phase |-> "bid",
   bid |-> [v |-> 0, bidder |-> Middlehand(dealer), holder |-> Forehand(dealer),
            ask |-> "bid", stage |-> "mh", passed |-> {}],
   declarer |-> -1, pickedUp |-> FALSE, contract |-> [game |-> Nothing], open |-> {},
   trick |-> <<>>, tricks |-> <<>>, next |-> -1, passedOut |-> FALSE]

Turn(s) ==
  CASE s.phase = "bid" -> IF s.bid.ask = "bid" THEN s.bid.bidder ELSE s.bid.holder
    [] s.phase \in {"skat", "push", "declare", "show"} -> s.declarer
    [] s.phase = "play" -> s.next
    [] OTHER -> -1

Done(s) == s.phase = "done"

ToDeclarer(s, seat) ==
  [s EXCEPT !.declarer = seat, !.phase = "skat", !.bid.ask = Nothing,
            !.bid.v = IF @ = 0 THEN 18 ELSE @]

Lead(s, seat) == [s EXCEPT !.next = seat, !.trick = <<>>]
Ramsch == [game |-> "G", hand |-> TRUE, schneider |-> FALSE, schwarz |-> FALSE,
           ouvert |-> FALSE, ramsch |-> TRUE]

Pass(s, seat) ==
  LET b == s.bid
      survivor == IF seat = b.bidder THEN b.holder ELSE b.bidder
      t == [s EXCEPT !.bid.passed = @ \union {seat}]
  IN CASE b.stage = "fh" /\ "ramsch" \notin s.rules ->
            [t EXCEPT !.bid.ask = Nothing, !.phase = "done", !.passedOut = TRUE]
       [] b.stage = "fh" /\ "ramsch" \in s.rules ->
            Lead([t EXCEPT !.bid.ask = Nothing, !.phase = "play", !.contract = Ramsch], Forehand(s.dealer))
       [] b.stage = "mh" ->
            [t EXCEPT !.bid.stage = "rh", !.bid.bidder = s.dealer, !.bid.holder = survivor, !.bid.ask = "bid"]
       [] b.stage = "rh" /\ b.v = 0 ->
            [t EXCEPT !.bid.stage = "fh", !.bid.bidder = Forehand(s.dealer), !.bid.holder = -1, !.bid.ask = "bid"]
       [] OTHER -> ToDeclarer(t, survivor)

ApplyBid(s, a) ==
  LET b == s.bid IN
  IF a.seat # Turn(s) THEN {}
  ELSE CASE a.t = "bid" /\ b.ask = "bid" /\ a.v \in BIDS /\ a.v > b.v ->
              IF b.stage # "fh" THEN {[s EXCEPT !.bid.v = a.v, !.bid.ask = "answer"]}
              ELSE IF a.v = 18 THEN {ToDeclarer([s EXCEPT !.bid.v = 18], a.seat)} ELSE {}
         [] a.t = "hold" /\ b.ask = "answer" -> {[s EXCEPT !.bid.ask = "bid"]}
         [] a.t = "pass" -> {Pass(s, a.seat)}
         [] OTHER -> {}

ContractOk(s, c) ==
  /\ c.hand # s.pickedUp
  /\ IF c.game = "N" THEN ~c.schneider /\ ~c.schwarz /\ NullValue(c) >= s.bid.v
     ELSE /\ c.schneider \/ c.schwarz \/ c.ouvert => c.hand
          /\ c.schwarz => c.schneider
          /\ c.ouvert => c.schwarz

DeclareOptions(s) ==
  LET hand == ~s.pickedUp
      c(g, sn, sw, ov) == [game |-> g, hand |-> hand, schneider |-> sn, schwarz |-> sw, ouvert |-> ov, ramsch |-> FALSE]
      suits == SUITS \union {"G"}
  IN {c(g, FALSE, FALSE, FALSE) : g \in suits}
       \union (IF hand THEN {c(g, TRUE, sw, ov) : g \in suits, sw \in BOOLEAN, ov \in BOOLEAN}
                              \ {c(g, TRUE, FALSE, TRUE) : g \in suits}
               ELSE {})
       \union {x \in {c("N", FALSE, FALSE, ov) : ov \in BOOLEAN} : NullValue(x) >= s.bid.v}

-----------------------------------------------------------------------------
(* Playing. *)

PlayedIn(trick) == {trick[i].card : i \in DOMAIN trick}
PlayedCards(s) == UNION {PlayedIn(s.tricks[i].cards) : i \in DOMAIN s.tricks} \union PlayedIn(s.trick)
PlayedBy(s, seat) == Len(s.tricks) + Cardinality({i \in DOMAIN s.trick : s.trick[i].seat = seat})

(* the deadline counts the caller's own cards only *)
KontraOk(s, seat, t) ==
  /\ "kontra" \in s.rules /\ s.phase = "play" /\ ~s.contract.ramsch
  /\ IF t = "kontra" THEN s.kontra = 0 /\ seat # s.declarer /\ PlayedBy(s, seat) = 0
     ELSE s.kontra = 1 /\ seat = s.declarer /\ PlayedBy(s, seat) <= 1
(* said already by the other defender: dropped instead of waited for *)
KontraLate(s, a) ==
  /\ a.t = "kontra" /\ "kontra" \in s.rules /\ s.phase = "play" /\ ~s.contract.ramsch
  /\ s.kontra >= 1 /\ a.seat # s.declarer

(* mutant: the open hand is judged with the cards already played still in it *)
PlayOpenStale(s, a) ==
  LET g == s.contract.game
      trick == Append(s.trick, [seat |-> a.seat, card |-> a.card])
      w == TrickWinner(g, trick)
      t == [s EXCEPT !.tricks = Append(@, [cards |-> trick, winner |-> w]), !.trick = <<>>]
  IN IF s.open # {} /\ a.seat = s.declarer /\ ~MayPlay(g, s.open, a.card, s.trick) THEN {}
     ELSE IF Len(trick) < SEATS THEN {[s EXCEPT !.trick = trick, !.next = (a.seat + 1) % 3]}
     ELSE IF Len(t.tricks) = HAND THEN {[t EXCEPT !.phase = "done", !.next = -1]} ELSE {Lead(t, w)}
(* the trick is complete: its winner leads the next one, or the hand is over *)
Won(s, trick, w) ==
  LET t == [s EXCEPT !.tricks = Append(@, [cards |-> trick, winner |-> w]), !.trick = <<>>]
  IN IF Len(s.tricks) + 1 = HAND \/ (s.contract.game = "N" /\ w = s.declarer)
     THEN [t EXCEPT !.phase = "done", !.next = -1] ELSE Lead(t, w)
Play(s, a) ==
  LET c == a.card  g == s.contract.game
      left == s.open \ PlayedCards(s)
      openOk == s.open = {} \/ IF a.seat = s.declarer THEN MayPlay(g, left, c, s.trick) ELSE c \notin left
      trick == Append(s.trick, [seat |-> a.seat, card |-> c])
  IN IF c \in PlayedCards(s) \/ ~openOk THEN {}
     ELSE IF Len(trick) < SEATS THEN {[s EXCEPT !.trick = trick, !.next = (a.seat + 1) % 3]}
     ELSE {Won(s, trick, TrickWinner(g, trick))}

Apply(s, a) ==
  CASE s.phase = "done" -> {}
    [] s.phase = "bid" -> ApplyBid(s, a)
    [] s.phase \notin {"bid", "done"} /\ a.t \in {"kontra", "re"} ->
         IF KontraOk(s, a.seat, a.t) THEN {[s EXCEPT !.kontra = @ + 1]} ELSE {}
    [] OTHER ->
         IF a.seat # Turn(s) THEN {}
         ELSE CASE s.phase = "skat" /\ a.t = "pickup" -> {[s EXCEPT !.pickedUp = TRUE, !.phase = "push"]}
                [] s.phase = "push" /\ a.t = "push" -> {[s EXCEPT !.phase = "declare"]}
                [] s.phase \in {"skat", "declare"} /\ a.t = "declare" ->
                     IF ContractOk(s, a.c)
                     THEN {Lead([s EXCEPT !.contract = a.c, !.phase = IF a.c.ouvert THEN "show" ELSE "play"],
                                Forehand(s.dealer))}
                     ELSE {}
                [] s.phase = "show" /\ a.t = "show" ->
                     IF Cardinality(a.cards) = HAND THEN {[s EXCEPT !.open = a.cards, !.phase = "play"]} ELSE {}
                [] s.phase = "play" /\ a.t = "play" -> Play(s, a)
                [] OTHER -> {}

Actions(s, seat, hand) ==
  LET b == s.bid IN
  CASE s.phase = "bid" /\ seat = Turn(s) ->
         (IF b.ask = "bid"
          THEN {[t |-> "bid", seat |-> seat, v |-> v] : v \in {v \in BIDS : v > b.v /\ (b.stage # "fh" \/ v = 18)}}
          ELSE {[t |-> "hold", seat |-> seat]})
         \union {[t |-> "pass", seat |-> seat]}
    [] s.phase \in {"skat", "declare"} /\ seat = s.declarer ->
         {[t |-> "declare", seat |-> seat, c |-> c] : c \in DeclareOptions(s)}
         \union (IF s.phase = "skat" THEN {[t |-> "pickup", seat |-> seat]} ELSE {})
    [] s.phase = "push" /\ seat = s.declarer -> {[t |-> "push", seat |-> seat]}
    [] s.phase = "show" /\ seat = s.declarer -> {[t |-> "show", seat |-> seat, cards |-> hand]}
    [] s.phase = "play" ->
         {[t |-> "play", seat |-> seat, card |-> c] :
            c \in {c \in hand : seat = s.next /\ MayPlay(s.contract.game, hand, c, s.trick)}}
         \union {[t |-> t, seat |-> seat] : t \in {t \in {"kontra", "re"} : KontraOk(s, seat, t)}}
    [] OTHER -> {}

(* Auto: pass, a hand game in the longest suit, the two lowest cards put    *)
(* aside, the weakest card that may be played; determined by what is public *)
(* and the seat's own cards.                                                *)
SuitNames == <<"C", "D", "H", "S">>
RankNames == <<"7", "8", "9", "A", "J", "K", "Q", "T">>
CardNo(c) == 8 * IndexIn(SuitNames, c[1]) + IndexIn(RankNames, c[2])
Weakest(hand, first) ==
  LET key(c) == (first[c] + 1) * 4000 + EYES[c[2]] * 100 + CardNo(c)
  IN CHOOSE c \in hand : \A d \in hand : key(c) <= key(d)
Longest(hand) ==
  LET most == Max({Cardinality({c \in hand : IsTrump(g, c)}) : g \in SUITS})
      first == SelectInSeq(<<"C", "S", "H", "D">>, LAMBDA g : Cardinality({c \in hand : IsTrump(g, c)}) = most)
  IN <<"C", "S", "H", "D">>[first]
Auto(s, seat, hand) ==
  LET jack == [c \in hand |-> IF c[2] = "J" THEN 1 ELSE 0]
      low == Weakest(hand, jack)
      g == s.contract.game
      may == {c \in hand : MayPlay(g, hand, c, s.trick)}
      power == [c \in may |-> Power(g, c, IF s.trick = <<>> THEN SuitOf(g, c) ELSE SuitOf(g, s.trick[1].card))]
      plain == [game |-> Longest(hand), hand |-> ~s.pickedUp, schneider |-> FALSE, schwarz |-> FALSE,
                ouvert |-> FALSE, ramsch |-> FALSE]
  IN CASE s.phase = "bid" -> [t |-> "pass", seat |-> seat]
       [] s.phase \in {"skat", "declare"} -> [t |-> "declare", seat |-> seat, c |-> plain]
       [] s.phase = "push" -> [t |-> "push", seat |-> seat, cards |-> {low, Weakest(hand \ {low}, jack)}]
       [] s.phase = "show" -> [t |-> "show", seat |-> seat, cards |-> hand]
       [] s.phase = "play" -> [t |-> "play", seat |-> seat, card |-> Weakest(may, power)]

-----------------------------------------------------------------------------
(* The score, and the audit once every hand is known. *)

TrickEyes(s, seat) ==
  EyesOf(UNION {PlayedIn(s.tricks[i].cards) : i \in {i \in DOMAIN s.tricks : s.tricks[i].winner = seat}})
TricksOf(s, seat) == Cardinality({i \in DOMAIN s.tricks : s.tricks[i].winner = seat})

Base(c) == IF c.game = "N" THEN NullValue(c) ELSE BASE[c.game]
(* eyes and tricks of the declarer: what was announced and not reached *)
Failed(c, eyes, n) == (c.schneider /\ eyes < 90) \/ (c.schwarz /\ n < HAND)
Levels(c, eyes, n, failed) ==
  << c.hand, eyes >= 90 \/ c.schneider \/ (~failed /\ eyes <= 30), c.schneider,
     n = HAND \/ c.schwarz \/ (~failed /\ n = 0), c.schwarz, c.ouvert >>
Count(levels) == Cardinality({i \in DOMAIN levels : levels[i]})
GameValue(c, cards, eyes, n) ==
  IF c.game = "N" THEN Base(c)
  ELSE Base(c) * (Tops(c.game, cards) + 1 + Count(Levels(c, eyes, n, Failed(c, eyes, n))))
Made(c, eyes, n) == IF c.game = "N" THEN n = 0 ELSE ~Failed(c, eyes, n) /\ eyes >= 61
Written(d, won, overbid, value) ==
  [won |-> won, overbid |-> overbid, value |-> value,
   points |-> [i \in Seats |-> IF i # d THEN 0 ELSE IF won THEN value ELSE -2 * value],
   list |-> [i \in Seats |-> IF i = d THEN (IF won THEN value + 50 ELSE -2 * value - 50)
                             ELSE IF won THEN 0 ELSE 40]]
(* an overbid game counts as the next multiple that covers the bid *)
Covering(bid, base) == ((bid + base - 1) \div base) * base
Judged(s, game, made, overbid) ==
  Written(s.declarer, made /\ ~overbid, overbid,
          (IF overbid THEN Covering(s.bid.v, Base(s.contract)) ELSE game) * 2^s.kontra)
Valued(s, game, made) == Judged(s, game, made, game < s.bid.v)
Scored(s, c, cards, eyes, n) == Valued(s, GameValue(c, cards, eyes, n), Made(c, eyes, n))
Result(s, full) ==
  Scored(s, s.contract, full.hands[s.declarer] \union full.skat,
         TrickEyes(s, s.declarer) + EyesOf(IF s.pickedUp THEN full.pushed ELSE full.skat), TricksOf(s, s.declarer))

RamschResult(s, full) ==
  LET last == s.tricks[Len(s.tricks)].winner
      eyes == [i \in Seats |-> TrickEyes(s, i) + IF i = last THEN EyesOf(full.skat) ELSE 0]
      march == {i \in Seats : TricksOf(s, i) = HAND}
      top == Max({eyes[i] : i \in Seats})
  IN [seatEyes |-> eyes,
      points |-> [i \in Seats |-> IF march # {} THEN IF i \in march THEN 120 ELSE 0
                                  ELSE IF eyes[i] = top THEN -top ELSE 0]]

(* what was wrong: every play against the hand it came from, in order *)
Audit(s, full) ==
  LET d == s.declarer
      twelve == full.hands[d] \union full.skat
      hands == IF s.pickedUp THEN [full.hands EXCEPT ![d] = twelve \ full.pushed] ELSE full.hands
      tricks == [i \in DOMAIN s.tricks |-> s.tricks[i].cards] \o IF s.trick = <<>> THEN <<>> ELSE <<s.trick>>
      gone(seat, i, j) ==
        {p.card : p \in {p \in UNION {ToSet(tricks[k]) : k \in 1 .. i - 1}
                                 \union ToSet(SubSeq(tricks[i], 1, j - 1)) : p.seat = seat}}
      wrong(i, j) == LET p == tricks[i][j]  h == hands[p.seat] \ gone(p.seat, i, j)
                     IN IF p.card \notin h THEN "notInHand"
                        ELSE IF MayPlay(s.contract.game, h, p.card, SubSeq(tricks[i], 1, j - 1)) THEN "" ELSE "follow"
      all == UNION {full.hands[i] : i \in Seats} \union full.skat
      marks == [deck   |-> Cardinality(all) # 3 * HAND + 2 \/ ~(all \subseteq DECK),
                pushed |-> s.pickedUp /\ (Cardinality(full.pushed) # 2 \/ ~(full.pushed \subseteq twelve)),
                hand   |-> ~s.pickedUp /\ full.pushed # {},
                open   |-> s.open # {} /\ s.open # hands[d]]
  IN IF s.passedOut \/ s.contract.game = Nothing THEN {}
     ELSE {k \in DOMAIN marks : marks[k]}
            \union (UNION {{wrong(i, j) : j \in DOMAIN tricks[i]} : i \in DOMAIN tricks} \ {""})
=============================================================================
