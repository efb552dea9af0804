-------------------------------- MODULE Doko --------------------------------
(***************************************************************************)
(* apps/duell-web/src/doko.js: the rules of Doppelkopf as every device of  *)
(* the table runs them.  Every card is there twice: a hand is a set of     *)
(* <<suit, rank, copy>>, a played card <<suit, rank>>.  Next to the public *)
(* state the module keeps the deal and what the four seats still hold.     *)
(***************************************************************************)
EXTENDS Integers, Sequences, SequencesExt, FiniteSets, FiniteSetsExt

CONSTANTS
  DokoDeals,   \* the deals: a hand of every seat
  DokoRules,   \* the sets of house rules played with
  Reservers,   \* bound: the seats that may have a reservation
  Solos,       \* bound: the solos announced
  MaxLevel     \* bound: the highest announcement made (0: only Re and Kontra)

VARIABLE doko  \* pub: the state the rules keep; cards[seat]; deal

SEATS == 4
Seats == 0 .. 3
SUITS == {"C", "S", "H", "D"}
EYES == [r \in {"A", "T", "K", "Q", "J", "9"} |->
           CASE r = "A" -> 11 [] r = "T" -> 10 [] r = "K" -> 4 [] r = "Q" -> 3 [] r = "J" -> 2 [] OTHER -> 0]
SOLOS == {"damen", "buben", "fleischlos", "kreuz", "pik", "herz", "karo"}
QUEENS == << <<"C", "Q">>, <<"S", "Q">>, <<"H", "Q">>, <<"D", "Q">> >>
JACKS  == << <<"C", "J">>, <<"S", "J">>, <<"H", "J">>, <<"D", "J">> >>
CQ == <<"C", "Q">>
Kind(c) == <<c[1], c[2]>>
Kinds(cs) == {Kind(c) : c \in cs}
Count(cs, k) == Cardinality({c \in cs : Kind(c) = k})
After(seat, n) == (seat + n) % SEATS
SumOver(f(_), S) == MapThenSumSet(f, S)
(* cards in a hand; 12 in the game, every deadline below counts from it *)
HAND(d) == Cardinality(d[0])

-----------------------------------------------------------------------------
(* Trumps and tricks. *)

SoloSuit(kind) == CASE kind = "kreuz" -> "C" [] kind = "pik" -> "S" [] kind = "herz" -> "H" [] OTHER -> "D"
Trumps(kind) ==
  CASE kind = "damen" -> QUEENS
    [] kind = "buben" -> JACKS
    [] kind = "fleischlos" -> <<>>
    [] OTHER -> LET plain == [i \in 1 .. 4 |-> <<SoloSuit(kind), <<"A", "T", "K", "9">>[i]>>]
                IN << <<"H", "T">> >> \o QUEENS \o JACKS \o SelectSeq(plain, LAMBDA c : c # <<"H", "T">>)
PlainOrder == <<"A", "T", "K", "Q", "J", "9">>
IsTrump(kind, c) == c \in ToSet(Trumps(kind))
Follows(kind, c) == IF IsTrump(kind, c) THEN "T" ELSE c[1]
Index(seq, e) == CHOOSE i \in DOMAIN seq : seq[i] = e
Power(kind, c, led) ==
  IF IsTrump(kind, c) THEN 1000 - Index(Trumps(kind), c)
  ELSE IF c[1] # led THEN -1 ELSE 100 - Index(PlainOrder, c[2])
(* equal cards: the first one wins, or with the house rule the second Heart Ten *)
TrickWinner(kind, trick, rules) ==
  LET led == Follows(kind, trick[1].card)
      p(i) == Power(kind, trick[i].card, led)
      top == {i \in DOMAIN trick : \A j \in DOMAIN trick : p(j) <= p(i)}
      best == IF "dulle" \in rules /\ \E i \in top : trick[i].card = <<"H", "T">> /\ IsTrump(kind, <<"H", "T">>)
              THEN Max(top) ELSE Min(top)
  IN trick[best].seat
LegalCards(kind, trick, cards) ==
  LET led == Follows(kind, trick[1].card)
      same == {c \in cards : Follows(kind, Kind(c)) = led}
  IN IF trick = <<>> \/ same = {} THEN cards ELSE same

-----------------------------------------------------------------------------
(* The public state. *)

Start(dealer, rules, n) ==
  [rules |-> rules, dealer |-> dealer, phase |-> "vorbehalt", ask |-> After(dealer, 1), hand |-> n,
   say |-> [s \in Seats |-> ""], queue |-> <<>>, wedding |-> -1, kind |-> "normal", soloist |-> -1,
   partner |-> -1, clar |-> 0, lead |-> After(dealer, 1), trick |-> <<>>, tricks |-> <<>>,
   played |-> [s \in Seats |-> 0], level |-> [re |-> -1, kontra |-> -1],
   claim |-> [s \in Seats |-> ""], calls |-> {}]

Turn(s) ==
  CASE s.phase \in {"vorbehalt", "abfrage"} -> s.ask
    [] s.phase = "play" -> After(s.lead, Len(s.trick))
    [] OTHER -> -1
Done(s) == s.phase = "done"
Begin(s, kind, soloist) ==
  [s EXCEPT !.phase = "play", !.kind = kind, !.soloist = soloist, !.lead = After(s.dealer, 1), !.trick = <<>>]

KnownParty(s, seat) ==
  CASE s.kind = "normal" -> s.claim[seat]
    [] s.kind = "hochzeit" /\ s.partner < 0 -> IF seat = s.soloist THEN "re" ELSE ""
    [] OTHER -> IF seat \in {s.soloist, s.partner} THEN "re" ELSE "kontra"
(* mutant: a Club Queen already played is forgotten *)
OwnPartyFromHand(s, seat, cards) ==
  IF KnownParty(s, seat) # "" THEN KnownParty(s, seat)
  ELSE IF s.kind = "hochzeit" THEN "" ELSE IF CQ \in Kinds(cards) THEN "re" ELSE "kontra"
OwnParty(s, seat, cards) ==
  LET mine == {t.card : t \in {t \in UNION {ToSet(s.tricks[i].cards) : i \in DOMAIN s.tricks} \union ToSet(s.trick) : t.seat = seat}}
  IN CASE KnownParty(s, seat) # "" -> KnownParty(s, seat)
       [] KnownParty(s, seat) = "" /\ s.kind = "hochzeit" -> ""
       [] OTHER -> IF CQ \in Kinds(cards) \union mine THEN "re" ELSE "kontra"
Opp(p) == IF p = "re" THEN "kontra" ELSE "re"
(* NEED: a call of level l needs HAND - 1 - l cards in hand, fewer after a  *)
(* late clarification; a reply may come one card later than what it answers *)
CallOk(s, seat, p, l) ==
  LET held == s.hand - s.played[seat]
      shift == IF s.clar > 1 THEN s.clar - 1 ELSE 0
      need(n) == s.hand - 1 - n - shift
      reply == l = 0 /\ s.level[Opp(p)] >= 0
  IN /\ s.phase = "play" /\ l \in 0 .. 4 /\ l > s.level[p]
     /\ ~(s.kind = "hochzeit" /\ s.partner < 0)
     /\ \/ held >= need(l)
        \/ reply /\ held >= need(s.level[Opp(p)]) - 1

Actions(s, seat, cards) ==
  LET p == OwnParty(s, seat, cards)
      l == s.level[p] + 1 IN
  CASE s.phase = "vorbehalt" /\ s.ask = seat ->
         {[t |-> "vorbehalt", seat |-> seat, v |-> v] : v \in {"gesund", "vorbehalt"}}
    [] s.phase = "abfrage" /\ s.ask = seat ->
         {[t |-> "vorbehalt", seat |-> seat, v |-> v] :
            v \in SOLOS \union IF Count(cards, CQ) = 2 THEN {"hochzeit"} ELSE {}}
    [] s.phase = "play" ->
         {[t |-> "play", seat |-> seat, card |-> c] :
            c \in IF Turn(s) = seat THEN Kinds(LegalCards(s.kind, s.trick, cards)) ELSE {}}
         \union IF p # "" THEN IF CallOk(s, seat, p, l) THEN {[t |-> "call", seat |-> seat, p |-> p, l |-> l]} ELSE {}
                ELSE {}
    [] OTHER -> {}

Reserve(s, a) ==
  LET u == [s EXCEPT !.say[a.seat] = a.v, !.queue = IF a.v = "vorbehalt" THEN Append(@, a.seat) ELSE @] IN
  IF a.v \notin {"gesund", "vorbehalt"} THEN {}
  ELSE IF a.seat # s.dealer THEN {[u EXCEPT !.ask = After(a.seat, 1)]}
  ELSE IF u.queue = <<>> THEN {Begin(u, "normal", -1)}
  ELSE {[u EXCEPT !.phase = "abfrage", !.ask = u.queue[1]]}
(* solos come before a marriage, the seat further forward before the others *)
Announce(s, a) ==
  LET u == [s EXCEPT !.say[a.seat] = a.v, !.wedding = IF a.v = "hochzeit" /\ @ < 0 THEN a.seat ELSE @]
      i == Index(s.queue, a.seat) IN
  IF a.v \in SOLOS THEN {Begin(u, a.v, a.seat)}
  ELSE IF a.v # "hochzeit" THEN {}
  ELSE IF i < Len(s.queue) THEN {[u EXCEPT !.ask = s.queue[i + 1]]}
  ELSE {Begin(u, "hochzeit", u.wedding)}

Clarify(s, w, n) ==
  IF ~(s.kind = "hochzeit" /\ s.partner < 0) THEN s
  ELSE IF w # s.soloist THEN [s EXCEPT !.partner = w, !.clar = n]
  ELSE IF n = 3 THEN [s EXCEPT !.kind = "karo", !.clar = 3, !.wedding = s.soloist] ELSE s
Seen(s, c) ==
  Cardinality({i \in DOMAIN s.trick : s.trick[i].card = c})
  + SumOver(LAMBDA i : Cardinality({j \in Seats : s.tricks[i].cards[j + 1].card = c}), DOMAIN s.tricks)
Play(s, a) ==
  LET trick == Append(s.trick, [seat |-> a.seat, card |-> a.card])
      u == [s EXCEPT !.trick = trick, !.played[a.seat] = @ + 1]
      w == TrickWinner(s.kind, trick, s.rules)
      n == Len(s.tricks) + 1
      v == [u EXCEPT !.tricks = Append(@, [cards |-> trick, winner |-> w]), !.lead = w, !.trick = <<>>,
                     !.phase = IF n = s.hand THEN "done" ELSE @]
  IN IF s.phase # "play" \/ Turn(s) # a.seat \/ Seen(s, a.card) >= 2 THEN {}
     ELSE IF Len(trick) < SEATS THEN {u} ELSE {Clarify(v, w, n)}
Call(s, a) ==
  IF KnownParty(s, a.seat) \in {"", a.p} /\ CallOk(s, a.seat, a.p, a.l)
  THEN {[s EXCEPT !.level[a.p] = a.l, !.claim[a.seat] = a.p, !.calls = @ \union {[seat |-> a.seat, p |-> a.p, l |-> a.l]}]}
  ELSE {}
Apply(s, a) ==
  CASE a.t = "vorbehalt" -> IF s.phase = "vorbehalt" /\ s.ask = a.seat THEN Reserve(s, a)
                            ELSE IF s.phase = "abfrage" /\ s.ask = a.seat THEN Announce(s, a) ELSE {}
    [] a.t = "play" -> Play(s, a)
    [] a.t = "call" -> Call(s, a)

-----------------------------------------------------------------------------
(* After the game. *)

Parties(s, d) ==
  LET queens(i) == Count(d[i], CQ)
      silent == {i \in Seats : queens(i) = 2} IN
  CASE s.kind = "normal" -> [re |-> IF silent # {} THEN silent ELSE {i \in Seats : queens(i) > 0}, solo |-> silent # {}]
    [] s.kind = "hochzeit" -> [re |-> {s.soloist, s.partner}, solo |-> FALSE]
    [] OTHER -> [re |-> {s.soloist}, solo |-> TRUE]

TrickEyes(t) == SumOver(LAMBDA j : EYES[t.cards[j].card[2]], DOMAIN t.cards)
One(b) == IF b THEN 1 ELSE 0
SideOf(P, seat) == IF seat \in P.re THEN "re" ELSE "kontra"
Won(s, P, p) == {i \in DOMAIN s.tricks : SideOf(P, s.tricks[i].winner) = p}

(* own announcements first, then the other side's, then plain Re and Kontra *)
Met(s, e, tr, p) ==
  LET L == s.level
      o == L[Opp(p)]
  IN CASE L[p] >= 1 -> IF L[p] = 4 THEN tr[p] >= s.hand ELSE e[p] >= <<151, 181, 211>>[L[p]]
       [] L[p] < 1 /\ o >= 1 -> IF o = 4 THEN tr[p] >= 1 ELSE e[p] >= <<90, 60, 30>>[o]
       [] OTHER -> e[p] >= IF (p = "re") = (L["kontra"] >= 0 /\ L["re"] < 0) THEN 120 ELSE 121
WinnerOf(s, e, tr) == IF Met(s, e, tr, "re") THEN "re" ELSE IF Met(s, e, tr, "kontra") THEN "kontra" ELSE ""

Special(s, P, winner, p) ==
  IF P.solo \/ s.kind = "karo" THEN 0
  ELSE One(winner = "kontra" /\ p = "kontra")
       + IF "nosp" \in s.rules THEN 0
         ELSE SumOver(LAMBDA i :
                LET t == s.tricks[i] IN
                One(TrickEyes(t) >= 40)
                + Cardinality({j \in Seats : t.cards[j + 1].card = <<"D", "A">> /\ SideOf(P, t.cards[j + 1].seat) # p})
                + One(i = s.hand /\ \E j \in 1 .. 4 : t.cards[j] = [seat |-> t.winner, card |-> <<"C", "J">>]),
              Won(s, P, p))
PointsOf(s, P, e, tr, winner, p) ==
  LET o == Opp(p)  L == s.level
  IN One(winner = p)
     + (IF winner \in {p, ""} THEN One(e[o] < 90) + One(e[o] < 60) + One(e[o] < 30) + One(tr[o] = 0) ELSE 0)
     + (IF winner = p THEN 2 * One(L["re"] >= 0) + 2 * One(L["kontra"] >= 0)
                           + SumOver(LAMBDA q : IF L[q] > 0 THEN L[q] ELSE 0, {"re", "kontra"}) ELSE 0)
     + One(L[o] >= 1 /\ e[p] >= 120) + One(L[o] >= 2 /\ e[p] >= 90) + One(L[o] >= 3 /\ e[p] >= 60) + One(L[o] >= 4 /\ e[p] >= 30)
     + Special(s, P, winner, p)

Paid(P, v) == [i \in Seats |-> (IF P.solo /\ i \in P.re THEN 3 ELSE 1) * (IF i \in P.re THEN v ELSE -v)]
Settled(s, P, e, tr, winner) ==
  [winner |-> winner, eyes |-> e,
   points |-> Paid(P, PointsOf(s, P, e, tr, winner, "re") - PointsOf(s, P, e, tr, winner, "kontra"))]
Counted(s, P, e, tr) == Settled(s, P, e, tr, WinnerOf(s, e, tr))
Sides(s, P) ==
  Counted(s, P, [p \in {"re", "kontra"} |-> SumOver(LAMBDA i : TrickEyes(s.tricks[i]), Won(s, P, p))],
                [p \in {"re", "kontra"} |-> Cardinality(Won(s, P, p))])
Result(s, d) == Sides(s, Parties(s, d))

Audit(s, d) ==
  LET all == [i \in DOMAIN s.tricks |-> s.tricks[i].cards] \o IF s.trick = <<>> THEN <<>> ELSE <<s.trick>>
      before(seat, i, c) == Cardinality({k \in 1 .. i - 1 : [seat |-> seat, card |-> c] \in ToSet(all[k])})
      left(seat, i) == {c \in Kinds(d[seat]) : Count(d[seat], c) > before(seat, i, c)}
      wrong(i, j) ==
        LET t == all[i][j]  h == left(t.seat, i)
            led == Follows(s.kind, all[i][1].card) IN
        IF t.card \notin h THEN "karte"
        ELSE IF Follows(s.kind, t.card) # led /\ \E c \in h : Follows(s.kind, c) = led THEN "bedienen" ELSE ""
      P == Parties(s, d)
  IN (UNION {{wrong(i, j) : j \in DOMAIN all[i]} : i \in DOMAIN all} \ {""})
       \union {"hochzeit" : x \in {i \in Seats : s.say[i] = "hochzeit" /\ Count(d[i], CQ) # 2}}
       \union {"ansage" : c \in {c \in s.calls : (c.p = "re") # (c.seat \in P.re)}}

SuitNames == <<"C", "D", "H", "S">>
RankNames == <<"9", "A", "J", "K", "Q", "T">>
SoloList == <<"damen", "buben", "fleischlos", "kreuz", "pik", "herz", "karo">>
Weakest(kind, cs, trick) ==
  LET led(c) == IF trick = <<>> THEN Follows(kind, c) ELSE Follows(kind, trick[1].card)
      key(c) == (Power(kind, c, led(c)) + 1) * 4000 + EYES[c[2]] * 100 + 8 * Index(SuitNames, c[1]) + Index(RankNames, c[2])
  IN CHOOSE c \in cs : \A x \in cs : key(c) <= key(x)
Auto(s, seat, cards) ==
  LET trumps(v) == Cardinality({c \in cards : IsTrump(v, Kind(c))})
      best == SoloList[Min({i \in 1 .. 7 : \A j \in 1 .. 7 : trumps(SoloList[i]) >= trumps(SoloList[j])})] IN
  CASE s.phase = "vorbehalt" -> [t |-> "vorbehalt", seat |-> seat, v |-> "gesund"]
    [] s.phase = "abfrage" -> [t |-> "vorbehalt", seat |-> seat, v |-> IF Count(cards, CQ) = 2 THEN "hochzeit" ELSE best]
    [] s.phase = "play" ->
         [t |-> "play", seat |-> seat, card |-> Weakest(s.kind, Kinds(LegalCards(s.kind, s.trick, cards)), s.trick)]

-----------------------------------------------------------------------------
(* A hand, from the reservations to the last trick. *)

TypeOK ==
  /\ doko.pub.phase \in {"vorbehalt", "abfrage", "play", "done"}
  /\ doko.pub.level \in [{"re", "kontra"} -> -1 .. 4] /\ doko.pub.soloist \in Seats \union {-1}
  /\ \A s \in Seats : doko.cards[s] \subseteq doko.deal[s]

Init ==
  \E d \in DokoDeals, r \in DokoRules :
    doko = [pub |-> Start(3, r, HAND(d)), cards |-> d, deal |-> d]

Drop(cards, k) == cards \ {CHOOSE c \in cards : Kind(c) = k}
Act(seat, t) == {a \in Actions(doko.pub, seat, doko.cards[seat]) : a.t = t}

Vorbehalt(seat) ==
  \E a \in Act(seat, "vorbehalt") :
    /\ a.v = "vorbehalt" => seat \in Reservers
    /\ a.v \in SOLOS => a.v \in Solos
    /\ \E s \in Apply(doko.pub, a) : doko' = [doko EXCEPT !.pub = s]
PlayCard(seat) ==
  \E a \in Act(seat, "play") : \E s \in Apply(doko.pub, a) :
    doko' = [doko EXCEPT !.pub = s, !.cards[seat] = Drop(@, a.card)]
SayCall(seat) ==
  \E a \in Act(seat, "call") :
    /\ a.l <= MaxLevel
    /\ \E s \in Apply(doko.pub, a) : doko' = [doko EXCEPT !.pub = s]

Next ==
  \E seat \in Seats :
    \/ Vorbehalt(seat)
    \/ PlayCard(seat)
    \/ SayCall(seat)

Spec == Init /\ [][Next]_doko

-----------------------------------------------------------------------------

(* doko.js actions(), apply(), auto(), result(), audit(): until the last card *)
(* somebody can move, apply() takes every move that is offered and the one    *)
(* Auto makes; at the end an honest hand has nothing to its discredit, no     *)
(* party has called in the other's name, every eye is counted once and the    *)
(* points of the four seats cancel out.                                       *)
HonestHand ==
  LET s == doko.pub  seat == Turn(s)  r == Result(s, doko.deal) IN
  /\ Done(s) = (seat = -1)
  /\ \A p \in Seats : \A a \in Actions(s, p, doko.cards[p]) : Apply(s, a) # {}
  /\ ~Done(s) => Actions(s, seat, doko.cards[seat]) # {} /\ Apply(s, Auto(s, seat, doko.cards[seat])) # {}
  /\ Done(s) =>
       /\ Audit(s, doko.deal) = {}
       /\ r.eyes["re"] + r.eyes["kontra"]
            = SumOver(LAMBDA i : SumOver(LAMBDA c : EYES[c[2]], doko.deal[i]), Seats)
       /\ SumOver(LAMBDA i : r.points[i], Seats) = 0
=============================================================================
