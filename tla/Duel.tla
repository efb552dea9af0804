-------------------------------- MODULE Duel --------------------------------
(***************************************************************************)
(* Agent duels (duel.js): two agents with sliders play a match that both   *)
(* phones compute alone from the same seed.  The phone that was challenged *)
(* may hold the agents in the other order; the match must not depend on    *)
(* it.  Two phones compute the same match here round by round, one with    *)
(* the agents as (a, b), the other as (b, a).                              *)
(*                                                                         *)
(* A random number is a number of hundredths; the generator is any stream. *)
(* The two agents differ.  Texts and item names are left out.              *)
(***************************************************************************)
EXTENDS Integers, Sequences, FiniteSets, FiniteSetsExt

CONSTANTS
  Agents,       \* a sequence of agents [r, c, p] in the order of their JSON texts
  Draws,        \* the runs of random numbers one agent may draw in a round
  Modes,        \* the kinds of match, of "rps", "rap" and "auction"
  DuelRounds    \* bound: rounds of a match (9, 4 and 4 in the code)

VARIABLE duel

Off == [mode |-> "off"]

(* canonical: both phones sort the agents the same way. *)
Canonical(a, b) == a <= b

Outcome(x, y) == IF x = y THEN 0 ELSE IF (x + 2) % 3 = y THEN 1 ELSE -1
Last(s) == s[Len(s)]

(* hand: patience counters the last hand, cheek repeats a win, courage     *)
(* leans to the first hand.                                                *)
HandOf(ag, me, foe, v) ==
  LET later == me # <<>>
      won == later /\ Outcome(Last(me), Last(foe)) > 0
      x == v[IF won THEN 3 ELSE IF later THEN 2 ELSE 1]
  IN IF later /\ v[1] * 130 < ag.p * 100 THEN (Last(foe) + 1) % 3
     ELSE IF won /\ v[2] * 110 < ag.c * 100 THEN Last(me)
     ELSE IF 6 * x < 200 + 3 * ag.r THEN 0
     ELSE IF 12 * x < 800 + 3 * ag.r THEN 1 ELSE 2

(* playRps, one round: the stream of each agent comes from its own number, *)
(* handed out in the canonical order.                                      *)
RpsRound(a, b, rs, u, v) ==
  LET flip == ~Canonical(a, b)
      xs == [i \in DOMAIN rs |-> rs[i].x]
      ys == [i \in DOMAIN rs |-> rs[i].y]
      x == HandOf(Agents[a], xs, ys, IF flip THEN v ELSE u)
      y == HandOf(Agents[b], ys, xs, IF flip THEN u ELSE v)
      o == Outcome(x, y)
  IN [x |-> x, y |-> y, o |-> o, ga |-> IF o > 0 THEN 1 ELSE 0, gb |-> IF o < 0 THEN 1 ELSE 0]

(* rapLine: points from courage, patience and what lands on this rival. *)
RapLine(ag, foe, v) ==
  LET boast == v[1] * (ag.c + ag.p + 1) < 100 * ag.c
  IN [base |-> 3 + (v[2] * (200 + 7 * ag.r)) \div 10000,
      pat |-> IF ag.p > 60 THEN 1 ELSE 0,
      bon |-> IF (boast /\ foe.p < 40) \/ (~boast /\ foe.c > 60) THEN 1 ELSE 0]
Pts(l) == l.base + l.pat + l.bon

RapRound(a, b, rs, u, v) ==
  LET flip == ~Canonical(a, b)
      p == RapLine(Agents[IF flip THEN b ELSE a], Agents[IF flip THEN a ELSE b], u)
      q == RapLine(Agents[IF flip THEN a ELSE b], Agents[IF flip THEN b ELSE a], v)
      l == IF flip THEN q ELSE p
      m == IF flip THEN p ELSE q
  IN [x |-> l, y |-> m, o |-> 0, ga |-> Pts(l), gb |-> Pts(m)]

(* bidFor, in ten-thousandths: patience keeps money, courage overpays,     *)
(* cheek sometimes overbids.                                               *)
BidFor(ag, value, left, rest, v) ==
  LET keep == ag.p * (rest - 1) * 800
      raw == value * (4500 + 90 * ag.r) + IF v * 200 < ag.c * 100 THEN 80000 ELSE 0
      most == Min({raw, left * 10000 - keep})
  IN Max({0, Min({left, (most + 5000) \div 10000})})

Spent(rs, who) ==
  LET s[i \in 0..Len(rs)] == IF i = 0 THEN 0 ELSE s[i - 1] + rs[i].paid[who] IN s[Len(rs)]

AuctionRound(a, b, rs, u, v) ==
  LET flip == ~Canonical(a, b)
      who == IF flip THEN <<b, a>> ELSE <<a, b>>
      left == [k \in 1..2 |-> 100 - Spent(rs, who[k])]
      vals == <<20 + (u[1] * 41) \div 100, 20 + (v[1] * 41) \div 100>>
      rest == DuelRounds - Len(rs)
      bids == <<BidFor(Agents[who[1]], vals[1], left[1], rest, u[2]), BidFor(Agents[who[2]], vals[2], left[2], rest, v[2])>>
      win == IF bids[1] = bids[2] THEN 0 ELSE IF bids[1] > bids[2] THEN 1 ELSE 2
      A == IF flip THEN 2 ELSE 1
      gain(k) == IF win = k THEN vals[k] - bids[k] ELSE 0
  IN [x |-> [bid |-> bids[A], val |-> vals[A]], y |-> [bid |-> bids[3 - A], val |-> vals[3 - A]],
      o |-> IF win = 0 THEN 0 ELSE IF win = A THEN 1 ELSE -1,
      ga |-> gain(A), gb |-> gain(3 - A),
      paid |-> [g \in {a, b} |-> IF win # 0 /\ who[win] = g THEN bids[win] ELSE 0]]

(* Mutant of Round: the challenged phone hands the numbers out in its own order. *)
RoundBySeat(mode, a, b, rs, u, v) ==
  IF mode = "rps" THEN RpsRound(a, b, rs, IF a > b THEN v ELSE u, IF a > b THEN u ELSE v)
  ELSE IF mode = "rap" THEN RapRound(a, b, rs, u, v) ELSE AuctionRound(a, b, rs, u, v)

Round(mode, a, b, rs, u, v) ==
  IF mode = "rps" THEN RpsRound(a, b, rs, u, v)
  ELSE IF mode = "rap" THEN RapRound(a, b, rs, u, v) ELSE AuctionRound(a, b, rs, u, v)

Total(rs, f(_)) ==
  LET s[i \in 0..Len(rs)] == IF i = 0 THEN 0 ELSE s[i - 1] + f(rs[i]) IN s[Len(rs)]
ScoreA(rs) == LET f(r) == r.ga IN Total(rs, f)
ScoreB(rs) == LET f(r) == r.gb IN Total(rs, f)
Winner(rs) == IF ScoreA(rs) = ScoreB(rs) THEN 0 ELSE IF ScoreA(rs) > ScoreB(rs) THEN 1 ELSE -1

-----------------------------------------------------------------------------
(* explain: why the match ended like this, from the loser's side; the      *)
(* first of the largest reasons is named.                                  *)
Count(rs, P(_)) == Cardinality({i \in 1..Len(rs) : P(i)})

Best(list) ==
  LET tops == {i \in 1..Len(list) : list[i][2] > 0 /\ \A j \in 1..Len(list) : list[j][2] <= list[i][2]}
  IN IF tops = {} THEN "luck" ELSE list[Min(tops)][1]

ExplainRps(rs, lo) ==
  LET me(i) == IF lo = "a" THEN rs[i].x ELSE rs[i].y
      foe(i) == IF lo = "a" THEN rs[i].y ELSE rs[i].x
      lost(i) == IF lo = "a" THEN rs[i].o < 0 ELSE rs[i].o > 0
      won(i) == IF lo = "a" THEN rs[i].o > 0 ELSE rs[i].o < 0
      counter(i) == i > 1 /\ lost(i) /\ foe(i) = (me(i - 1) + 1) % 3
      again(i) == i > 1 /\ lost(i) /\ me(i) = me(i - 1) /\ won(i - 1)
      lead(i) == me(i) = 0
  IN Best(<< <<"rpsCounter", Count(rs, counter)>>, <<"rpsRepeat", Count(rs, again)>>,
             <<"rpsLead", IF Count(rs, lead) >= 5 THEN Count(rs, lead) ELSE 0>> >>)

ExplainRap(rs, lo) ==
  LET w(i) == IF lo = "a" THEN rs[i].y ELSE rs[i].x
      l(i) == IF lo = "a" THEN rs[i].x ELSE rs[i].y
      sum(f(_)) == LET s[i \in 0..Len(rs)] == IF i = 0 THEN 0 ELSE s[i - 1] + f(i) IN s[Len(rs)]
      base(i) == w(i).base - l(i).base
      pat(i) == w(i).pat - l(i).pat
      bon(i) == w(i).bon - l(i).bon
  IN Best(<< <<"rapCourage", sum(base)>>, <<"rapPatience", sum(pat)>>, <<"rapCounter", sum(bon)>> >>)

ExplainAuction(rs, lo, loser) ==
  LET mine == IF lo = "a" THEN 1 ELSE -1
      over(i) == rs[i].o = mine /\ (IF lo = "a" THEN rs[i].x.bid > rs[i].x.val ELSE rs[i].y.bid > rs[i].y.val)
  IN IF Count(rs, over) > 0 THEN "aucOver"
     ELSE IF 100 - Spent(rs, loser) >= 30 THEN "aucLeft" ELSE "aucFew"

Explain(mode, a, b, rs) ==
  LET lo == IF Winner(rs) > 0 THEN "b" ELSE "a"
  IN IF Winner(rs) = 0 THEN "draw"
     ELSE IF mode = "rps" THEN ExplainRps(rs, lo)
     ELSE IF mode = "rap" THEN ExplainRap(rs, lo)
     ELSE ExplainAuction(rs, lo, IF lo = "a" THEN a ELSE b)

-----------------------------------------------------------------------------
DuelInit ==
  \E m \in Modes, a, b \in DOMAIN Agents :
    a < b /\ duel = [mode |-> m, a |-> a, b |-> b, here |-> <<>>, there |-> <<>>]

(* One round on both phones, from the same numbers. *)
PlayRound(u, v) ==
  /\ Len(duel.here) < DuelRounds
  /\ duel' = [duel EXCEPT
       !.here = Append(@, Round(duel.mode, duel.a, duel.b, @, u, v)),
       !.there = Append(@, Round(duel.mode, duel.b, duel.a, @, u, v))]

DuelNext == duel # Off /\ \E u, v \in Draws : PlayRound(u, v)

DuelSpec == DuelInit /\ [][DuelNext]_duel

(* The match does not depend on the seat (comment above canonical): every  *)
(* round, the score, the winner and the reason given for it are the same   *)
(* on both phones, seen from the other side; nobody spends more than the   *)
(* 100 in an auction, and the reason is only luck when no count favours    *)
(* the winner.                                                             *)
SeatsDoNotMatter ==
  duel # Off =>
    /\ \A i \in 1..Len(duel.here) :
         /\ duel.here[i].x = duel.there[i].y /\ duel.here[i].y = duel.there[i].x
         /\ duel.here[i].o = -duel.there[i].o
    /\ ScoreA(duel.here) = ScoreB(duel.there) /\ ScoreB(duel.here) = ScoreA(duel.there)
    /\ Explain(duel.mode, duel.a, duel.b, duel.here) = Explain(duel.mode, duel.b, duel.a, duel.there)
    /\ duel.mode = "auction" => \A g \in {duel.a, duel.b} : Spent(duel.here, g) <= 100
    /\ duel.mode = "rap" => Explain("rap", duel.a, duel.b, duel.here) # "luck"
=============================================================================
