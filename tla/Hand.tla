-------------------------------- MODULE Hand --------------------------------
(***************************************************************************)
(* apps/duell-web/src/table.js, one hand of Skat at a full table: the deal *)
(* (shuffle, lock, keys), the moves every device applies for itself, seats *)
(* handed over and played on Auto, the reveal.  Messages are in order on a *)
(* link and in no order across links; one that arrives before what it      *)
(* builds on waits.  Cryptography is abstracted to who has which position  *)
(* key: a position opens once the keys of all seats are there.             *)
(***************************************************************************)
EXTENDS SkatRules

CONSTANTS
  Deck,       \* the deck as it comes out of the shuffle: position -> card
  Tables,     \* bounds: house rules, what players do themselves, the games announced, who may leave
  WAIT        \* a message that has to wait

VARIABLE
  hand        \* dev[seat]: the hand on that device; net[from][to]; table

Positions == 0 .. 3 * HAND + 1
HandOf(s) == s * HAND .. s * HAND + HAND - 1
SkatPos == {3 * HAND, 3 * HAND + 1}
CardsAt(ps) == {Deck[p] : p \in ps}
PosOf(c) == CHOOSE p \in Positions : Deck[p] = c

(* The state of the hand before begin(), and the outcome while there is none. *)
Absent == [phase |-> "absent"]
NoOutcome == [k |-> "none"]
Device(p) ==
  [d1 |-> 0, d2 |-> 0, dealt |-> FALSE, keys |-> [x \in Positions |-> {}], own |-> HandOf(p),
   open |-> {}, played |-> {}, pushed |-> {}, rev |-> {}, revPushed |-> [s \in Seats |-> {}],
   st |-> Absent, flags |-> {}, ghost |-> {}, gpushed |-> [s \in Seats |-> {}], revealed |-> FALSE,
   outcome |-> NoOutcome, closed |-> FALSE, links |-> Seats \ {p},
   queues |-> [s \in Seats |-> <<>>], out |-> [s \in Seats |-> <<>>]]

Has(h) == h.st # Absent /\ h.outcome = NoOutcome
SendTo(h, s, m) == IF s \in h.links THEN [h EXCEPT !.out[s] = Append(@, m)] ELSE h
All(h, m) == [h EXCEPT !.out = [s \in Seats |-> IF s \in h.links THEN Append(@[s], m) ELSE @[s]]]

-----------------------------------------------------------------------------
(* The deal. *)

Final(h) == h.d2 = SEATS
KeysFor(p, h, x) == \A s \in Seats : s = p \/ s \in h.ghost \/ s \in h.keys[x]
OpenOwn(p, h) == IF Final(h) THEN [h EXCEPT !.open = @ \union {x \in h.own : KeysFor(p, h, x)}] ELSE h

Step(p, h) ==
  LET a == IF h.d1 = p THEN All([h EXCEPT !.d1 = @ + 1], [t |-> "s1"]) ELSE h
      b == IF a.d1 = SEATS /\ a.d2 = p THEN All([a EXCEPT !.d2 = @ + 1], [t |-> "s2"]) ELSE a
      keys(s) == IF s \in b.links THEN <<[t |-> "keys", pos |-> HandOf(s)]>> ELSE <<>>
  IN IF Final(b) /\ ~b.dealt
     THEN OpenOwn(p, [b EXCEPT !.dealt = TRUE, !.out = [s \in Seats |-> @[s] \o keys(s)]])
     ELSE b

BeginHand(p, h) ==
  Step(p, [h EXCEPT !.st = Start(0, hand.table.rules)])

-----------------------------------------------------------------------------
(* What a seat may do with a position, and the cards one still holds. *)

Live(h) == (h.own \cap h.open) \ (h.played \union h.pushed)
MyCards(h) == CardsAt(Live(h))
Allowed(h, s, x) ==
  x \notin h.played /\ (x \in HandOf(s) \/ (x \in SkatPos /\ h.st.declarer = s /\ h.st.pickedUp))
GhostCards(h, s) ==
  CardsAt((HandOf(s) \union IF h.st.declarer = s /\ h.st.pickedUp THEN SkatPos ELSE {})
             \ (h.played \union h.gpushed[s]))

-----------------------------------------------------------------------------
(* The end: all secrets are in, the deal is replayed and the hand scored. *)

FullDeal(h) ==
  [hands |-> [s \in Seats |-> CardsAt(HandOf(s))], skat |-> CardsAt(SkatPos),
   pushed |-> IF h.st.declarer >= 0 /\ h.st.pickedUp THEN CardsAt(h.revPushed[h.st.declarer]) ELSE {}]
Finish(h) ==
  IF ~(h.rev = Seats) THEN h
  ELSE [h EXCEPT !.queues = [s \in Seats |-> <<>>], !.out = @,
                 !.outcome = [k |-> "over", st |-> h.st, pushed |-> h.revPushed,
                              audit |-> Audit(h.st, FullDeal(h)) \union h.flags]]

(* A seat that was handed over moves at once, the same on every device. *)
GhostMoved(h, s, a, r) ==
  IF r = {} THEN [h EXCEPT !.flags = @ \union {"auto"}]
  ELSE [h EXCEPT !.st = CHOOSE x \in r : TRUE,
                 !.played = IF a.t = "play" THEN @ \union {PosOf(a.card)} ELSE @,
                 !.gpushed[s] = IF a.t = "push" THEN {PosOf(c) : c \in a.cards} ELSE @]
GhostActs(h, s, a) == GhostMoved(h, s, a, Apply(h.st, a))
GhostMove(p, h) ==
  LET s == Turn(h.st) IN
  IF Done(h.st) \/ s \notin h.ghost \/ s = p THEN h ELSE GhostActs(h, s, Auto(h.st, s, GhostCards(h, s)))
(* at most every card and a handful of announcements *)
MostMoves == SEATS * HAND + 6

(* The hand is done: the secrets of the seats handed over are known, the    *)
(* own ones are shown to all.                                               *)
GhostsRevealed(h) ==
  [h EXCEPT !.rev = @ \union h.ghost,
            !.revPushed = [s \in Seats |-> IF s \in h.ghost THEN h.gpushed[s] ELSE @[s]]]
Revealed(p, h) ==
  IF h.revealed THEN h
  ELSE All([h EXCEPT !.revealed = TRUE, !.rev = @ \union {p}, !.revPushed[p] = h.pushed],
           [t |-> "rev", pushed |-> h.pushed])
IfDone(p, h) == IF Done(h.st) THEN Finish(Revealed(p, GhostsRevealed(h))) ELSE h
Settle(p, h) ==
  LET after[n \in 0 .. MostMoves] == IF n = 0 THEN h ELSE GhostMove(p, after[n - 1])
  IN IfDone(p, IF h.ghost = {} THEN h ELSE after[MostMoves])

(* every card of that player opens with the keys of the handover *)
TakeOver(p, h, s, m) ==
  Settle(p, OpenOwn(p, [h EXCEPT !.ghost = @ \union {s}, !.gpushed[s] = m.pushed]))

-----------------------------------------------------------------------------
(* The messages of a hand: the set of records after it, or WAIT. *)

Moved(p, h, st) == Settle(p, [h EXCEPT !.st = st])

(* mutant: a card that does not fit yet counts as a wrong card *)
TakePlayAccuses(p, h, s, m) ==
  LET r == Apply(h.st, [t |-> "play", seat |-> s, card |-> Deck[m.pos]]) IN
  IF ~Allowed(h, s, m.pos) \/ r = {} THEN {[h EXCEPT !.flags = @ \union {"card"}]}
  ELSE {Moved(p, [h EXCEPT !.played = @ \union {m.pos}], st) : st \in r}
TakePlay(p, h, s, m) ==
  LET r == Apply(h.st, [t |-> "play", seat |-> s, card |-> Deck[m.pos]]) IN
  IF ~Allowed(h, s, m.pos)
  THEN IF Turn(h.st) # s THEN {WAIT} ELSE {[h EXCEPT !.flags = @ \union {"card"}]}
  ELSE IF r = {} THEN {WAIT}
  ELSE {Moved(p, [h EXCEPT !.played = @ \union {m.pos}], st) : st \in r}
TakeShow(p, h, s, m) ==
  LET r == Apply(h.st, [t |-> "show", seat |-> s, cards |-> CardsAt(m.pos)]) IN
  IF \E x \in m.pos : ~Allowed(h, s, x) THEN {[h EXCEPT !.flags = @ \union {"card"}]}
  ELSE IF r = {} THEN {WAIT} ELSE {Moved(p, h, st) : st \in r}
(* mutant: a second Kontra is not recognised *)
TakeOtherNoLate(p, h, s, m) ==
  LET r == Apply(h.st, m.a)
      keys == [t |-> "keys", pos |-> SkatPos]
      u == IF m.a.t # "pickup" THEN h ELSE IF s = p THEN [h EXCEPT !.own = @ \union SkatPos] ELSE SendTo(h, s, keys)
  IN IF r = {} THEN {WAIT} ELSE {Moved(p, OpenOwn(p, [u EXCEPT !.st = st]), st) : st \in r}
(* the other seats hand their keys of the skat to the one who picks it up *)
TakeOther(p, h, s, m) ==
  LET r == Apply(h.st, m.a)
      keys == [t |-> "keys", pos |-> SkatPos]
      u == IF m.a.t # "pickup" THEN h ELSE IF s = p THEN [h EXCEPT !.own = @ \union SkatPos] ELSE SendTo(h, s, keys)
  IN IF KontraLate(h.st, m.a) THEN {h}
     ELSE IF r = {} THEN {WAIT} ELSE {Moved(p, OpenOwn(p, [u EXCEPT !.st = st]), st) : st \in r}

Game(p, h, s, m) ==
  CASE ~Has(h) -> IF h.st = Absent THEN {WAIT} ELSE {h}
    [] Has(h) /\ m.t = "s1" ->
         IF h.d1 < s THEN {WAIT} ELSE {IF h.d1 = s THEN Step(p, [h EXCEPT !.d1 = @ + 1]) ELSE h}
    [] Has(h) /\ m.t = "s2" ->
         IF h.d1 < SEATS \/ h.d2 < s THEN {WAIT}
         ELSE {IF h.d2 = s THEN Step(p, [h EXCEPT !.d2 = @ + 1]) ELSE h}
    [] Has(h) /\ m.t = "keys" ->
         {Settle(p, OpenOwn(p, [h EXCEPT !.keys = [x \in Positions |->
                                   IF x \in m.pos THEN @[x] \union {s} ELSE @[x]]]))}
    [] Has(h) /\ m.t = "rev" ->
         IF ~Done(h.st) THEN {WAIT}
         ELSE {Finish([h EXCEPT !.rev = @ \union {s}, !.revPushed[s] = m.pushed])}
    [] Has(h) /\ m.t = "handover" ->
         IF ~Final(h) THEN {WAIT}
         ELSE {IF s = p \/ s \in h.ghost \union h.rev THEN h ELSE TakeOver(p, h, s, m)}
    [] Has(h) /\ m.t = "act" ->
         IF ~Final(h) THEN {WAIT}
         ELSE CASE m.a.t = "play" -> TakePlay(p, h, s, m)
                [] m.a.t = "show" -> TakeShow(p, h, s, m)
                [] OTHER -> TakeOther(p, h, s, m)

(* A player is gone: unless the seat was handed over, the hand is dropped. *)
RemovePlayer(h, id) ==
  LET waits == \E i \in DOMAIN h.queues[id] : h.queues[id][i].t = "handover" IN
  IF Has(h) /\ (id \in h.ghost \/ waits) THEN [h EXCEPT !.links = @ \ {id}]
  ELSE [h EXCEPT !.links = @ \ {id}, !.queues[id] = <<>>,
                 !.outcome = IF @ = NoOutcome THEN [k |-> "dropped"] ELSE @]

Handle(p, h, s, m) ==
  CASE m.t = "gone" -> {RemovePlayer(h, m.id)}
    [] m.t # "gone" -> Game(p, h, s, m)

(* pump(): every queue is worked off as far as it goes. *)
First(h, ripe) == IF ripe = {} THEN h ELSE (CHOOSE x \in ripe : \A y \in ripe : x.from <= y.from).to
PumpOne(p, h) ==
  First(h, UNION {{[from |-> s, to |-> u] : u \in Handle(p, [h EXCEPT !.queues[s] = Tail(@)], s, Head(h.queues[s])) \ {WAIT}}
                   : s \in {s \in Seats : h.queues[s] # <<>>}})
Pump(p, h) ==
  LET after[n \in 0 .. 8] == IF n = 0 THEN h ELSE PumpOne(p, after[n - 1]) IN after[8]
Inbox(p, h, s, m) == IF h.closed THEN h ELSE Pump(p, [h EXCEPT !.queues[s] = Append(@, m)])

-----------------------------------------------------------------------------
(* The steps of a device. *)

Commit(p, h) ==
  hand' = [hand EXCEPT !.dev[p] = [h EXCEPT !.out = [s \in Seats |-> <<>>]],
                       !.net[p] = [s \in Seats |-> @[s] \o h.out[s]]]

(* maybeReady() has found everybody ready: see Table.Begin *)
Begin(p) ==
  /\ hand.dev[p].st = Absent /\ hand.dev[p].outcome = NoOutcome /\ ~hand.dev[p].closed
  /\ Commit(p, Pump(p, BeginHand(p, hand.dev[p])))

CLOSE == [t |-> "close"]
Lost(h, q) ==
  IF h.closed \/ q \notin h.links THEN h
  ELSE RemovePlayer(All([h EXCEPT !.links = @ \ {q}], [t |-> "gone", id |-> q]), q)
Received(p, q, h) ==
  hand' = [hand EXCEPT !.dev[p] = [h EXCEPT !.out = [s \in Seats |-> <<>>]],
                       !.net = [s \in Seats |->
                         IF s = p THEN [r \in Seats |-> @[s][r] \o h.out[r]]
                         ELSE IF s = q THEN [@[s] EXCEPT ![p] = Tail(@)] ELSE @[s]]]
Deliver(p, q) ==
  /\ hand.net[q][p] # <<>>
  /\ LET m == Head(hand.net[q][p]) IN
     Received(p, q, IF m = CLOSE THEN Lost(hand.dev[p], q) ELSE Inbox(p, hand.dev[p], q, m))

MayAct(p) ==
  LET h == hand.dev[p] IN
  Has(h) /\ ~h.closed /\ Final(h) /\ h.queues[p] = <<>> /\ h.own \subseteq h.open

ActMsg(h, a) ==
  CASE a.t = "play" -> [t |-> "act", a |-> a, pos |-> PosOf(a.card)]
    [] a.t = "show" -> [t |-> "act", a |-> a, pos |-> Live(h)]
    [] OTHER -> [t |-> "act", a |-> a]
Act(p, h, a) ==
  LET m == ActMsg(h, a)
      u == IF a.t = "push" THEN [h EXCEPT !.pushed = {PosOf(c) : c \in a.cards}] ELSE h
  IN Commit(p, Inbox(p, All(u, m), p, m))

Wanted(a) ==
  /\ a.t \in hand.table.moves
  /\ a.t = "bid" => a.v = 18
  /\ a.t = "declare" => a.c.game \in hand.table.games /\ ~a.c.schneider /\ a.c.ouvert = hand.table.ouvert
Move(p) ==
  /\ MayAct(p)
  /\ \E a \in Actions(hand.dev[p].st, p, MyCards(hand.dev[p])) :
       /\ Wanted(a)
       /\ Act(p, hand.dev[p], a)
(* the clock ran out: the rules pick the move *)
Fire(p) ==
  /\ MayAct(p) /\ Turn(hand.dev[p].st) = p
  /\ Act(p, hand.dev[p], Auto(hand.dev[p].st, p, MyCards(hand.dev[p])))

HandOver(p, h) ==
  IF Has(h) /\ Final(h) /\ ~Done(h.st) /\ h.own \subseteq h.open
  THEN <<[t |-> "handover", pushed |-> h.pushed], CLOSE>> ELSE <<CLOSE>>
Leave(p) ==
  LET h == hand.dev[p] IN
  /\ p \in hand.table.leavers /\ \A s \in Seats : ~hand.dev[s].closed
  /\ Commit(p, [h EXCEPT !.closed = TRUE, !.links = {},
                         !.out = [s \in Seats |-> IF s \in h.links THEN HandOver(p, h) ELSE <<>>]])

Init ==
  \E tb \in Tables :
    hand = [dev |-> [p \in Seats |-> Device(p)], net |-> [p \in Seats |-> [q \in Seats |-> <<>>]], table |-> tb]

Next ==
  \E p \in Seats :
    \/ Begin(p)
    \/ Move(p)
    \/ Fire(p)
    \/ Leave(p)
    \/ \E q \in Seats : Deliver(p, q)

Spec == Init /\ [][Next]_hand

-----------------------------------------------------------------------------
(* Properties. *)

(* table.js game(), settle(), finish(): every device that plays a hand to its *)
(* end has reached the same state, the same score and an audit without a      *)
(* mark, in whatever order the moves, the calls and a handover came in; and   *)
(* no device ever accuses an honest seat.                                     *)
HandsAgree ==
  LET over == {p \in Seats : hand.dev[p].outcome.k = "over"} IN
  /\ \A p \in Seats : hand.dev[p].flags = {}
  /\ \A p \in over : hand.dev[p].outcome.audit = {}
  /\ \A p, q \in over : hand.dev[p].outcome = hand.dev[q].outcome

(* table.js pump(), WAIT: once every message has arrived and nobody left      *)
(* without handing over, nothing waits in a queue for good: either the hand   *)
(* is over everywhere, or the devices agree on the state and the player whose *)
(* turn it is can move.                                                       *)
NothingWaitsForGood ==
  LET here == {p \in Seats : ~hand.dev[p].closed}
      quiet == \A p, q \in Seats : hand.net[p][q] = <<>>
      begun == \A p \in here : hand.dev[p].st # Absent
      playing == {p \in here : Has(hand.dev[p])}
  IN quiet /\ begun /\ (\A p \in here : hand.dev[p].outcome.k # "dropped") =>
       /\ \A p \in playing : \A q \in Seats : hand.dev[p].queues[q] = <<>>
       /\ playing \in {{}, here}
       /\ \A p, q \in playing : hand.dev[p].st = hand.dev[q].st
       /\ \A p \in playing : Turn(hand.dev[p].st) \in here /\ MayAct(Turn(hand.dev[p].st))
=============================================================================
