-------------------------------- MODULE Skat --------------------------------
(***************************************************************************)
(* A hand of Skat: the rules of SkatRules with what the three devices hold *)
(* besides the public state, and a client that may fail to follow suit.    *)
(***************************************************************************)
EXTENDS SkatRules

CONSTANTS
  Deals,     \* the deals: hands of the three seats and the skat
  HouseRules,\* the sets of house rules played with
  Dealers,   \* bound: who deals
  Values,    \* bound: the values players name when bidding
  Contracts  \* bound: the games players announce

VARIABLE
  skat      \* pub: the state the rules keep; cards[seat]: what the seat still
            \* holds; deal; aside: the two cards put aside; revoked: somebody
            \* did not follow suit

-----------------------------------------------------------------------------
(* A hand, from the deal to the last trick.  A dishonest client may also     *)
(* play a card that does not follow suit: apply() cannot see it.             *)

TypeOK ==
  /\ skat.pub.phase \in {"bid", "skat", "push", "declare", "show", "play", "done"}
  /\ skat.pub.kontra \in 0 .. 2 /\ skat.pub.next \in Seats \union {-1} /\ skat.pub.declarer \in Seats \union {-1}
  /\ skat.cards \in [Seats -> SUBSET DECK] /\ skat.aside \subseteq DECK /\ skat.revoked \in BOOLEAN

Init ==
  \E d \in Deals, dealer \in Dealers, r \in HouseRules :
    skat = [pub |-> Start(dealer, r), cards |-> d.hands, deal |-> d, aside |-> {}, revoked |-> FALSE]

Acts(seat, kind) ==
  {a \in Actions(skat.pub, seat, skat.cards[seat]) : a.t \in kind}

Bid(seat) ==
  \E a \in Acts(seat, {"bid", "hold", "pass"}) :
    /\ a.t = "bid" => a.v \in Values
    /\ \E s \in Apply(skat.pub, a) : skat' = [skat EXCEPT !.pub = s]
PickUp(seat) ==
  \E a \in Acts(seat, {"pickup"}) : \E s \in Apply(skat.pub, a) :
    skat' = [skat EXCEPT !.pub = s, !.cards[seat] = @ \union skat.deal.skat]
Push(seat) ==
  \E a \in Acts(seat, {"push"}), two \in kSubset(2, skat.cards[seat]) : \E s \in Apply(skat.pub, a) :
    skat' = [skat EXCEPT !.pub = s, !.cards[seat] = @ \ two, !.aside = two]
Declare(seat) ==
  \E a \in Acts(seat, {"declare"}) :
    /\ [game |-> a.c.game, ouvert |-> a.c.ouvert, schneider |-> a.c.schneider, schwarz |-> a.c.schwarz] \in Contracts
    /\ \E s \in Apply(skat.pub, a) : skat' = [skat EXCEPT !.pub = s]
Show(seat) ==
  \E a \in Acts(seat, {"show"}) : \E s \in Apply(skat.pub, a) : skat' = [skat EXCEPT !.pub = s]
SayKontra(seat) ==
  \E a \in Acts(seat, {"kontra", "re"}) : \E s \in Apply(skat.pub, a) : skat' = [skat EXCEPT !.pub = s]
PlayCard(seat) ==
  \E a \in Acts(seat, {"play"}) : \E s \in Apply(skat.pub, a) :
    skat' = [skat EXCEPT !.pub = s, !.cards[seat] = @ \ {a.card}]
Revoke(seat) ==
  \E c \in skat.cards[seat] :
    LET a == [t |-> "play", seat |-> seat, card |-> c] IN
    /\ skat.pub.phase = "play" /\ skat.pub.next = seat /\ ~skat.revoked
    /\ a \notin Actions(skat.pub, seat, skat.cards[seat])
    /\ \E s \in Apply(skat.pub, a) :
         skat' = [skat EXCEPT !.pub = s, !.cards[seat] = @ \ {c}, !.revoked = TRUE]

Next ==
  \E seat \in Seats :
    \/ Bid(seat)
    \/ PickUp(seat)
    \/ Push(seat)
    \/ Declare(seat)
    \/ Show(seat)
    \/ SayKontra(seat)
    \/ PlayCard(seat)
    \/ Revoke(seat)

Spec == Init /\ [][Next]_skat

-----------------------------------------------------------------------------
(* Properties. *)

Full == [hands |-> skat.deal.hands, skat |-> skat.deal.skat, pushed |-> skat.aside]


(* skat.js apply(), actions(), auto(): whatever was bid, announced and played, *)
(* the seat to move has a move until the hand is over, apply() accepts every   *)
(* move actions() offers to anybody, and it accepts the move Auto makes for a  *)
(* seat whose player is away: no hand is ever stuck.                           *)
NeverStuck ==
  LET s == skat.pub  seat == Turn(s)  hand == skat.cards[seat] IN
  /\ Done(s) = (seat = -1)
  /\ \A p \in Seats : \A a \in Actions(s, p, skat.cards[p]) : Apply(s, a) # {}
  /\ ~Done(s) => Actions(s, seat, hand) # {} /\ Apply(s, Auto(s, seat, hand)) # {}

(* skat.js audit(), result(): once the hands are known the audit names exactly *)
(* the hands in which somebody did not follow suit, the declarer did not pass, *)
(* no null was overbid, what is written down covers the bid, and in a Ramsch   *)
(* every card point of the deal is counted once.                               *)
FairSettlement ==
  LET s == skat.pub  all == UNION {skat.deal.hands[i] : i \in Seats} \union skat.deal.skat
      r == Result(s, Full) IN
  Done(s) =>
    /\ Audit(s, Full) = IF skat.revoked THEN {"follow"} ELSE {}
    /\ s.declarer \notin s.bid.passed
    /\ s.passedOut \/
         IF s.contract.ramsch
         THEN MapThenSumSet(LAMBDA i : RamschResult(s, Full).seatEyes[i], Seats) = EyesOf(all)
         ELSE r.value >= s.bid.v /\ ~(s.contract.game = "N" /\ r.overbid)
=============================================================================
