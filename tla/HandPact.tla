------------------------------ MODULE HandPact ------------------------------
(***************************************************************************)
(* What table.js promises about hands, without its messages: each player   *)
(* starts and ends its hands alone, hand by hand in rising numbers, and    *)
(* still all who play a hand together play the same one: the same people   *)
(* on the same seats under the same house rules.                           *)
(***************************************************************************)
EXTENDS Integers

CONSTANT Players

VARIABLES
  playing,  \* playing[p]: the hand p is in, a pact of number, roster and rules
  floor     \* floor[p]: no hand below this number will begin at p

Idle(p) == playing[p].no < 0
Plays(v, p) == \E s \in DOMAIN v.roster : v.roster[s] = p

Init == floor = [p \in Players |-> 0] /\ \A p \in Players : Idle(p)

Begin(p) ==
  /\ Idle(p) /\ playing'[p].no >= floor[p] /\ Plays(playing'[p], p)
  /\ \A q \in Players :
       Plays(playing'[p], q) /\ playing[q].no = playing'[p].no => playing[q] = playing'[p]
  /\ floor'[p] = floor[p]

End(p) == ~Idle(p) /\ playing'[p].no < 0 /\ floor'[p] = playing[p].no + 1

(* A player may learn that the others are at a later hand already. *)
CatchUp(p) == playing'[p] = playing[p] /\ floor'[p] >= floor[p]

Next == \A p \in Players : CatchUp(p) \/ Begin(p) \/ End(p)

Spec == Init /\ [][Next]_<<playing, floor>>
=============================================================================
