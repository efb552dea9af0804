------------------------------- MODULE Poker -------------------------------
(***************************************************************************)
(* The deal without a dealer (mpoker.js): every seat shuffles and locks    *)
(* the whole deck, then changes its one lock for a key of its own on every *)
(* position; when the hand is over all secrets are shown and verify        *)
(* replays the deal.                                                       *)
(*                                                                         *)
(* The curve is a group of prime order L; only the x-coordinate of a point *)
(* is kept, so a point and its negative are one.  A point is the least of  *)
(* the two multiples of the generator it stands for.                       *)
(***************************************************************************)
EXTENDS Integers, Sequences, FiniteSets, SequencesExt, FiniteSetsExt

CONSTANTS
  L,          \* the order of the group (2^252 + ... in the code), a prime
  NCARDS,     \* cards (32 or 48 in the code), at most (L - 1) \div 2
  SEATS,      \* players (2 to 4 in the code)
  PokerKeys   \* the keys drawn (bound), a subset of 1 .. L - 1

VARIABLE poker

Off == [phase |-> "off"]
Points == 1 .. ((L - 1) \div 2)
Positions == 1..NCARDS
Decks == [Positions -> Points]
Perms == {p \in [Positions -> Positions] : IsInjective(p)}

(* pow: the ladder returns the x-coordinate of k times a point. *)
Pow(k, u) == LET v == (k * u) % L IN Min({v, L - v})
InvL(k) == CHOOSE i \in 1 .. (L - 1) : (i * k) % L = 1

(* The open deck: card i is i times the generator. *)
Cards == [i \in Positions |-> Pow(i, 1)]
Secrets == [k : PokerKeys, perm : Perms, ki : [Positions -> PokerKeys]]
ValidSecrets(sec) == sec.perm \in Perms /\ sec.k \in 1 .. (L - 1) /\ \A i \in Positions : sec.ki[i] \in 1 .. (L - 1)

Shuffled(deck, sec) == [i \in Positions |-> Pow(sec.k, deck[sec.perm[i]])]

(* Mutant of Locked: the seat's first lock stays on. *)
LockedTwice(deck, sec) == [i \in Positions |-> Pow(sec.ki[i], deck[i])]

(* lock: the one lock comes off, the position's key goes on. *)
Locked(deck, sec) == [i \in Positions |-> Pow(InvL(sec.k) * sec.ki[i], deck[i])]

(* open: all keys of a position -> the card there, or 0 (-1 in the code). *)
Opened(v, keys) ==
  LET m == Pow(InvL(FoldLeft(LAMBDA a, b : (a * b) % L, 1, keys)), v)
  IN IF \E c \in Positions : Cards[c] = m THEN CHOOSE c \in Positions : Cards[c] = m ELSE 0

(* verify: the deck is replayed from the open one, seat after seat, with   *)
(* the secrets shown; the first seat whose deck differs is named.          *)
Verify(t) ==
  LET one(s) == FoldLeft(Shuffled, Cards, SubSeq(t.sec, 1, s))
      two(s) == FoldLeft(Locked, one(SEATS), SubSeq(t.sec, 1, s))
      bad1 == {s \in 1..SEATS : ~ValidSecrets(t.sec[s]) \/ one(s) # t.d1[s]}
      bad2 == {s \in 1..SEATS : two(s) # t.d2[s]}
      ids == [i \in Positions |-> Opened(two(SEATS)[i], [s \in 1..SEATS |-> t.sec[s].ki[i]])]
  IN IF bad1 # {} THEN [ok |-> FALSE, seat |-> Min(bad1)]
     ELSE IF bad2 # {} THEN [ok |-> FALSE, seat |-> Min(bad2)]
     ELSE IF ids \notin Perms THEN [ok |-> FALSE, seat |-> 0]
     ELSE [ok |-> TRUE, seat |-> 0, deck |-> ids]

-----------------------------------------------------------------------------
(* A hand at the table: begin draws the secrets; at most one seat plays    *)
(* foul, once: it sends another deck than its own, or shows other secrets. *)
PokerInit == \E foul \in 0..SEATS :
  poker = [phase |-> "deal", sec |-> <<>>, d1 |-> <<>>, d2 |-> <<>>, foul |-> foul, done |-> FALSE]

MayFoul(s) == poker.foul = s /\ ~poker.done
Before == LET d == poker.d1 \o poker.d2 IN IF d = <<>> THEN Cards ELSE d[Len(d)]

(* step of table.js: shuffle, then lock, when it is this seat's turn.  The *)
(* secrets are drawn here, where they are first used.                      *)
Shuffle(sec, deck) ==
  /\ poker.phase = "deal" /\ Len(poker.d1) < SEATS
  /\ deck # Shuffled(Before, sec) => MayFoul(Len(poker.d1) + 1)
  /\ poker' = [poker EXCEPT !.d1 = Append(@, deck), !.sec = Append(@, sec),
                            !.done = @ \/ deck # Shuffled(Before, sec)]
Lock(ki, deck) ==
  LET s == Len(poker.d2) + 1
      sec == [poker.sec[s] EXCEPT !.ki = ki]
  IN /\ poker.phase = "deal" /\ Len(poker.d1) = SEATS /\ s <= SEATS
     /\ deck # Locked(Before, sec) => MayFoul(s)
     /\ poker' = [poker EXCEPT !.d2 = Append(@, deck), !.sec[s] = sec, !.done = @ \/ deck # Locked(Before, sec)]

(* rev: the hand is over, and everybody shows the secrets. *)
Show(s, sec) ==
  /\ poker.phase = "deal" /\ Len(poker.d2) = SEATS
  /\ sec # poker.sec[s] => MayFoul(s)
  /\ poker' = [poker EXCEPT !.phase = "shown", !.sec[s] = sec, !.done = @ \/ sec # poker.sec[s]]

(* The false secrets (bound): another lock, or a card drawn twice. *)
Lies(sec) == {[sec EXCEPT !.k = k] : k \in PokerKeys} \cup {[sec EXCEPT !.perm[1] = (@ % NCARDS) + 1]}

PokerNext ==
  /\ poker # Off
  /\ \/ \E k \in PokerKeys, perm \in Perms, deck \in Decks :
          Shuffle([k |-> k, perm |-> perm, ki |-> [i \in Positions |-> 1]], deck)
     \/ \E ki \in [Positions -> PokerKeys], deck \in Decks : Lock(ki, deck)
     \/ poker.phase = "deal" /\ \E s \in 1 .. Len(poker.d2) : \E sec \in Lies(poker.sec[s]) : Show(s, sec)

PokerSpec == PokerInit /\ [][PokerNext]_poker

-----------------------------------------------------------------------------
(* verify finds out what happened: a deal all seats made honestly passes   *)
(* and gives every card the place the shuffles put it in; a deal that      *)
(* passes holds every card once, and the keys shown open each position of  *)
(* the deck that was played to that card; and when it fails, the seat that *)
(* is named is the one that played foul, never one dealt a foul deck.      *)
TheDealIsProved ==
  poker.phase = "shown" =>
    LET v == Verify(poker)
        at(i) == FoldRight(LAMBDA sec, p : sec.perm[p], poker.sec, i)
    IN /\ ~poker.done => v.ok /\ \A i \in Positions : v.deck[i] = at(i)
       /\ v.ok => /\ v.deck \in Perms
                  /\ \A i \in Positions :
                       Opened(poker.d2[SEATS][i], [s \in 1..SEATS |-> poker.sec[s].ki[i]]) = v.deck[i]
       /\ ~v.ok => v.seat = poker.foul
=============================================================================
