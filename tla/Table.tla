------------------------------- MODULE Table -------------------------------
(***************************************************************************)
(* apps/duell-web/src/table.js, the table itself: who sits where, who      *)
(* invites whom, which house rules hold and when a hand begins.  There is  *)
(* no server: every player keeps a table record of its own and the records *)
(* are brought together by messages, in order on each link and in no order *)
(* across links.  A handler is an operator on one player's record that     *)
(* also fills `out` (what it sends) and `shut` (the links it closes).      *)
(* The cards of a hand are module Hand; here a hand is dealt, done and     *)
(* revealed.  Names, scores, the Auto mark and the badge are left out.     *)
(***************************************************************************)
EXTENDS Integers, Sequences, SequencesExt, FiniteSets, FiniteSetsExt

CONSTANTS
  Players,     \* the players' ids, compared by takeRules
  RuleLists,   \* the house rules one can choose
  Evenings     \* bounds: the game, who comes and how much may happen

ASSUME PlayersAssumption ==
  /\ Players \subseteq Nat \ {0} /\ IsFiniteSet(Players)
  /\ RuleLists # {}

(* An evening: the game (its seats, and whether it has reveals() as          *)
(* Bauernskat does), the players who sit at the table when it starts, those  *)
(* who may come and who touches the rules, and how many hands, changes of    *)
(* the rules, invitations and faults (departures, failed connections,        *)
(* dropped messages) there are.                                              *)
Evening ==
  [seats : Nat \ {0, 1}, reveals : BOOLEAN, seated : SUBSET Players \ {{}},
   coming : SUBSET Players, choosers : SUBSET Players, hands : Nat, rules : Nat, invites : Nat, faults : Nat]
ASSUME EveningsAssumption ==
  Evenings \subseteq Evening /\ \A e \in Evenings : Cardinality(e.seated) <= e.seats

VARIABLES
  tab,      \* tab[p]: the closure of Table() on p's device
  ends,     \* ends[p][q]: what p's end of the link to q is waiting for
  chan,     \* chan[p][q]: what p sent q and q has not received yet
  tokens,   \* the invitations the bridge would still accept
  made,     \* how many invitations there were
  faults,   \* departures, failed connections and dropped messages so far
  evening   \* the evening's bounds

vars == <<tab, ends, chan, tokens, made, faults, evening>>

Nobody == 0
Seats  == 0 .. evening.seats - 1
NoReady == [no |-> -1, roster |-> <<>>, rules |-> {}]
NoHand  == [pact |-> NoReady,
            dealt |-> FALSE, done |-> FALSE, ghost |-> {}, rev |-> {}]
Member(id, seat) == [id |-> id, seat |-> seat, peers |-> {}, gone |-> FALSE]

-----------------------------------------------------------------------------
(* Small helpers on one player's record t of player p. *)

Known(t, id) == \E i \in DOMAIN t.members : t.members[i].id = id
MemberOf(t, id) == t.members[CHOOSE i \in DOMAIN t.members : t.members[i].id = id]
Others(t) == {t.members[i].id : i \in DOMAIN t.members}

(* members keeps its insertion order, as the keys of an object do *)
Put(t, m) ==
  IF Known(t, m.id)
  THEN [t EXCEPT !.members = [i \in DOMAIN @ |-> IF @[i].id = m.id THEN m ELSE @[i]]]
  ELSE [t EXCEPT !.members = Append(@, m)]
Without(t, id) == [t EXCEPT !.members = SelectSeq(@, LAMBDA m : m.id # id)]

HasHand(t) == t.hand.pact.no >= 0

(* the first member on a seat counts, and the player itself before all *)
Roster(p, t) ==
  [s \in Seats |->
     IF t.seat = s THEN p
     ELSE LET at == SelectSeq(t.members, LAMBDA m : m.seat = s)
          IN IF at = <<>> THEN Nobody ELSE at[1].id]

Free(p, t) ==
  LET open == {s \in Seats : Roster(p, t)[s] = Nobody /\ t.holds[s] = Nobody}
  IN IF open = {} THEN -1 ELSE Min(open)

Complete(p, t) ==
  LET r == Roster(p, t) IN
  /\ \A s \in Seats : r[s] # Nobody
  /\ \A i \in DOMAIN t.members :
       /\ t.members[i].id \in t.links
       /\ \A s \in Seats : r[s] = t.members[i].id \/ r[s] \in t.members[i].peers

Send(t, to, m) == IF to \in t.links THEN [t EXCEPT !.out[to] = Append(@, m)] ELSE t
All(t, m) ==
  [t EXCEPT !.out = [q \in Players |-> IF q \in t.links THEN Append(@[q], m) ELSE @[q]]]
AllPeers(t) == All(t, [t |-> "peers", ids |-> t.links])

-----------------------------------------------------------------------------
(* House rules. *)

TakeRules(t, h, force) ==
  LET newer == \/ force \/ h.v > t.house.v
               \/ h.v = t.house.v /\ h.by # Nobody
                    /\ (t.house.by = Nobody \/ h.by < t.house.by)
  IN IF newer THEN [t EXCEPT !.house = h] ELSE t

RulesOpen(p, t) ==
  ~HasHand(t) /\ ~t.closed /\ t.seat >= 0 /\ ~(t.meReady # NoReady /\ Complete(p, t))

-----------------------------------------------------------------------------
(* Starting a hand. *)

Begin(p, t) ==
  [t EXCEPT !.hand = [NoHand EXCEPT !.pact = [no |-> t.no, roster |-> Roster(p, t), rules |-> t.house.r]],
            !.want = FALSE, !.meReady = NoReady, !.readies = [q \in Players |-> NoReady]]

(* ready is said once per pact *)
SayReady(p, t, now) ==
  IF t.want /\ Complete(p, t) /\ t.meReady # now
  THEN All([t EXCEPT !.meReady = now], [t |-> "ready", r |-> now]) ELSE t
BeginIf(p, t, agreed) == IF agreed /\ Complete(p, t) THEN Begin(p, t) ELSE t
(* mutant: a ready under other house rules counts *)
AgreedAnyRules(t, now) ==
  t.meReady = now /\ \A q \in Others(t) : [t.readies[q] EXCEPT !.rules = now.rules] = now
Agreed(t, now) == t.meReady = now /\ \A q \in Others(t) : t.readies[q] = now
ReadyFor(p, t, now) == BeginIf(p, t, Agreed(t, now))
MaybeReadyFor(p, t, now) == ReadyFor(p, SayReady(p, t, now), now)
MaybeReady(p, t) ==
  IF t.closed \/ HasHand(t) \/ t.seat < 0 THEN t
  ELSE MaybeReadyFor(p, t, [no |-> t.no, roster |-> Roster(p, t), rules |-> t.house.r])

-----------------------------------------------------------------------------
(* Departures. *)

Close(t, q) == [t EXCEPT !.links = @ \ {q}, !.shut = @ \union ({q} \cap t.links)]

(* A seat that was handed over, or whose handover still waits in the queue, *)
(* stays until the hand is over; any other departure ends the hand.         *)
HandedOver(t, id) ==
  /\ HasHand(t) /\ \E s \in Seats : t.hand.pact.roster[s] = id
  /\ \/ id \in t.hand.ghost
     \/ \E i \in DOMAIN t.queues[id] :
          t.queues[id][i].t = "handover" /\ t.queues[id][i].no = t.hand.pact.no

(* mutant: the running hand goes on without the player *)
RemoveKeepsHand(p, t, id) ==
  IF ~Known(t, id) THEN t
  ELSE IF HandedOver(t, id)
  THEN Close(Put(t, [MemberOf(t, id) EXCEPT !.gone = TRUE]), id)
  ELSE MaybeReady(p, AllPeers([Close(Without(t, id), id) EXCEPT
                                 !.readies[id] = NoReady, !.queues[id] = <<>>]))
RemovePlayer(p, t, id) ==
  IF ~Known(t, id) THEN t
  ELSE IF HandedOver(t, id)
  THEN Close(Put(t, [MemberOf(t, id) EXCEPT !.gone = TRUE]), id)
  ELSE LET u == [Close(Without(t, id), id) EXCEPT
                   !.readies[id] = NoReady, !.queues[id] = <<>>]
           v == IF HasHand(t)
                THEN [u EXCEPT !.hand = NoHand, !.no = @ + 1, !.want = TRUE]
                ELSE u
       IN MaybeReady(p, AllPeers(v))

Dropped(p, t, id) ==
  LET u == [t EXCEPT !.links = @ \ {id}]
  IN RemovePlayer(p, All(u, [t |-> "gone", id |-> id]), id)

(* Standing up: a dealt hand is handed over, and the links close behind it. *)
HandOverMsg(t) ==
  IF HasHand(t) /\ t.hand.dealt /\ ~t.hand.done /\ t.seat >= 0
  THEN <<[t |-> "handover", no |-> t.hand.pact.no]>> ELSE <<>>

Leave(t, now) ==
  IF t.closed THEN t
  ELSE IF ~now /\ evening.reveals /\ HasHand(t) /\ t.hand.dealt /\ ~t.hand.done /\ t.seat >= 0
  THEN [t EXCEPT !.leaving = TRUE]
  ELSE [t EXCEPT !.closed = TRUE, !.links = {}, !.shut = @ \union t.links,
                 !.out = [q \in Players |-> IF q \in t.links THEN @[q] \o HandOverMsg(t) ELSE @[q]]]

(* All secrets are in: the hand is over and the handed-over seats are free. *)
Finish(p, t) ==
  IF ~(HasHand(t) /\ \A s \in Seats : t.hand.pact.roster[s] \in t.hand.rev) THEN t
  ELSE LET u == [t EXCEPT !.hand = NoHand, !.no = @ + 1]
           goners == SelectSeq(t.members, LAMBDA m : m.gone)
       IN FoldLeft(LAMBDA v, m : RemovePlayer(p, v, m.id), u, goners)

-----------------------------------------------------------------------------
(* A link is up and the other side has said who it is. *)

(* a group link: who connects first gets the lowest seat it still holds *)
LowestOfGroup(p, t, rec) ==
  LET lower == {i \in t.invites : /\ rec.group > 0 /\ i.group = rec.group
                                  /\ i.seat \in 0 .. rec.seat - 1 /\ t.holds[i.seat] = p}
  IN IF lower = {} THEN [t |-> t, seat |-> rec.seat]
     ELSE LET i == CHOOSE i \in lower : \A j \in lower : i.seat <= j.seat
          IN [t |-> [t EXCEPT !.invites = (@ \ {i}) \union {[i EXCEPT !.seat = rec.seat]}],
              seat |-> i.seat]

Unhold(p, t, s) ==
  IF s >= 0 /\ t.holds[s] = p
  THEN All([t EXCEPT !.holds[s] = Nobody], [t |-> "unhold", seat |-> s])
  ELSE t

SeatMsg(t, id, s) ==
  [t |-> "seat", seat |-> s, no |-> t.no, house |-> t.house,
   members |-> SelectSeq(t.members, LAMBDA m : m.id # id)]

Met(t, id) == IF Known(t, id) THEN t ELSE Put(t, Member(id, -1))
LinkUp(t, id) == Met([t EXCEPT !.links = @ \union {id}], id)
SeatFor(p, t, s) ==
  IF s >= 0 /\ (Roster(p, t)[s] # Nobody \/ t.holds[s] \notin {Nobody, p}) THEN Free(p, t) ELSE s
TellJoin(t, id, s) ==
  [t EXCEPT !.out = [q \in Players |-> IF q \in t.links \ {id}
                       THEN Append(@[q], [t |-> "join", id |-> id, seat |-> s]) ELSE @[q]]]
SeatGuest(t, id, s) ==
  IF s < 0 \/ HasHand(t)
  THEN Close(Without(Send(t, id, [t |-> "full"]), id), id)
  ELSE AllPeers(TellJoin(Send(Put(t, [MemberOf(t, id) EXCEPT !.seat = s]), id, SeatMsg(t, id, s)), id, s))
GuestAt(p, t, id, s) == SeatGuest(t, id, SeatFor(p, t, s))
Invited(p, low, id) == GuestAt(p, Unhold(p, low.t, low.seat), id, low.seat)
SeatedAs(t, id, seat) == IF seat >= 0 THEN Put(t, [MemberOf(t, id) EXCEPT !.seat = seat]) ELSE t

Welcome(p, t, id, seat, how) ==
  IF how.k = "seat" /\ seat = -1
  THEN Invited(p, LowestOfGroup(p, LinkUp(t, id), how.rec), id)
  ELSE AllPeers(SeatedAs(LinkUp(t, id), id, seat))

-----------------------------------------------------------------------------
(* The messages of the table: table(from, m). *)

TakeSeat(p, t, from, m) ==
  LET u == TakeRules([t EXCEPT !.seat = m.seat, !.no = IF m.no > @ THEN m.no ELSE @], m.house, TRUE)
      told == SelectSeq(m.members, LAMBDA x : x.id # p /\ x.seat >= 0)
      v == FoldLeft(LAMBDA w, x : Put(w, IF Known(w, x.id)
                                        THEN [MemberOf(w, x.id) EXCEPT !.seat = x.seat]
                                        ELSE Member(x.id, x.seat)), u, told)
      \* a link to everybody else, the tokens go through the inviter
      w == FoldLeft(LAMBDA y, x : IF x.id \in y.links THEN y
                                 ELSE Send(y, t.via, [t |-> "fwd", to |-> x.id]), v, v.members)
  IN All(w, [t |-> "me", seat |-> w.seat])

(* two holds on one seat: the lower seat keeps it, the other moves its invitation *)
TakeHold(p, t, from, s) ==
  LET mine == t.holds[s] = p
      lost == mine /\ MemberOf(t, from).seat < t.seat
      u == IF ~mine \/ lost THEN [t EXCEPT !.holds[s] = from] ELSE t
      f == Free(p, u)
      v == [u EXCEPT !.invites = {IF i.seat = s THEN [i EXCEPT !.seat = f] ELSE i : i \in @}]
  IN IF ~lost THEN u
     ELSE IF f < 0 THEN v
     ELSE All([v EXCEPT !.holds[f] = p], [t |-> "hold", seat |-> f])

(* mutant: a ready is noted and nothing more *)
TakeReadyQuietly(p, t, from, r) ==
  [t EXCEPT !.readies[from] = r, !.no = IF r.no > @ /\ ~HasHand(t) THEN r.no ELSE @]
TakeReady(p, t, from, r) ==
  LET u == [t EXCEPT !.readies[from] = r]
  IN MaybeReady(p, IF r.no > t.no /\ ~HasHand(t) THEN [u EXCEPT !.no = r.no] ELSE u)

TakeTable(p, t, from, m) ==
  LET x == Known(t, from) IN
  CASE m.t = "seat" /\ t.seat < 0 /\ from = t.via -> TakeSeat(p, t, from, m)
    [] m.t = "full" /\ t.seat < 0 -> [t EXCEPT !.lost = TRUE]
    [] m.t = "join" /\ m.id # p ->
         IF ~Known(t, m.id) THEN Put(t, Member(m.id, m.seat))
         ELSE IF MemberOf(t, m.id).seat < 0 THEN Put(t, [MemberOf(t, m.id) EXCEPT !.seat = m.seat])
         ELSE t
    [] m.t = "me" /\ x /\ m.seat >= 0 -> Put(t, [MemberOf(t, from) EXCEPT !.seat = m.seat])
    [] m.t = "rules" /\ x ->
         LET u == TakeRules(t, [r |-> m.r, v |-> m.v, by |-> from], FALSE)
         IN IF u = t THEN t ELSE MaybeReady(p, [u EXCEPT !.meReady = NoReady])
    [] m.t = "hold" /\ x -> TakeHold(p, t, from, m.seat)
    [] m.t = "unhold" /\ t.holds[m.seat] = from -> [t EXCEPT !.holds[m.seat] = Nobody]
    [] m.t = "gone" -> IF m.id = p THEN Leave([t EXCEPT !.lost = TRUE], TRUE) ELSE RemovePlayer(p, t, m.id)
    [] m.t = "peers" /\ x -> MaybeReady(p, Put(t, [MemberOf(t, from) EXCEPT !.peers = m.ids]))
    [] m.t = "ready" /\ x -> TakeReady(p, t, from, m.r)
    [] m.t = "fwd" /\ x -> Send(t, m.to, [t |-> "link", from |-> from])
    [] m.t = "link" /\ Known(t, m.from) /\ m.from \notin t.links ->
         [t EXCEPT !.accepts = @ \union {m.from}]
    [] OTHER -> t

-----------------------------------------------------------------------------
(* The messages of a hand: game(from, m).  A message that arrives before    *)
(* what it builds on waits, and everything behind it on that link with it.  *)

GameMsgs == {"handover", "rev"}

Waits(t, m) ==
  /\ m.t \in GameMsgs
  /\ IF ~HasHand(t) \/ m.no > t.hand.pact.no THEN m.no >= t.no
     ELSE m.no = t.hand.pact.no /\ (IF m.t = "rev" THEN ~t.hand.done ELSE ~t.hand.dealt)

TakeGame(p, t, from, m) ==
  IF ~HasHand(t) \/ m.no # t.hand.pact.no \/ ~\E s \in Seats : t.hand.pact.roster[s] = from THEN t
  ELSE IF m.t = "rev" THEN Finish(p, [t EXCEPT !.hand.rev = @ \union {from}])
  ELSE IF from \in t.hand.rev \union t.hand.ghost THEN t
  ELSE LET u == [t EXCEPT !.hand.ghost = @ \union {from}]
       IN IF t.hand.done THEN Finish(p, [u EXCEPT !.hand.rev = @ \union {from}]) ELSE u

Handle(p, t, from, m) ==
  IF m.t \in GameMsgs THEN TakeGame(p, t, from, m) ELSE TakeTable(p, t, from, m)

-----------------------------------------------------------------------------
(* The steps of a player's device. *)

NoEnd == [k |-> "none"]

Fresh(p) ==
  [seat |-> -1, members |-> <<>>, links |-> {}, holds |-> [s \in Seats |-> Nobody],
   invites |-> {}, pending |-> {}, readies |-> [q \in Players |-> NoReady],
   queues |-> [q \in Players |-> <<>>],
   house |-> [r |-> CHOOSE r \in RuleLists : TRUE, v |-> 0, by |-> Nobody],
   no |-> 0, hand |-> NoHand, want |-> TRUE, meReady |-> NoReady, via |-> Nobody,
   lost |-> FALSE, closed |-> FALSE, leaving |-> FALSE,
   out |-> [q \in Players |-> <<>>], shut |-> {}, accepts |-> {}]

(* Those who sit down first know each other and are linked. *)
SeatOf(e, p) == Cardinality({q \in e.seated : q < p})
AtTable(e, p) ==
  LET rest == SetToSortSeq(e.seated \ {p}, LAMBDA a, b : a < b)
  IN [Fresh(p) EXCEPT !.seat = SeatOf(e, p), !.links = e.seated \ {p},
        !.members = [i \in DOMAIN rest |->
                       [Member(rest[i], SeatOf(e, rest[i])) EXCEPT !.peers = e.seated \ {rest[i]}]]]

Init ==
  /\ evening \in Evenings
  /\ tab = [p \in Players |-> IF p \in evening.seated THEN AtTable(evening, p) ELSE Fresh(p)]
  /\ ends = [p \in Players |-> [q \in Players |->
               IF {p, q} \subseteq evening.seated /\ p # q THEN [k |-> "on"] ELSE NoEnd]]
  /\ chan = [p \in Players |-> [q \in Players |-> <<>>]]
  /\ tokens = {} /\ made = 0 /\ faults = 0

CLOSE == [t |-> "close"]

(* p's device has run a handler that turned its record into t: what it sent *)
(* is on its way, what it closed is closed behind it.  A frame to an end    *)
(* that is already closed is lost.                                          *)
CommitTo(p, t, es, cs) ==
  /\ tab' = [tab EXCEPT ![p] = [t EXCEPT !.out = [q \in Players |-> <<>>], !.shut = {}, !.accepts = {}]]
  /\ ends' = [es EXCEPT ![p] = [q \in Players |-> IF q \in t.shut THEN NoEnd ELSE @[q]]]
  /\ chan' = [a \in Players |-> [b \in Players |->
        CASE a = p /\ es[b][p] # NoEnd ->
               cs[p][b] \o t.out[b] \o (IF b \in t.shut THEN <<CLOSE>> ELSE <<>>)
          [] b = p /\ a \in t.shut -> <<>>
          [] OTHER -> cs[a][b]]]
Commit(p, t, es) == CommitTo(p, t, es, chan)

(* pump() runs until nothing moves: a queue whose head no longer waits is   *)
(* worked off before anything else happens on that device.                  *)
Ripe(p, q) == tab[p].queues[q] # <<>> /\ ~Waits(tab[p], Head(tab[p].queues[q]))
Settled(p) == tab[p].closed \/ \A q \in Players : ~Ripe(p, q)

NewTokens(p, t) == {[k |-> "mesh", by |-> q, to |-> p] : q \in t.accepts}

Handled(p, t, es, cs) ==
  CommitTo(p, t, es, cs) /\ tokens' = tokens \union NewTokens(p, t)

Pump(p, q) ==
  /\ ~tab[p].closed /\ Ripe(p, q)
  /\ Handled(p, Handle(p, [tab[p] EXCEPT !.queues[q] = Tail(@)], q, Head(tab[p].queues[q])), ends, chan)
  /\ UNCHANGED <<made, faults, evening>>

(* a message that waited for BLOCK_MS is dropped *)
Stuck(p, q) ==
  /\ ~tab[p].closed /\ tab[p].queues[q] # <<>> /\ faults < evening.faults /\ Settled(p)
  /\ Commit(p, [tab[p] EXCEPT !.queues[q] = Tail(@)], ends)
  /\ faults' = faults + 1
  /\ UNCHANGED <<tokens, made, evening>>

Arrived(p, t, q, m, e) ==
  CASE m = CLOSE ->
         IF t.closed THEN t
         ELSE IF q \in t.links THEN Dropped(p, t, q)
         ELSE [t EXCEPT !.lost = @ \/ e.k = "via"]
    [] m # CLOSE /\ e.k # "on" ->
         Welcome(p, [t EXCEPT !.via = IF e.k = "via" THEN q ELSE @], q, m.seat, e)
    [] OTHER ->
         IF t.closed THEN t
         ELSE IF t.queues[q] # <<>> \/ Waits(t, m)
         THEN [t EXCEPT !.queues[q] = Append(@, m)]
         ELSE Handle(p, t, q, m)
Receive(p, q) ==
  /\ chan[q][p] # <<>> /\ Settled(p)
  /\ Handled(p, Arrived(p, tab[p], q, Head(chan[q][p]), ends[p][q]),
             [ends EXCEPT ![p][q] = IF Head(chan[q][p]) = CLOSE THEN NoEnd ELSE [k |-> "on"]],
             [chan EXCEPT ![q][p] = Tail(@)])
  /\ UNCHANGED <<made, faults, evening>>

(* Seats and invitations: the seat is held before the bridge is asked. *)
Hold(p, t, n, g) ==
  LET s == Free(p, t) IN
  All([t EXCEPT !.holds[s] = p, !.pending = @ \union {[n |-> n, seat |-> s, group |-> g]}],
      [t |-> "hold", seat |-> s])

InviteSeat(p) ==
  /\ made < evening.invites /\ Settled(p)
  /\ tab[p].seat >= 0 /\ ~tab[p].closed /\ Free(p, tab[p]) >= 0
  /\ Commit(p, Hold(p, tab[p], made + 1, 0), ends)
  /\ made' = made + 1
  /\ UNCHANGED <<tokens, faults, evening>>

InviteAll(p) ==
  LET open == {s \in Seats : Roster(p, tab[p])[s] = Nobody /\ tab[p].holds[s] = Nobody}
      n == Cardinality(open)
  IN /\ tab[p].seat >= 0 /\ ~tab[p].closed
     /\ made < evening.invites /\ n > 1 /\ made + n <= evening.invites /\ Settled(p)
     /\ Commit(p, FoldLeft(LAMBDA t, k : Hold(p, t, made + k, made + 1), tab[p],
                           [k \in 1 .. n |-> k]), ends)
     /\ made' = made + n
     /\ UNCHANGED <<tokens, faults, evening>>

(* The answer of the bridge: a token, kept with the seat that was free then. *)
InviteReady(p, rec) ==
  /\ rec \in tab[p].pending /\ Settled(p)
  /\ Commit(p, [tab[p] EXCEPT !.pending = @ \ {rec}, !.invites = @ \union {rec}], ends)
  /\ tokens' = tokens \union {[k |-> "seat", by |-> p, n |-> rec.n]}
  /\ UNCHANGED <<made, faults, evening>>

InviteFails(p, rec) ==
  /\ rec \in tab[p].pending /\ faults < evening.faults /\ Settled(p)
  /\ Commit(p, Unhold(p, [tab[p] EXCEPT !.pending = @ \ {rec}], rec.seat), ends)
  /\ faults' = faults + 1
  /\ UNCHANGED <<tokens, made, evening>>

Expire(p, rec) ==
  /\ rec \in tab[p].invites /\ faults < evening.faults /\ Settled(p)
  /\ Commit(p, Unhold(p, [tab[p] EXCEPT !.invites = @ \ {rec}], rec.seat), ends)
  /\ tokens' = tokens \ {[k |-> "seat", by |-> p, n |-> rec.n]}
  /\ faults' = faults + 1
  /\ UNCHANGED <<made, evening>>

(* The bridge joins two ends and burns the token; both say who they are. *)
Connect(p, q, t, es) ==
  /\ tab' = t
  /\ ends' = es
  /\ chan' = [chan EXCEPT ![p][q] = <<[t |-> "me", seat |-> tab[p].seat]>>,
                          ![q][p] = <<[t |-> "me", seat |-> tab[q].seat]>>]

Join(p, tok) ==
  /\ tok.k = "seat" /\ p \in evening.coming /\ tab[p].seat < 0 /\ ~tab[p].closed /\ ~tab[p].lost
  /\ \A q \in Players : ends[p][q] = NoEnd /\ p # tok.by
  /\ \E rec \in tab[tok.by].invites :
       /\ rec.n = tok.n
       /\ Connect(p, tok.by, [tab EXCEPT ![tok.by].invites = @ \ {rec}],
                  [ends EXCEPT ![p][tok.by] = [k |-> "via"],
                               ![tok.by][p] = [k |-> "seat", rec |-> rec]])
  /\ tokens' = tokens \ {tok}
  /\ UNCHANGED <<made, faults, evening>>

Mesh(tok) ==
  /\ tok.k = "mesh"
  /\ Connect(tok.by, tok.to, tab, [ends EXCEPT ![tok.by][tok.to] = [k |-> "mesh"],
                                              ![tok.to][tok.by] = [k |-> "mesh"]])
  /\ tokens' = tokens \ {tok}
  /\ UNCHANGED <<made, faults, evening>>

MeshFails(tok) ==
  /\ tok.k = "mesh" /\ faults < evening.faults
  /\ tokens' = tokens \ {tok} /\ faults' = faults + 1
  /\ UNCHANGED <<tab, ends, chan, made, evening>>

(* What the player does. *)
SetRules(p, r) ==
  LET t == [tab[p] EXCEPT !.house = [r |-> r, v |-> @.v + 1, by |-> p]] IN
  /\ p \in evening.choosers /\ tab[p].house.v < evening.rules
  /\ RulesOpen(p, tab[p]) /\ r # tab[p].house.r /\ Settled(p)
  /\ Commit(p, MaybeReady(p, [All(t, [t |-> "rules", r |-> r, v |-> t.house.v])
                                EXCEPT !.meReady = NoReady]), ends)
  /\ UNCHANGED <<tokens, made, faults, evening>>

NextHand(p) ==
  /\ ~HasHand(tab[p]) /\ ~tab[p].closed /\ tab[p].no < evening.hands /\ ~tab[p].want /\ Settled(p)
  /\ Commit(p, MaybeReady(p, [tab[p] EXCEPT !.want = TRUE]), ends)
  /\ UNCHANGED <<tokens, made, faults, evening>>

StandUp(p) ==
  /\ ~tab[p].closed /\ ~tab[p].leaving /\ tab[p].seat >= 0 /\ faults < evening.faults /\ Settled(p)
  /\ Commit(p, Leave(tab[p], FALSE), ends)
  /\ faults' = faults + 1
  /\ UNCHANGED <<tokens, made, evening>>

LeaveAfterHand(p) ==
  /\ tab[p].leaving /\ ~HasHand(tab[p]) /\ Settled(p)
  /\ Commit(p, Leave([tab[p] EXCEPT !.leaving = FALSE], TRUE), ends)
  /\ UNCHANGED <<tokens, made, faults, evening>>

(* a device that drops off: no handover, and its invitations die with it *)
Crash(p) ==
  /\ ~tab[p].closed /\ faults < evening.faults
  /\ \E q \in Players : ends[p][q] # NoEnd
  /\ Commit(p, [tab[p] EXCEPT !.closed = TRUE, !.links = {},
                  !.shut = {q \in Players : ends[p][q] # NoEnd}], ends)
  /\ tokens' = {tok \in tokens : tok.by # p /\ ~(tok.k = "mesh" /\ tok.to = p)}
  /\ faults' = faults + 1
  /\ UNCHANGED <<made, evening>>

(* The cards, seen from the table: module Hand has the messages. *)
Reached(q, no) == tab[q].hand.pact.no = no \/ tab[q].no > no

Deal(p) ==
  LET h == tab[p].hand IN
  /\ ~tab[p].closed /\ HasHand(tab[p]) /\ ~h.dealt /\ Settled(p)
  /\ \A s \in Seats : Reached(h.pact.roster[s], h.pact.no)
  /\ Commit(p, [tab[p] EXCEPT !.hand.dealt = TRUE], ends)
  /\ UNCHANGED <<tokens, made, faults, evening>>

Done(p) ==
  LET h == tab[p].hand IN
  /\ ~tab[p].closed /\ h.dealt /\ ~h.done /\ Settled(p)
  /\ \A s \in Seats : LET q == h.pact.roster[s] IN
       \/ q \in h.ghost
       \/ tab[q].no > h.pact.no
       \/ tab[q].hand.pact.no = h.pact.no /\ (tab[q].hand.done \/ (tab[q].hand.dealt /\ ~tab[q].closed))
  /\ LET t == [tab[p] EXCEPT !.hand.done = TRUE, !.hand.rev = @ \union h.ghost \union {p}]
     IN Commit(p, Finish(p, All(t, [t |-> "rev", no |-> h.pact.no])), ends)
  /\ UNCHANGED <<tokens, made, faults, evening>>

Device(p) ==
  \/ \E q \in Players : Pump(p, q) \/ Receive(p, q) \/ Stuck(p, q)
  \/ InviteSeat(p) \/ InviteAll(p)
  \/ \E rec \in tab[p].pending : InviteReady(p, rec) \/ InviteFails(p, rec)
  \/ \E rec \in tab[p].invites : Expire(p, rec)
  \/ \E r \in RuleLists : SetRules(p, r)
  \/ NextHand(p) \/ StandUp(p) \/ LeaveAfterHand(p) \/ Crash(p)
  \/ Deal(p) \/ Done(p)

Bridge == \E tok \in tokens : Mesh(tok) \/ MeshFails(tok) \/ \E p \in Players : Join(p, tok)

Next == Bridge \/ \E p \in Players : Device(p)

Spec == Init /\ [][Next]_vars

-----------------------------------------------------------------------------
(* Nothing is under way: every message is handled, no invitation is being    *)
(* made and no token of the mesh is left.                                    *)
AtRest ==
  /\ \A tok \in tokens : tok.k # "mesh"
  /\ \A p \in Players :
       tab[p].pending = {} /\ \A q \in Players : chan[p][q] = <<>> /\ tab[p].queues[q] = <<>>

Present(p) == tab[p].seat >= 0 /\ ~tab[p].closed

(* The hands the players begin, each alone once everybody's ready names the  *)
(* same number, roster and rules (maybeReady, line 223), are hands they all  *)
(* share: the table implements HandPact, whatever is changed, lost or left   *)
(* in between.                                                               *)
Pact == INSTANCE HandPact WITH
  playing <- [p \in Players |-> tab[p].hand.pact],
  floor <- [p \in Players |-> tab[p].no]
ImplementsPact == Pact!Spec

(* No start is lost: at rest, players at a complete table who all want to    *)
(* play and have the same seats and rules before them are playing            *)
(* (maybeReady is called again by every message that can make it true).      *)
NoLostStart ==
  AtRest => \A p \in Players :
    /\ Present(p) /\ Complete(p, tab[p])
    /\ \A q \in Others(tab[p]) \union {p} :
         /\ Present(q) /\ tab[q].want /\ tab[q].house.r = tab[p].house.r
         /\ Complete(q, tab[q]) /\ Roster(q, tab[q]) = Roster(p, tab[p])
    => HasHand(tab[p])

(* A departure reaches everyone, whoever reports it first: at rest links are *)
(* mutual, and nobody keeps a link, a ready or a running hand of a player    *)
(* that is gone, save a hand the player handed over (remove, line 122).      *)
DeparturesSettle ==
  AtRest => \A p \in Players : ~tab[p].closed =>
    /\ \A q \in tab[p].links : p \in tab[q].links
    /\ \A q \in Players \ tab[p].links : tab[q].closed /\ Present(p) =>
         /\ tab[p].readies[q] = NoReady
         /\ HasHand(tab[p]) /\ (\E s \in Seats : tab[p].hand.pact.roster[s] = q) => q \in tab[p].hand.ghost
         /\ Known(tab[p], q) => MemberOf(tab[p], q).gone /\ HasHand(tab[p])
=============================================================================
