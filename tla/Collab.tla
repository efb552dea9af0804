------------------------------- MODULE Collab -------------------------------
(***************************************************************************)
(* apps/duell-web/src/collab.js: two people edit one work at the same      *)
(* time.  Each peer keeps a last-writer-wins entry per field, one per      *)
(* sticker and a permanent tombstone per deleted sticker; edits travel as  *)
(* ops over a channel that may lose frames or go away, and a digest sent   *)
(* from time to time makes the other side resend everything when the       *)
(* states differ.  collab-ui.js calls local(), receive() and applyTo() in  *)
(* one turn of the event loop, so the edited document and the engine's     *)
(* state are one here.                                                     *)
(***************************************************************************)
EXTENDS Naturals, Sequences, FiniteSets

CONSTANTS
  Inviter, Invitee,  \* the two actors
  NFields,           \* how many fields the kind of work has
  SeedStickers,      \* how many stickers the inviter's work starts with
  Values,            \* field values and sticker shapes
  MaxOps,            \* ops that fit in one frame (MAX_OPS and MAX_FRAME)
  MaxIds, LocalIds,  \* MAX_IDS, LOCAL_IDS
  MaxClock,          \* MAX_CLOCK
  MaxJump,           \* MAX_JUMP
  ClockBound,        \* bound: no edit takes a clock past this
  MaxInFlight,       \* bound: frames in flight, both ways together
  MaxFaults          \* bound: lost frames and lost connections

ASSUME ActorsAssumption ==
  Inviter \in Nat \ {0} /\ Invitee \in Nat \ {0} /\ Inviter # Invitee
ASSUME BoundsAssumption ==
  /\ NFields \in Nat \ {0} /\ MaxOps \in Nat \ {0} /\ SeedStickers \in Nat
  /\ MaxIds \in Nat /\ LocalIds \in Nat /\ SeedStickers <= LocalIds /\ LocalIds < MaxIds
  /\ MaxFaults \in Nat /\ MaxInFlight \in Nat
  /\ MaxClock \in Nat /\ MaxJump \in Nat /\ ClockBound \in Nat
  /\ NFields + 2 * SeedStickers <= ClockBound
  /\ ClockBound <= MaxJump /\ MaxJump <= MaxClock
ASSUME ValuesAssumption == Values # {}

Peers == {Inviter, Invitee}

Other(p) == IF p = Inviter THEN Invitee ELSE Inviter

(* A field is <<i, 0>>, a sticker id <<birth, actor>>. *)
FieldKeys == (1 .. NFields) \X {0}
Ids == Nat \X Peers

(* An entry of the state and an op of the wire are the same record: "f" a   *)
(* field, "s" a sticker, "d" a tombstone (which carries no value or actor). *)
Gone == "gone"
FieldOp(k, v, l, a)   == [t |-> "f", k |-> k, v |-> v, l |-> l, a |-> a]
StickerOp(k, v, l, a) == [t |-> "s", k |-> k, v |-> v, l |-> l, a |-> a]
DeadOp(k, l)          == [t |-> "d", k |-> k, v |-> Gone, l |-> l, a |-> 0]

VARIABLES
  meta,      \* meta[p]: whether p knows which kind of work this is
  st,        \* st[p]: fields, stickers and dead of p, as entries
  clock,     \* clock[p]: p's Lamport clock
  outbox,    \* outbox[p]: the queued ops, at most one per key
  up,        \* up[p]: p's channel is connected
  helloDue,  \* helloDue[p]: the next frame is a hello
  rejected,  \* rejected[p]: p has refused an op of its peer
  chan,      \* chan[p]: the frames on their way to p
  faults     \* lost frames and connections so far

net  == <<up, chan, faults>>
vars == <<meta, st, clock, outbox, rejected, helloDue, net>>

Init ==
  /\ meta     = [p \in Peers |-> FALSE]
  /\ st       = [p \in Peers |-> {}]
  /\ clock    = [p \in Peers |-> 0]
  /\ outbox   = [p \in Peers |-> {}]
  /\ up       = [p \in Peers |-> FALSE]
  /\ helloDue = [p \in Peers |-> FALSE]
  /\ rejected = [p \in Peers |-> FALSE]
  /\ chan     = [p \in Peers |-> <<>>]
  /\ faults   = 0

-----------------------------------------------------------------------------
(* The merge. *)

KeysOf(S) == {e.k : e \in S}

IdCount(S) == Cardinality({e \in S : e.t # "f"})

(* wins(), and "deleted stays deleted": a tombstone beats every sticker. *)
Beats(x, y) ==
  \/ x.t = "d" /\ y.t # "d"
  \/ /\ x.t = "d" <=> y.t = "d"
     /\ x.l > y.l \/ (x.l = y.l /\ x.a > y.a)

(* Variant: a sticker op newer than the tombstone brings the sticker back. *)
Merge_Revive(S, A) ==
  {e \in S \union A : \A x \in S \union A :
     x.k = e.k => ~(x.l > e.l \/ (x.l = e.l /\ x.a > e.a))}

(* apply() on the accepted ops of a frame: per key the winner stays. *)
Merge(S, A) ==
  {e \in S \union A : \A x \in S \union A : x.k = e.k => ~Beats(x, e)}

(* apply() leaves the clock alone for a sticker op of a deleted sticker. *)
Seen(S, A) == {x \in A : ~(x.t = "s" /\ \E e \in S : e.t = "d" /\ e.k = x.k)}

(* Variant: every frame also counts as an event of its own. *)
Raised_PlusOne(n, c, X) ==
  LET stamps == {c + 1} \union {x.l + 1 : x \in X}
  IN n \in stamps /\ \A m \in stamps : n >= m

(* n is the clock c after the stamps of X were seen: the greatest of them.  *)
Raised(n, c, X) ==
  LET stamps == {c} \union {x.l : x \in X}
  IN n \in stamps /\ \A m \in stamps : n >= m

(* okClock.  The bound on the clocks lies below MAX_JUMP, as a million edits *)
(* behind a peer's back are out of reach, so an op of an honest peer passes. *)
OkClock(p, l) == l >= 1 /\ l <= MaxClock /\ l <= clock[p] + MaxJump

(* The sticker ids a frame would add to p's state. *)
NewIds(p, O) == {x.k : x \in {y \in O : y.t # "f"}} \ KeysOf(st[p])

(* Variant: the room is checked once for the whole frame. *)
Acceptances_PerFrame(p, O) ==
  {{x \in O : x.k \in NewIds(p, O) => IdCount(st[p]) < MaxIds}}

(* The ops of a frame that apply() takes: in frame order, new ids only      *)
(* while fewer than MaxIds are held.  The order is left open, so any choice *)
(* of the ids that still fit may be the one taken.                          *)
Acceptances(p, O) ==
  LET fit == {x \in O : OkClock(p, x.l)}
      new == NewIds(p, fit)
      room == IF IdCount(st[p]) >= MaxIds THEN 0 ELSE MaxIds - IdCount(st[p])
  IN {{x \in fit : x.k \in new => x.k \in R} :
        R \in {Q \in SUBSET new : Cardinality(Q) = room \/ (Q = new /\ Cardinality(new) <= room)}}

-----------------------------------------------------------------------------
(* Local edits: stamp, store, queue. *)

Key(x) == <<x.t, x.k>>

(* Variant: the edit reuses the clock's current value. *)
Ticked_Stuck(c) == c

(* tick(): the clock stops at MAX_CLOCK. *)
Ticked(c) == IF c < MaxClock THEN c + 1 ELSE c

(* Variant: kill() writes the tombstone and leaves the sticker. *)
Put_Both(S, x) == {e \in S : Key(e) # Key(x)} \union {x}

Put(S, x) == {e \in S : e.k # x.k} \union {x}

(* queue(); kill() also takes the sticker's own op out of the outbox. *)
Queue(Q, x) == {y \in Q : Key(y) # Key(x) /\ ~(x.t = "d" /\ y.k = x.k)} \union {x}

Edit(p, x) ==
  /\ clock' = [clock EXCEPT ![p] = x.l]
  /\ st' = [st EXCEPT ![p] = Put(@, x)]
  /\ outbox' = [outbox EXCEPT ![p] = Queue(@, x)]
  /\ UNCHANGED <<meta, rejected, helloDue, net>>

(* hasWork(); the second half is the bound on the clocks. *)
CanEdit(p, ticks) ==
  /\ meta[p] /\ \E e \in st[p] : e.t = "f"
  /\ clock[p] + ticks <= ClockBound

(* seed(): the inviter stamps every field and every sticker of the work it  *)
(* starts from.                                                             *)
Seed ==
  /\ ~meta[Inviter]
  /\ \E v \in Values :
       LET birth(i) == NFields + 2 * i - 1
           ops == {FieldOp(k, v, k[1], Inviter) : k \in FieldKeys}
             \union {StickerOp(<<birth(i), Inviter>>, v, birth(i) + 1, Inviter) : i \in 1 .. SeedStickers}
       IN /\ st' = [st EXCEPT ![Inviter] = ops]
          /\ outbox' = [outbox EXCEPT ![Inviter] = ops]
          /\ clock' = [clock EXCEPT ![Inviter] = NFields + 2 * SeedStickers]
  /\ meta' = [meta EXCEPT ![Inviter] = TRUE]
  /\ UNCHANGED <<rejected, helloDue, net>>

SetLocal(p) ==
  /\ CanEdit(p, 1)
  /\ \E e \in st[p], v \in Values :
       /\ e.t = "f" /\ e.v # v
       /\ Edit(p, FieldOp(e.k, v, Ticked(clock[p]), p))

(* One tick names the sticker, the next stamps it. *)
AddSticker(p) ==
  /\ CanEdit(p, 2) /\ IdCount(st[p]) < LocalIds
  /\ \E v \in Values :
       LET birth == Ticked(clock[p])
       IN Edit(p, StickerOp(<<birth, p>>, v, Ticked(birth), p))

MoveSticker(p) ==
  /\ CanEdit(p, 1)
  /\ \E e \in st[p], v \in Values :
       /\ e.t = "s" /\ e.v # v
       /\ Edit(p, StickerOp(e.k, v, Ticked(clock[p]), p))

Kill(p) ==
  /\ CanEdit(p, 1)
  /\ \E e \in st[p] : e.t = "s" /\ Edit(p, DeadOp(e.k, Ticked(clock[p])))

-----------------------------------------------------------------------------
(* Sending. *)

(* Variant: the digest does not cover the tombstones. *)
Hash_LiveOnly(S) == {e \in S : e.t # "d"}

(* hash(): the entries, of a tombstone only the id.  Collisions of the      *)
(* 32-bit hash are left out.                                                *)
Hash(S) == {IF e.t = "d" THEN DeadOp(e.k, 0) ELSE e : e \in S}

(* A hello and a digest say who sends and carry the hash, nothing tells     *)
(* them apart at the receiver; an ops frame carries ops.                    *)
WhoFrame(p) == [t |-> "who", meta |-> meta[p], hash |-> Hash(st[p]), ops |-> {}]
OpsFrame(p, ops) == [t |-> "ops", meta |-> meta[p], hash |-> {}, ops |-> ops]

(* A frame sent to a peer that is not there is lost. *)
Send(p, f) ==
  chan' = IF up[Other(p)] THEN [chan EXCEPT ![Other(p)] = Append(@, f)] ELSE chan

(* takeOps(): ops off the front of the queue until the frame is full.  Ops  *)
(* count alike, so a full frame has MaxOps of them; the order in which they *)
(* were queued is left open.                                                *)
Takes(Q) == {S \in SUBSET Q : Cardinality(S) = MaxOps \/ (S = Q /\ Cardinality(Q) <= MaxOps)}

(* tick(now): a hello if one is due, else queued ops, else a digest when    *)
(* DIGEST_MS are over.  Rate and flush intervals only delay it.             *)
RoomInFlight == Len(chan[Inviter]) + Len(chan[Invitee]) < MaxInFlight
CanSend(p) == up[p] /\ RoomInFlight

TickHello(p) ==
  /\ CanSend(p) /\ helloDue[p]
  /\ Send(p, WhoFrame(p))
  /\ helloDue' = [helloDue EXCEPT ![p] = FALSE]
  /\ UNCHANGED <<meta, st, clock, outbox, rejected, up, faults>>

TickOps(p) ==
  /\ CanSend(p) /\ ~helloDue[p] /\ meta[p] /\ outbox[p] # {}
  /\ \E ops \in Takes(outbox[p]) :
       /\ Send(p, OpsFrame(p, ops))
       /\ outbox' = [outbox EXCEPT ![p] = @ \ ops]
  /\ UNCHANGED <<meta, st, clock, rejected, helloDue, up, faults>>

TickDigest(p) ==
  /\ CanSend(p) /\ ~helloDue[p] /\ ~(meta[p] /\ outbox[p] # {})
  /\ Send(p, WhoFrame(p))
  /\ UNCHANGED <<meta, st, clock, outbox, rejected, helloDue, up, faults>>

-----------------------------------------------------------------------------
(* Receiving. *)

(* A hello or a digest tells the kind of work. *)
Digest(p) ==
  /\ chan[p] # <<>> /\ Head(chan[p]).t = "who"
  /\ meta' = [meta EXCEPT ![p] = @ \/ Head(chan[p]).meta]
  /\ chan' = [chan EXCEPT ![p] = Tail(@)]
  /\ UNCHANGED <<st, clock, rejected, helloDue, up, faults>>

(* asksFull(): the states differ, so everything is queued again, but not    *)
(* while ops are queued anyway.                                             *)
ReceiveDiffering(p) ==
  /\ Digest(p) /\ meta'[p] /\ outbox[p] = {} /\ Head(chan[p]).hash # Hash(st[p])
  /\ outbox' = [outbox EXCEPT ![p] = st[p]]

(* Nothing to do, or a full state was queued less than FULL_MIN_MS ago.     *)
ReceiveDigest(p) == Digest(p) /\ UNCHANGED outbox

ReceiveOps(p) ==
  /\ chan[p] # <<>> /\ Head(chan[p]).t = "ops"
  /\ LET ops == Head(chan[p]).ops
     IN \E A \in Acceptances(p, ops) :
          /\ st' = [st EXCEPT ![p] = Merge(@, A)]
          /\ \E n \in 0 .. MaxClock :
               /\ Raised(n, clock[p], Seen(st[p], A))
               /\ clock' = [clock EXCEPT ![p] = n]
          /\ rejected' = [rejected EXCEPT ![p] = @ \/ A # ops]
  /\ meta' = [meta EXCEPT ![p] = TRUE]
  /\ chan' = [chan EXCEPT ![p] = Tail(@)]
  /\ UNCHANGED <<outbox, helloDue, up, faults>>

-----------------------------------------------------------------------------
(* The channel (external): connects, drops frames, goes away. *)

(* connected() calls tick(), which sends the hello unless the last frame is *)
(* less than FLUSH_MS old.  collab-ui.js seeds before it asks for an invite. *)
Connected(p) ==
  /\ ~up[p] /\ meta[Inviter]
  /\ up' = [up EXCEPT ![p] = TRUE]
  /\ \/ /\ helloDue' = [helloDue EXCEPT ![p] = TRUE]
        /\ UNCHANGED chan
     \/ /\ RoomInFlight
        /\ Send(p, WhoFrame(p))
        /\ helloDue' = [helloDue EXCEPT ![p] = FALSE]
  /\ UNCHANGED <<meta, st, clock, outbox, rejected, faults>>

Fault == faults < MaxFaults /\ faults' = faults + 1

Disconnected(p) ==
  /\ up[p] /\ Fault
  /\ up' = [up EXCEPT ![p] = FALSE]
  /\ chan' = [chan EXCEPT ![p] = <<>>]
  /\ UNCHANGED <<meta, st, clock, outbox, rejected, helloDue>>

LoseFrame(p) ==
  /\ chan[p] # <<>> /\ Fault
  /\ chan' = [chan EXCEPT ![p] = Tail(@)]
  /\ UNCHANGED <<meta, st, clock, outbox, rejected, helloDue, up>>

-----------------------------------------------------------------------------
Tick(p) == TickHello(p) \/ TickOps(p) \/ TickDigest(p)
Receive(p) == ReceiveDiffering(p) \/ ReceiveDigest(p) \/ ReceiveOps(p)

Next ==
  \/ Seed
  \/ \E p \in Peers :
       \/ SetLocal(p) \/ AddSticker(p) \/ MoveSticker(p) \/ Kill(p)
       \/ Tick(p) \/ Receive(p)
       \/ Connected(p) \/ Disconnected(p) \/ LoseFrame(p)

Spec == Init /\ [][Next]_vars

(* collab-ui.js calls tick() every TICK_MS, the shell reconnects and        *)
(* delivers what was not lost; nobody has to edit.  Two things are never    *)
(* put off for ever.  A full state: a digest that differs is only passed    *)
(* over within FULL_MIN_MS of one.  A digest: full states are queued at     *)
(* most every FULL_MIN_MS = 2 s and leave in a few flushes of FLUSH_MS =    *)
(* 250 ms, so a tick finds the queue empty and the digest due.              *)
FairSpec ==
  /\ Spec /\ WF_vars(Seed)
  /\ \A p \in Peers : /\ SF_vars(Tick(p)) /\ SF_vars(TickDigest(p))
                      /\ WF_vars(Receive(p)) /\ SF_vars(ReceiveDiffering(p))
                      /\ WF_vars(Connected(p))

-----------------------------------------------------------------------------
(* Properties *)

(* Every op that exists anywhere: held, queued or in flight. *)
InFlight(p) == UNION {chan[p][i].ops : i \in DOMAIN chan[p]}
AllOps == UNION {st[p] \union outbox[p] \union InFlight(p) : p \in Peers}

Op ==
  [t : {"f"}, k : FieldKeys, v : Values, l : 1 .. ClockBound, a : Peers]
  \union [t : {"s"}, k : Ids, v : Values, l : 1 .. ClockBound, a : Peers]
  \union [t : {"d"}, k : Ids, v : {Gone}, l : 1 .. ClockBound, a : {0}]

Digested == [t : {"d"}, k : Ids, v : {Gone}, l : {0}, a : {0}]
Frames == [t : {"who", "ops"}, meta : BOOLEAN, hash : SUBSET (Op \union Digested), ops : SUBSET Op]

(* Every variable holds a value of its kind; the clocks stay in reach. *)
TypeOK ==
  /\ meta \in [Peers -> BOOLEAN] /\ rejected \in [Peers -> BOOLEAN]
  /\ up \in [Peers -> BOOLEAN] /\ helloDue \in [Peers -> BOOLEAN]
  /\ clock \in [Peers -> 0 .. ClockBound]
  /\ st \in [Peers -> SUBSET Op] /\ outbox \in [Peers -> SUBSET Op]
  /\ chan \in [Peers -> Seq(Frames)]
  /\ faults \in Nat

(* A stamp names one write: no two writes of a key, held, queued or in      *)
(* flight anywhere, share (lamport, actor) and differ.  Without it wins()   *)
(* would keep whichever value came first and the peers would never agree.   *)
StampsUnique ==
  \A x, y \in AllOps : Key(x) = Key(y) /\ x.l = y.l /\ x.a = y.a => x = y

(* One entry per key: a field or a sticker never has two values, and a      *)
(* sticker is never alive and deleted at once, after any mix of edits and   *)
(* merged frames.                                                           *)
OneEntryPerKey ==
  \A p \in Peers : \A x, y \in st[p] : x.k = y.k => x = y

(* No step of local(), receive() or apply() takes an entry back: the entry  *)
(* of a key is kept or replaced by one that beats it.  So an edit is newer  *)
(* than everything its author had seen, an old op that arrives late changes *)
(* nothing, and a deleted sticker stays deleted.                            *)
EntriesOnlyAdvance ==
  [][\A p \in Peers : \A e \in st[p] :
       \E f \in st'[p] : f.k = e.k /\ (f = e \/ Beats(f, e))]_vars

(* Neither peer ever holds more than MAX_IDS sticker ids, live and deleted, *)
(* whatever the other one sends.                                            *)
IdsBounded == \A p \in Peers : IdCount(st[p]) <= MaxIds

(* Convergence: once frames and connections are no longer lost and nobody   *)
(* edits any more, the two states become equal for good, although any frame *)
(* before that may have been lost: the digest repairs it.                   *)
Live(S) == {e \in S : e.t # "d"}
Converged ==
  /\ Live(st[Inviter]) = Live(st[Invitee])
  /\ KeysOf(st[Inviter]) = KeysOf(st[Invitee])
EventuallyConverged ==
  [](\A p \in Peers : ~rejected[p]) => <>[]Converged

(* "this side stops adding here, so two honest peers never reach MAX_IDS"   *)
(* (collab.js, LOCAL_IDS).                                                  *)
HonestPeersStayBelowMaxIds ==
  \A p \in Peers : IdCount(st[p]) < MaxIds /\ ~rejected[p]

=============================================================================
