---------------------------- MODULE CollabProofs ----------------------------
(***************************************************************************)
(* Safety of Collab for every value of its constants: any number of        *)
(* fields, stickers, frames in flight and faults.                          *)
(***************************************************************************)
EXTENDS Collab, SequenceTheorems, FiniteSetTheorems, TLAPS

(* Every op comes from its author's clock, and so does a sticker's id. *)
Stamped ==
  \A x \in AllOps :
    /\ x.t # "d" => x.l <= clock[x.a]
    /\ x.t # "f" => x.k[1] <= clock[x.k[2]]

(* A peer's clock has seen everything in its state. *)
ClockCoversState == \A p \in Peers : \A e \in st[p] : e.l <= clock[p]

(* Neither a queue nor a frame holds two ops of one key. *)
OnePerKey(S) == \A x, y \in S : x.k = y.k => x = y
QueuesOnePerKey ==
  \A p \in Peers : /\ OnePerKey(outbox[p])
                   /\ \A i \in DOMAIN chan[p] : OnePerKey(chan[p][i].ops)

(* A tombstone that is queued is held. *)
QueuedDeadIsHeld ==
  \A p \in Peers : \A y \in outbox[p] : y.t = "d" => \E e \in st[p] : e.t = "d" /\ e.k = y.k

(* Before the inviter has seeded, nothing has happened. *)
QuietBeforeSeed ==
  ~meta[Inviter] =>
    \A p \in Peers : st[p] = {} /\ outbox[p] = {} /\ chan[p] = <<>> /\ clock[p] = 0 /\ ~up[p]

IInv ==
  /\ TypeOK /\ Stamped /\ StampsUnique /\ OneEntryPerKey /\ ClockCoversState
  /\ QueuesOnePerKey /\ QueuedDeadIsHeld /\ QuietBeforeSeed

-----------------------------------------------------------------------------
(* Ops *)

(* What membership in Op says, field by field. *)
LEMMA OpShape ==
  ASSUME NEW x \in Op
  PROVE  /\ x.t \in {"f", "s", "d"} /\ x.l \in 1 .. ClockBound /\ x.l \in Nat /\ x.a \in Nat
         /\ x.t = "f" => x.k \in FieldKeys /\ x.k[2] = 0
         /\ x.t # "f" => x.k \in Ids /\ x.k[1] \in Nat /\ x.k[2] \in Peers /\ x.k[2] # 0
         /\ x.t # "d" => x.a \in Peers /\ x.v \in Values
         /\ x.t = "d" => x.a = 0 /\ x.v = Gone
  BY ActorsAssumption, BoundsAssumption DEF Op, FieldKeys, Ids, Peers

(* An op is determined by its fields. *)
LEMMA OpEq ==
  ASSUME NEW x \in Op, NEW y \in Op,
         x.t = y.t, x.k = y.k, x.v = y.v, x.l = y.l, x.a = y.a
  PROVE  x = y
  BY DEF Op

(* Of two ops of one key neither beats the other only when they carry the   *)
(* same stamp, and are of the same type.                                    *)
LEMMA Undecided ==
  ASSUME NEW x \in Op, NEW y \in Op, x.k = y.k, ~Beats(x, y), ~Beats(y, x)
  PROVE  x.t = y.t /\ x.l = y.l /\ x.a = y.a
  BY OpShape DEF Beats

LEMMA BeatsAsymmetric ==
  ASSUME NEW x \in Op, NEW y \in Op, Beats(x, y)
  PROVE  ~Beats(y, x) /\ x # y
  BY OpShape DEF Beats

(* AllOps, spelled out. *)
LEMMA AllOpsIs ==
  ASSUME NEW x
  PROVE  x \in AllOps <=>
           \E p \in Peers : x \in st[p] \/ x \in outbox[p] \/ \E i \in DOMAIN chan[p] : x \in chan[p][i].ops
  BY DEF AllOps, InFlight

LEMMA AllOpsPrimeIs ==
  ASSUME NEW x
  PROVE  x \in AllOps' <=>
           \E p \in Peers : x \in st'[p] \/ x \in outbox'[p] \/ \E i \in DOMAIN chan'[p] : x \in chan'[p][i].ops
  BY DEF AllOps, InFlight

LEMMA AllOpsTyped ==
  ASSUME TypeOK, NEW x \in AllOps
  PROVE  x \in Op
<1>1. PICK p \in Peers : x \in st[p] \/ x \in outbox[p] \/ \E i \in DOMAIN chan[p] : x \in chan[p][i].ops
  BY AllOpsIs
<1>2. CASE x \in st[p] \/ x \in outbox[p]
  BY <1>2 DEF TypeOK
<1>3. CASE \E i \in DOMAIN chan[p] : x \in chan[p][i].ops
  <2>1. PICK i \in DOMAIN chan[p] : x \in chan[p][i].ops
    BY <1>3
  <2>2. chan[p] \in Seq(Frames)
    BY DEF TypeOK
  <2>3. chan[p][i] \in Frames
    BY <2>2, ElementOfSeq
  <2>4. QED
    BY <2>1, <2>3 DEF Frames
<1>4. QED
  BY <1>1, <1>2, <1>3

-----------------------------------------------------------------------------
(* Frames *)

(* Appending a frame to a channel adds no op but the frame's. *)
LEMMA AppendOps ==
  ASSUME NEW c \in Seq(Frames), NEW f \in Frames, NEW i \in DOMAIN Append(c, f)
  PROVE  Append(c, f)[i] = f \/ (i \in DOMAIN c /\ Append(c, f)[i] = c[i])
<1>1. i \in 1 .. Len(c) + 1 /\ DOMAIN c = 1 .. Len(c)
  BY AppendProperties
<1>2. CASE i = Len(c) + 1
  BY <1>2, AppendProperties
<1>3. CASE i \in 1 .. Len(c)
  BY <1>1, <1>3, AppendProperties
<1>4. QED
  BY <1>1, <1>2, <1>3, LenProperties

(* What is left of a channel was there before. *)
LEMMA TailOps ==
  ASSUME NEW c \in Seq(Frames), c # <<>>
  PROVE  /\ Tail(c) \in Seq(Frames) /\ Head(c) \in Frames /\ 1 \in DOMAIN c /\ Head(c) = c[1]
         /\ \A i \in DOMAIN Tail(c) : i + 1 \in DOMAIN c /\ Tail(c)[i] = c[i + 1]
  BY HeadTailProperties, LenProperties, ElementOfSeq, EmptySeq

(* The frames in flight after a step were in flight before, or carry queued *)
(* ops only.                                                                *)
Carried ==
  \A q \in Peers : \A i \in DOMAIN chan'[q] :
    \/ \E j \in DOMAIN chan[q] : chan'[q][i] = chan[q][j]
    \/ \E r \in Peers : chan'[q][i].ops \subseteq outbox[r]

LEMMA OtherIsPeer == ASSUME NEW p \in Peers PROVE Other(p) \in Peers
  BY DEF Other, Peers

LEMMA SendCarries ==
  ASSUME TypeOK, NEW p \in Peers, NEW f \in Frames, Send(p, f),
         NEW r \in Peers, f.ops \subseteq outbox[r]
  PROVE  Carried /\ chan' \in [Peers -> Seq(Frames)]
<1>1. CASE ~up[Other(p)]
  BY <1>1 DEF Send, TypeOK, Carried
<1>2. CASE up[Other(p)]
  <2> DEFINE o == Other(p)
  <2>1. o \in Peers /\ chan \in [Peers -> Seq(Frames)]
    BY OtherIsPeer DEF TypeOK
  <2>2. chan' = [chan EXCEPT ![o] = Append(chan[o], f)]
    BY <1>2, <2>1 DEF Send
  <2>3. chan' \in [Peers -> Seq(Frames)]
    BY <2>1, <2>2, AppendProperties
  <2>4. ASSUME NEW q \in Peers, NEW i \in DOMAIN chan'[q]
        PROVE  (\E j \in DOMAIN chan[q] : chan'[q][i] = chan[q][j]) \/ chan'[q][i] = f
    <3>1. CASE q = o
      BY <2>1, <2>2, <2>4, <3>1, AppendOps
    <3>2. CASE q # o
      BY <2>1, <2>2, <2>4, <3>2
    <3>3. QED
      BY <3>1, <3>2
  <2>5. QED
    BY <2>3, <2>4 DEF Carried
<1>3. QED
  BY <1>1, <1>2

LEMMA TailCarries ==
  ASSUME TypeOK, NEW p \in Peers, chan[p] # <<>>, chan' = [chan EXCEPT ![p] = Tail(@)]
  PROVE  Carried /\ chan' \in [Peers -> Seq(Frames)]
<1>1. chan \in [Peers -> Seq(Frames)]
  BY DEF TypeOK
<1>2. chan' \in [Peers -> Seq(Frames)]
  BY <1>1, TailOps
<1>3. ASSUME NEW q \in Peers, NEW i \in DOMAIN chan'[q]
      PROVE  \E j \in DOMAIN chan[q] : chan'[q][i] = chan[q][j]
  <2>1. CASE q = p
    BY <1>1, <1>3, <2>1, TailOps
  <2>2. CASE q # p
    BY <1>1, <1>3, <2>2
  <2>3. QED
    BY <2>1, <2>2
<1>4. QED
  BY <1>2, <1>3 DEF Carried

LEMMA ResetCarries ==
  ASSUME TypeOK, NEW p \in Peers, chan' = [chan EXCEPT ![p] = <<>>]
  PROVE  Carried /\ chan' \in [Peers -> Seq(Frames)]
<1>1. chan \in [Peers -> Seq(Frames)] /\ <<>> \in Seq(Frames) /\ DOMAIN <<>> = {}
  BY EmptySeq DEF TypeOK
<1>2. QED
  BY <1>1 DEF Carried

LEMMA SameCarries ==
  ASSUME TypeOK, chan' = chan
  PROVE  Carried /\ chan' \in [Peers -> Seq(Frames)]
  BY DEF Carried, TypeOK

(* The ops of carried frames are not new and are one per key. *)
LEMMA CarriedOps ==
  ASSUME IInv, Carried, NEW q \in Peers, NEW i \in DOMAIN chan'[q]
  PROVE  chan'[q][i].ops \subseteq AllOps /\ OnePerKey(chan'[q][i].ops)
<1>1. CASE \E j \in DOMAIN chan[q] : chan'[q][i] = chan[q][j]
  BY <1>1, AllOpsIs DEF IInv, QueuesOnePerKey
<1>2. CASE \E r \in Peers : chan'[q][i].ops \subseteq outbox[r]
  <2>1. PICK r \in Peers : chan'[q][i].ops \subseteq outbox[r]
    BY <1>2
  <2>2. OnePerKey(chan'[q][i].ops)
    BY <2>1 DEF IInv, QueuesOnePerKey, OnePerKey
  <2>3. QED
    BY <2>1, <2>2, AllOpsIs
<1>3. QED
  BY <1>1, <1>2 DEF Carried

-----------------------------------------------------------------------------
(* Steps that write nothing: ops are moved between queues and frames. *)

(* Without new ops the stamps stay unique and covered by the clocks. *)
LEMMA NoNewOps ==
  ASSUME IInv, \A x \in AllOps' : x \in AllOps,
         clock' \in [Peers -> 0 .. ClockBound], \A p \in Peers : clock[p] <= clock'[p]
  PROVE  Stamped' /\ StampsUnique'
<1>1. StampsUnique'
  BY DEF IInv, StampsUnique
<1>2. ASSUME NEW x \in AllOps'
      PROVE  /\ x.t # "d" => x.l <= clock'[x.a]
             /\ x.t # "f" => x.k[1] <= clock'[x.k[2]]
  <2>1. x \in AllOps /\ x \in Op
    BY <1>2, AllOpsTyped DEF IInv
  <2>2. \A p \in Peers : clock[p] \in Nat /\ clock'[p] \in Nat
    BY BoundsAssumption DEF IInv, TypeOK
  <2>3. CASE x.t # "d"
    BY <2>1, <2>2, <2>3, OpShape DEF IInv, Stamped
  <2>4. CASE x.t # "f"
    BY <2>1, <2>2, <2>4, OpShape DEF IInv, Stamped
  <2>5. QED
    BY <2>3, <2>4
<1>3. QED
  BY <1>1, <1>2 DEF Stamped

(* Sending, digests, connecting and disconnecting. *)
LEMMA MoveStep ==
  ASSUME IInv, TypeOK', Carried, meta'[Inviter], UNCHANGED <<st, clock>>,
         \A p \in Peers : outbox'[p] \subseteq outbox[p] \/ outbox'[p] = st[p]
  PROVE  IInv'
<1>1. \A x \in AllOps' : x \in AllOps
  <2>1. ASSUME NEW x \in AllOps' PROVE x \in AllOps
    <3>1. PICK p \in Peers : x \in st'[p] \/ x \in outbox'[p] \/ \E i \in DOMAIN chan'[p] : x \in chan'[p][i].ops
      BY <2>1, AllOpsPrimeIs
    <3>2. CASE x \in st'[p] \/ x \in outbox'[p]
      BY <3>2, AllOpsIs
    <3>3. CASE \E i \in DOMAIN chan'[p] : x \in chan'[p][i].ops
      BY <3>3, CarriedOps
    <3>4. QED
      BY <3>1, <3>2, <3>3
  <2>2. QED
    BY <2>1
<1>2. Stamped' /\ StampsUnique'
  <2>1. \A p \in Peers : clock[p] \in Nat
    BY BoundsAssumption DEF IInv, TypeOK
  <2>2. QED
    BY <1>1, <2>1, NoNewOps DEF IInv, TypeOK
<1>3. OneEntryPerKey' /\ ClockCoversState'
  BY DEF IInv, OneEntryPerKey, ClockCoversState
<1>4. QueuesOnePerKey'
  <2>1. ASSUME NEW p \in Peers PROVE OnePerKey(outbox'[p])
    <3>1. CASE outbox'[p] \subseteq outbox[p]
      BY <3>1 DEF IInv, QueuesOnePerKey, OnePerKey
    <3>2. CASE outbox'[p] = st[p]
      BY <3>2 DEF IInv, OneEntryPerKey, OnePerKey
    <3>3. QED
      BY <3>1, <3>2
  <2>2. QED
    BY <2>1, CarriedOps DEF QueuesOnePerKey
<1>5. QueuedDeadIsHeld'
  BY DEF IInv, QueuedDeadIsHeld
<1>6. QuietBeforeSeed'
  BY DEF QuietBeforeSeed
<1>7. QED
  BY <1>2, <1>3, <1>4, <1>5, <1>6 DEF IInv

-----------------------------------------------------------------------------
(* Local edits. *)

(* What local() writes: a fresh stamp, on a key that is its own new sticker *)
(* or one of its state whose entry it replaces by one of the same type or   *)
(* by a tombstone.                                                          *)
Writes(p, x) ==
  /\ x \in Op /\ clock[p] < x.l /\ (x.t # "d" => x.a = p)
  /\ \/ x.t # "f" /\ x.k[2] = p /\ x.k[1] <= x.l /\ x.k[1] > clock[p]
     \/ \E e \in st[p] : e.k = x.k /\ e.t # "d" /\ (x.t = e.t \/ x.t = "d")

LEMMA EditStep ==
  ASSUME IInv, NEW p \in Peers, NEW x, Writes(p, x), Edit(p, x), st[p] # {}
  PROVE  IInv' /\ \A q \in Peers : \A e \in st[q] :
                    \E f \in st'[q] : f.k = e.k /\ (f = e \/ Beats(f, e))
<1> USE DEF IInv
<1>1. /\ st' = [st EXCEPT ![p] = Put(st[p], x)] /\ outbox' = [outbox EXCEPT ![p] = Queue(outbox[p], x)]
      /\ clock' = [clock EXCEPT ![p] = x.l] /\ chan' = chan /\ up' = up /\ meta' = meta
      /\ rejected' = rejected /\ helloDue' = helloDue /\ faults' = faults
  BY DEF Edit, net
<1>2. x \in Op /\ Put(st[p], x) \subseteq Op /\ Queue(outbox[p], x) \subseteq Op
  BY DEF Writes, Put, Queue, TypeOK
<1>3. x.l \in 1 .. ClockBound /\ x.l \in Nat /\ \A q \in Peers : clock[q] \in Nat /\ clock'[q] \in Nat /\ clock[q] <= clock'[q]
  BY <1>1, <1>2, OpShape, BoundsAssumption DEF TypeOK, Writes
<1>4. TypeOK'
  BY <1>1, <1>2, <1>3 DEF TypeOK
<1>5. Carried
  BY <1>1, SameCarries
<1>6. QuietBeforeSeed'
  BY <1>1 DEF QuietBeforeSeed
<1>7. ASSUME NEW y \in AllOps' PROVE y \in AllOps \/ y = x
  <2>1. PICK q \in Peers : y \in st'[q] \/ y \in outbox'[q] \/ \E i \in DOMAIN chan'[q] : y \in chan'[q][i].ops
    BY <1>7, AllOpsPrimeIs
  <2>2. CASE y \in st'[q] \/ y \in outbox'[q]
    BY <1>1, <2>2, AllOpsIs DEF TypeOK, Put, Queue
  <2>3. CASE \E i \in DOMAIN chan'[q] : y \in chan'[q][i].ops
    BY <1>1, <2>3, AllOpsIs
  <2>4. QED
    BY <2>1, <2>2, <2>3
<1>8. \A y \in AllOps : y \in Op
  BY AllOpsTyped
<1>9. \A e \in st[p] : e.k = x.k => e.t # "d"
  <2>1. ASSUME NEW e \in st[p], e.k = x.k, e.t = "d" PROVE FALSE
    <3>1. e \in AllOps /\ e \in Op
      BY <2>1, <1>8, AllOpsIs
    <3>2. e.k[1] <= clock[e.k[2]] /\ e.k[1] \in Nat
      BY <2>1, <3>1, OpShape DEF Stamped
    <3>3. ~(x.k[2] = p /\ x.k[1] > clock[p])
      BY <1>3, <2>1, <3>2
    <3>4. ~\E f \in st[p] : f.k = x.k /\ f.t # "d"
      BY <2>1 DEF OneEntryPerKey
    <3>5. QED
      BY <3>3, <3>4 DEF Writes
  <2>2. QED
    BY <2>1
<1>10. Stamped'
  <2>1. ASSUME NEW y \in AllOps'
        PROVE  /\ y.t # "d" => y.l <= clock'[y.a]
               /\ y.t # "f" => y.k[1] <= clock'[y.k[2]]
    <3>1. CASE y \in AllOps
      BY <1>3, <1>8, <3>1, OpShape DEF Stamped
    <3>2. CASE y = x
      <4>1. clock'[p] = x.l
        BY <1>1 DEF TypeOK
      <4>2. x.t # "d" => x.l <= clock'[x.a]
        BY <1>3, <4>1 DEF Writes
      <4>3. CASE x.t # "f" /\ x.k[2] = p /\ x.k[1] <= x.l
        BY <3>2, <4>1, <4>2, <4>3
      <4>4. CASE \E e \in st[p] : e.k = x.k
        <5>1. PICK e \in st[p] : e.k = x.k
          BY <4>4
        <5>2. e \in AllOps /\ e \in Op
          BY <5>1, <1>8, AllOpsIs
        <5>3. x.t # "f" => e.t # "f"
          BY <1>2, <5>1, <5>2, OpShape
        <5>4. x.t # "f" => x.k[1] <= clock[x.k[2]] /\ x.k[1] \in Nat /\ x.k[2] \in Peers
          BY <1>2, <5>1, <5>2, <5>3, OpShape DEF Stamped
        <5>5. QED
          BY <1>3, <3>2, <4>2, <5>4
      <4>5. QED
        BY <4>3, <4>4 DEF Writes
    <3>3. QED
      BY <1>7, <2>1, <3>1, <3>2
  <2>2. QED
    BY <2>1 DEF Stamped
<1>11. StampsUnique'
  <2>1. ASSUME NEW y \in AllOps, Key(y) = Key(x), y.l = x.l, y.a = x.a PROVE y = x
    <3>1. y \in Op /\ y.t = x.t /\ y.k = x.k
      BY <1>8, <2>1 DEF Key
    <3>2. CASE x.t = "d"
      BY <1>2, <2>1, <3>1, <3>2, OpShape, OpEq
    <3>3. CASE x.t # "d"
      <4>1. y.a = p /\ y.l <= clock[p]
        BY <2>1, <3>1, <3>3 DEF Writes, Stamped
      <4>2. QED
        BY <1>3, <2>1, <4>1 DEF Writes
    <3>4. QED
      BY <3>2, <3>3
  <2>2. ASSUME NEW y \in AllOps', NEW z \in AllOps', Key(y) = Key(z), y.l = z.l, y.a = z.a PROVE y = z
    <3>1. (y \in AllOps \/ y = x) /\ (z \in AllOps \/ z = x)
      BY <1>7, <2>2
    <3>2. CASE y \in AllOps /\ z \in AllOps
      BY <2>2, <3>2 DEF StampsUnique
    <3>3. CASE y = x \/ z = x
      BY <2>1, <2>2, <3>1, <3>3
    <3>4. QED
      BY <3>1, <3>2, <3>3
  <2>3. QED
    BY <2>2 DEF StampsUnique, Key
<1>12. OneEntryPerKey'
  BY <1>1 DEF TypeOK, OneEntryPerKey, Put
<1>13. ClockCoversState'
  <2>1. ASSUME NEW q \in Peers, NEW e \in st'[q] PROVE e.l <= clock'[q]
    <3>1. CASE e \in st[q]
      <4>1. e.l \in Nat /\ e.l <= clock[q]
        BY <3>1, OpShape DEF TypeOK, ClockCoversState
      <4>2. QED
        BY <1>3, <4>1
    <3>2. CASE e \notin st[q]
      <4>1. q = p /\ e = x /\ clock'[p] = x.l
        BY <1>1, <2>1, <3>2 DEF TypeOK, Put
      <4>2. QED
        BY <1>3, <4>1
    <3>3. QED
      BY <3>1, <3>2
  <2>2. QED
    BY <2>1 DEF ClockCoversState
<1>14. ASSUME NEW y \in outbox[p], y.k = x.k, Key(y) # Key(x), x.t # "d" PROVE FALSE
  <2>1. y \in Op /\ y.t # x.t
    BY <1>14 DEF TypeOK, Key
  <2>2. y.t = "d"
    BY <1>2, <1>14, <2>1, OpShape
  <2>3. QED
    BY <1>9, <1>14, <2>2 DEF QueuedDeadIsHeld
<1>15. QueuesOnePerKey'
  <2>1. ASSUME NEW q \in Peers PROVE OnePerKey(outbox'[q])
    <3>1. CASE q # p
      BY <1>1, <3>1 DEF QueuesOnePerKey, TypeOK
    <3>2. CASE q = p
      <4>1. outbox'[p] = Queue(outbox[p], x)
        BY <1>1 DEF TypeOK
      <4>2. \A y \in outbox'[p] : y = x \/ (y \in outbox[p] /\ y.k # x.k)
        BY <4>1, <1>14 DEF Queue
      <4>3. OnePerKey(outbox[p])
        BY DEF QueuesOnePerKey
      <4>4. QED
        BY <3>2, <4>2, <4>3 DEF OnePerKey
    <3>3. QED
      BY <3>1, <3>2
  <2>2. QED
    BY <1>5, <2>1, CarriedOps DEF QueuesOnePerKey
<1>16. QueuedDeadIsHeld'
  <2>1. ASSUME NEW q \in Peers, NEW y \in outbox'[q], y.t = "d"
        PROVE  \E e \in st'[q] : e.t = "d" /\ e.k = y.k
    <3>1. CASE q # p
      BY <1>1, <2>1, <3>1 DEF QueuedDeadIsHeld, TypeOK
    <3>2. CASE q = p /\ y = x
      BY <1>1, <2>1, <3>2 DEF TypeOK, Put
    <3>3. CASE q = p /\ y # x
      <4>1. y \in outbox[p] /\ st'[p] = Put(st[p], x)
        BY <1>1, <2>1, <3>3 DEF TypeOK, Queue
      <4>2. PICK e \in st[p] : e.t = "d" /\ e.k = y.k
        BY <2>1, <4>1 DEF QueuedDeadIsHeld
      <4>3. e \in st'[p]
        BY <1>9, <4>1, <4>2 DEF Put
      <4>4. QED
        BY <3>3, <4>2, <4>3
    <3>4. QED
      BY <3>1, <3>2, <3>3
  <2>2. QED
    BY <2>1 DEF QueuedDeadIsHeld
<1>17. ASSUME NEW q \in Peers, NEW e \in st[q]
       PROVE  \E f \in st'[q] : f.k = e.k /\ (f = e \/ Beats(f, e))
  <2>1. CASE q # p \/ e.k # x.k
    BY <1>1, <1>17, <2>1 DEF TypeOK, Put
  <2>2. CASE q = p /\ e.k = x.k
    <3>1. e.t # "d" /\ e.l <= clock[p] /\ e.l \in Nat
      BY <1>9, <1>17, <2>2, OpShape DEF ClockCoversState, TypeOK
    <3>2. x.l > e.l
      BY <1>3, <3>1 DEF Writes
    <3>3. Beats(x, e) /\ x \in st'[p]
      BY <1>1, <3>1, <3>2 DEF Beats, TypeOK, Put
    <3>4. QED
      BY <2>2, <3>3
  <2>3. QED
    BY <2>1, <2>2
<1>18. QED
  BY <1>4, <1>6, <1>10, <1>11, <1>12, <1>13, <1>15, <1>16, <1>17

-----------------------------------------------------------------------------
(* The merge. *)

LEMMA AcceptancesSubset ==
  ASSUME NEW p \in Peers, NEW O, NEW A \in Acceptances(p, O)
  PROVE  A \subseteq O
  BY DEF Acceptances

(* Merging ops of which there is one per key into a state with one entry    *)
(* per key: entries are kept or beaten.                                     *)
LEMMA MergeAdvances ==
  ASSUME NEW S \in SUBSET Op, NEW A \in SUBSET Op, OnePerKey(S), OnePerKey(A), NEW e \in S
  PROVE  \E f \in Merge(S, A) : f.k = e.k /\ (f = e \/ Beats(f, e))
<1>1. CASE \E x \in A : x.k = e.k /\ Beats(x, e)
  <2>1. PICK x \in A : x.k = e.k /\ Beats(x, e)
    BY <1>1
  <2>2. \A y \in S \union A : y.k = x.k => y = e \/ y = x
    BY <2>1 DEF OnePerKey
  <2>3. ~Beats(e, x) /\ ~Beats(x, x)
    BY <2>1, BeatsAsymmetric, OpShape DEF Beats
  <2>4. x \in Merge(S, A)
    BY <2>1, <2>2, <2>3 DEF Merge
  <2>5. QED
    BY <2>1, <2>4
<1>2. CASE ~\E x \in A : x.k = e.k /\ Beats(x, e)
  <2>1. \A y \in S : y.k = e.k => y = e
    BY DEF OnePerKey
  <2>2. ~Beats(e, e)
    BY OpShape DEF Beats
  <2>3. e \in Merge(S, A)
    BY <1>2, <2>1, <2>2 DEF Merge
  <2>4. QED
    BY <2>3
<1>3. QED
  BY <1>1, <1>2

(* ... and one entry per key is left, when stamps are unique. *)
LEMMA MergeOnePerKey ==
  ASSUME NEW S \in SUBSET Op, NEW A \in SUBSET Op,
         \A x, y \in S \union A : Key(x) = Key(y) /\ x.l = y.l /\ x.a = y.a => x = y
  PROVE  OnePerKey(Merge(S, A))
<1>1. SUFFICES ASSUME NEW x \in Merge(S, A), NEW y \in Merge(S, A), x.k = y.k PROVE x = y
  BY DEF OnePerKey
<1>2. x \in S \union A /\ y \in S \union A /\ ~Beats(x, y) /\ ~Beats(y, x)
  BY <1>1 DEF Merge
<1>3. x.t = y.t /\ x.l = y.l /\ x.a = y.a
  BY <1>1, <1>2, Undecided
<1>4. QED
  BY <1>1, <1>2, <1>3 DEF Key

LEMMA ReceiveOpsStep ==
  ASSUME IInv, NEW p \in Peers, ReceiveOps(p)
  PROVE  IInv' /\ \A q \in Peers : \A e \in st[q] :
                    \E f \in st'[q] : f.k = e.k /\ (f = e \/ Beats(f, e))
<1> USE DEF IInv
<1> DEFINE O == Head(chan[p]).ops
<1>1. chan[p] # <<>> /\ chan' = [chan EXCEPT ![p] = Tail(@)] /\ meta' = [meta EXCEPT ![p] = TRUE]
      /\ outbox' = outbox /\ helloDue' = helloDue /\ up' = up /\ faults' = faults
  BY DEF ReceiveOps
<1>2. PICK A \in Acceptances(p, O) :
        /\ st' = [st EXCEPT ![p] = Merge(@, A)]
        /\ \E n \in 0 .. MaxClock : Raised(n, clock[p], Seen(st[p], A)) /\ clock' = [clock EXCEPT ![p] = n]
        /\ rejected' = [rejected EXCEPT ![p] = @ \/ A # O]
  BY DEF ReceiveOps
<1>3. PICK n \in 0 .. MaxClock : Raised(n, clock[p], Seen(st[p], A)) /\ clock' = [clock EXCEPT ![p] = n]
  BY <1>2
<1>4. chan[p] \in Seq(Frames) /\ 1 \in DOMAIN chan[p] /\ Head(chan[p]) = chan[p][1] /\ Head(chan[p]) \in Frames
  BY <1>1, TailOps DEF TypeOK
<1>5. O \subseteq AllOps /\ OnePerKey(O) /\ O \subseteq Op
  BY <1>4, AllOpsIs DEF QueuesOnePerKey, Frames
<1>6. A \subseteq AllOps /\ A \subseteq Op /\ OnePerKey(A)
  BY <1>5, AcceptancesSubset DEF OnePerKey
<1>7. st[p] \in SUBSET Op /\ st[p] \subseteq AllOps /\ OnePerKey(st[p])
  BY AllOpsIs DEF TypeOK, OneEntryPerKey, OnePerKey
<1>8. Merge(st[p], A) \subseteq Op /\ Merge(st[p], A) \subseteq AllOps
  BY <1>6, <1>7 DEF Merge
<1>9. /\ n \in 0 .. ClockBound /\ n >= clock[p] /\ \A x \in Seen(st[p], A) : n >= x.l
      /\ clock[p] \in Nat /\ n \in Nat
  <2>1. clock[p] \in 0 .. ClockBound
    BY DEF TypeOK
  <2>2. \A x \in Seen(st[p], A) : x.l \in 1 .. ClockBound
    BY <1>6, OpShape DEF Seen
  <2>3. QED
    BY <1>3, <2>1, <2>2, BoundsAssumption DEF Raised
<1>10. Carried /\ chan' \in [Peers -> Seq(Frames)]
  BY <1>1, TailCarries
<1>11. TypeOK'
  <2>1. st' \in [Peers -> SUBSET Op]
    BY <1>2, <1>8 DEF TypeOK
  <2>2. clock' \in [Peers -> 0 .. ClockBound]
    BY <1>3, <1>9 DEF TypeOK
  <2>3. meta' \in [Peers -> BOOLEAN] /\ rejected' \in [Peers -> BOOLEAN]
    BY <1>1, <1>2 DEF TypeOK
  <2>4. QED
    BY <1>1, <1>10, <2>1, <2>2, <2>3 DEF TypeOK
<1>12. \A x \in AllOps' : x \in AllOps
  <2>1. ASSUME NEW x \in AllOps' PROVE x \in AllOps
    <3>1. PICK q \in Peers : x \in st'[q] \/ x \in outbox'[q] \/ \E i \in DOMAIN chan'[q] : x \in chan'[q][i].ops
      BY <2>1, AllOpsPrimeIs
    <3>2. CASE x \in st'[q] \/ x \in outbox'[q]
      BY <1>1, <1>2, <1>8, <3>2, AllOpsIs DEF TypeOK
    <3>3. CASE \E i \in DOMAIN chan'[q] : x \in chan'[q][i].ops
      BY <1>10, <3>3, CarriedOps
    <3>4. QED
      BY <3>1, <3>2, <3>3
  <2>2. QED
    BY <2>1
<1>13. \A q \in Peers : clock[q] \in Nat /\ clock'[q] \in Nat /\ clock[q] <= clock'[q]
  BY <1>3, <1>9, BoundsAssumption DEF TypeOK
<1>14. Stamped' /\ StampsUnique'
  BY <1>11, <1>12, <1>13, NoNewOps DEF TypeOK
<1>15. OneEntryPerKey'
  <2>1. OnePerKey(Merge(st[p], A))
    BY <1>6, <1>7, MergeOnePerKey DEF StampsUnique
  <2>2. QED
    BY <1>2, <2>1 DEF TypeOK, OneEntryPerKey, OnePerKey
<1>16. ClockCoversState'
  <2>1. ASSUME NEW q \in Peers, NEW e \in st'[q] PROVE e.l <= clock'[q]
    <3>1. CASE e \in st[q]
      <4>1. e.l \in Nat /\ e.l <= clock[q]
        BY <3>1, OpShape DEF TypeOK, ClockCoversState
      <4>2. QED
        BY <1>13, <4>1
    <3>2. CASE e \notin st[q]
      <4>1. q = p /\ e \in Merge(st[p], A) /\ e \in A /\ clock'[p] = n
        BY <1>2, <1>3, <2>1, <3>2 DEF TypeOK, Merge
      <4>2. ~\E d \in st[p] : d.t = "d" /\ d.k = e.k /\ e.t = "s"
        BY <4>1 DEF Merge, Beats
      <4>3. e \in Seen(st[p], A)
        BY <4>1, <4>2 DEF Seen
      <4>4. e.l \in Nat
        BY <1>6, <4>1, OpShape
      <4>5. QED
        BY <1>9, <4>1, <4>3, <4>4
    <3>3. QED
      BY <3>1, <3>2
  <2>2. QED
    BY <2>1 DEF ClockCoversState
<1>17. QueuesOnePerKey'
  BY <1>1, <1>10, CarriedOps DEF QueuesOnePerKey
<1>18. ASSUME NEW q \in Peers, NEW e \in st[q]
       PROVE  \E f \in st'[q] : f.k = e.k /\ (f = e \/ Beats(f, e))
  <2>1. CASE q = p
    <3>1. st'[p] = Merge(st[p], A)
      BY <1>2 DEF TypeOK
    <3>2. QED
      BY <1>6, <1>7, <1>18, <2>1, <3>1, MergeAdvances
  <2>2. CASE q # p
    BY <1>2, <1>18, <2>2 DEF TypeOK
  <2>3. QED
    BY <2>1, <2>2
<1>19. QueuedDeadIsHeld'
  <2>1. ASSUME NEW q \in Peers, NEW y \in outbox'[q], y.t = "d"
        PROVE  \E e \in st'[q] : e.t = "d" /\ e.k = y.k
    <3>1. PICK e \in st[q] : e.t = "d" /\ e.k = y.k
      BY <1>1, <2>1 DEF QueuedDeadIsHeld
    <3>2. PICK f \in st'[q] : f.k = e.k /\ (f = e \/ Beats(f, e))
      BY <1>18
    <3>3. f.t = "d"
      BY <3>1, <3>2 DEF Beats
    <3>4. QED
      BY <3>1, <3>2, <3>3
  <2>2. QED
    BY <2>1 DEF QueuedDeadIsHeld
<1>20. QuietBeforeSeed'
  BY <1>1 DEF QuietBeforeSeed, TypeOK
<1>21. QED
  BY <1>11, <1>14, <1>15, <1>16, <1>17, <1>18, <1>19, <1>20

-----------------------------------------------------------------------------
(* seed(). *)

LEMMA SeedStep ==
  ASSUME IInv, Seed
  PROVE  IInv' /\ \A q \in Peers : st[q] = {}
<1> USE DEF IInv
<1>1. ~meta[Inviter] /\ meta' = [meta EXCEPT ![Inviter] = TRUE] /\ rejected' = rejected
      /\ helloDue' = helloDue /\ up' = up /\ chan' = chan /\ faults' = faults /\ Inviter \in Peers
  BY DEF Seed, net, Peers
<1>2. \A q \in Peers : st[q] = {} /\ outbox[q] = {} /\ chan[q] = <<>> /\ clock[q] = 0
  BY <1>1 DEF QuietBeforeSeed
<1> DEFINE birth(i) == NFields + 2 * i - 1
           seeded(v) == {FieldOp(k, v, k[1], Inviter) : k \in FieldKeys}
             \union {StickerOp(<<birth(i), Inviter>>, v, birth(i) + 1, Inviter) : i \in 1 .. SeedStickers}
<1>3. PICK v \in Values : /\ st' = [st EXCEPT ![Inviter] = seeded(v)]
                          /\ outbox' = [outbox EXCEPT ![Inviter] = seeded(v)]
                          /\ clock' = [clock EXCEPT ![Inviter] = NFields + 2 * SeedStickers]
  BY DEF Seed
<1> DEFINE L == NFields + 2 * SeedStickers
<1>4. L \in 0 .. ClockBound /\ L \in Nat
  BY BoundsAssumption
<1>5. ASSUME NEW x \in seeded(v)
      PROVE  /\ x \in Op /\ x.a = Inviter /\ x.t # "d" /\ x.l <= L
             /\ x.t = "f" => x.l = x.k[1]
             /\ x.t # "f" => x.k[2] = Inviter /\ x.k[1] <= L /\ x.l = x.k[1] + 1
             /\ x.v = v
  <2>1. CASE x \in {FieldOp(k, v, k[1], Inviter) : k \in FieldKeys}
    <3>1. PICK k \in FieldKeys : x = FieldOp(k, v, k[1], Inviter)
      BY <2>1
    <3>2. k[1] \in 1 .. NFields
      BY DEF FieldKeys
    <3>3. k[1] \in 1 .. ClockBound /\ k[1] <= L
      BY <3>2, BoundsAssumption
    <3>4. QED
      BY <1>1, <3>1, <3>3 DEF FieldOp, Op
  <2>2. CASE x \in {StickerOp(<<birth(i), Inviter>>, v, birth(i) + 1, Inviter) : i \in 1 .. SeedStickers}
    <3>1. PICK i \in 1 .. SeedStickers : x = StickerOp(<<birth(i), Inviter>>, v, birth(i) + 1, Inviter)
      BY <2>2
    <3>2. birth(i) \in Nat /\ birth(i) + 1 \in 1 .. ClockBound /\ birth(i) + 1 <= L /\ birth(i) <= L
      BY BoundsAssumption
    <3> HIDE DEF birth
    <3>3. <<birth(i), Inviter>> \in Ids
      BY <1>1, <3>2 DEF Ids
    <3>4. QED
      BY <1>1, <3>1, <3>2, <3>3 DEF StickerOp, Op
  <2>3. QED
    BY <2>1, <2>2
<1> HIDE DEF seeded, L
<1>6. st'[Inviter] = seeded(v) /\ outbox'[Inviter] = seeded(v) /\ clock'[Inviter] = L
      /\ \A q \in Peers : q # Inviter => st'[q] = {} /\ outbox'[q] = {} /\ clock'[q] = 0
  BY <1>1, <1>2, <1>3 DEF TypeOK, L
<1>7. TypeOK'
  <2>1. seeded(v) \in SUBSET Op
    BY <1>5
  <2>2. QED
    BY <1>1, <1>3, <1>4, <2>1 DEF TypeOK, L
<1>8. \A x \in AllOps' : x \in seeded(v)
  <2>1. ASSUME NEW x \in AllOps' PROVE x \in seeded(v)
    <3>1. PICK q \in Peers : x \in st'[q] \/ x \in outbox'[q] \/ \E i \in DOMAIN chan'[q] : x \in chan'[q][i].ops
      BY <2>1, AllOpsPrimeIs
    <3>2. DOMAIN chan'[q] = {}
      BY <1>1, <1>2
    <3>3. QED
      BY <1>6, <3>1, <3>2
  <2>2. QED
    BY <2>1
<1>9. OnePerKey(seeded(v))
  <2>1. SUFFICES ASSUME NEW x \in seeded(v), NEW y \in seeded(v), x.k = y.k PROVE x = y
    BY DEF OnePerKey
  <2>2. x \in Op /\ y \in Op /\ x.a = y.a /\ x.v = y.v
    BY <1>5
  <2>3. x.t = y.t
    BY <1>5, <2>1, <2>2, OpShape
  <2>4. x.l = y.l
    BY <1>5, <2>1, <2>3
  <2>5. QED
    BY <2>1, <2>2, <2>3, <2>4, OpEq
<1>10. Stamped'
  BY <1>5, <1>6, <1>8 DEF Stamped
<1>11. StampsUnique'
  BY <1>8, <1>9 DEF StampsUnique, Key, OnePerKey
<1>12. OneEntryPerKey' /\ ClockCoversState'
  BY <1>5, <1>6, <1>9 DEF OneEntryPerKey, ClockCoversState, OnePerKey
<1>13. QueuesOnePerKey'
  <2>1. \A q \in Peers : OnePerKey(outbox'[q])
    BY <1>6, <1>9 DEF OnePerKey
  <2>2. QED
    BY <1>1, <2>1 DEF QueuesOnePerKey
<1>14. QueuedDeadIsHeld'
  BY <1>5, <1>6 DEF QueuedDeadIsHeld
<1>15. QuietBeforeSeed'
  BY <1>1 DEF QuietBeforeSeed, TypeOK
<1>16. QED
  BY <1>2, <1>7, <1>10, <1>11, <1>12, <1>13, <1>14, <1>15

-----------------------------------------------------------------------------
(* The actions, one by one. *)

(* Entries are kept or beaten in a step. *)
Advance ==
  \A p \in Peers : \A e \in st[p] : \E f \in st'[p] : f.k = e.k /\ (f = e \/ Beats(f, e))

LEMMA TickedIs ==
  ASSUME NEW c \in Nat, c < ClockBound
  PROVE  Ticked(c) = c + 1
  BY BoundsAssumption DEF Ticked

LEMMA EditActions ==
  ASSUME IInv, NEW p \in Peers, SetLocal(p) \/ AddSticker(p) \/ MoveSticker(p) \/ Kill(p)
  PROVE  IInv' /\ Advance
<1>1. clock[p] \in Nat /\ ClockBound \in Nat /\ clock[p] < ClockBound /\ st[p] # {} /\ st[p] \subseteq Op
  BY BoundsAssumption DEF SetLocal, AddSticker, MoveSticker, Kill, CanEdit, IInv, TypeOK
<1>2. Ticked(clock[p]) = clock[p] + 1 /\ clock[p] + 1 \in 1 .. ClockBound
  BY <1>1, TickedIs
<1>3. CASE SetLocal(p)
  <2>1. PICK e \in st[p], v \in Values : e.t = "f" /\ Edit(p, FieldOp(e.k, v, clock[p] + 1, p))
    BY <1>2, <1>3 DEF SetLocal
  <2> DEFINE x == FieldOp(e.k, v, clock[p] + 1, p)
  <2>2. x \in Op
    BY <1>1, <1>2, <2>1, OpShape DEF FieldOp, Op
  <2>3. Writes(p, x)
    BY <1>1, <2>1, <2>2 DEF Writes, FieldOp
  <2>4. QED
    BY <1>1, <2>1, <2>3, EditStep DEF Advance
<1>4. CASE AddSticker(p)
  <2>1. clock[p] + 1 < ClockBound
    BY <1>1, <1>4 DEF AddSticker, CanEdit
  <2>2. Ticked(clock[p] + 1) = clock[p] + 2 /\ clock[p] + 2 \in 1 .. ClockBound
    BY <1>1, <2>1, TickedIs
  <2>3. PICK v \in Values : Edit(p, StickerOp(<<clock[p] + 1, p>>, v, clock[p] + 2, p))
    BY <1>2, <1>4, <2>2 DEF AddSticker
  <2> DEFINE x == StickerOp(<<clock[p] + 1, p>>, v, clock[p] + 2, p)
  <2>4. x \in Op
    BY <1>1, <2>2, <2>3 DEF StickerOp, Op, Ids
  <2>5. x.t = "s" /\ x.k[1] = clock[p] + 1 /\ x.k[2] = p /\ x.l = clock[p] + 2 /\ x.a = p
    BY DEF StickerOp
  <2>6. Writes(p, x)
    BY <1>1, <2>4, <2>5 DEF Writes
  <2>7. QED
    BY <1>1, <2>3, <2>6, EditStep DEF Advance
<1>5. CASE MoveSticker(p)
  <2>1. PICK e \in st[p], v \in Values : e.t = "s" /\ Edit(p, StickerOp(e.k, v, clock[p] + 1, p))
    BY <1>2, <1>5 DEF MoveSticker
  <2> DEFINE x == StickerOp(e.k, v, clock[p] + 1, p)
  <2>2. x \in Op
    BY <1>1, <1>2, <2>1, OpShape DEF StickerOp, Op
  <2>3. Writes(p, x)
    BY <1>1, <2>1, <2>2 DEF Writes, StickerOp
  <2>4. QED
    BY <1>1, <2>1, <2>3, EditStep DEF Advance
<1>6. CASE Kill(p)
  <2>1. PICK e \in st[p] : e.t = "s" /\ Edit(p, DeadOp(e.k, clock[p] + 1))
    BY <1>2, <1>6 DEF Kill
  <2> DEFINE x == DeadOp(e.k, clock[p] + 1)
  <2>2. x \in Op
    BY <1>1, <1>2, <2>1, OpShape DEF DeadOp, Op
  <2>3. Writes(p, x)
    BY <1>1, <2>1, <2>2 DEF Writes, DeadOp
  <2>4. QED
    BY <1>1, <2>1, <2>3, EditStep DEF Advance
<1>7. QED
  BY <1>3, <1>4, <1>5, <1>6

(* The frames a peer can send. *)
LEMMA FramesTyped ==
  ASSUME TypeOK, NEW p \in Peers
  PROVE  /\ WhoFrame(p) \in Frames /\ WhoFrame(p).ops = {}
         /\ \A ops \in SUBSET Op : OpsFrame(p, ops) \in Frames /\ OpsFrame(p, ops).ops = ops
<1>1. Hash(st[p]) \subseteq Op \union Digested
  <2>1. ASSUME NEW e \in st[p] PROVE (IF e.t = "d" THEN DeadOp(e.k, 0) ELSE e) \in Op \union Digested
    <3>1. e \in Op
      BY DEF TypeOK
    <3>2. QED
      BY <3>1, OpShape DEF DeadOp, Digested
  <2>2. QED
    BY <2>1 DEF Hash
<1>2. meta[p] \in BOOLEAN
  BY DEF TypeOK
<1>3. QED
  BY <1>1, <1>2 DEF WhoFrame, OpsFrame, Frames

LEMMA MoveActions ==
  ASSUME IInv, NEW p \in Peers,
         \/ TickHello(p) \/ TickOps(p) \/ TickDigest(p) \/ ReceiveDiffering(p) \/ ReceiveDigest(p)
         \/ Connected(p) \/ Disconnected(p) \/ LoseFrame(p)
  PROVE  IInv' /\ Advance
<1> USE DEF IInv
<1>1. ASSUME UNCHANGED <<st, clock>> PROVE Advance
  BY <1>1 DEF Advance
<1>2. up[p] \/ chan[p] # <<>> => meta[Inviter]
  BY DEF QuietBeforeSeed
<1>3. CASE TickHello(p)
  <2>1. Carried /\ chan' \in [Peers -> Seq(Frames)]
    BY <1>3, FramesTyped, SendCarries DEF TickHello
  <2>2. TypeOK'
    BY <1>3, <2>1 DEF TickHello, TypeOK
  <2>3. QED
    BY <1>1, <1>2, <1>3, <2>1, <2>2, MoveStep DEF TickHello, CanSend
<1>4. CASE TickOps(p)
  <2>1. PICK ops \in Takes(outbox[p]) : Send(p, OpsFrame(p, ops)) /\ outbox' = [outbox EXCEPT ![p] = @ \ ops]
    BY <1>4 DEF TickOps
  <2>2. ops \subseteq outbox[p] /\ ops \in SUBSET Op
    BY <2>1 DEF Takes, TypeOK
  <2>3. Carried /\ chan' \in [Peers -> Seq(Frames)]
    BY <2>1, <2>2, FramesTyped, SendCarries
  <2>4. TypeOK'
    BY <1>4, <2>1, <2>3 DEF TickOps, TypeOK
  <2>5. \A q \in Peers : outbox'[q] \subseteq outbox[q]
    BY <2>1 DEF TypeOK
  <2>6. QED
    BY <1>1, <1>2, <1>4, <2>3, <2>4, <2>5, MoveStep DEF TickOps, CanSend
<1>5. CASE TickDigest(p)
  <2>1. Carried /\ chan' \in [Peers -> Seq(Frames)]
    BY <1>5, FramesTyped, SendCarries DEF TickDigest
  <2>2. TypeOK'
    BY <1>5, <2>1 DEF TickDigest, TypeOK
  <2>3. QED
    BY <1>1, <1>2, <1>5, <2>1, <2>2, MoveStep DEF TickDigest, CanSend
<1>6. CASE ReceiveDiffering(p) \/ ReceiveDigest(p)
  <2>1. /\ chan[p] # <<>> /\ chan' = [chan EXCEPT ![p] = Tail(@)]
        /\ meta' = [meta EXCEPT ![p] = @ \/ Head(chan[p]).meta]
        /\ st' = st /\ clock' = clock /\ rejected' = rejected /\ helloDue' = helloDue
        /\ up' = up /\ faults' = faults
    BY <1>6 DEF ReceiveDiffering, ReceiveDigest, Digest
  <2>2. Carried /\ chan' \in [Peers -> Seq(Frames)]
    BY <2>1, TailCarries
  <2>3. \A q \in Peers : outbox'[q] \subseteq outbox[q] \/ outbox'[q] = st[q]
    BY <1>6 DEF ReceiveDiffering, ReceiveDigest, TypeOK
  <2>4. outbox' \in [Peers -> SUBSET Op]
    BY <1>6 DEF ReceiveDiffering, ReceiveDigest, TypeOK
  <2>5. Head(chan[p]) \in Frames
    BY <2>1, TailOps DEF TypeOK
  <2>6. meta' \in [Peers -> BOOLEAN] /\ meta'[Inviter]
    BY <1>2, <2>1, <2>5 DEF TypeOK, Frames, Peers
  <2>7. TypeOK'
    BY <2>1, <2>2, <2>4, <2>6 DEF TypeOK
  <2>8. QED
    BY <1>1, <2>1, <2>2, <2>3, <2>6, <2>7, MoveStep
<1>7. CASE Connected(p)
  <2>1. Carried /\ chan' \in [Peers -> Seq(Frames)]
    BY <1>7, FramesTyped, SendCarries, SameCarries DEF Connected
  <2>2. TypeOK'
    BY <1>7, <2>1 DEF Connected, TypeOK
  <2>3. QED
    BY <1>1, <1>7, <2>1, <2>2, MoveStep DEF Connected
<1>8. CASE Disconnected(p)
  <2>1. Carried /\ chan' \in [Peers -> Seq(Frames)]
    BY <1>8, ResetCarries DEF Disconnected
  <2>2. TypeOK'
    BY <1>8, <2>1 DEF Disconnected, Fault, TypeOK
  <2>3. QED
    BY <1>1, <1>2, <1>8, <2>1, <2>2, MoveStep DEF Disconnected
<1>9. CASE LoseFrame(p)
  <2>1. Carried /\ chan' \in [Peers -> Seq(Frames)]
    BY <1>9, TailCarries DEF LoseFrame
  <2>2. TypeOK'
    BY <1>9, <2>1 DEF LoseFrame, Fault, TypeOK
  <2>3. QED
    BY <1>1, <1>2, <1>9, <2>1, <2>2, MoveStep DEF LoseFrame
<1>10. QED
  BY <1>3, <1>4, <1>5, <1>6, <1>7, <1>8, <1>9

LEMMA NextStep ==
  ASSUME IInv, Next
  PROVE  IInv' /\ Advance
<1>1. CASE Seed
  BY <1>1, SeedStep DEF Advance
<1>2. ASSUME NEW p \in Peers, SetLocal(p) \/ AddSticker(p) \/ MoveSticker(p) \/ Kill(p)
      PROVE  IInv' /\ Advance
  BY <1>2, EditActions
<1>3. ASSUME NEW p \in Peers, ReceiveOps(p)
      PROVE  IInv' /\ Advance
  BY <1>3, ReceiveOpsStep DEF Advance
<1>4. ASSUME NEW p \in Peers,
             \/ TickHello(p) \/ TickOps(p) \/ TickDigest(p) \/ ReceiveDiffering(p) \/ ReceiveDigest(p)
             \/ Connected(p) \/ Disconnected(p) \/ LoseFrame(p)
      PROVE  IInv' /\ Advance
  BY <1>4, MoveActions
<1>5. QED
  BY <1>1, <1>2, <1>3, <1>4 DEF Next, Tick, Receive

LEMMA InitInv == Init => IInv
<1> SUFFICES ASSUME Init PROVE IInv
  OBVIOUS
<1>1. \A p \in Peers : st[p] = {} /\ outbox[p] = {} /\ chan[p] = <<>> /\ clock[p] = 0 /\ ~up[p]
  BY DEF Init
<1>2. TypeOK
  <2>1. <<>> \in Seq(Frames)
    BY EmptySeq
  <2>2. QED
    BY <2>1, BoundsAssumption DEF Init, TypeOK
<1>3. AllOps = {}
  <2>1. ASSUME NEW x \in AllOps PROVE FALSE
    BY <1>1, <2>1, AllOpsIs
  <2>2. QED
    BY <2>1
<1>4. QED
  BY <1>1, <1>2, <1>3 DEF IInv, Stamped, StampsUnique, OneEntryPerKey, ClockCoversState,
       QueuesOnePerKey, OnePerKey, QueuedDeadIsHeld, QuietBeforeSeed

LEMMA StutterInv == IInv /\ UNCHANGED vars => IInv' /\ Advance
<1> SUFFICES ASSUME IInv, UNCHANGED vars PROVE IInv' /\ Advance
  OBVIOUS
<1> USE DEF vars, net
<1>1. TypeOK' /\ OneEntryPerKey' /\ ClockCoversState' /\ QueuesOnePerKey' /\ QueuedDeadIsHeld' /\ QuietBeforeSeed'
  BY DEF IInv, TypeOK, OneEntryPerKey, ClockCoversState, QueuesOnePerKey, OnePerKey, QueuedDeadIsHeld, QuietBeforeSeed
<1>2. AllOps' = AllOps
  BY DEF AllOps, InFlight
<1>3. Stamped' /\ StampsUnique'
  BY <1>2 DEF IInv, Stamped, StampsUnique, Key
<1>4. QED
  BY <1>1, <1>3 DEF IInv, Advance

-----------------------------------------------------------------------------
(* How many ids a peer holds.  They are counted by their keys: with one     *)
(* entry per key there are as many of either.                               *)

HeldIds(S) == {e.k : e \in {x \in S : x.t # "f"}}

(* Everything a peer holds, has queued or is being sent is finite. *)
FinitelyMany ==
  \A p \in Peers : /\ IsFiniteSet(st[p]) /\ IsFiniteSet(outbox[p])
                   /\ \A i \in DOMAIN chan[p] : IsFiniteSet(chan[p][i].ops)

Bounded == FinitelyMany /\ IdsBounded

(* The image of a finite set is finite and no larger. *)
LEMMA KeysFinite ==
  ASSUME NEW S, IsFiniteSet(S)
  PROVE  /\ IsFiniteSet(KeysOf(S)) /\ Cardinality(KeysOf(S)) <= Cardinality(S)
         /\ Cardinality(KeysOf(S)) \in Nat /\ Cardinality(S) \in Nat
<1> DEFINE f == [e \in S |-> e.k]
<1>1. f \in Surjection(S, KeysOf(S))
  BY DEF Surjection, KeysOf
<1>2. IsFiniteSet(KeysOf(S)) /\ Cardinality(KeysOf(S)) <= Cardinality(S)
  BY <1>1, FS_Surjection
<1>3. QED
  BY <1>2, FS_CardinalityType

LEMMA HeldIdsCount ==
  ASSUME NEW S, IsFiniteSet(S)
  PROVE  /\ IsFiniteSet(HeldIds(S)) /\ Cardinality(HeldIds(S)) <= IdCount(S)
         /\ Cardinality(HeldIds(S)) \in Nat /\ IdCount(S) \in Nat
         /\ OnePerKey(S) => IdCount(S) = Cardinality(HeldIds(S))
<1> DEFINE T == {x \in S : x.t # "f"}
           f == [e \in T |-> e.k]
<1>1. IsFiniteSet(T)
  BY FS_Subset
<1>2. HeldIds(S) = KeysOf(T) /\ IdCount(S) = Cardinality(T)
  BY DEF HeldIds, KeysOf, IdCount
<1>3. /\ IsFiniteSet(KeysOf(T)) /\ Cardinality(KeysOf(T)) <= Cardinality(T)
      /\ Cardinality(KeysOf(T)) \in Nat /\ Cardinality(T) \in Nat
  BY <1>1, KeysFinite
<1>4. ASSUME OnePerKey(S) PROVE Cardinality(T) <= Cardinality(KeysOf(T))
  <2>1. f \in Injection(T, KeysOf(T))
    BY <1>4 DEF OnePerKey, KeysOf, Injection, IsInjective
  <2>2. QED
    BY <1>3, <2>1, FS_Injection
<1>5. QED
  BY <1>2, <1>3, <1>4

(* Few ids, few entries. *)
LEMMA CountBelow ==
  ASSUME NEW S, IsFiniteSet(S), OnePerKey(S), NEW K, IsFiniteSet(K), HeldIds(S) \subseteq K,
         NEW n \in Nat, Cardinality(K) <= n
  PROVE  IdCount(S) <= n
<1>1. /\ IsFiniteSet(HeldIds(S)) /\ IdCount(S) = Cardinality(HeldIds(S)) /\ IdCount(S) \in Nat
  BY HeldIdsCount
<1>2. Cardinality(HeldIds(S)) <= Cardinality(K) /\ Cardinality(K) \in Nat
  BY FS_Subset, FS_CardinalityType
<1>3. QED
  BY <1>1, <1>2

(* A key says whether it is a field's. *)
LEMMA HeldKey ==
  ASSUME NEW S \in SUBSET Op, NEW x \in Op, x.t # "f", x.k \in KeysOf(S)
  PROVE  x.k \in HeldIds(S)
<1>1. PICK e \in S : e.k = x.k
  BY DEF KeysOf
<1>2. e.t # "f"
  BY <1>1, OpShape
<1>3. QED
  BY <1>1, <1>2 DEF HeldIds

(* The frames and queues after a step carry nothing that was not finite. *)
LEMMA CarriedFinite ==
  ASSUME FinitelyMany, Carried,
         \A p \in Peers : IsFiniteSet(st'[p]) /\ IsFiniteSet(outbox'[p])
  PROVE  FinitelyMany'
<1>1. ASSUME NEW q \in Peers, NEW i \in DOMAIN chan'[q] PROVE IsFiniteSet(chan'[q][i].ops)
  <2>1. CASE \E j \in DOMAIN chan[q] : chan'[q][i] = chan[q][j]
    BY <2>1 DEF FinitelyMany
  <2>2. CASE \E r \in Peers : chan'[q][i].ops \subseteq outbox[r]
    BY <2>2, FS_Subset DEF FinitelyMany
  <2>3. QED
    BY <1>1, <2>1, <2>2 DEF Carried
<1>2. QED
  BY <1>1 DEF FinitelyMany

(* An edit adds an id only where putSticker() makes one, below LOCAL_IDS. *)
LEMMA EditBounded ==
  ASSUME IInv, Bounded, NEW p \in Peers, NEW x \in Op, Edit(p, x), OneEntryPerKey',
         \/ x.t = "f" \/ x.k \in HeldIds(st[p]) \/ IdCount(st[p]) < LocalIds
  PROVE  Bounded'
<1>1. /\ st \in [Peers -> SUBSET Op] /\ outbox \in [Peers -> SUBSET Op]
      /\ st' = [st EXCEPT ![p] = Put(st[p], x)] /\ outbox' = [outbox EXCEPT ![p] = Queue(outbox[p], x)]
      /\ chan' = chan
  BY DEF Edit, net, IInv, TypeOK
<1>2. IsFiniteSet(Put(st[p], x)) /\ IsFiniteSet(Queue(outbox[p], x))
  <2>1. IsFiniteSet({e \in st[p] : e.k # x.k})
        /\ IsFiniteSet({y \in outbox[p] : Key(y) # Key(x) /\ ~(x.t = "d" /\ y.k = x.k)})
    BY FS_Subset DEF Bounded, FinitelyMany
  <2>2. QED
    BY <2>1, FS_AddElement DEF Put, Queue
<1>3. FinitelyMany'
  <2>1. \A q \in Peers : IsFiniteSet(st'[q]) /\ IsFiniteSet(outbox'[q])
    BY <1>1, <1>2 DEF Bounded, FinitelyMany
  <2>2. Carried
    BY <1>1, SameCarries DEF IInv
  <2>3. QED
    BY <2>1, <2>2, CarriedFinite DEF Bounded
<1>4. IsFiniteSet(st[p]) /\ IdCount(st[p]) <= MaxIds
  BY DEF Bounded, FinitelyMany, IdsBounded
<1> DEFINE H == HeldIds(st[p])
<1>5. IsFiniteSet(H) /\ Cardinality(H) <= IdCount(st[p]) /\ Cardinality(H) \in Nat /\ IdCount(st[p]) \in Nat
  BY <1>4, HeldIdsCount
<1>6. OnePerKey(Put(st[p], x))
  BY <1>1 DEF OneEntryPerKey, OnePerKey
<1>7. HeldIds(Put(st[p], x)) \subseteq H \union (IF x.t = "f" THEN {} ELSE {x.k})
  BY DEF HeldIds, Put
<1>8. CASE x.t = "f" \/ x.k \in H
  <2>1. HeldIds(Put(st[p], x)) \subseteq H
    BY <1>7, <1>8
  <2>2. Cardinality(H) <= MaxIds
    BY <1>4, <1>5, BoundsAssumption
  <2>3. IdCount(Put(st[p], x)) <= MaxIds
    BY <1>2, <1>5, <1>6, <2>1, <2>2, CountBelow, BoundsAssumption
  <2>4. QED
    BY <1>1, <1>3, <2>3 DEF Bounded, IdsBounded
<1>9. CASE IdCount(st[p]) < LocalIds
  <2> HIDE DEF H
  <2>1. IsFiniteSet(H \union {x.k}) /\ Cardinality(H \union {x.k}) <= Cardinality(H) + 1
        /\ Cardinality(H \union {x.k}) \in Nat
    <3>1. IsFiniteSet(H \union {x.k})
      BY <1>5, FS_AddElement
    <3>2. Cardinality(H \union {x.k}) = IF x.k \in H THEN Cardinality(H) ELSE Cardinality(H) + 1
      BY <1>5, FS_AddElement
    <3>3. QED
      BY <1>5, <3>1, <3>2
  <2>2. Cardinality(H \union {x.k}) <= MaxIds
    BY <1>5, <1>9, <2>1, BoundsAssumption
  <2>3. HeldIds(Put(st[p], x)) \subseteq H \union {x.k}
    BY <1>7 DEF H
  <2>4. IdCount(Put(st[p], x)) <= MaxIds
    BY <1>2, <1>6, <2>1, <2>2, <2>3, CountBelow, BoundsAssumption
  <2>5. QED
    BY <1>1, <1>3, <2>4 DEF Bounded, IdsBounded
<1>10. QED
  BY <1>8, <1>9

LEMMA EditActionsBounded ==
  ASSUME IInv, Bounded, NEW p \in Peers, SetLocal(p) \/ AddSticker(p) \/ MoveSticker(p) \/ Kill(p)
  PROVE  Bounded'
<1>1. OneEntryPerKey' /\ TypeOK'
  BY EditActions DEF IInv
<1>2. st[p] \subseteq Op
  BY DEF IInv, TypeOK
<1>3. ASSUME NEW x, Edit(p, x) PROVE x \in Op
  <2>1. x \in st'[p] /\ st'[p] \subseteq Op
    BY <1>1, <1>3 DEF Edit, Put, IInv, TypeOK
  <2>2. QED
    BY <2>1
<1>4. CASE SetLocal(p)
  <2>1. PICK e \in st[p], v \in Values : Edit(p, FieldOp(e.k, v, Ticked(clock[p]), p))
    BY <1>4 DEF SetLocal
  <2>2. FieldOp(e.k, v, Ticked(clock[p]), p).t = "f"
    BY DEF FieldOp
  <2>3. QED
    BY <1>1, <1>3, <2>1, <2>2, EditBounded
<1>5. CASE AddSticker(p)
  <2>1. PICK v \in Values : Edit(p, StickerOp(<<Ticked(clock[p]), p>>, v, Ticked(Ticked(clock[p])), p))
    BY <1>5 DEF AddSticker
  <2>2. IdCount(st[p]) < LocalIds
    BY <1>5 DEF AddSticker
  <2>3. QED
    BY <1>1, <1>3, <2>1, <2>2, EditBounded
<1>6. CASE MoveSticker(p)
  <2>1. PICK e \in st[p], v \in Values : e.t = "s" /\ Edit(p, StickerOp(e.k, v, Ticked(clock[p]), p))
    BY <1>6 DEF MoveSticker
  <2>2. StickerOp(e.k, v, Ticked(clock[p]), p).k \in HeldIds(st[p])
    BY <2>1 DEF StickerOp, HeldIds
  <2>3. QED
    BY <1>1, <1>3, <2>1, <2>2, EditBounded
<1>7. CASE Kill(p)
  <2>1. PICK e \in st[p] : e.t = "s" /\ Edit(p, DeadOp(e.k, Ticked(clock[p])))
    BY <1>7 DEF Kill
  <2>2. DeadOp(e.k, Ticked(clock[p])).k \in HeldIds(st[p])
    BY <2>1 DEF DeadOp, HeldIds
  <2>3. QED
    BY <1>1, <1>3, <2>1, <2>2, EditBounded
<1>8. QED
  BY <1>4, <1>5, <1>6, <1>7

(* apply() takes a new id only while there is room for it. *)
LEMMA ReceiveOpsBounded ==
  ASSUME IInv, Bounded, NEW p \in Peers, ReceiveOps(p)
  PROVE  Bounded'
<1> DEFINE O == Head(chan[p]).ops
           S == st[p]
           fit == {x \in O : OkClock(p, x.l)}
           new == NewIds(p, fit)
           room == IF IdCount(S) >= MaxIds THEN 0 ELSE MaxIds - IdCount(S)
<1>1. chan[p] # <<>> /\ chan' = [chan EXCEPT ![p] = Tail(@)] /\ outbox' = outbox
  BY DEF ReceiveOps
<1>2. PICK A \in Acceptances(p, O) : st' = [st EXCEPT ![p] = Merge(@, A)]
  BY DEF ReceiveOps
<1>3. PICK R \in SUBSET new : /\ Cardinality(R) = room \/ (R = new /\ Cardinality(new) <= room)
                              /\ A = {x \in fit : x.k \in new => x.k \in R}
  BY <1>2 DEF Acceptances
<1>4. /\ chan[p] \in Seq(Frames) /\ 1 \in DOMAIN chan[p] /\ Head(chan[p]) = chan[p][1]
      /\ Head(chan[p]) \in Frames /\ S \in SUBSET Op /\ st \in [Peers -> SUBSET Op]
  BY <1>1, TailOps DEF IInv, TypeOK
<1>5. IsFiniteSet(O) /\ O \subseteq Op /\ IsFiniteSet(S) /\ IdCount(S) <= MaxIds
  BY <1>4 DEF Bounded, FinitelyMany, IdsBounded, Frames
<1>6. A \subseteq O /\ IsFiniteSet(A)
  BY <1>3, <1>5, FS_Subset
<1>7. IsFiniteSet(Merge(S, A))
  BY <1>5, <1>6, FS_Union, FS_Subset DEF Merge
<1>8. IsFiniteSet(R) /\ Cardinality(R) \in Nat
  <2>1. new \subseteq KeysOf(O)
    BY DEF NewIds, KeysOf
  <2>2. QED
    BY <1>5, <2>1, KeysFinite, FS_Subset, FS_CardinalityType
<1>9. OnePerKey(Merge(S, A))
  <2>1. OneEntryPerKey'
    BY ReceiveOpsStep DEF IInv
  <2>2. QED
    BY <1>2, <1>4, <2>1 DEF OneEntryPerKey, OnePerKey
<1>10. HeldIds(Merge(S, A)) \subseteq HeldIds(S) \union R
  <2>1. ASSUME NEW x \in Merge(S, A), x.t # "f" PROVE x.k \in HeldIds(S) \union R
    <3>1. x \in S \/ x \in A
      BY <2>1 DEF Merge
    <3>2. CASE x \in S
      BY <2>1, <3>2 DEF HeldIds
    <3>3. CASE x \in A /\ x.k \in KeysOf(S)
      BY <1>4, <1>5, <1>6, <2>1, <3>3, HeldKey
    <3>4. CASE x \in A /\ x.k \notin KeysOf(S)
      <4>1. x \in fit /\ x.k \in new
        BY <1>3, <2>1, <3>4 DEF NewIds
      <4>2. QED
        BY <1>3, <3>4, <4>1
    <3>5. QED
      BY <3>1, <3>2, <3>3, <3>4
  <2>2. QED
    BY <2>1 DEF HeldIds
<1>11. /\ IsFiniteSet(HeldIds(S)) /\ Cardinality(HeldIds(S)) <= IdCount(S)
       /\ Cardinality(HeldIds(S)) \in Nat /\ IdCount(S) \in Nat
  BY <1>5, HeldIdsCount
<1>12. Cardinality(R) <= MaxIds - IdCount(S)
  BY <1>3, <1>5, <1>11, BoundsAssumption
<1>13. IsFiniteSet(HeldIds(S) \union R) /\ Cardinality(HeldIds(S) \union R) <= MaxIds
  <2>1. Cardinality(HeldIds(S) \intersect R) \in Nat
    BY <1>8, FS_Intersection, FS_CardinalityType
  <2>2. /\ IsFiniteSet(HeldIds(S) \union R)
        /\ Cardinality(HeldIds(S) \union R) =
             Cardinality(HeldIds(S)) + Cardinality(R) - Cardinality(HeldIds(S) \intersect R)
    BY <1>8, <1>11, FS_Union
  <2>3. QED
    BY <1>8, <1>11, <1>12, <2>1, <2>2, BoundsAssumption
<1>14. IdCount(Merge(S, A)) <= MaxIds
  BY <1>7, <1>9, <1>10, <1>13, CountBelow, BoundsAssumption
<1>15. FinitelyMany'
  <2>1. \A q \in Peers : IsFiniteSet(st'[q]) /\ IsFiniteSet(outbox'[q])
    BY <1>1, <1>2, <1>4, <1>7 DEF Bounded, FinitelyMany
  <2>2. Carried
    BY <1>1, TailCarries DEF IInv
  <2>3. QED
    BY <2>1, <2>2, CarriedFinite DEF Bounded
<1>16. QED
  BY <1>2, <1>4, <1>14, <1>15 DEF Bounded, IdsBounded

(* The work the inviter starts from has at most LOCAL_IDS stickers. *)
LEMMA SeedBounded ==
  ASSUME IInv, Bounded, Seed
  PROVE  Bounded'
<1>1. Inviter \in Peers /\ ~meta[Inviter] /\ chan' = chan /\ IInv'
  BY SeedStep DEF Seed, net, Peers
<1> DEFINE birth(i) == NFields + 2 * i - 1
           F(v) == {FieldOp(k, v, k[1], Inviter) : k \in FieldKeys}
           G(v) == {StickerOp(<<birth(i), Inviter>>, v, birth(i) + 1, Inviter) : i \in 1 .. SeedStickers}
<1>2. PICK v \in Values : /\ st' = [st EXCEPT ![Inviter] = F(v) \union G(v)]
                          /\ outbox' = [outbox EXCEPT ![Inviter] = F(v) \union G(v)]
  BY DEF Seed
<1>3. IsFiniteSet(F(v))
  <2> DEFINE f == [n \in 1 .. NFields |-> FieldOp(<<n, 0>>, v, n, Inviter)]
  <2>1. f \in Surjection(1 .. NFields, F(v))
    <3>1. \A k \in FieldKeys : k[1] \in 1 .. NFields /\ k = <<k[1], 0>>
      BY DEF FieldKeys
    <3>2. \A n \in 1 .. NFields : <<n, 0>> \in FieldKeys /\ <<n, 0>>[1] = n
      BY DEF FieldKeys
    <3>3. f \in [1 .. NFields -> F(v)]
      BY <3>2
    <3>4. \A y \in F(v) : \E n \in 1 .. NFields : f[n] = y
      BY <3>1
    <3>5. QED
      BY <3>3, <3>4 DEF Surjection
  <2>2. IsFiniteSet(1 .. NFields)
    BY FS_Interval, BoundsAssumption
  <2>3. QED
    BY <2>1, <2>2, FS_Surjection
<1>4. IsFiniteSet(G(v)) /\ Cardinality(G(v)) <= SeedStickers
  <2> DEFINE g == [i \in 1 .. SeedStickers |-> StickerOp(<<birth(i), Inviter>>, v, birth(i) + 1, Inviter)]
  <2>1. g \in Surjection(1 .. SeedStickers, G(v))
    BY DEF Surjection
  <2>2. IsFiniteSet(1 .. SeedStickers) /\ Cardinality(1 .. SeedStickers) = SeedStickers
    BY FS_Interval, BoundsAssumption
  <2>3. QED
    BY <2>1, <2>2, FS_Surjection
<1>5. {e \in F(v) \union G(v) : e.t # "f"} \subseteq G(v)
  BY DEF FieldOp
<1> HIDE DEF F, G
<1>6. IdCount(F(v) \union G(v)) <= MaxIds
  <2>1. /\ Cardinality({e \in F(v) \union G(v) : e.t # "f"}) <= Cardinality(G(v))
        /\ Cardinality({e \in F(v) \union G(v) : e.t # "f"}) \in Nat /\ Cardinality(G(v)) \in Nat
    BY <1>4, <1>5, FS_Subset, FS_CardinalityType
  <2>2. QED
    BY <1>4, <2>1, BoundsAssumption DEF IdCount
<1>7. IsFiniteSet(F(v) \union G(v))
  BY <1>3, <1>4, FS_Union
<1>8. st \in [Peers -> SUBSET Op] /\ outbox \in [Peers -> SUBSET Op]
  BY DEF IInv, TypeOK
<1>9. FinitelyMany'
  <2>1. \A q \in Peers : IsFiniteSet(st'[q]) /\ IsFiniteSet(outbox'[q])
    BY <1>2, <1>7, <1>8 DEF Bounded, FinitelyMany
  <2>2. Carried
    BY <1>1, SameCarries DEF IInv
  <2>3. QED
    BY <2>1, <2>2, CarriedFinite DEF Bounded
<1>10. QED
  BY <1>2, <1>6, <1>8, <1>9 DEF Bounded, IdsBounded

LEMMA NextBounded ==
  ASSUME IInv, Bounded, [Next]_vars
  PROVE  Bounded'
<1>1. ASSUME UNCHANGED st, Carried, \A q \in Peers : outbox'[q] \subseteq outbox[q] \/ outbox'[q] = st[q]
      PROVE  Bounded'
  <2>1. \A q \in Peers : IsFiniteSet(st'[q]) /\ IsFiniteSet(outbox'[q])
    BY <1>1, FS_Subset DEF Bounded, FinitelyMany
  <2>2. QED
    BY <1>1, <2>1, CarriedFinite DEF Bounded, IdsBounded
<1>2. ASSUME NEW p \in Peers, TickHello(p) \/ TickDigest(p) \/ Connected(p) PROVE Bounded'
  <2>1. Carried
    BY <1>2, FramesTyped, SendCarries, SameCarries DEF TickHello, TickDigest, Connected, IInv
  <2>2. QED
    BY <1>1, <1>2, <2>1 DEF TickHello, TickDigest, Connected
<1>3. ASSUME NEW p \in Peers, TickOps(p) PROVE Bounded'
  <2>1. PICK ops \in Takes(outbox[p]) : Send(p, OpsFrame(p, ops)) /\ outbox' = [outbox EXCEPT ![p] = @ \ ops]
    BY <1>3 DEF TickOps
  <2>2. ops \subseteq outbox[p] /\ ops \in SUBSET Op /\ outbox \in [Peers -> SUBSET Op]
    BY <2>1 DEF Takes, IInv, TypeOK
  <2>3. Carried
    BY <2>1, <2>2, FramesTyped, SendCarries DEF IInv
  <2>4. QED
    BY <1>1, <1>3, <2>1, <2>2, <2>3 DEF TickOps
<1>4. ASSUME NEW p \in Peers, ReceiveDiffering(p) \/ ReceiveDigest(p) PROVE Bounded'
  <2>1. Carried
    BY <1>4, TailCarries DEF ReceiveDiffering, ReceiveDigest, Digest, IInv
  <2>2. QED
    <3>1. outbox \in [Peers -> SUBSET Op] /\ UNCHANGED st
      BY <1>4 DEF ReceiveDiffering, ReceiveDigest, Digest, IInv, TypeOK
    <3>2. outbox' = outbox \/ outbox' = [outbox EXCEPT ![p] = st[p]]
      BY <1>4 DEF ReceiveDiffering, ReceiveDigest
    <3>3. QED
      BY <1>1, <2>1, <3>1, <3>2
<1>5. ASSUME NEW p \in Peers, Disconnected(p) \/ LoseFrame(p) PROVE Bounded'
  <2>1. Carried
    BY <1>5, TailCarries, ResetCarries DEF Disconnected, LoseFrame, IInv
  <2>2. QED
    BY <1>1, <1>5, <2>1 DEF Disconnected, LoseFrame
<1>6. ASSUME UNCHANGED vars PROVE Bounded'
  BY <1>6 DEF vars, net, Bounded, FinitelyMany, IdsBounded
<1>7. QED
  BY <1>2, <1>3, <1>4, <1>5, <1>6, SeedBounded, EditActionsBounded, ReceiveOpsBounded
  DEF Next, Tick, Receive

-----------------------------------------------------------------------------
(* The strengthened invariant holds in every behaviour of local(),          *)
(* receive(), tick() and the channel.                                       *)
THEOREM Invariance == Spec => []IInv
<1>1. IInv /\ [Next]_vars => IInv'
  BY NextStep, StutterInv
<1>2. QED
  BY InitInv, <1>1, PTL DEF Spec

(* Type correctness, and with it: no clock leaves its bound, so MAX_CLOCK   *)
(* and MAX_JUMP never make apply() refuse an op of an honest peer.          *)
THEOREM TypeCorrect == Spec => []TypeOK
<1>1. IInv => TypeOK
  BY DEF IInv
<1>2. QED
  BY Invariance, <1>1, PTL

(* The stamps that setLocal(), putSticker() and kill() draw name one write  *)
(* each, over both peers, their queues and everything in flight.            *)
THEOREM StampsAreUnique == Spec => []StampsUnique
<1>1. IInv => StampsUnique
  BY DEF IInv
<1>2. QED
  BY Invariance, <1>1, PTL

(* apply() and local() never leave two entries of one key.                  *)
THEOREM OneEntry == Spec => []OneEntryPerKey
<1>1. IInv => OneEntryPerKey
  BY DEF IInv
<1>2. QED
  BY Invariance, <1>1, PTL

(* Deleted stays deleted, late ops change nothing, an edit is newer than    *)
(* what it replaces: an entry is kept or beaten in every step.              *)
THEOREM Advancing == Spec => EntriesOnlyAdvance
<1>1. IInv /\ [Next]_vars => [Advance]_vars
  BY NextStep, StutterInv
<1>2. [Advance]_vars <=> [\A p \in Peers : \A e \in st[p] :
            \E f \in st'[p] : f.k = e.k /\ (f = e \/ Beats(f, e))]_vars
  BY DEF Advance
<1>3. QED
  BY Invariance, <1>1, <1>2, PTL DEF Spec, EntriesOnlyAdvance

(* MAX_IDS: whatever the peer sends, apply() never lets the ids a peer      *)
(* holds, live and deleted, grow past the limit.                            *)
THEOREM IdsStayBounded == Spec => []IdsBounded
<1>1. Init => Bounded
  <2> SUFFICES ASSUME Init PROVE Bounded
    OBVIOUS
  <2>1. IsFiniteSet({}) /\ Cardinality({}) = 0
    BY FS_EmptySet
  <2>2. \A p \in Peers : st[p] = {} /\ outbox[p] = {} /\ DOMAIN chan[p] = {}
    BY DEF Init
  <2>3. ASSUME NEW p \in Peers PROVE IdCount(st[p]) = 0
    <3>1. {e \in st[p] : e.t # "f"} = {}
      BY <2>2
    <3>2. QED
      BY <2>1, <3>1 DEF IdCount
  <2>4. QED
    BY <2>1, <2>2, <2>3, BoundsAssumption DEF Bounded, FinitelyMany, IdsBounded
<1>2. IInv /\ Bounded /\ [Next]_vars => Bounded'
  BY NextBounded
<1>3. Bounded => IdsBounded
  BY DEF Bounded
<1>4. QED
  BY <1>1, <1>2, <1>3, Invariance, PTL DEF Spec

=============================================================================
