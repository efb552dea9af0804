----------------------------- MODULE LinkProofs -----------------------------
(***************************************************************************)
(* What goes out with a link, for any values of the constants.             *)
(*                                                                         *)
(* Mal & Rat: a picture goes out with the check value of its own word      *)
(* (PictureOfItsWord of Malrat).  The check value is computed beside the   *)
(* screen, so the argument follows two facts through every step: the word  *)
(* chosen now is checked, or its check value is still to come (UnderWay);  *)
(* and a step of the editor that stands open shows what the footer would   *)
(* send for it (Current).                                                  *)
(*                                                                         *)
(* The app shell: one card, one link (OneCardOneLink of Pages).  A short   *)
(* link made here leads to one work for ever or nowhere any more (Leads),  *)
(* and so does all that names it: the list of links, the cards, the tasks  *)
(* under way.  No step turns a link to another work (Onward), so whatever  *)
(* names a link may wait as long as it likes.                              *)
(***************************************************************************)
EXTENDS Malrat, Pages, WellFoundedInduction, TLAPS

(* There is a word to offer, no word is 0, and each has its room.          *)
Setting ==
  /\ Offered # {} /\ 0 \notin WordSet
  /\ Room \in [WordSet -> Nat] /\ MAX_ROUND \in Nat /\ MaxLines \in Nat

-----------------------------------------------------------------------------
(* The step's state. *)
Chosen == WordSet \union {0}
Pic == [chk : Chosen, hint : Chosen, lines : Nat, secs : Nat, round : Nat]
State ==
  [pic : Pic, mode : {"draw", "guess"}, layer : {"none", "draw", "guess", "off"},
   pick : Offered \union {TYPED}, own : Own \union {0}, chk : Chosen, wait : Chosen, pend : SUBSET WordSet,
   lines : Nat, packed : Nat, next : Pic, sent : Pic, tries : SUBSET WordSet,
   locked : BOOLEAN, solved : BOOLEAN, gave : BOOLEAN, secs : Nat, stale : BOOLEAN]

(* A picture that can be sent from s. *)
Fair(s, p) == /\ p.chk = p.hint /\ p.lines \in 1 .. Room[p.hint]
              /\ p.round = Round(s) /\ (p.secs > 0 => s.solved)
Sendable(s) == /\ s.next # NoPic => Fair(s, s.next)
               /\ s.sent # NoPic => Fair(s, s.sent)

(* Time is claimed for a guess only. *)
Timed(s) == s.secs > 0 => s.solved

(* The layers belong to their modes. *)
Layered(s) == (s.layer = "guess" => s.mode = "guess") /\ (s.layer = "draw" => s.mode = "draw")

(* The word chosen now is checked, or its check value is still to come. *)
UnderWay(s) == /\ s.wait # 0 => s.wait \in s.pend
               /\ s.mode = "draw" => Word(s) \in {0, s.chk, s.wait}

(* What the footer sends for the drawing there is. *)
Ready(s) == /\ s.lines > 0 /\ Word(s) # 0 /\ s.chk = Word(s) /\ Fits(s, s.lines)
            /\ Round(s) <= MAX_ROUND
Current(s) == /\ s.mode = "draw" /\ s.layer = "none" /\ ~s.stale /\ Ready(s)
              => s.next.lines = s.lines /\ s.next.hint = Word(s)

Sound(s) == Sendable(s) /\ Timed(s) /\ Layered(s) /\ UnderWay(s) /\ Current(s)

IInv == mal \in State /\ Sound(mal)
-----------------------------------------------------------------------------
(* Emit and Hash: what they change. *)

(* t is s but for what is sent, the packing, and check values under way.     *)
SameStep(s, t) ==
  /\ t.pic = s.pic /\ t.mode = s.mode /\ t.layer = s.layer /\ t.pick = s.pick /\ t.own = s.own
  /\ t.chk = s.chk /\ t.lines = s.lines /\ t.sent = s.sent /\ t.tries = s.tries
  /\ t.solved = s.solved /\ t.gave = s.gave /\ t.secs = s.secs

LEMMA WordIsChosen ==
  ASSUME Setting, NEW s \in State
  PROVE  Word(s) \in Chosen /\ (Word(s) # 0 => Word(s) \in WordSet)
<1>1. s.pick \in Offered \union {0} /\ s.own \in Own \union {0}
  BY DEF State, TYPED
<1>2. QED
  BY <1>1 DEF Word, Chosen, WordSet, TYPED

LEMMA RoundIsNat == ASSUME NEW s \in State PROVE Round(s) \in Nat
<1>1. s.pic.round \in Nat
  BY DEF State, Pic
<1>2. QED
  BY <1>1 DEF Round

LEMMA NoPicIs == Setting => NoPic \in Pic
  BY DEF NoPic, Pic, Chosen

(* Emit sends the drawing if it is ready, else nothing. *)
LEMMA EmitIs ==
  ASSUME Setting, NEW s \in State, NEW t, t = Emit(s)
  PROVE  /\ t \in State /\ SameStep(s, t) /\ t.wait = s.wait /\ t.pend = s.pend /\ t.stale = FALSE
         /\ Ready(s) => t.next = [chk |-> s.chk, hint |-> Word(s), lines |-> s.lines, secs |-> s.secs, round |-> Round(s)]
         /\ ~Ready(s) => t.next = NoPic
<1>1. CASE Ready(s)
  <2> DEFINE p == [chk |-> s.chk, hint |-> Word(s), lines |-> s.lines, secs |-> s.secs, round |-> Round(s)]
             r == [s EXCEPT !.packed = s.lines]
  <2>1. Repack(s) = r
    BY <1>1 DEF Repack, Ready
  <2>2. r.packed = s.lines
    BY DEF State
  <2>3. t = [r EXCEPT !.stale = FALSE,
                      !.next = [chk |-> s.chk, hint |-> Word(s), lines |-> r.packed, secs |-> s.secs, round |-> Round(s)]]
    BY <1>1, <2>1 DEF Emit, Ready
  <2>4. t = [r EXCEPT !.stale = FALSE, !.next = p]
    BY <2>2, <2>3
  <2>5. p \in Pic
    <3>1. s.chk \in Chosen /\ s.lines \in Nat /\ s.secs \in Nat
      BY DEF State
    <3>2. QED
      BY <3>1, WordIsChosen, RoundIsNat DEF Pic
  <2>6. s.lines \in Nat
    BY DEF State
  <2>7. r \in State
    BY <2>6 DEF State
  <2>8. PICK q \in Pic : q = p
    BY <2>5
  <2>9. PICK v \in State : v = r
    BY <2>7
  <2>10. t = [v EXCEPT !.stale = FALSE, !.next = q]
    BY <2>4, <2>8, <2>9
  <2>11. t \in State
    BY <2>10 DEF State
  <2>12. SameStep(s, v) /\ v.wait = s.wait /\ v.pend = s.pend
    BY <2>9 DEF State, SameStep
  <2>13. SameStep(v, t) /\ t.wait = v.wait /\ t.pend = v.pend /\ t.stale = FALSE /\ t.next = q
    BY <2>10 DEF State, SameStep
  <2>14. QED
    BY <1>1, <2>8, <2>11, <2>12, <2>13 DEF SameStep
<1>2. CASE ~Ready(s)
  <2>1. t = [s EXCEPT !.next = NoPic, !.stale = FALSE]
    BY <1>2 DEF Emit, Ready
  <2>2. t \in State
    BY <2>1, NoPicIs DEF State
  <2>3. SameStep(s, t) /\ t.wait = s.wait /\ t.pend = s.pend /\ t.stale = FALSE /\ t.next = NoPic
    BY <2>1 DEF State, SameStep
  <2>4. QED
    BY <1>2, <2>2, <2>3
<1>3. QED
  BY <1>1, <1>2

(* Hash emits, and has the word chosen now checked. *)
LEMMA HashIs ==
  ASSUME Setting, NEW s \in State, NEW t, t = Hash(s)
  PROVE  /\ t \in State /\ SameStep(s, t) /\ t.stale = FALSE
         /\ Ready(s) => t.next = [chk |-> s.chk, hint |-> Word(s), lines |-> s.lines, secs |-> s.secs, round |-> Round(s)]
         /\ ~Ready(s) => t.next = NoPic
         /\ Word(s) \in {0, t.chk, t.wait}
         /\ (s.wait # 0 => s.wait \in s.pend) => (t.wait # 0 => t.wait \in t.pend)
<1>1. PICK e : e = Emit(s)
  OBVIOUS
<1>2. /\ e \in State /\ SameStep(s, e) /\ e.wait = s.wait /\ e.pend = s.pend /\ e.stale = FALSE
      /\ Ready(s) => e.next = [chk |-> s.chk, hint |-> Word(s), lines |-> s.lines, secs |-> s.secs, round |-> Round(s)]
      /\ ~Ready(s) => e.next = NoPic
  BY <1>1, EmitIs
<1> DEFINE w == Word(s)
<1>3. CASE w = 0 \/ s.chk = w \/ s.wait = w
  <2>1. t = e
    BY <1>1, <1>3 DEF Hash
  <2>2. w \in {0, t.chk, t.wait}
    BY <1>2, <1>3, <2>1 DEF SameStep
  <2>3. QED
    BY <1>2, <2>1, <2>2
<1>4. CASE ~(w = 0 \/ s.chk = w \/ s.wait = w)
  <2>1. t = [e EXCEPT !.wait = w, !.pend = @ \union {w}]
    BY <1>1, <1>4 DEF Hash
  <2>2. PICK v \in WordSet : v = w
    BY <1>4, WordIsChosen
  <2>3. e.pend \union {v} \in SUBSET WordSet /\ v \in Chosen
    BY <1>2 DEF State, Chosen
  <2>4. PICK k \in SUBSET WordSet : k = e.pend \union {v}
    BY <2>3
  <2>5. t = [e EXCEPT !.wait = v, !.pend = k]
    BY <2>1, <2>2, <2>4
  <2>6. t \in State
    <3>1. e \in State
      BY <1>2
    <3>2. QED
      BY <2>3, <2>5, <3>1 DEF State
  <2>7. SameStep(e, t) /\ t.wait = v /\ t.pend = k /\ t.next = e.next /\ t.stale = e.stale
    <3>1. e \in State
      BY <1>2
    <3>2. QED
      BY <2>5, <3>1 DEF State, SameStep
  <2>8. SameStep(s, t)
    BY <1>2, <2>7 DEF SameStep
  <2>9. v \in k
    BY <2>4
  <2>10. QED
    BY <1>2, <2>2, <2>6, <2>7, <2>8, <2>9
<1>5. QED
  BY <1>3, <1>4

(* After Emit or Hash the step is sound, whatever was shown before. *)
LEMMA EmittedSound ==
  ASSUME Setting, NEW s \in State, Sendable(s), Timed(s), Layered(s),
         NEW t \in State, SameStep(s, t), UnderWay(t),
         Ready(s) => t.next = [chk |-> s.chk, hint |-> Word(s), lines |-> s.lines, secs |-> s.secs, round |-> Round(s)],
         ~Ready(s) => t.next = NoPic
  PROVE  Sound(t)
<1>1. /\ Word(t) = Word(s) /\ Round(t) = Round(s) /\ t.solved = s.solved /\ t.sent = s.sent /\ t.secs = s.secs
      /\ t.mode = s.mode /\ t.layer = s.layer /\ t.lines = s.lines /\ t.chk = s.chk
  BY DEF SameStep, Word, Round
<1>2. Ready(t) <=> Ready(s)
  BY <1>1 DEF Ready, Fits
<1>3. Ready(s) => t.next.lines = t.lines /\ t.next.hint = Word(t)
  BY <1>1
<1>4. ASSUME Ready(s) PROVE Fair(t, t.next)
  <2>1. Word(s) \in WordSet /\ s.chk = Word(s) /\ s.lines > 0 /\ s.lines <= Room[Word(s)] /\ s.lines \in Nat
    BY <1>4, WordIsChosen DEF Ready, Fits, State
  <2>2. Room[Word(s)] \in Nat
    BY <2>1 DEF Setting
  <2>3. s.lines \in 1 .. Room[Word(s)]
    BY <2>1, <2>2
  <2>4. QED
    BY <1>1, <1>4, <2>1, <2>3 DEF Fair, Timed
<1>5. Sendable(t)
  <2>1. t.next # NoPic => Fair(t, t.next)
    BY <1>4
  <2>2. t.sent # NoPic => Fair(t, t.sent)
    BY <1>1 DEF Sendable, Fair
  <2>3. QED
    BY <2>1, <2>2 DEF Sendable
<1>6. QED
  BY <1>1, <1>2, <1>3, <1>5 DEF Sound, Timed, Layered, Current

(* A step that changes neither the word nor its check value, and either      *)
(* leaves what is sent and the drawing alone or closes the case Current      *)
(* speaks of.                                                                *)
LEMMA QuietKeeps ==
  ASSUME NEW s \in State, Sound(s), NEW t \in State,
         t.pic = s.pic, t.pick = s.pick, t.own = s.own, t.chk = s.chk, t.mode = s.mode, t.wait = s.wait,
         t.pend = s.pend, t.next = s.next \/ t.next = NoPic, t.sent \in {s.sent, s.next},
         s.solved => t.solved, t.secs = 0 \/ t.solved, Layered(t),
         \/ t.mode # "draw" \/ t.layer # "none" \/ t.stale
         \/ (s.layer = "none" /\ (t.stale = s.stale) /\ t.lines = s.lines /\ t.next = s.next)
  PROVE  Sound(t)
<1>1. Word(t) = Word(s) /\ Round(t) = Round(s)
  BY DEF Word, Round
<1>2. \A p : Fair(s, p) => Fair(t, p)
  BY <1>1 DEF Fair
<1>3. Sendable(t)
  BY <1>2 DEF Sound, Sendable
<1>4. UnderWay(t)
  BY <1>1 DEF Sound, UnderWay
<1>5. Current(t)
  BY <1>1 DEF Sound, Current, Ready, Fits
<1>6. Timed(t)
  BY DEF Timed
<1>7. QED
  BY <1>3, <1>4, <1>5, <1>6 DEF Sound

-----------------------------------------------------------------------------
(* The actions, one by one. *)

LEMMA CheckedKeeps ==
  ASSUME Setting, IInv, NEW w \in WordSet, Checked(w)
  PROVE  IInv'
<1>1. PICK k \in SUBSET WordSet, i \in Chosen : k = mal.pend \ {w} /\ i = IF mal.wait = w THEN 0 ELSE mal.wait
  <2>1. mal.pend \ {w} \in SUBSET WordSet /\ (IF mal.wait = w THEN 0 ELSE mal.wait) \in Chosen
    BY DEF IInv, State, Chosen
  <2>2. QED
    BY <2>1
<1>2. PICK s : s = [mal EXCEPT !.pend = k, !.wait = i]
  OBVIOUS
<1>3. /\ mal \in State /\ Sound(mal)
      /\ mal' = IF Word(s) = w THEN Emit([s EXCEPT !.chk = w]) ELSE s
  BY <1>1, <1>2 DEF IInv, Checked
<1>4. s \in State
  BY <1>2, <1>3 DEF State
<1>5. SameStep(mal, s) /\ s.next = mal.next /\ s.stale = mal.stale /\ s.wait = i /\ s.pend = k
  BY <1>2, <1>3 DEF State, SameStep
<1>6. Word(s) = Word(mal) /\ Round(s) = Round(mal) /\ s.chk = mal.chk /\ s.mode = mal.mode
  BY <1>5 DEF SameStep, Word, Round
<1>7. i # 0 => i \in k
  BY <1>1, <1>3 DEF Sound, UnderWay
<1>8. w # 0
  BY DEF Setting
<1>9. Sendable(s) /\ Timed(s) /\ Layered(s)
  BY <1>3, <1>5, <1>6 DEF Sound, Sendable, Fair, Timed, Layered, SameStep
<1>10. CASE Word(s) = w
  <2>1. PICK v : v = [s EXCEPT !.chk = w]
    OBVIOUS
  <2>2. w \in Chosen
    BY DEF Chosen
  <2>3. v \in State
    BY <1>4, <2>1, <2>2 DEF State
  <2>4. /\ v.pic = s.pic /\ v.mode = s.mode /\ v.layer = s.layer /\ v.pick = s.pick /\ v.own = s.own
        /\ v.sent = s.sent /\ v.next = s.next /\ v.solved = s.solved /\ v.secs = s.secs /\ v.chk = w
        /\ v.wait = s.wait /\ v.pend = s.pend
    BY <1>4, <2>1 DEF State
  <2>5. Word(v) = Word(s) /\ Round(v) = Round(s)
    BY <2>4 DEF Word, Round
  <2>6. Sendable(v) /\ Timed(v) /\ Layered(v)
    BY <1>9, <2>4, <2>5 DEF Sendable, Fair, Timed, Layered
  <2>7. PICK t : t = Emit(v)
    OBVIOUS
  <2>8. /\ t \in State /\ SameStep(v, t) /\ t.wait = v.wait /\ t.pend = v.pend
        /\ Ready(v) => t.next = [chk |-> v.chk, hint |-> Word(v), lines |-> v.lines, secs |-> v.secs, round |-> Round(v)]
        /\ ~Ready(v) => t.next = NoPic
    BY <2>3, <2>7, EmitIs
  <2>9. UnderWay(t)
    <3>1. Word(t) = w /\ t.chk = w /\ t.wait = i /\ t.pend = k
      BY <1>5, <1>10, <2>4, <2>5, <2>8 DEF SameStep, Word
    <3>2. QED
      BY <1>7, <3>1 DEF UnderWay
  <2>10. Sound(t)
    BY <2>3, <2>6, <2>8, <2>9, EmittedSound
  <2>11. mal' = t
    BY <1>3, <1>10, <2>1, <2>7
  <2>12. QED
    BY <2>8, <2>10, <2>11 DEF IInv
<1>11. CASE Word(s) # w
  <2>1. mal' = s
    BY <1>3, <1>11
  <2>2. UnderWay(s)
    <3>1. mal.mode = "draw" => Word(mal) \in {0, mal.chk, mal.wait}
      BY <1>3 DEF Sound, UnderWay
    <3>2. mal.wait = w => i = 0
      BY <1>1
    <3>3. mal.wait # w => i = mal.wait
      BY <1>1
    <3>4. s.mode = "draw" => Word(s) \in {0, s.chk, s.wait}
      BY <1>5, <1>6, <1>11, <3>1, <3>2, <3>3
    <3>5. QED
      BY <1>5, <1>7, <3>4 DEF UnderWay
  <2>3. Current(s)
    BY <1>3, <1>5, <1>6 DEF Sound, Current, Ready, Fits, SameStep
  <2>4. QED
    BY <1>4, <1>9, <2>1, <2>2, <2>3 DEF IInv, Sound
<1>12. QED
  BY <1>10, <1>11

(* Pick, TypeOwn, DrawBack: the step is changed, then hashed.                *)
LEMMA HashedKeeps ==
  ASSUME Setting, IInv, NEW s \in State,
         s.pic = mal.pic, s.wait = mal.wait, s.pend = mal.pend, s.sent = mal.sent, s.next = mal.next,
         s.solved = mal.solved, s.secs = mal.secs, Layered(s)
  PROVE  Hash(s) \in State /\ Sound(Hash(s))
<1>1. mal \in State /\ Sound(mal)
  BY DEF IInv
<1>2. Round(s) = Round(mal)
  BY DEF Round
<1>3. Sendable(s) /\ Timed(s)
  BY <1>1, <1>2 DEF Sound, Sendable, Fair, Timed
<1>4. PICK t : t = Hash(s)
  OBVIOUS
<1>5. /\ t \in State /\ SameStep(s, t)
      /\ Ready(s) => t.next = [chk |-> s.chk, hint |-> Word(s), lines |-> s.lines, secs |-> s.secs, round |-> Round(s)]
      /\ ~Ready(s) => t.next = NoPic
      /\ Word(s) \in {0, t.chk, t.wait}
      /\ (s.wait # 0 => s.wait \in s.pend) => (t.wait # 0 => t.wait \in t.pend)
  BY <1>4, HashIs
<1>6. s.wait # 0 => s.wait \in s.pend
  BY <1>1 DEF Sound, UnderWay
<1>7. Word(t) = Word(s)
  BY <1>5 DEF SameStep, Word
<1>8. UnderWay(t)
  BY <1>5, <1>6, <1>7 DEF UnderWay
<1>9. Sound(t)
  BY <1>3, <1>5, <1>8, EmittedSound
<1>10. QED
  BY <1>4, <1>5, <1>9

LEMMA ChooseKeeps ==
  ASSUME Setting, IInv,
         (\E w \in Offered \union {TYPED} : Pick(w)) \/ (\E w \in Own \union {0} : TypeOwn(w)) \/ DrawBack
  PROVE  IInv'
<1>1. mal \in State /\ Sound(mal)
  BY DEF IInv
<1>2. ASSUME NEW w \in Offered \union {TYPED}, Pick(w) PROVE IInv'
  <2>1. PICK s : s = [mal EXCEPT !.pick = w]
    OBVIOUS
  <2>2. mal' = Hash(s)
    BY <1>2, <2>1 DEF Pick
  <2>3. s \in State
    BY <1>1, <2>1 DEF State
  <2>4. /\ s.pic = mal.pic /\ s.wait = mal.wait /\ s.pend = mal.pend /\ s.sent = mal.sent /\ s.next = mal.next
        /\ s.solved = mal.solved /\ s.secs = mal.secs /\ s.layer = mal.layer /\ s.mode = mal.mode
    BY <1>1, <2>1 DEF State
  <2>5. Layered(s)
    BY <1>1, <2>4 DEF Sound, Layered
  <2>6. QED
    BY <2>2, <2>3, <2>4, <2>5, HashedKeeps DEF IInv
<1>3. ASSUME NEW w \in Own \union {0}, TypeOwn(w) PROVE IInv'
  <2>1. PICK s : s = [mal EXCEPT !.own = w, !.chk = 0]
    OBVIOUS
  <2>2. mal' = Hash(s) /\ 0 \in Chosen
    BY <1>3, <2>1 DEF TypeOwn, Chosen
  <2>3. s \in State
    BY <1>1, <2>1, <2>2 DEF State
  <2>4. /\ s.pic = mal.pic /\ s.wait = mal.wait /\ s.pend = mal.pend /\ s.sent = mal.sent /\ s.next = mal.next
        /\ s.solved = mal.solved /\ s.secs = mal.secs /\ s.layer = mal.layer /\ s.mode = mal.mode
    BY <1>1, <2>1 DEF State
  <2>5. Layered(s)
    BY <1>1, <2>4 DEF Sound, Layered
  <2>6. QED
    BY <2>2, <2>3, <2>4, <2>5, HashedKeeps DEF IInv
<1>4. CASE DrawBack
  <2>1. PICK s : s = [mal EXCEPT !.mode = "draw", !.layer = "none"]
    OBVIOUS
  <2>2. mal' = Hash(s)
    BY <1>4, <2>1 DEF DrawBack
  <2>3. s \in State
    BY <1>1, <2>1 DEF State
  <2>4. /\ s.pic = mal.pic /\ s.wait = mal.wait /\ s.pend = mal.pend /\ s.sent = mal.sent /\ s.next = mal.next
        /\ s.solved = mal.solved /\ s.secs = mal.secs /\ s.layer = "none"
    BY <1>1, <2>1 DEF State
  <2>5. Layered(s)
    BY <2>4 DEF Layered
  <2>6. QED
    BY <2>2, <2>3, <2>4, <2>5, HashedKeeps DEF IInv
<1>5. QED
  BY <1>2, <1>3, <1>4

LEMMA CloseDrawKeeps ==
  ASSUME Setting, IInv, CloseDraw
  PROVE  IInv'
<1>1. mal \in State /\ Sound(mal) /\ mal.layer = "draw"
  BY DEF IInv, CloseDraw
<1>2. PICK s : s = [mal EXCEPT !.layer = "none"]
  OBVIOUS
<1>3. mal' = Emit(Hash(s))
  BY <1>2 DEF CloseDraw
<1>4. s \in State
  BY <1>1, <1>2 DEF State
<1>5. /\ s.pic = mal.pic /\ s.wait = mal.wait /\ s.pend = mal.pend /\ s.sent = mal.sent /\ s.next = mal.next
      /\ s.solved = mal.solved /\ s.secs = mal.secs /\ s.layer = "none"
  BY <1>1, <1>2 DEF State
<1>6. PICK h : h = Hash(s)
  OBVIOUS
<1>7. h \in State /\ Sound(h)
  BY <1>4, <1>5, <1>6, HashedKeeps DEF Layered
<1>8. PICK t : t = Emit(h)
  OBVIOUS
<1>9. /\ t \in State /\ SameStep(h, t) /\ t.wait = h.wait /\ t.pend = h.pend
      /\ Ready(h) => t.next = [chk |-> h.chk, hint |-> Word(h), lines |-> h.lines, secs |-> h.secs, round |-> Round(h)]
      /\ ~Ready(h) => t.next = NoPic
  BY <1>7, <1>8, EmitIs
<1>10. UnderWay(t)
  <2>1. Word(t) = Word(h) /\ t.mode = h.mode /\ t.chk = h.chk
    BY <1>9 DEF SameStep, Word
  <2>2. QED
    BY <1>7, <1>9, <2>1 DEF Sound, UnderWay
<1>11. Sound(t)
  BY <1>7, <1>9, <1>10, EmittedSound DEF Sound
<1>12. QED
  BY <1>3, <1>6, <1>8, <1>9, <1>11 DEF IInv

(* Drawing: the layer is open, only lines and their packing change. *)
LEMMA RepackIs ==
  ASSUME NEW s \in State, NEW t, t = Repack(s)
  PROVE  /\ t \in State /\ SameStep(s, t) /\ t.next = s.next /\ t.wait = s.wait /\ t.pend = s.pend
<1>1. s.lines \in Nat
  BY DEF State
<1>2. t = [s EXCEPT !.packed = s.lines] \/ t = s
  BY DEF Repack
<1>3. CASE t = [s EXCEPT !.packed = s.lines]
  BY <1>1, <1>3 DEF State, SameStep
<1>4. CASE t = s
  BY <1>4 DEF SameStep
<1>5. QED
  BY <1>2, <1>3, <1>4

LEMMA DrawKeeps ==
  ASSUME Setting, IInv, Line \/ Undo
  PROVE  IInv'
<1>1. mal \in State /\ Sound(mal) /\ mal.layer = "draw"
  BY DEF IInv, Line, Undo
<1>2. mal.lines \in Nat
  BY <1>1 DEF State
<1>3. PICK n \in Nat : mal' = Repack([mal EXCEPT !.lines = n])
  <2>1. mal = [mal EXCEPT !.lines = mal.lines]
    BY <1>1 DEF State
  <2>2. CASE Line
    <3>1. mal' = Repack([mal EXCEPT !.lines = @ + 1]) \/ mal' = Repack(mal)
      BY <2>2 DEF Line
    <3>2. mal.lines + 1 \in Nat
      BY <1>2
    <3>3. QED
      BY <1>2, <2>1, <3>1, <3>2
  <2>3. CASE Undo
    <3>1. mal' = Repack([mal EXCEPT !.lines = @ - 1]) /\ mal.lines > 0
      BY <2>3 DEF Undo
    <3>2. mal.lines - 1 \in Nat
      BY <1>2, <3>1
    <3>3. QED
      BY <3>1, <3>2
  <2>4. QED
    BY <2>2, <2>3
<1>4. PICK s : s = [mal EXCEPT !.lines = n]
  OBVIOUS
<1>5. /\ s \in State /\ mal' = Repack(s)
      /\ s.pic = mal.pic /\ s.pick = mal.pick /\ s.own = mal.own /\ s.chk = mal.chk /\ s.mode = mal.mode
      /\ s.wait = mal.wait /\ s.pend = mal.pend /\ s.next = mal.next /\ s.sent = mal.sent
      /\ s.solved = mal.solved /\ s.secs = mal.secs /\ s.layer = "draw"
  <2>1. s \in State
    BY <1>1, <1>4 DEF State
  <2>2. QED
    BY <1>1, <1>3, <1>4, <2>1 DEF State
<1>6. PICK t : t = Repack(s)
  OBVIOUS
<1>7. /\ t \in State /\ SameStep(s, t) /\ t.next = s.next /\ t.wait = s.wait /\ t.pend = s.pend
  BY <1>5, <1>6, RepackIs
<1>8. /\ t.pic = mal.pic /\ t.pick = mal.pick /\ t.own = mal.own /\ t.chk = mal.chk /\ t.mode = mal.mode
      /\ t.wait = mal.wait /\ t.pend = mal.pend /\ t.next = mal.next /\ t.sent = mal.sent
      /\ t.solved = mal.solved /\ t.secs = mal.secs /\ t.layer = "draw"
  BY <1>5, <1>7 DEF SameStep
<1>9. t.secs = 0 \/ t.solved
  <2>1. mal.secs \in Nat
    BY <1>1 DEF State
  <2>2. QED
    BY <1>1, <1>8, <2>1 DEF Sound, Timed
<1>10. Layered(t)
  BY <1>1, <1>8 DEF Sound, Layered
<1>11. Sound(t)
  BY <1>1, <1>7, <1>8, <1>9, <1>10, QuietKeeps
<1>12. QED
  BY <1>5, <1>6, <1>7, <1>11 DEF IInv

(* The steps that touch neither the word nor the drawing. *)
Quiet == \/ OpenDraw \/ CloseByHash \/ OpenGuess \/ (\E w \in WordSet : Guess(w) \/ Guessed(w))
         \/ GiveUp \/ CloseGuess \/ Send

LEMMA QuietIs ==
  ASSUME Setting, IInv, Quiet
  PROVE  /\ mal' \in State
         /\ mal'.pic = mal.pic /\ mal'.pick = mal.pick /\ mal'.own = mal.own /\ mal'.chk = mal.chk
         /\ mal'.mode = mal.mode /\ mal'.wait = mal.wait /\ mal'.pend = mal.pend
         /\ mal'.next = mal.next \/ mal'.next = NoPic
         /\ mal'.sent \in {mal.sent, mal.next}
         /\ mal.solved => mal'.solved
         /\ mal'.secs = 0 \/ mal'.solved
         /\ Layered(mal')
         /\ \/ mal'.mode # "draw" \/ mal'.layer # "none" \/ mal'.stale
            \/ (mal.layer = "none" /\ mal'.stale = mal.stale /\ mal'.lines = mal.lines /\ mal'.next = mal.next)
<1>1. mal \in State /\ Layered(mal)
  BY DEF IInv, Sound
<1>2. mal.secs = 0 \/ mal.solved
  <2>1. mal.secs \in Nat /\ Timed(mal)
    BY <1>1 DEF State, IInv, Sound
  <2>2. QED
    BY <2>1 DEF Timed
<1>3. CASE OpenDraw
  <2>1. mal' = [mal EXCEPT !.layer = "draw"] /\ mal.mode = "draw"
    BY <1>3 DEF OpenDraw, Choosing
  <2>2. mal' \in State
    BY <1>1, <2>1 DEF State
  <2>3. QED
    BY <1>1, <1>2, <2>1, <2>2 DEF State, Layered
<1>4. CASE CloseByHash
  <2>1. mal' = [mal EXCEPT !.layer = "none", !.stale = TRUE]
    BY <1>4 DEF CloseByHash
  <2>2. mal' \in State
    BY <1>1, <2>1 DEF State
  <2>3. QED
    BY <1>1, <1>2, <2>1, <2>2 DEF State, Layered
<1>5. CASE OpenGuess
  <2>1. mal' = [mal EXCEPT !.layer = "guess", !.locked = FALSE] /\ mal.mode = "guess"
    BY <1>5 DEF OpenGuess
  <2>2. mal' \in State
    BY <1>1, <2>1 DEF State
  <2>3. QED
    BY <1>1, <1>2, <2>1, <2>2 DEF State, Layered
<1>6. ASSUME NEW w \in WordSet, Guess(w)
      PROVE mal' \in State /\ mal' = [mal EXCEPT !.tries = @ \union {w}, !.locked = TRUE] /\ mal.layer = "guess"
  <2>1. mal' = [mal EXCEPT !.tries = @ \union {w}, !.locked = TRUE] /\ mal.layer = "guess"
    BY <1>6 DEF Guess
  <2>2. PICK k \in SUBSET WordSet : k = mal.tries \union {w}
    BY <1>1 DEF State
  <2>3. mal' = [mal EXCEPT !.tries = k, !.locked = TRUE]
    BY <2>1, <2>2
  <2>4. QED
    BY <1>1, <2>1, <2>3 DEF State
<1>7. CASE \E w \in WordSet : Guess(w)
  <2>1. PICK w \in WordSet : mal' \in State /\ mal' = [mal EXCEPT !.tries = @ \union {w}, !.locked = TRUE] /\ mal.layer = "guess"
    BY <1>6, <1>7
  <2>2. mal.mode = "guess"
    BY <1>1, <2>1 DEF Layered
  <2>3. QED
    BY <1>1, <1>2, <2>1, <2>2 DEF State, Layered
<1>8. CASE \E w \in WordSet : Guessed(w)
  <2>1. PICK k \in SUBSET WordSet :
           \/ mal' = [mal EXCEPT !.tries = k, !.locked = FALSE]
           \/ mal' = [mal EXCEPT !.tries = k, !.locked = FALSE, !.solved = TRUE, !.secs = 1]
    <3>1. PICK w \in WordSet : Guessed(w)
      BY <1>8
    <3>2. PICK j \in SUBSET WordSet : j = mal.tries \ {w}
      BY <1>1 DEF State
    <3>3. QED
      BY <3>1, <3>2 DEF Guessed
  <2>2. CASE mal' = [mal EXCEPT !.tries = k, !.locked = FALSE]
    <3>1. mal' \in State
      BY <1>1, <2>2 DEF State
    <3>2. mal'.layer = mal.layer /\ mal'.stale = mal.stale /\ mal'.lines = mal.lines /\ mal'.next = mal.next
          /\ mal'.mode = mal.mode /\ mal'.secs = mal.secs /\ mal'.solved = mal.solved /\ mal'.sent = mal.sent
          /\ mal'.pic = mal.pic /\ mal'.pick = mal.pick /\ mal'.own = mal.own /\ mal'.chk = mal.chk
          /\ mal'.wait = mal.wait /\ mal'.pend = mal.pend
      BY <1>1, <2>2 DEF State
    <3>3. QED
      BY <1>1, <1>2, <3>1, <3>2 DEF Layered
  <2>3. CASE mal' = [mal EXCEPT !.tries = k, !.locked = FALSE, !.solved = TRUE, !.secs = 1]
    <3>1. mal' \in State
      BY <1>1, <2>3 DEF State
    <3>2. mal'.layer = mal.layer /\ mal'.stale = mal.stale /\ mal'.lines = mal.lines /\ mal'.next = mal.next
          /\ mal'.mode = mal.mode /\ mal'.solved = TRUE /\ mal'.sent = mal.sent
          /\ mal'.pic = mal.pic /\ mal'.pick = mal.pick /\ mal'.own = mal.own /\ mal'.chk = mal.chk
          /\ mal'.wait = mal.wait /\ mal'.pend = mal.pend
      BY <1>1, <2>3 DEF State
    <3>3. QED
      BY <1>1, <3>1, <3>2 DEF Layered
  <2>4. QED
    BY <2>1, <2>2, <2>3
<1>9. CASE GiveUp
  <2>1. mal' = [mal EXCEPT !.gave = TRUE, !.secs = 0] /\ mal.layer = "guess"
    BY <1>9 DEF GiveUp
  <2>2. mal' \in State
    BY <1>1, <2>1 DEF State
  <2>3. QED
    BY <1>1, <2>1, <2>2 DEF State, Layered
<1>10. CASE CloseGuess
  <2>1. mal' = [mal EXCEPT !.layer = "none", !.next = NoPic] /\ mal.layer = "guess"
    BY <1>10 DEF CloseGuess
  <2>2. mal' \in State
    BY <1>1, <2>1, NoPicIs DEF State
  <2>3. QED
    BY <1>1, <1>2, <2>1, <2>2 DEF State, Layered
<1>11. CASE Send
  <2>1. mal' = [mal EXCEPT !.sent = mal.next] /\ mal.layer = "none"
    BY <1>11 DEF Send
  <2>2. mal' \in State
    BY <1>1, <2>1 DEF State
  <2>3. QED
    BY <1>1, <1>2, <2>1, <2>2 DEF State, Layered
<1>12. QED
  BY <1>3, <1>4, <1>5, <1>7, <1>8, <1>9, <1>10, <1>11 DEF Quiet

(* A fresh step: nothing drawn, nothing sent, no word checked. *)
LEMMA StepIs ==
  ASSUME Setting, NEW pic \in Pic, NEW s, s = Step(pic)
  PROVE  /\ s \in State /\ s.pic = pic /\ s.next = NoPic /\ s.sent = NoPic /\ s.layer = "none"
         /\ s.wait = 0 /\ s.secs = 0 /\ s.lines = 0 /\ (pic # NoPic => s.mode = "guess")
<1>1. (CHOOSE w \in Offered : TRUE) \in Offered
  BY DEF Setting
<1>2. PICK v \in Offered : v = CHOOSE w \in Offered : TRUE
  BY <1>1
<1>3. PICK m \in {"draw", "guess"} : m = (IF pic = NoPic THEN "draw" ELSE "guess")
  OBVIOUS
<1>4. NoPic \in Pic /\ 0 \in Chosen
  BY NoPicIs DEF Chosen
<1>5. s = [pic |-> pic, mode |-> m, layer |-> "none", pick |-> v, own |-> 0,
           chk |-> 0, wait |-> 0, pend |-> {}, lines |-> 0, packed |-> 0,
           next |-> NoPic, sent |-> NoPic, tries |-> {}, locked |-> FALSE,
           solved |-> FALSE, gave |-> FALSE, secs |-> 0, stale |-> FALSE]
  BY <1>2, <1>3 DEF Step
<1>6. s \in State
  BY <1>4, <1>5 DEF State
<1>7. QED
  BY <1>3, <1>5, <1>6

LEMMA ReceiveKeeps ==
  ASSUME Setting, IInv, Receive
  PROVE  IInv'
<1>1. mal.sent \in Pic /\ mal.sent # NoPic
  BY DEF IInv, State, Receive
<1>2. PICK s : s = Step(mal.sent)
  OBVIOUS
<1>3. /\ s \in State /\ s.next = NoPic /\ s.sent = NoPic /\ s.layer = "none"
      /\ s.wait = 0 /\ s.secs = 0 /\ s.mode = "guess"
  BY <1>1, <1>2, StepIs
<1>4. Sound(s)
  BY <1>3 DEF Sound, Sendable, Timed, Layered, UnderWay, Current
<1>5. mal' = s
  BY <1>2 DEF Receive
<1>6. QED
  BY <1>3, <1>4, <1>5 DEF IInv

LEMMA InitKeeps == ASSUME Setting, MalInit PROVE IInv
<1>1. NoPic \in Pic
  BY NoPicIs
<1>2. PICK s : s = Step(NoPic)
  OBVIOUS
<1>3. /\ s \in State /\ s.next = NoPic /\ s.sent = NoPic /\ s.layer = "none"
      /\ s.wait = 0 /\ s.secs = 0
  BY <1>1, <1>2, StepIs
<1>4. Sendable(s) /\ Timed(s) /\ Layered(s)
  BY <1>3 DEF Sendable, Timed, Layered
<1>5. PICK t : t = Hash(s)
  OBVIOUS
<1>6. /\ t \in State /\ SameStep(s, t)
      /\ Ready(s) => t.next = [chk |-> s.chk, hint |-> Word(s), lines |-> s.lines, secs |-> s.secs, round |-> Round(s)]
      /\ ~Ready(s) => t.next = NoPic
      /\ Word(s) \in {0, t.chk, t.wait}
      /\ (s.wait # 0 => s.wait \in s.pend) => (t.wait # 0 => t.wait \in t.pend)
  BY <1>3, <1>5, HashIs
<1>7. Word(t) = Word(s)
  BY <1>6 DEF SameStep, Word
<1>8. UnderWay(t)
  BY <1>3, <1>6, <1>7 DEF UnderWay
<1>9. Sound(t)
  BY <1>3, <1>4, <1>6, <1>8, EmittedSound
<1>10. mal = t
  BY <1>2, <1>5 DEF MalInit
<1>11. QED
  BY <1>6, <1>9, <1>10 DEF IInv

LEMMA NextKeeps == ASSUME Setting, IInv, [MalNext]_mal PROVE IInv'
<1>1. CASE UNCHANGED mal
  <2>1. mal' = mal
    BY <1>1
  <2>2. QED
    BY <2>1 DEF IInv
<1>2. CASE Quiet
  <2>1. mal \in State /\ Sound(mal)
    BY DEF IInv
  <2>2. Sound(mal')
    BY <1>2, <2>1, QuietIs, QuietKeeps
  <2>3. QED
    BY <1>2, <2>2, QuietIs DEF IInv
<1>3. CASE (\E w \in Offered \union {TYPED} : Pick(w)) \/ (\E w \in Own \union {0} : TypeOwn(w)) \/ DrawBack
  BY <1>3, ChooseKeeps
<1>4. CASE \E w \in WordSet : Checked(w)
  BY <1>4, CheckedKeeps
<1>5. CASE Line \/ Undo \/ CloseDraw \/ Receive
  BY <1>5, DrawKeeps, CloseDrawKeeps, ReceiveKeeps
<1>6. QED
  BY <1>1, <1>2, <1>3, <1>4, <1>5 DEF MalNext, Quiet

-----------------------------------------------------------------------------
(* What the step of the editor keeps at every moment, whichever check value  *)
(* arrives when.                                                             *)
THEOREM StepSound == ASSUME Setting PROVE MalSpec => []IInv
<1>1. MalInit => IInv
  BY InitKeeps
<1>2. IInv /\ [MalNext]_mal => IInv'
  BY NextKeeps
<1>3. QED
  BY <1>1, <1>2, PTL DEF MalSpec

(* The invariant has the property in it: what UnderWay and Current say once  *)
(* no check value is to come.                                                *)
LEMMA InvSays == IInv => PictureOfItsWord
<1> SUFFICES ASSUME IInv PROVE PictureOfItsWord
  OBVIOUS
<1>1. mal \in State /\ Sound(mal)
  BY DEF IInv
<1>2. ASSUME NEW p \in {mal.next, mal.sent} \ {NoPic} PROVE Fair(mal, p)
  BY <1>1 DEF Sound, Sendable
<1>3. ASSUME mal.mode = "draw", mal.layer = "none", mal.pend = {}, ~mal.stale,
             Word(mal) # 0, mal.lines > 0, Fits(mal, mal.lines), Round(mal) <= MAX_ROUND
      PROVE  mal.next.lines = mal.lines /\ mal.next.hint = Word(mal)
  <2>1. mal.chk = Word(mal)
    BY <1>1, <1>3 DEF Sound, UnderWay
  <2>2. Ready(mal)
    BY <1>3, <2>1 DEF Ready
  <2>3. QED
    BY <1>1, <1>3, <2>2 DEF Sound, Current
<1>4. QED
  BY <1>2, <1>3 DEF PictureOfItsWord, Fair

(* A picture goes out with the check value and the hint of one word, fits,   *)
(* follows the picture it answers and claims a guess only when there was     *)
(* one; and once every check value has arrived nothing keeps it back         *)
(* (malrat-ui.js: emit() and the promise of checkWord()).                    *)
THEOREM PictureGoesWithItsWord == ASSUME Setting PROVE MalSpec => []PictureOfItsWord
  BY InvSays, StepSound, PTL

-----------------------------------------------------------------------------
(* The app shell. *)

(* Contents, ideas and short links are told apart by their addresses.       *)
ShortHashes == {100 + i : i \in 1 .. Len(Posted)}
PageSetting ==
  /\ NONE \notin Works /\ NONE \notin Photos /\ Idea \notin Works \cup {NONE}
  /\ Works \cap ShortHashes = {} /\ Idea \notin ShortHashes
  /\ Posted \in Seq(Works) /\ MAX_KEPT \in Nat /\ MaxLinks \in Nat

-----------------------------------------------------------------------------
(* What the page consists of. *)
Texts == Works \cup {NONE}
LinkIds0 == Ids \cup {NONE}
Shorts == 1 .. Len(Posted) \cup {NONE}
Links == [id : LinkIds0, f : Texts]
Cards == [doc : Works, keep : Texts, link : Links]
Tasks == [at : {"no", "post", "picture", "linked", "part"}, res : Nat, id : LinkIds0, pic : Texts, link : Links]
Kept == [id : Ids, f : Works, th : Texts]
Served == [f : Texts, pic : Texts, heard : BOOLEAN]
Fields == {"visit", "screen", "home", "ed", "styling", "played", "fin", "quick", "res", "task", "links", "out",
           "made", "server", "del", "hash", "routes", "look", "shortId", "trips", "shared", "hasty", "strayed"}
Typed(s) ==
  /\ DOMAIN s = Fields
  /\ s.visit \in Visits /\ s.screen \in {"home", "shelf", "editor", "game", "done"}
  /\ s.home \in [doc : Texts \cup {Idea}, link : Shorts]
  /\ s.ed \in Texts /\ s.played \in Texts /\ s.fin \in Texts
  /\ s.res \in Seq(Cards) /\ s.task \in [Slots -> Tasks] /\ s.links \in Seq(Kept)
  /\ s.out \in SUBSET Ids /\ s.made \in 0 .. MaxLinks /\ s.server \in [Ids -> Served]
  /\ s.del \in LinkIds0 /\ s.hash \in Texts \cup {Idea} \cup ShortHashes
  /\ s.look \in Shorts /\ s.shortId \in Shorts
  /\ s.shared \in [link : Links, pic : Texts]
  /\ s.hasty \in BOOLEAN /\ s.strayed \in BOOLEAN

-----------------------------------------------------------------------------
(* Links. *)

\* The short links made here so far.
MadeHere(s) == Len(Posted) + 1 .. Len(Posted) + s.made
\* Short link id leads to work f, or nowhere any more; so does what is kept of it.
Leads(s, id, f) ==
  /\ id \in MadeHere(s) /\ s.server[id].f \in {NONE, f}
  /\ \A i \in DOMAIN s.links : s.links[i].id = id => s.links[i].f = f /\ s.links[i].th \in {NONE, f}
LinksLead(s) ==
  /\ \A i \in DOMAIN s.links : Leads(s, s.links[i].id, s.links[i].f)
  /\ \A i, j \in DOMAIN s.links : s.links[i].id = s.links[j].id => i = j
\* A card's link leads to the card.
CardLinked(s, r) == r.link # NoLink => r.link.f = r.doc /\ (r.link.id # NONE => Leads(s, r.link.id, r.doc))
CardsLinked(s) == \A n \in DOMAIN s.res : CardLinked(s, s.res[n])
\* What is under way for a card.
TaskSound(s, k) ==
  /\ k.at # "no" => s.res # <<>>
  /\ k.at = "post" => k.res \in DOMAIN s.res
  /\ k.at = "picture" => Leads(s, k.id, k.pic) /\ k.pic \notin Photos
  /\ k.at = "part" => s.hasty \/ k.link.f = Result(s).doc
TasksSound(s, slots) ==
  s.task["share"].at # "part" /\ \A t \in slots : TaskSound(s, s.task[t])
ServerSound(s) ==
  \A i \in Ids :
    LET e == s.server[i]
    IN /\ e.pic \notin Photos /\ (e.f # NONE => e.pic \in {NONE, e.f})
       /\ e.heard /\ e.f # NONE => i \in LinkIds(s.links) \cup s.out
SharedRight(s) == s.hasty \/ s.shared.pic = s.shared.link.f

\* The same, but for what is under way in a slot that has just been asked for.
LinkInvBut(s, t) ==
  /\ LinksLead(s) /\ CardsLinked(s) /\ ServerSound(s) /\ SharedRight(s)
  /\ TasksSound(s, Slots \ {t}) /\ s.res # <<>>
LinkInv(s) ==
  LinksLead(s) /\ CardsLinked(s) /\ ServerSound(s) /\ SharedRight(s) /\ TasksSound(s, Slots)

-----------------------------------------------------------------------------
(* The screen, the work that is open and the finished card. *)
OpenWork(s) ==
  /\ s.screen = "editor" => s.ed # NONE
  /\ s.screen = "game" => s.played = s.ed /\ s.ed # NONE
  /\ s.fin # NONE => s.screen # "done" /\ (s.hasty \/ s.ed = s.fin)
  /\ s.screen = "done" => s.res # <<>> /\ (s.hasty \/ Result(s).keep = Result(s).doc)

(* The sheet and the short link it came through. *)
CameThrough(s) ==
  /\ ~s.strayed /\ s.shortId # NONE => s.hash = NONE \/ (s.hash \in Works /\ s.server[s.shortId].f \in {NONE, s.hash})
  /\ ~s.strayed /\ s.home.link # NONE => s.server[s.home.link].f \in {NONE, s.home.doc}

PageInv(s) == Typed(s) /\ LinkInv(s) /\ OpenWork(s) /\ CameThrough(s)

-----------------------------------------------------------------------------
(* Sequences. *)

LEMMA InSeq ==
  ASSUME NEW S, NEW q \in Seq(S), NEW n \in Nat, NEW f, f \in [1 .. n -> S]
  PROVE  f \in Seq(S) /\ Len(f) = n /\ DOMAIN f = 1 .. n
  OBVIOUS

LEMMA Joined ==
  ASSUME NEW S, NEW p \in Seq(S), NEW r \in Seq(S), NEW n, n = Len(p) + Len(r)
  PROVE  /\ p \o r \in Seq(S) /\ DOMAIN (p \o r) = 1 .. n
         /\ \A i \in 1 .. n : (p \o r)[i] = IF i <= Len(p) THEN p[i] ELSE r[i - Len(p)]
  OBVIOUS

\* What is left of the list was in it, and nothing else is gone.
LEMMA WithoutIs ==
  ASSUME NEW q \in Seq(Kept), NEW id, NEW w, w = Without(q, id),
         \A i, j \in DOMAIN q : q[i].id = q[j].id => i = j
  PROVE  /\ w \in Seq(Kept)
         /\ \A i \in DOMAIN w : \E j \in DOMAIN q : w[i] = q[j]
         /\ \A i, j \in DOMAIN w : w[i].id = w[j].id => i = j
         /\ LinkIds(w) = LinkIds(q) \ {id}
<1>1. CASE id \notin LinkIds(q)
  <2>1. w = q
    BY <1>1 DEF Without
  <2>2. QED
    BY <1>1, <2>1
<1>2. CASE id \in LinkIds(q)
  <2>1. PICK k \in DOMAIN q : /\ q[k].id = id
                              /\ w = SubSeq(q, 1, k - 1) \o SubSeq(q, k + 1, Len(q))
    BY <1>2 DEF Without, LinkIds
  <2>2. Len(q) \in Nat /\ DOMAIN q = 1 .. Len(q) /\ k \in 1 .. Len(q)
    BY <2>1
  <2> DEFINE p == SubSeq(q, 1, k - 1)
             r == SubSeq(q, k + 1, Len(q))
             m(i) == IF i < k THEN i ELSE i + 1
  <2>3. /\ p \in Seq(Kept) /\ Len(p) = k - 1
        /\ \A i \in 1 .. k - 1 : p[i] = q[i]
    BY <2>2
  <2>4. /\ r \in Seq(Kept) /\ Len(r) = Len(q) - k
        /\ \A i \in 1 .. Len(q) - k : r[i] = q[k + i]
    BY <2>2
  <2>5. w = p \o r
    BY <2>1
  <2> HIDE DEF p, r
  <2>6. /\ w \in Seq(Kept) /\ DOMAIN w = 1 .. Len(q) - 1
        /\ \A i \in 1 .. Len(q) - 1 : w[i] = IF i <= k - 1 THEN p[i] ELSE r[i - (k - 1)]
    <3>1. Len(q) - 1 = Len(p) + Len(r) /\ p \in Seq(Kept) /\ r \in Seq(Kept)
      BY <2>2, <2>3, <2>4
    <3>2. /\ p \o r \in Seq(Kept) /\ DOMAIN (p \o r) = 1 .. Len(q) - 1
          /\ \A i \in 1 .. Len(q) - 1 : (p \o r)[i] = IF i <= Len(p) THEN p[i] ELSE r[i - Len(p)]
      BY <3>1, Joined
    <3>3. QED
      BY <2>3, <2>5, <3>2
  <2>7. \A i \in DOMAIN w : m(i) \in DOMAIN q /\ m(i) # k /\ w[i] = q[m(i)]
    <3> SUFFICES ASSUME NEW i \in DOMAIN w PROVE m(i) \in DOMAIN q /\ m(i) # k /\ w[i] = q[m(i)]
      OBVIOUS
    <3>1. CASE i < k
      BY <2>2, <2>3, <2>6, <3>1
    <3>2. CASE i >= k
      <4>1. w[i] = r[i - (k - 1)] /\ i - (k - 1) \in 1 .. Len(q) - k /\ k + (i - (k - 1)) = i + 1
        BY <2>2, <2>6, <3>2
      <4>2. QED
        BY <2>2, <2>4, <2>6, <3>2, <4>1
    <3>3. QED
      BY <2>2, <2>6, <3>1, <3>2
  <2>8. \A i, j \in DOMAIN w : m(i) = m(j) => i = j
    BY <2>2, <2>6
  <2>9. \A j \in DOMAIN q : j # k => \E i \in DOMAIN w : m(i) = j
    <3> SUFFICES ASSUME NEW j \in DOMAIN q, j # k PROVE \E i \in DOMAIN w : m(i) = j
      OBVIOUS
    <3>1. CASE j < k
      BY <2>2, <2>6, <3>1
    <3>2. CASE j > k
      <4>1. j - 1 \in DOMAIN w /\ m(j - 1) = j
        BY <2>2, <2>6, <3>2
      <4>2. QED
        BY <4>1
    <3>3. QED
      BY <2>2, <3>1, <3>2
  <2> HIDE DEF m
  <2>10. \A i, j \in DOMAIN w : w[i].id = w[j].id => i = j
    BY <2>7, <2>8
  <2>11. LinkIds(w) = LinkIds(q) \ {id}
    <3>1. \A i \in DOMAIN w : w[i].id \in LinkIds(q) \ {id}
      BY <2>1, <2>7 DEF LinkIds
    <3>2. \A j \in DOMAIN q : q[j].id # id => \E i \in DOMAIN w : w[i].id = q[j].id
      <4> SUFFICES ASSUME NEW j \in DOMAIN q, q[j].id # id PROVE \E i \in DOMAIN w : w[i].id = q[j].id
        OBVIOUS
      <4>1. PICK i \in DOMAIN w : m(i) = j
        BY <2>1, <2>9
      <4>2. QED
        BY <2>7, <4>1
    <3>3. QED
      BY <3>1, <3>2 DEF LinkIds
  <2>12. QED
    BY <2>6, <2>7, <2>10, <2>11
<1>3. QED
  BY <1>1, <1>2

-----------------------------------------------------------------------------
(* From s to t, every short link leads where it led or nowhere any more.    *)
Onward(s, t) ==
  /\ MadeHere(s) \subseteq MadeHere(t)
  /\ \A id \in MadeHere(s) : t.server[id].f \in {NONE, s.server[id].f}
  /\ \A i \in DOMAIN t.links :
       t.links[i].id \in MadeHere(s) =>
         \E j \in DOMAIN s.links :
           /\ t.links[i].id = s.links[j].id /\ t.links[i].f = s.links[j].f
           /\ t.links[i].th \in {s.links[j].th, t.links[i].f}

LEMMA LeadsOnward ==
  ASSUME NEW s, NEW t, Onward(s, t), NEW id, NEW f, Leads(s, id, f)
  PROVE  Leads(t, id, f)
  BY DEF Onward, Leads

LEMMA CardOnward ==
  ASSUME NEW s, NEW t, Onward(s, t), NEW r, CardLinked(s, r)
  PROVE  CardLinked(t, r)
  BY LeadsOnward DEF CardLinked

LEMMA TaskOnward ==
  ASSUME NEW s, NEW t, Onward(s, t), NEW k, TaskSound(s, k),
         s.res # <<>> => t.res # <<>>, DOMAIN s.res \subseteq DOMAIN t.res,
         s.hasty => t.hasty, k.at = "part" => t.hasty \/ Result(t).doc = Result(s).doc
  PROVE  TaskSound(t, k)
  BY LeadsOnward DEF TaskSound

-----------------------------------------------------------------------------
(* What making a link leaves alone. *)
Elsewhere(s, u) ==
  /\ u.screen = s.screen /\ u.ed = s.ed /\ u.played = s.played /\ u.fin = s.fin
  /\ u.hash = s.hash /\ u.shortId = s.shortId /\ u.home = s.home
  /\ u.strayed = s.strayed /\ u.hasty = s.hasty
  /\ u.visit = s.visit /\ u.del = s.del /\ u.look = s.look /\ DOMAIN u = DOMAIN s

\* The links with the thumbnail of card r at its link.
Shown(q, r) == [i \in DOMAIN q |-> IF q[i].id = r.link.id THEN [q[i] EXCEPT !.th = r.doc] ELSE q[i]]

\* What a slot goes on with once card r has its link.
After(k, r) ==
  /\ k.at \in {"no", "linked", "picture"}
  /\ k.at = "picture" =>
       r.link # NoLink /\ r.link.id # NONE /\ r.doc \notin Photos /\ k.id = r.link.id /\ k.pic = r.doc

LEMMA ResultIs ==
  ASSUME NEW s, Typed(s), s.res # <<>>
  PROVE  Len(s.res) \in DOMAIN s.res /\ DOMAIN s.res = 1 .. Len(s.res) /\ Result(s) \in Cards /\ Result(s) = s.res[Len(s.res)]
<1>1. s.res \in Seq(Cards)
  BY DEF Typed, Fields
<1>2. Len(s.res) \in Nat /\ Len(s.res) # 0 /\ DOMAIN s.res = 1 .. Len(s.res)
  BY <1>1
<1>3. QED
  BY <1>1, <1>2 DEF Result

LEMMA ShownIs ==
  ASSUME NEW q \in Seq(Kept), NEW r \in Cards
  PROVE  Shown(q, r) \in Seq(Kept) /\ DOMAIN Shown(q, r) = DOMAIN q
<1>1. Len(q) \in Nat /\ DOMAIN q = 1 .. Len(q)
  OBVIOUS
<1>2. Shown(q, r) \in [1 .. Len(q) -> Kept]
  <2> SUFFICES ASSUME NEW i \in 1 .. Len(q) PROVE Shown(q, r)[i] \in Kept
    BY <1>1 DEF Shown
  <2>1. q[i] \in Kept /\ r.doc \in Works
    BY <1>1 DEF Cards
  <2>2. QED
    BY <1>1, <2>1 DEF Shown, Kept, Texts
<1>3. QED
  BY <1>1, <1>2, InSeq

(* linked(): what shortLink() goes on with once the link is there.          *)
LEMMA LinkedIs ==
  ASSUME NEW s, Typed(s), s.res # <<>>, NEW t \in Slots, NEW u, u = Linked(s, t), NEW r, r = Result(s)
  PROVE  /\ Typed(u) /\ Elsewhere(s, u)
         /\ u.res = s.res /\ u.out = s.out /\ u.made = s.made /\ u.server = s.server /\ u.shared = s.shared
         /\ u.links = s.links \/ (r.link # NoLink /\ u.links = Shown(s.links, r))
         /\ \E k \in Tasks : u.task = [s.task EXCEPT ![t] = k] /\ After(k, r)
<1>1. r \in Cards /\ s.links \in Seq(Kept) /\ s.task \in [Slots -> Tasks] /\ NoTask \in Tasks /\ s.task[t] \in Tasks
  <2>1. NoTask \in Tasks
    BY DEF NoTask, Tasks, NoLink, Links, LinkIds0, Texts, NONE
  <2>2. QED
    BY <2>1, ResultIs DEF Typed, Fields
<1>2. Shown(s.links, r) \in Seq(Kept)
  BY <1>1, ShownIs
<1>3. CASE r.link = NoLink
  <2> DEFINE k == NoTask
  <2>1. /\ u.task = [s.task EXCEPT ![t] = k] /\ u.links = s.links /\ Elsewhere(s, u)
        /\ u.res = s.res /\ u.out = s.out /\ u.made = s.made /\ u.server = s.server /\ u.shared = s.shared
    BY <1>1, <1>3 DEF Linked, Shown, Typed, Fields, Elsewhere
  <2>2. k \in Tasks /\ k.at = "no"
    BY <1>1, <1>3 DEF NoTask
  <2> HIDE DEF k
  <2>3. [s.task EXCEPT ![t] = k] \in [Slots -> Tasks]
    BY <1>1, <2>2
  <2>4. Typed(u)
    BY <1>1, <1>2, <2>1, <2>3 DEF Typed, Elsewhere
  <2>5. After(k, r)
    BY <1>3, <2>2 DEF After
  <2>6. QED
    BY <1>3, <2>1, <2>2, <2>4, <2>5
<1>4. CASE r.link # NoLink /\ (r.link.id = NONE \/ r.doc \in Photos)
  <2> DEFINE k == [s.task[t] EXCEPT !.at = "linked"]
  <2>1. /\ u.task = [s.task EXCEPT ![t] = k] /\ u.links = Shown(s.links, r) /\ Elsewhere(s, u)
        /\ u.res = s.res /\ u.out = s.out /\ u.made = s.made /\ u.server = s.server /\ u.shared = s.shared
    BY <1>1, <1>4 DEF Linked, Shown, Typed, Fields, Elsewhere
  <2>2. k \in Tasks /\ k.at = "linked"
    BY <1>1, <1>4 DEF Tasks
  <2> HIDE DEF k
  <2>3. [s.task EXCEPT ![t] = k] \in [Slots -> Tasks]
    BY <1>1, <2>2
  <2>4. Typed(u)
    BY <1>1, <1>2, <2>1, <2>3 DEF Typed, Elsewhere
  <2>5. After(k, r)
    BY <1>4, <2>2 DEF After
  <2>6. QED
    BY <1>4, <2>1, <2>2, <2>4, <2>5
<1>5. CASE r.link # NoLink /\ r.link.id # NONE /\ r.doc \notin Photos
  <2> DEFINE k == [s.task[t] EXCEPT !.at = "picture", !.id = r.link.id, !.pic = r.doc]
  <2>1. /\ u.task = [s.task EXCEPT ![t] = k] /\ u.links = Shown(s.links, r) /\ Elsewhere(s, u)
        /\ u.res = s.res /\ u.out = s.out /\ u.made = s.made /\ u.server = s.server /\ u.shared = s.shared
    BY ZenonT(60), <1>1, <1>5 DEF Linked, Shown, Typed, Fields, Elsewhere
  <2>2. k \in Tasks /\ k.at = "picture" /\ k.id = r.link.id /\ k.pic = r.doc
    BY <1>1, <1>5 DEF Tasks, Cards, Links, Texts
  <2> HIDE DEF k
  <2>3. [s.task EXCEPT ![t] = k] \in [Slots -> Tasks]
    BY <1>1, <2>2
  <2>4. Typed(u)
    BY <1>1, <1>2, <2>1, <2>3 DEF Typed, Elsewhere
  <2>5. After(k, r)
    BY <1>5, <2>2 DEF After
  <2>6. QED
    BY <1>5, <2>1, <2>2, <2>4, <2>5
<1>6. QED
  BY <1>3, <1>4, <1>5

(* Steps that lead onward keep what the kept links say.                     *)
LEMMA LinksOnward ==
  ASSUME NEW s, NEW u, Onward(s, u), LinksLead(s),
         \A i \in DOMAIN u.links : u.links[i].id \in MadeHere(s),
         \A i, j \in DOMAIN u.links : u.links[i].id = u.links[j].id => i = j
  PROVE  LinksLead(u)
<1> SUFFICES ASSUME NEW i \in DOMAIN u.links PROVE Leads(u, u.links[i].id, u.links[i].f)
  BY DEF LinksLead
<1>1. PICK j \in DOMAIN s.links : u.links[i].id = s.links[j].id /\ u.links[i].f = s.links[j].f
  BY DEF Onward
<1>2. Leads(s, s.links[j].id, s.links[j].f)
  BY <1>1 DEF LinksLead
<1>3. QED
  BY <1>1, <1>2, LeadsOnward

\* What leads somewhere has an id.
LEMMA LeadsIs ==
  ASSUME PageSetting, NEW s, Typed(s)
  PROVE  NONE \notin Ids /\ MadeHere(s) \subseteq Ids /\ NONE \notin MadeHere(s) /\ MadeHere(s) \cap Shorts = {}
<1>1. Len(Posted) \in Nat /\ s.made \in Nat /\ s.made <= MaxLinks /\ MaxLinks \in Nat
  BY DEF PageSetting, Typed
<1>2. QED
  BY <1>1 DEF MadeHere, Ids, NONE, Shorts

(* The slot whose link is there is the one that may be open in between.     *)
LEMMA LinkedKeeps ==
  ASSUME PageSetting, NEW s, Typed(s), NEW t \in Slots, LinkInvBut(s, t), NEW u, u = Linked(s, t)
  PROVE  /\ Typed(u) /\ Elsewhere(s, u) /\ LinkInv(u)
         /\ u.res = s.res /\ u.server = s.server
<1>0. PICK r : r = Result(s)
  OBVIOUS
<1>00. s.res # <<>>
  BY DEF LinkInvBut
<1>1. s.res # <<>> /\ r \in Cards /\ r = s.res[Len(s.res)] /\ Len(s.res) \in DOMAIN s.res
  BY <1>0, ResultIs DEF LinkInvBut
<1>2. /\ Typed(u) /\ Elsewhere(s, u)
      /\ u.res = s.res /\ u.out = s.out /\ u.made = s.made /\ u.server = s.server /\ u.shared = s.shared
      /\ u.links = s.links \/ (r.link # NoLink /\ u.links = Shown(s.links, r))
  BY <1>0, <1>00, LinkedIs
<1>3. PICK k \in Tasks : u.task = [s.task EXCEPT ![t] = k] /\ After(k, r)
  BY ZenonT(60), <1>0, <1>00, LinkedIs
<1>4. CardLinked(s, r)
  BY <1>1 DEF LinkInvBut, CardsLinked
<1>5. s.links \in Seq(Kept) /\ DOMAIN u.links = DOMAIN s.links
  BY <1>1, <1>2, ShownIs DEF Typed
<1>6. \A i \in DOMAIN u.links :
        u.links[i].id = s.links[i].id /\ u.links[i].f = s.links[i].f /\ u.links[i].th \in {s.links[i].th, u.links[i].f}
  <2> SUFFICES ASSUME NEW i \in DOMAIN s.links, r.link # NoLink, u.links = Shown(s.links, r)
               PROVE  /\ u.links[i].id = s.links[i].id /\ u.links[i].f = s.links[i].f
                      /\ u.links[i].th \in {s.links[i].th, u.links[i].f}
    BY <1>2, <1>5
  <2>1. s.links[i] \in Kept /\ s.links[i].id # NONE
    <3>1. s.links[i] \in Kept
      BY <1>5
    <3>2. QED
      BY <3>1, LeadsIs DEF Kept
  <2>2. CASE s.links[i].id # r.link.id
    BY <2>2 DEF Shown
  <2>3. CASE s.links[i].id = r.link.id
    <3>1. u.links[i] = [s.links[i] EXCEPT !.th = r.doc]
      BY <2>3 DEF Shown
    <3>2. s.links[i].f = r.doc
      BY <1>4, <2>1, <2>3 DEF CardLinked, Leads
    <3>3. QED
      BY <2>1, <3>1, <3>2 DEF Kept
  <2>4. QED
    BY <2>2, <2>3
<1>7. Onward(s, u)
  BY <1>2, <1>5, <1>6 DEF Onward, MadeHere
<1>8. LinksLead(u)
  <2>1. LinksLead(s)
    BY DEF LinkInvBut
  <2>2. \A i \in DOMAIN s.links : s.links[i].id \in MadeHere(s)
    BY <2>1 DEF LinksLead, Leads
  <2>3. \A i, j \in DOMAIN u.links : u.links[i].id = u.links[j].id => i = j
    BY <1>5, <1>6, <2>1 DEF LinksLead
  <2>4. QED
    BY <1>5, <1>6, <1>7, <2>1, <2>2, <2>3, LinksOnward
<1>9. CardsLinked(u)
  BY <1>2, <1>7, CardOnward DEF CardsLinked, LinkInvBut
<1>10. ServerSound(u) /\ SharedRight(u)
  <2>1. LinkIds(u.links) = LinkIds(s.links)
    BY <1>5, <1>6 DEF LinkIds
  <2>2. QED
    BY <1>2, <2>1 DEF ServerSound, SharedRight, Elsewhere, LinkInvBut
<1>11. TasksSound(u, Slots)
  <2>1. s.task \in [Slots -> Tasks]
    BY DEF Typed
  <2>2. ASSUME NEW x \in Slots \ {t} PROVE TaskSound(u, u.task[x])
    <3>1. u.task[x] = s.task[x] /\ TaskSound(s, s.task[x])
      BY <1>3, <2>1 DEF LinkInvBut, TasksSound
    <3>2. u.res = s.res /\ Result(u) = Result(s) /\ u.hasty = s.hasty
      BY <1>2 DEF Result, Elsewhere
    <3>3. QED
      BY <1>2, <1>7, <3>1, <3>2, TaskOnward
  <2>3. TaskSound(u, k)
    BY <1>1, <1>2, <1>3, <1>4, <1>7, LeadsOnward DEF TaskSound, CardLinked, After
  <2>4. u.task[t] = k
    BY <1>3, <2>1
  <2>5. u.task["share"].at # "part"
    BY <1>3, <2>1 DEF LinkInvBut, TasksSound, Slots, After
  <2>6. QED
    BY <2>2, <2>3, <2>4, <2>5 DEF TasksSound
<1>12. QED
  BY <1>2, <1>8, <1>9, <1>10, <1>11 DEF LinkInv

\* The finished cards are the same, but for their links.
SameCards(s, u) ==
  /\ Len(u.res) = Len(s.res) /\ DOMAIN u.res = DOMAIN s.res
  /\ \A n \in DOMAIN s.res : u.res[n].doc = s.res[n].doc /\ u.res[n].keep = s.res[n].keep

LEMMA SeqPut ==
  ASSUME NEW S, NEW q \in Seq(S), NEW m \in DOMAIN q, NEW x \in S, NEW w, w = [q EXCEPT ![m] = x]
  PROVE  /\ w \in Seq(S) /\ Len(w) = Len(q) /\ DOMAIN w = DOMAIN q /\ w[m] = x
         /\ \A n \in DOMAIN q : n # m => w[n] = q[n]
<1>1. Len(q) \in Nat /\ DOMAIN q = 1 .. Len(q) /\ q \in [1 .. Len(q) -> S]
  OBVIOUS
<1>2. w \in [1 .. Len(q) -> S]
  BY <1>1
<1>3. w \in Seq(S) /\ Len(w) = Len(q)
  BY <1>1, <1>2, InSeq
<1>4. QED
  BY <1>1, <1>3

(* shorten(): the link goes to the card it was asked for.                   *)
LEMMA GotKeeps ==
  ASSUME PageSetting, NEW s, Typed(s), NEW t \in Slots, LinkInvBut(s, t), NEW m, m = s.task[t].res, m \in DOMAIN s.res,
         NEW link \in Links, link.f = s.res[m].doc, link.id # NONE => Leads(s, link.id, link.f),
         NEW u, u = Got(s, t, link)
  PROVE  /\ Typed(u) /\ Elsewhere(s, u) /\ LinkInv(u)
         /\ SameCards(s, u) /\ u.server = s.server
<1> DEFINE card == [s.res[m] EXCEPT !.link = link]
<1>1. PICK a : a = [s EXCEPT !.res[m].link = link]
  OBVIOUS
<1>2. s.res \in Seq(Cards) /\ s.res[m] \in Cards
  BY DEF Typed
<1>3. card \in Cards /\ card.doc = s.res[m].doc /\ card.keep = s.res[m].keep /\ card.link = link
  BY <1>2 DEF Cards
<1>4. a.res = [s.res EXCEPT ![m] = card]
  BY <1>1 DEF Typed, Fields
<1> HIDE DEF card
<1>5. /\ a.res \in Seq(Cards) /\ Len(a.res) = Len(s.res) /\ DOMAIN a.res = DOMAIN s.res /\ a.res[m] = card
      /\ \A n \in DOMAIN s.res : n # m => a.res[n] = s.res[n]
  BY <1>2, <1>3, <1>4, SeqPut
<1>6. /\ Elsewhere(s, a) /\ a.task = s.task /\ a.links = s.links
      /\ a.out = s.out /\ a.made = s.made /\ a.server = s.server /\ a.shared = s.shared
  BY <1>1 DEF Typed, Fields, Elsewhere
<1>7. Typed(a)
  BY <1>5, <1>6 DEF Typed, Elsewhere
<1>8. SameCards(s, a)
  BY <1>3, <1>5 DEF SameCards
<1>9. Onward(s, a)
  BY <1>6, <1>7, LinkInvBut(s, t) DEF Onward, MadeHere
<1>10. s.res # <<>> /\ a.res # <<>> /\ Result(a).doc = Result(s).doc
  <2>1. s.res # <<>> /\ Len(s.res) \in DOMAIN s.res
    BY ResultIs DEF LinkInvBut
  <2>2. Len(s.res) # 0 /\ Len(a.res) # 0
    BY <2>1, <1>2, <1>5
  <2>3. QED
    BY <2>1, <2>2, <1>5, <1>8 DEF Result, SameCards
<1>11. LinkInvBut(a, t)
  <2>1. LinksLead(a)
    <3>1. LinksLead(s)
      BY DEF LinkInvBut
    <3>2. QED
      BY <3>1, <1>6, <1>9, LeadsOnward DEF LinksLead
  <2>2. CardsLinked(a)
    <3> SUFFICES ASSUME NEW n \in DOMAIN s.res PROVE CardLinked(a, a.res[n])
      BY <1>5 DEF CardsLinked
    <3>1. CASE n = m
      <4>1. CardLinked(s, card)
        BY <1>3 DEF CardLinked
      <4>2. QED
        BY <3>1, <4>1, <1>5, <1>9, CardOnward
    <3>2. CASE n # m
      <4>1. CardLinked(s, s.res[n])
        BY DEF LinkInvBut, CardsLinked
      <4>2. QED
        BY <3>2, <4>1, <1>5, <1>9, CardOnward
    <3>3. QED
      BY <3>1, <3>2
  <2>3. ServerSound(a) /\ SharedRight(a)
    BY <1>6 DEF ServerSound, SharedRight, Elsewhere, LinkInvBut
  <2>4. TasksSound(a, Slots \ {t})
    <3>1. ASSUME NEW x \in Slots \ {t} PROVE TaskSound(a, s.task[x])
      <4>1. TaskSound(s, s.task[x])
        BY DEF LinkInvBut, TasksSound
      <4>2. QED
        BY <4>1, <1>5, <1>6, <1>9, <1>10, TaskOnward DEF Elsewhere
    <3>2. QED
      BY <3>1, <1>6 DEF TasksSound, LinkInvBut
  <2>5. QED
    BY <2>1, <2>2, <2>3, <2>4, <1>10 DEF LinkInvBut
<1>12. u = Linked(a, t)
  BY <1>1 DEF Got
<1>13. Typed(u) /\ Elsewhere(a, u) /\ LinkInv(u) /\ u.res = a.res /\ u.server = a.server
  BY <1>7, <1>11, <1>12, LinkedKeeps
<1>14. QED
  BY <1>6, <1>8, <1>13 DEF Elsewhere, SameCards

\* Numbers that are there have a least one.
LEMMA Least ==
  ASSUME NEW T, T \subseteq Nat, T # {}
  PROVE  \E x \in T : \A y \in T : x <= y
<1>1. PICK x \in T : \A y \in T : <<y, x>> \notin OpToRel(<, Nat)
  BY WFMin, NatLessThanWellFounded
<1>2. \A y \in T : ~(y < x)
  BY <1>1 DEF OpToRel
<1>3. QED
  BY <1>2

LEMMA ShortLinkKeeps ==
  ASSUME PageSetting, NEW s, Typed(s), s.res # <<>>, NEW t \in Slots, LinkInv(s), NEW u, u = ShortLink(s, t)
  PROVE  /\ Typed(u) /\ Elsewhere(s, u) /\ LinkInv(u)
         /\ SameCards(s, u) /\ u.server = s.server
<1>1. PICK n, r : n = Len(s.res) /\ r = s.res[n]
  OBVIOUS
<1>2. n \in Nat /\ n \in DOMAIN s.res /\ r \in Cards /\ NoTask \in Tasks
  <2>1. NoTask \in Tasks
    BY DEF NoTask, Tasks, NoLink, Links, LinkIds0, Texts, NONE
  <2>2. s.res \in Seq(Cards)
    BY DEF Typed
  <2>3. QED
    BY <1>1, <2>1, <2>2, ResultIs
<1> DEFINE k(at) == [[NoTask EXCEPT !.at = "post", !.res = n] EXCEPT !.at = at]
<1>3. \A at \in {"post", "linked"} : k(at) \in Tasks /\ k(at).at = at /\ k(at).res = n
  BY <1>2 DEF Tasks
<1>4. PICK a : a = [s EXCEPT !.task[t] = [NoTask EXCEPT !.at = "post", !.res = n]]
  OBVIOUS
<1>5. ASSUME NEW v, NEW at \in {"post", "linked"}, v \in {a, [a EXCEPT !.task[t].at = at]}, v.task = [s.task EXCEPT ![t] = k(at)]
      PROVE  /\ Typed(v) /\ Elsewhere(s, v) /\ LinkInvBut(v, t) /\ LinkInv(v) /\ SameCards(s, v) /\ v.server = s.server
             /\ v.res = s.res /\ v.links = s.links /\ v.made = s.made
  <2>1. /\ Elsewhere(s, v) /\ v.res = s.res /\ v.links = s.links /\ v.made = s.made
        /\ v.server = s.server /\ v.out = s.out /\ v.shared = s.shared
    <3>1. CASE v = a
      BY <1>4, <3>1 DEF Typed, Fields, Elsewhere
    <3>2. CASE v = [a EXCEPT !.task[t].at = at]
      BY <1>4, <3>2 DEF Typed, Fields, Elsewhere
    <3>3. QED
      BY <1>5, <3>1, <3>2
  <2>2. k(at) \in Tasks /\ k(at).at = at /\ k(at).res = n
    BY <1>3
  <2> HIDE DEF k
  <2>3. [s.task EXCEPT ![t] = k(at)] \in [Slots -> Tasks] /\ s.task \in [Slots -> Tasks]
    BY <2>2 DEF Typed
  <2>4. Typed(v)
    BY <1>5, <2>1, <2>3 DEF Typed, Elsewhere
  <2>5. Onward(s, v) /\ Result(v) = Result(s)
    BY <2>1, <2>4 DEF Onward, MadeHere, Result
  <2>6. LinksLead(v) /\ CardsLinked(v)
    BY <2>1, <2>5, LeadsOnward, CardOnward DEF LinkInv, LinksLead, CardsLinked
  <2>7. ServerSound(v) /\ SharedRight(v)
    BY <2>1 DEF ServerSound, SharedRight, Elsewhere, LinkInv
  <2>8. TasksSound(v, Slots)
    <3>1. ASSUME NEW x \in Slots \ {t} PROVE TaskSound(v, v.task[x])
      <4>1. TaskSound(s, s.task[x]) /\ v.task[x] = s.task[x]
        BY <1>5, <2>3 DEF LinkInv, TasksSound
      <4>2. QED
        BY <4>1, <2>1, <2>5, TaskOnward DEF Elsewhere
    <3>2. v.task[t] = k(at)
      BY <1>5, <2>3
    <3>3. TaskSound(v, k(at))
      BY <1>2, <2>1, <2>2 DEF TaskSound
    <3>4. v.task["share"].at # "part"
      BY <1>5, <2>2, <2>3 DEF LinkInv, TasksSound, Slots
    <3>5. QED
      BY <3>1, <3>2, <3>3, <3>4 DEF TasksSound
  <2>9. QED
    BY <2>1, <2>4, <2>6, <2>7, <2>8 DEF LinkInvBut, LinkInv, SameCards, TasksSound
<1>6. a.task = [s.task EXCEPT ![t] = k("post")]
  BY <1>4 DEF Typed, Fields, NoTask
<1>7. CASE r.link # NoLink
  <2>1. PICK v : v = [a EXCEPT !.task[t].at = "linked"]
    OBVIOUS
  <2>2. v.task = [s.task EXCEPT ![t] = k("linked")]
    BY <1>4, <2>1 DEF Typed, Fields, NoTask
  <2>3. u = v
    BY <1>1, <1>4, <1>7, <2>1 DEF ShortLink
  <2>4. QED
    BY <1>5, <2>1, <2>2, <2>3
<1>8. CASE r.link = NoLink /\ Hits(s, r.doc) = {}
  <2>1. u = a
    BY <1>1, <1>4, <1>8 DEF ShortLink
  <2>2. QED
    BY <1>5, <1>6, <2>1
<1>9. CASE r.link = NoLink /\ Hits(s, r.doc) # {}
  <2>1. PICK i : i = CHOOSE x \in Hits(s, r.doc) : \A j \in Hits(s, r.doc) : x <= j
    OBVIOUS
  <2>2. i \in DOMAIN s.links /\ s.links[i].f = r.doc
    <3>1. s.links \in Seq(Kept)
      BY DEF Typed
    <3>2. Hits(s, r.doc) \subseteq Nat
      BY <3>1 DEF Hits
    <3>3. i \in Hits(s, r.doc)
      BY <1>9, <2>1, <3>2, Least
    <3>4. QED
      BY <3>3 DEF Hits
  <2>3. PICK link : link = [id |-> s.links[i].id, f |-> r.doc]
    OBVIOUS
  <2>4. link \in Links /\ link.f = r.doc /\ link.id = s.links[i].id
    <3>1. s.links[i] \in Kept
      BY <2>2 DEF Typed
    <3>2. QED
      BY <1>2, <2>3, <3>1 DEF Links, LinkIds0, Kept, Cards, Texts
  <2>5. /\ Typed(a) /\ Elsewhere(s, a) /\ LinkInvBut(a, t) /\ SameCards(s, a) /\ a.server = s.server
        /\ a.res = s.res /\ a.links = s.links /\ a.made = s.made
    BY <1>5, <1>6
  <2>6. Leads(a, link.id, link.f)
    <3>1. LinksLead(a)
      BY <2>5 DEF LinkInvBut
    <3>2. QED
      BY <2>2, <2>4, <2>5, <3>1 DEF LinksLead
  <2>7. a.task[t].res = n
    BY <1>3, <1>6 DEF Typed
  <2>8. u = Got(a, t, link)
    BY <1>1, <1>4, <1>9, <2>1, <2>3 DEF ShortLink
  <2>9. Typed(u) /\ Elsewhere(a, u) /\ LinkInv(u) /\ SameCards(a, u) /\ u.server = a.server
    BY <1>1, <1>2, <2>4, <2>5, <2>6, <2>7, <2>8, GotKeeps
  <2>10. QED
    BY <2>5, <2>9 DEF Elsewhere, SameCards
<1>10. QED
  BY <1>7, <1>8, <1>9

LEMMA TapKeeps ==
  ASSUME PageSetting, NEW s, Typed(s), s.res # <<>>, LinkInv(s), NEW u, u = Tap(s)
  PROVE  /\ Typed(u) /\ Elsewhere(s, u) /\ LinkInv(u)
         /\ SameCards(s, u) /\ u.server = s.server
<1>1. CASE s.task["share"] # NoTask
  BY <1>1 DEF Tap, Elsewhere, SameCards
<1>2. CASE s.task["share"] = NoTask /\ Result(s).link = NoLink
  <2>1. "share" \in Slots /\ u = ShortLink(s, "share")
    BY <1>2 DEF Tap, Slots
  <2>2. QED
    BY <2>1, ShortLinkKeeps
<1>3. CASE s.task["share"] = NoTask /\ Result(s).link # NoLink
  <2>1. PICK r : r = Result(s)
    OBVIOUS
  <2>2. r \in Cards /\ CardLinked(s, r)
    BY <2>1, ResultIs DEF LinkInv, CardsLinked
  <2>3. u = [s EXCEPT !.shared = [link |-> r.link, pic |-> r.doc]]
    BY <1>3, <2>1 DEF Tap
  <2>4. /\ Elsewhere(s, u) /\ u.res = s.res /\ u.task = s.task /\ u.links = s.links
        /\ u.out = s.out /\ u.made = s.made /\ u.server = s.server /\ u.shared = [link |-> r.link, pic |-> r.doc]
    BY <2>3 DEF Typed, Fields, Elsewhere
  <2>5. u.shared \in [link : Links, pic : Texts] /\ u.shared.pic = u.shared.link.f
    BY <1>3, <2>1, <2>2, <2>4 DEF Cards, CardLinked, Texts
  <2>6. Typed(u)
    BY <2>4, <2>5 DEF Typed, Elsewhere
  <2>7. SharedRight(u)
    BY <2>5 DEF SharedRight
  <2>8. Onward(s, u) /\ Result(u) = Result(s) /\ u.hasty = s.hasty
    BY <2>4, <2>6 DEF Onward, MadeHere, Result, Elsewhere
  <2>9. LinksLead(u) /\ CardsLinked(u)
    BY <2>4, <2>8, LeadsOnward, CardOnward DEF LinkInv, LinksLead, CardsLinked
  <2>10. ServerSound(u)
    BY <2>4 DEF ServerSound, LinkInv
  <2>11. TasksSound(u, Slots)
    BY <2>4, <2>8, TaskOnward DEF LinkInv, TasksSound
  <2>12. QED
    BY <2>4, <2>6, <2>7, <2>9, <2>10, <2>11 DEF LinkInv, SameCards
<1>4. QED
  BY <1>1, <1>2, <1>3

-----------------------------------------------------------------------------
(* What the screens do to the links: nothing. *)
SameLinks(s, u) ==
  /\ u.res = s.res /\ u.task = s.task /\ u.links = s.links /\ u.out = s.out /\ u.made = s.made
  /\ u.server = s.server /\ u.shared = s.shared /\ (s.hasty => u.hasty)
\* ... and to where the sheet came from.
SameWay(s, u) ==
  /\ u.hash \in {NONE, s.hash} /\ u.shortId = s.shortId /\ u.home = s.home
  /\ u.strayed = s.strayed

LEMMA LinksStay ==
  ASSUME NEW s, NEW u, Typed(u), SameLinks(s, u), LinkInv(s)
  PROVE  LinkInv(u)
<1>1. Onward(s, u) /\ Result(u) = Result(s)
  BY DEF SameLinks, Typed, Onward, MadeHere, Result
<1>2. LinksLead(u) /\ CardsLinked(u)
  BY <1>1, LeadsOnward, CardOnward DEF LinkInv, LinksLead, CardsLinked, SameLinks
<1>3. ServerSound(u) /\ SharedRight(u)
  BY DEF ServerSound, SharedRight, LinkInv, SameLinks
<1>4. TasksSound(u, Slots)
  BY <1>1, TaskOnward DEF LinkInv, TasksSound, SameLinks
<1>5. QED
  BY <1>2, <1>3, <1>4 DEF LinkInv

LEMMA WayStays ==
  ASSUME NEW s, NEW u, SameWay(s, u), CameThrough(s),
         \A i \in Shorts \ {NONE} : u.server[i].f \in {NONE, s.server[i].f}, Typed(s)
  PROVE  CameThrough(u)
<1>1. s.shortId \in Shorts /\ s.home.link \in Shorts
  BY DEF Typed
<1>2. QED
  BY <1>1 DEF SameWay, CameThrough

LEMMA WorkStays ==
  ASSUME NEW s, Typed(s), NEW u, Typed(u), Elsewhere(s, u), SameCards(s, u), OpenWork(s)
  PROVE  OpenWork(u)
<1>1. ASSUME s.screen = "done" PROVE u.res # <<>> /\ (s.hasty \/ Result(u).keep = Result(u).doc)
  <2>1. s.res # <<>> /\ (s.hasty \/ Result(s).keep = Result(s).doc)
    BY <1>1 DEF OpenWork
  <2>2. Len(s.res) \in DOMAIN s.res /\ DOMAIN s.res = 1 .. Len(s.res) /\ Result(s) = s.res[Len(s.res)]
    BY <2>1, ResultIs
  <2>3. s.res \in Seq(Cards) /\ u.res \in Seq(Cards) /\ Len(s.res) # 0
    BY <2>1 DEF Typed
  <2>4. u.res # <<>>
    BY <2>3 DEF SameCards
  <2>5. QED
    BY <2>1, <2>2, <2>4 DEF SameCards, Result
<1>2. QED
  BY <1>1 DEF Elsewhere, OpenWork

-----------------------------------------------------------------------------
(* The screens. *)

\* A step of a screen that leaves links and addresses alone.
LEMMA ScreenStep ==
  ASSUME PageInv(page), Typed(page'), SameLinks(page, page'), SameWay(page, page'), OpenWork(page')
  PROVE  PageInv(page')
<1>1. LinkInv(page')
  BY LinksStay DEF PageInv
<1>2. CameThrough(page')
  <2>1. \A i \in Shorts \ {NONE} : page'.server[i].f \in {NONE, page.server[i].f}
    BY DEF SameLinks
  <2>2. QED
    BY <2>1, WayStays DEF PageInv
<1>3. QED
  BY <1>1, <1>2 DEF PageInv

LEMMA OpenEditorStep ==
  ASSUME PageSetting, PageInv(page), NEW d \in Works, OpenEditor(d)
  PROVE  PageInv(page')
<1>1. Typed(page') /\ SameLinks(page, page') /\ SameWay(page, page')
  BY DEF PageInv, OpenEditor, GoesOn, Texts, Typed, Fields, SameLinks, SameWay
<1>2. OpenWork(page')
  BY DEF PageInv, PageSetting, OpenEditor, GoesOn, Result, Typed, Fields, OpenWork
<1>3. QED
  BY <1>1, <1>2, ScreenStep

LEMMA EditStep ==
  ASSUME PageSetting, PageInv(page), NEW d \in Works, Edit(d)
  PROVE  PageInv(page')
<1>1. Typed(page') /\ SameLinks(page, page') /\ SameWay(page, page')
  BY DEF PageInv, Edit, GoesOn, Texts, Typed, Fields, SameLinks, SameWay
<1>2. OpenWork(page')
  BY DEF PageInv, PageSetting, Edit, GoesOn, Result, Typed, Fields, OpenWork
<1>3. QED
  BY <1>1, <1>2, ScreenStep

LEMMA OpenStyleStep ==
  ASSUME PageSetting, PageInv(page), OpenStyle
  PROVE  PageInv(page')
<1>1. Typed(page') /\ SameLinks(page, page') /\ SameWay(page, page')
  BY DEF PageInv, OpenStyle, Texts, Typed, Fields, SameLinks, SameWay
<1>2. OpenWork(page')
  BY DEF PageInv, PageSetting, OpenStyle, Result, Typed, Fields, OpenWork
<1>3. QED
  BY <1>1, <1>2, ScreenStep

LEMMA OpenWallStep ==
  ASSUME PageSetting, PageInv(page), OpenWall
  PROVE  PageInv(page')
<1>1. Typed(page') /\ SameLinks(page, page') /\ SameWay(page, page')
  BY DEF PageInv, OpenWall, Texts, Typed, Fields, SameLinks, SameWay
<1>2. OpenWork(page')
  BY DEF PageInv, PageSetting, OpenWall, Result, Typed, Fields, OpenWork
<1>3. QED
  BY <1>1, <1>2, ScreenStep

LEMMA MakePlayableStep ==
  ASSUME PageSetting, PageInv(page), MakePlayable
  PROVE  PageInv(page')
<1>1. Typed(page') /\ SameLinks(page, page') /\ SameWay(page, page')
  BY DEF PageInv, MakePlayable, Texts, Typed, Fields, SameLinks, SameWay
<1>2. OpenWork(page')
  BY DEF PageInv, PageSetting, MakePlayable, Result, Typed, Fields, OpenWork
<1>3. QED
  BY <1>1, <1>2, ScreenStep

LEMMA FinishStep ==
  ASSUME PageSetting, PageInv(page), Finish
  PROVE  PageInv(page')
<1>1. Typed(page') /\ SameLinks(page, page') /\ SameWay(page, page')
  BY DEF PageInv, Finish, Texts, Typed, Fields, SameLinks, SameWay
<1>2. OpenWork(page')
  BY DEF PageInv, PageSetting, Finish, Result, Typed, Fields, OpenWork
<1>3. QED
  BY <1>1, <1>2, ScreenStep

LEMMA QuickStep ==
  ASSUME PageSetting, PageInv(page), NEW d \in Works, Quick(d)
  PROVE  PageInv(page')
<1>1. Typed(page') /\ SameLinks(page, page') /\ SameWay(page, page')
  BY DEF PageInv, Quick, Texts, Typed, Fields, SameLinks, SameWay
<1>2. OpenWork(page')
  BY DEF PageInv, PageSetting, Quick, Result, Typed, Fields, OpenWork
<1>3. QED
  BY <1>1, <1>2, ScreenStep

LEMMA BackStep ==
  ASSUME PageSetting, PageInv(page), Back
  PROVE  PageInv(page')
<1>1. CASE page.screen = "game" /\ page.played # NONE
  <2>1. page' = BackFromPlay(page)
    BY <1>1 DEF Back
  <2>2. Typed(page') /\ SameLinks(page, page') /\ SameWay(page, page')
    BY <2>1 DEF PageInv, BackFromPlay, Texts, Typed, Fields, SameLinks, SameWay
  <2>3. OpenWork(page')
    BY ZenonT(60), <1>1, <2>1 DEF Back, PageInv, BackFromPlay, Result, Typed, Fields, OpenWork
  <2>4. QED
    BY <2>2, <2>3, ScreenStep
<1>2. CASE page.screen = "shelf" /\ page.ed # NONE /\ page.styling
  <2>1. page' = BackFromStyle(page)
    BY <1>2 DEF Back
  <2>2. Typed(page') /\ SameLinks(page, page') /\ SameWay(page, page')
    BY <2>1 DEF PageInv, BackFromStyle, Texts, Typed, Fields, SameLinks, SameWay
  <2>3. OpenWork(page')
    BY <1>2, <2>1 DEF Back, PageInv, BackFromStyle, Result, Typed, Fields, OpenWork
  <2>4. QED
    BY <2>2, <2>3, ScreenStep
<1>3. CASE ~(page.screen = "game" /\ page.played # NONE) /\ ~(page.screen = "shelf" /\ page.ed # NONE /\ page.styling)
  <2>1. page' = GoesOn(GoHome(page))
    BY <1>3 DEF Back
  <2>2. Typed(page') /\ SameLinks(page, page') /\ SameWay(page, page')
    BY <2>1 DEF PageInv, GoesOn, GoHome, GoHomeKeep, Texts, Typed, Fields, SameLinks, SameWay
  <2>3. OpenWork(page')
    BY ZenonT(60), <1>3, <2>1 DEF Back, PageInv, GoesOn, GoHome, GoHomeKeep, Result, Typed, Fields, OpenWork
  <2>4. QED
    BY <2>2, <2>3, ScreenStep
<1>4. QED
  BY <1>1, <1>2, <1>3

LEMMA PhoneBackStep ==
  ASSUME PageSetting, PageInv(page), PhoneBack
  PROVE  PageInv(page')
<1> DEFINE s0 == [GoesOn(page) EXCEPT !.hash = NONE, !.routes = IF page.hash = NONE THEN @ ELSE @ + 1]
<1>1. PICK s : s = s0
  OBVIOUS
<1>2. page' = IF page.played # NONE THEN BackFromPlay(s)
              ELSE IF page.ed # NONE /\ page.styling THEN BackFromStyle(s)
              ELSE GoHome(s)
  BY <1>1 DEF PhoneBack
<1>3. /\ Typed(s) /\ SameLinks(page, s) /\ SameWay(page, s)
      /\ s.ed = page.ed /\ s.played = page.played /\ s.fin = page.fin /\ (page.fin # NONE => s.hasty)
  BY <1>1 DEF PageInv, GoesOn, Texts, Typed, Fields, SameLinks, SameWay
<1>4. Typed(page') /\ SameLinks(page, page') /\ SameWay(page, page') /\ OpenWork(page')
  <2>1. CASE page' = BackFromPlay(s) /\ page.played # NONE
    BY <1>3, <2>1 DEF BackFromPlay, Texts, Typed, Fields, SameLinks, SameWay, OpenWork
  <2>2. CASE page' = BackFromStyle(s) /\ page.ed # NONE
    BY <1>3, <2>2 DEF BackFromStyle, Texts, Typed, Fields, SameLinks, SameWay, OpenWork
  <2>3. CASE page' = GoHome(s)
    BY <1>3, <2>3 DEF GoHome, GoHomeKeep, Texts, Typed, Fields, SameLinks, SameWay, OpenWork
  <2>4. QED
    BY <1>2, <2>1, <2>2, <2>3
<1>5. QED
  BY <1>4, ScreenStep

LEMMA BackToEditorStep ==
  ASSUME PageSetting, PageInv(page), BackToEditor
  PROVE  PageInv(page')
<1>1. page.res # <<>>
  BY DEF PageInv, OpenWork, BackToEditor
<1>2. PICK r \in Cards : r = Result(page)
  BY <1>1, ResultIs DEF PageInv
<1>3. page' = [page EXCEPT !.ed = r.keep, !.screen = "editor"] /\ r.keep # NONE /\ r.keep \in Texts
  BY <1>2 DEF BackToEditor, Cards
<1>4. Typed(page') /\ SameLinks(page, page') /\ SameWay(page, page')
  BY <1>3 DEF PageInv, Typed, Fields, SameLinks, SameWay
<1>5. OpenWork(page')
  BY <1>3 DEF PageInv, BackToEditor, Typed, Fields, OpenWork
<1>6. QED
  BY <1>4, <1>5, ScreenStep

LEMMA RemoveLinkStep ==
  ASSUME PageSetting, PageInv(page), NEW i, RemoveLink(i)
  PROVE  PageInv(page')
<1>1. page.links[i].id \in LinkIds0
  <2>1. page.links[i] \in Kept
    BY DEF PageInv, Typed, RemoveLink
  <2>2. QED
    BY <2>1 DEF Kept, LinkIds0
<1>2. Typed(page') /\ SameLinks(page, page') /\ SameWay(page, page')
  BY <1>1 DEF PageInv, RemoveLink, Typed, Fields, SameLinks, SameWay
<1>3. OpenWork(page')
  BY DEF PageInv, RemoveLink, Result, Typed, Fields, OpenWork
<1>4. QED
  BY <1>2, <1>3, ScreenStep

-----------------------------------------------------------------------------
(* Addresses. *)

LEMMA OpenHashStep ==
  ASSUME PageSetting, PageInv(page), NEW h \in Hashes, OpenHash(h)
  PROVE  PageInv(page')
<1>1. Typed(page') /\ SameLinks(page, page') /\ OpenWork(page')
  BY DEF PageInv, OpenHash, Hashes, ShortHashes, Texts, Result, Typed, Fields, SameLinks, OpenWork
<1>2. CameThrough(page')
  BY DEF PageInv, OpenHash, Typed, Fields, CameThrough
<1>3. QED
  BY <1>1, <1>2, LinksStay DEF PageInv

LEMMA ResolvedStep ==
  ASSUME PageSetting, PageInv(page), NEW found \in BOOLEAN, Resolved(found)
  PROVE  PageInv(page')
<1>1. page.look \in Shorts /\ page.look \in Ids /\ page.server[page.look].f \in Texts
  <2>1. page.look \in Shorts /\ page.look # NONE
    BY DEF PageInv, Typed, Resolved
  <2>2. Len(Posted) \in Nat /\ MaxLinks \in Nat
    BY DEF PageSetting
  <2>3. page.look \in Ids
    BY <2>1, <2>2 DEF Shorts, Ids
  <2>4. QED
    BY <2>1, <2>3 DEF PageInv, Typed, Served
<1>2. PICK f \in Texts : f = page.server[page.look].f
  BY <1>1
<1>3. CASE found /\ f # NONE
  <2>1. page' = [page EXCEPT !.shortId = page.look, !.look = NONE,
                   !.hash = f, !.routes = IF page.hash = f THEN @ ELSE @ + 1,
                   !.strayed = @ \/ page.hash \notin {NONE, f}]
    BY <1>2, <1>3 DEF Resolved
  <2>2. Typed(page') /\ SameLinks(page, page') /\ OpenWork(page')
    BY <1>1, <1>2, <2>1 DEF PageInv, Shorts, Result, Typed, Fields, SameLinks, OpenWork
  <2>3. CameThrough(page')
    BY <1>2, <1>3, <2>1 DEF PageInv, Typed, Fields, CameThrough, Texts
  <2>4. QED
    BY <2>2, <2>3, LinksStay DEF PageInv
<1>4. CASE ~(found /\ f # NONE)
  <2>1. page' = [page EXCEPT !.look = NONE]
    BY <1>2, <1>4 DEF Resolved
  <2>2. Typed(page') /\ SameLinks(page, page') /\ SameWay(page, page')
    BY <2>1 DEF PageInv, Shorts, Typed, Fields, SameLinks, SameWay
  <2>3. OpenWork(page')
    BY <2>1 DEF PageInv, Result, Typed, Fields, OpenWork
  <2>4. QED
    BY <2>2, <2>3, ScreenStep
<1>5. QED
  BY <1>3, <1>4

LEMMA RouteStep ==
  ASSUME PageSetting, PageInv(page), Route
  PROVE  PageInv(page')
<1>1. PICK s : s = [GoesOn(page) EXCEPT !.routes = @ - 1]
  OBVIOUS
<1>2. /\ Typed(s) /\ SameLinks(page, s) /\ SameWay(page, s) /\ s.hash = page.hash
      /\ s.ed = page.ed /\ s.played = page.played /\ s.fin = page.fin /\ (page.fin # NONE => s.hasty)
  BY <1>1 DEF PageInv, GoesOn, Texts, Typed, Fields, SameLinks, SameWay
<1>3. CASE page.hash = NONE
  <2>1. page' = [page EXCEPT !.routes = @ - 1]
    BY <1>3 DEF Route, PageSetting
  <2>2. Typed(page') /\ SameLinks(page, page') /\ SameWay(page, page')
    BY <2>1 DEF PageInv, Typed, Fields, SameLinks, SameWay
  <2>3. OpenWork(page')
    BY <2>1 DEF PageInv, Result, Typed, Fields, OpenWork
  <2>4. QED
    BY <2>2, <2>3, ScreenStep
<1>4. CASE page.hash \in Works
  <2>1. page' = [GoHomeKeep(s) EXCEPT !.shortId = NONE, !.home = [doc |-> page.hash, link |-> page.shortId]]
    BY <1>1, <1>4 DEF Route, PageSetting
  <2>2. Typed(page') /\ SameLinks(page, page') /\ OpenWork(page')
    BY <1>2, <1>4, <2>1 DEF PageInv, GoHomeKeep, Texts, Shorts, Typed, Fields, SameLinks, SameWay, OpenWork
  <2>3. CameThrough(page')
    BY <1>2, <1>4, <2>1 DEF PageInv, PageSetting, GoHomeKeep, Typed, Fields, SameWay, SameLinks, CameThrough
  <2>4. QED
    BY <2>2, <2>3, LinksStay DEF PageInv
<1>5. CASE page.hash = Idea
  <2>1. page' = [GoHomeKeep(s) EXCEPT !.home = [Day EXCEPT !.doc = Idea], !.strayed = @ \/ page.shortId # NONE]
    BY <1>1, <1>5 DEF Route, PageSetting
  <2>2. [Day EXCEPT !.doc = Idea] = [doc |-> Idea, link |-> NONE]
    BY DEF Day
  <2>3. Typed(page') /\ SameLinks(page, page') /\ OpenWork(page')
    BY <1>2, <2>1, <2>2 DEF PageInv, GoHomeKeep, Texts, Shorts, Typed, Fields, SameLinks, SameWay, OpenWork
  <2>4. CameThrough(page')
    BY <1>2, <2>1, <2>2 DEF PageInv, GoHomeKeep, Typed, Fields, SameWay, SameLinks, CameThrough
  <2>5. QED
    BY <2>3, <2>4, LinksStay DEF PageInv
<1>6. CASE page.hash \notin Works \cup {NONE, Idea}
  <2>1. page' = [GoHome(s) EXCEPT !.look = page.hash - 100]
    BY <1>1, <1>6 DEF Route
  <2>2. page.hash - 100 \in Shorts
    <3>1. page.hash \in ShortHashes
      BY <1>6 DEF PageInv, Typed, Texts
    <3>2. Len(Posted) \in Nat
      BY DEF PageSetting
    <3>3. QED
      BY <3>1, <3>2 DEF ShortHashes, Shorts
  <2>3. Typed(page') /\ SameLinks(page, page') /\ SameWay(page, page') /\ OpenWork(page')
    BY <1>2, <2>1, <2>2 DEF GoHome, GoHomeKeep, Texts, Typed, Fields, SameLinks, SameWay, OpenWork
  <2>4. QED
    BY <2>3, ScreenStep
<1>7. QED
  BY <1>3, <1>4, <1>5, <1>6

-----------------------------------------------------------------------------
(* The links of the finished card. *)

\* A step that makes links for the cards that are there, and touches nothing else.
LEMMA LinkStep ==
  ASSUME NEW s, PageInv(s), NEW u, Typed(u), Elsewhere(s, u), LinkInv(u), SameCards(s, u),
         \A i \in Shorts \ {NONE} : u.server[i].f \in {NONE, s.server[i].f}
  PROVE  PageInv(u)
<1>1. OpenWork(u)
  BY WorkStays DEF PageInv
<1>2. CameThrough(u)
  BY WayStays DEF PageInv, Elsewhere, SameWay
<1>3. QED
  BY <1>1, <1>2 DEF PageInv

LEMMA TapShareStep ==
  ASSUME PageSetting, PageInv(page), TapShare
  PROVE  PageInv(page')
<1>1. page.res # <<>> /\ page' = Tap(page)
  BY DEF PageInv, OpenWork, TapShare
<1>2. /\ Typed(page') /\ Elsewhere(page, page') /\ LinkInv(page')
      /\ SameCards(page, page') /\ page'.server = page.server
  BY <1>1, TapKeeps DEF PageInv
<1>3. QED
  BY <1>2, LinkStep

LEMMA TapStoryStep ==
  ASSUME PageSetting, PageInv(page), TapStory
  PROVE  PageInv(page')
<1>1. page.res # <<>> /\ "story" \in Slots /\ page' = ShortLink(page, "story")
  BY DEF PageInv, OpenWork, TapStory, Slots
<1>2. /\ Typed(page') /\ Elsewhere(page, page') /\ LinkInv(page')
      /\ SameCards(page, page') /\ page'.server = page.server
  BY <1>1, ShortLinkKeeps DEF PageInv
<1>3. QED
  BY <1>2, LinkStep

\* One slot goes on; the cards and the links stay.
LEMMA SlotStep ==
  ASSUME PageInv(page), NEW t \in Slots, NEW k \in Tasks, page'.task = [page.task EXCEPT ![t] = k],
         TaskSound(page, k), t = "share" => k.at # "part",
         Elsewhere(page, page'), page'.res = page.res, page'.links = page.links,
         page'.out = page.out, page'.made = page.made, page'.server = page.server,
         page'.shared \in [link : Links, pic : Texts], SharedRight(page')
  PROVE  PageInv(page')
<1>1. page.task \in [Slots -> Tasks] /\ [page.task EXCEPT ![t] = k] \in [Slots -> Tasks]
  BY DEF PageInv, Typed
<1>2. Typed(page')
  BY <1>1 DEF PageInv, Typed, Elsewhere
<1>3. Onward(page, page') /\ Result(page') = Result(page)
  BY <1>2 DEF Typed, Onward, MadeHere, Result
<1>4. LinksLead(page') /\ CardsLinked(page')
  BY <1>3, LeadsOnward, CardOnward DEF PageInv, LinkInv, LinksLead, CardsLinked
<1>5. ServerSound(page')
  BY DEF PageInv, ServerSound, LinkInv
<1>6. TasksSound(page', Slots)
  <2>1. ASSUME NEW x \in Slots PROVE TaskSound(page, page'.task[x])
    BY <1>1 DEF PageInv, LinkInv, TasksSound
  <2>2. ASSUME NEW x \in Slots PROVE TaskSound(page', page'.task[x])
    BY <2>1, <1>3, TaskOnward DEF Elsewhere
  <2>3. page'.task["share"].at # "part"
    BY <1>1 DEF PageInv, LinkInv, TasksSound, Slots
  <2>4. QED
    BY <2>2, <2>3 DEF TasksSound
<1>7. LinkInv(page')
  BY <1>4, <1>5, <1>6 DEF LinkInv
<1>8. SameCards(page, page') /\ \A i \in Shorts \ {NONE} : page'.server[i].f \in {NONE, page.server[i].f}
  BY DEF SameCards
<1>9. QED
  BY <1>2, <1>7, <1>8, LinkStep

LEMMA NothingUnderWay == NoTask \in Tasks /\ NoTask.at = "no" /\ \A s : TaskSound(s, NoTask)
<1>1. NoTask \in Tasks /\ NoTask.at = "no"
  BY DEF NoTask, Tasks, NoLink, Links, LinkIds0, Texts, NONE
<1>2. QED
  BY <1>1 DEF TaskSound

LEMMA ShareReadyStep ==
  ASSUME PageSetting, PageInv(page), ShareReady
  PROVE  PageInv(page')
<1>1. /\ page'.task = [page.task EXCEPT !["share"] = NoTask] /\ Elsewhere(page, page')
      /\ page'.res = page.res /\ page'.links = page.links /\ page'.out = page.out /\ page'.made = page.made
      /\ page'.server = page.server /\ page'.shared = page.shared
  BY DEF ShareReady, PageInv, Typed, Fields, Elsewhere
<1>2. SharedRight(page') /\ page'.shared \in [link : Links, pic : Texts]
  BY <1>1 DEF PageInv, LinkInv, SharedRight, Elsewhere, Typed
<1>3. QED
  BY <1>1, <1>2, NothingUnderWay, SlotStep DEF Slots

LEMMA PartMissingStep ==
  ASSUME PageSetting, PageInv(page), PartMissing
  PROVE  PageInv(page')
<1>1. /\ page'.task = [page.task EXCEPT !["story"] = NoTask] /\ Elsewhere(page, page')
      /\ page'.res = page.res /\ page'.links = page.links /\ page'.out = page.out /\ page'.made = page.made
      /\ page'.server = page.server /\ page'.shared = page.shared
  BY DEF PartMissing, PageInv, Typed, Fields, Elsewhere
<1>2. SharedRight(page') /\ page'.shared \in [link : Links, pic : Texts]
  BY <1>1 DEF PageInv, LinkInv, SharedRight, Elsewhere, Typed
<1>3. QED
  BY <1>1, <1>2, NothingUnderWay, SlotStep DEF Slots

LEMMA StoryLinkedStep ==
  ASSUME PageSetting, PageInv(page), StoryLinked
  PROVE  PageInv(page')
<1>1. page.res # <<>> /\ page.task["story"].at = "linked"
  BY DEF StoryLinked, PageInv, LinkInv, TasksSound, TaskSound, Slots
<1>2. PICK r \in Cards : r = Result(page) /\ CardLinked(page, r)
  BY <1>1, ResultIs DEF PageInv, LinkInv, CardsLinked
<1>3. PICK k : k = IF r.link = NoLink THEN NoTask ELSE [NoTask EXCEPT !.at = "part", !.link = r.link]
  OBVIOUS
<1>4. k \in Tasks /\ TaskSound(page, k)
  <2>1. CASE r.link = NoLink
    BY <1>3, <2>1, NothingUnderWay
  <2>2. CASE r.link # NoLink
    <3>1. k \in Tasks /\ k.at = "part" /\ k.link = r.link
      BY <1>3, <2>2, NothingUnderWay DEF Tasks, Cards
    <3>2. QED
      BY <1>1, <1>2, <2>2, <3>1 DEF TaskSound, CardLinked
  <2>3. QED
    BY <2>1, <2>2
<1>5. page' = [page EXCEPT !.task["story"] = k]
  BY <1>2, <1>3 DEF StoryLinked
<1>6. /\ page'.task = [page.task EXCEPT !["story"] = k] /\ Elsewhere(page, page')
      /\ page'.res = page.res /\ page'.links = page.links /\ page'.out = page.out /\ page'.made = page.made
      /\ page'.server = page.server /\ page'.shared = page.shared
  BY <1>5 DEF PageInv, Typed, Fields, Elsewhere
<1>7. SharedRight(page') /\ page'.shared \in [link : Links, pic : Texts]
  BY <1>6 DEF PageInv, LinkInv, SharedRight, Elsewhere, Typed
<1>8. QED
  BY <1>4, <1>6, <1>7, SlotStep DEF Slots

LEMMA StoryDrawnStep ==
  ASSUME PageSetting, PageInv(page), StoryDrawn
  PROVE  PageInv(page')
<1>1. page.res # <<>> /\ page.task["story"] \in Tasks
      /\ (page.hasty \/ page.task["story"].link.f = Result(page).doc)
  BY DEF StoryDrawn, PageInv, LinkInv, TasksSound, TaskSound, Slots, Typed
<1>2. PICK r \in Cards : r = Result(page)
  BY <1>1, ResultIs DEF PageInv
<1>3. page' = [page EXCEPT !.task["story"] = NoTask, !.shared = [link |-> page.task["story"].link, pic |-> r.doc]]
  BY <1>2 DEF StoryDrawn
<1>4. /\ page'.task = [page.task EXCEPT !["story"] = NoTask] /\ Elsewhere(page, page')
      /\ page'.res = page.res /\ page'.links = page.links /\ page'.out = page.out /\ page'.made = page.made
      /\ page'.server = page.server /\ page'.shared = [link |-> page.task["story"].link, pic |-> r.doc]
  BY <1>3 DEF PageInv, Typed, Fields, Elsewhere
<1>5. SharedRight(page') /\ page'.shared \in [link : Links, pic : Texts]
  BY <1>1, <1>2, <1>4 DEF SharedRight, Elsewhere, Tasks, Cards, Texts
<1>6. QED
  BY <1>4, <1>5, NothingUnderWay, SlotStep DEF Slots

LEMMA AppendIs ==
  ASSUME NEW S, NEW q \in Seq(S), NEW x \in S, NEW w, w = Append(q, x)
  PROVE  /\ w \in Seq(S) /\ w # <<>> /\ DOMAIN q \subseteq DOMAIN w /\ w[Len(w)] = x
         /\ \A n \in DOMAIN w : (n \in DOMAIN q /\ w[n] = q[n]) \/ w[n] = x
  OBVIOUS

LEMMA FinishedStep ==
  ASSUME PageSetting, PageInv(page), Finished
  PROVE  PageInv(page')
<1>1. PICK s : s = [page EXCEPT !.res = Append(@, [doc |-> page.fin, keep |-> page.ed, link |-> NoLink]),
                                !.fin = NONE, !.screen = "done", !.hasty = @ \/ page.task["story"].at = "part"]
  OBVIOUS
<1>2. page' = IF page.quick THEN Tap(s) ELSE s
  BY <1>1 DEF Finished
<1>3. PICK c : c = [doc |-> page.fin, keep |-> page.ed, link |-> NoLink]
  OBVIOUS
<1>4. c \in Cards /\ c.doc = page.fin /\ c.keep = page.ed /\ c.link = NoLink
  BY <1>3 DEF PageInv, Typed, Finished, Cards, Texts, NoLink, Links, LinkIds0
<1>5. /\ s.res = Append(page.res, c) /\ s.fin = NONE /\ s.screen = "done"
      /\ s.hasty = (page.hasty \/ page.task["story"].at = "part") /\ DOMAIN s = DOMAIN page
      /\ s.visit = page.visit /\ s.home = page.home /\ s.ed = page.ed /\ s.played = page.played /\ s.task = page.task
      /\ s.links = page.links /\ s.out = page.out /\ s.made = page.made /\ s.server = page.server /\ s.del = page.del
      /\ s.hash = page.hash /\ s.look = page.look /\ s.shortId = page.shortId /\ s.shared = page.shared
      /\ s.strayed = page.strayed
  BY <1>1, <1>3 DEF PageInv, Typed, Fields
<1>6. /\ s.res \in Seq(Cards) /\ s.res # <<>> /\ DOMAIN page.res \subseteq DOMAIN s.res /\ Result(s) = c
      /\ \A n \in DOMAIN s.res : (n \in DOMAIN page.res /\ s.res[n] = page.res[n]) \/ s.res[n] = c
  <2>1. page.res \in Seq(Cards)
    BY DEF PageInv, Typed
  <2>2. /\ s.res \in Seq(Cards) /\ s.res # <<>> /\ DOMAIN page.res \subseteq DOMAIN s.res /\ s.res[Len(s.res)] = c
        /\ \A n \in DOMAIN s.res : (n \in DOMAIN page.res /\ s.res[n] = page.res[n]) \/ s.res[n] = c
    BY <1>4, <1>5, <2>1, AppendIs
  <2>3. QED
    BY <2>2 DEF Result
<1>7. Typed(s)
  BY <1>5, <1>6 DEF PageInv, Typed, Texts
<1>8. Onward(page, s)
  BY <1>5, <1>7 DEF Onward, MadeHere, Typed
<1>9. LinksLead(s) /\ CardsLinked(s)
  BY <1>4, <1>5, <1>6, <1>8, LeadsOnward, CardOnward DEF PageInv, LinkInv, LinksLead, CardsLinked, CardLinked
<1>10. ServerSound(s) /\ SharedRight(s)
  <2>1. ServerSound(s)
    BY <1>5 DEF PageInv, LinkInv, ServerSound
  <2>2. SharedRight(s)
    BY <1>5 DEF PageInv, LinkInv, SharedRight
  <2>3. QED
    BY <2>1, <2>2
<1>11. TasksSound(s, Slots)
  <2>1. ASSUME NEW x \in Slots PROVE TaskSound(s, s.task[x])
    <3>1. TaskSound(page, page.task[x]) /\ (page.task[x].at = "part" => s.hasty)
      BY <1>5 DEF PageInv, LinkInv, TasksSound, Slots
    <3>2. QED
      BY <3>1, <1>5, <1>6, <1>8, TaskOnward
  <2>2. QED
    BY <2>1, <1>5 DEF PageInv, LinkInv, TasksSound
<1>12. OpenWork(s)
  BY <1>4, <1>5, <1>6 DEF PageInv, OpenWork, Finished
<1>13. CameThrough(s)
  BY <1>5 DEF PageInv, CameThrough
<1>14. PageInv(s)
  BY <1>7, <1>9, <1>10, <1>11, <1>12, <1>13 DEF PageInv, LinkInv
<1>15. CASE page.quick
  <2>1. PICK u : u = Tap(s)
    OBVIOUS
  <2>2. /\ Typed(u) /\ Elsewhere(s, u) /\ LinkInv(u)
        /\ SameCards(s, u) /\ u.server = s.server
    BY <2>1, <1>6, <1>14, TapKeeps DEF PageInv
  <2>3. PageInv(u)
    BY <2>2, <1>14, LinkStep
  <2>4. QED
    BY <1>2, <1>15, <2>1, <2>3
<1>16. QED
  BY <1>2, <1>14, <1>15

LEMMA PictureSentStep ==
  ASSUME PageSetting, PageInv(page), NEW t \in Slots, NEW arrives \in BOOLEAN, PictureSent(t, arrives)
  PROVE  PageInv(page')
<1>1. PICK k \in Tasks : k = page.task[t] /\ k.at = "picture" /\ TaskSound(page, k)
  BY DEF PageInv, Typed, LinkInv, TasksSound, PictureSent
<1>2. /\ Leads(page, k.id, k.pic) /\ k.pic \notin Photos /\ k.id \in Ids /\ k.pic \in Texts
      /\ page.server \in [Ids -> Served] /\ page.server[k.id].f \in {NONE, k.pic}
  BY <1>1, LeadsIs DEF TaskSound, Leads, PageInv, Typed, Tasks
<1>3. PICK p : p = IF arrives /\ k.id \in LinkIds(page.links) /\ page.server[k.id].f # NONE THEN k.pic
                   ELSE page.server[k.id].pic
  OBVIOUS
<1>4. PICK e : e = [page.server[k.id] EXCEPT !.pic = p]
  OBVIOUS
<1>5. /\ e \in Served /\ e.f = page.server[k.id].f /\ e.heard = page.server[k.id].heard
      /\ e.pic \notin Photos /\ (e.f # NONE => e.pic \in {NONE, e.f})
  <2>1. page.server[k.id] \in Served
    BY <1>2
  <2>2. /\ page.server[k.id].pic \notin Photos
        /\ page.server[k.id].f # NONE => page.server[k.id].pic \in {NONE, page.server[k.id].f}
    BY <1>2 DEF PageInv, LinkInv, ServerSound
  <2>3. p \in Texts /\ p \notin Photos /\ (page.server[k.id].f # NONE => p \in {NONE, page.server[k.id].f})
    BY <1>2, <1>3, <2>1, <2>2 DEF Served
  <2>4. QED
    BY <1>4, <2>1, <2>3 DEF Served
<1>6. PICK k2 : k2 = [k EXCEPT !.at = "linked"]
  OBVIOUS
<1>7. k2 \in Tasks /\ k2.at = "linked"
  BY <1>6 DEF Tasks
<1>8. /\ page'.task = [page.task EXCEPT ![t] = k2] /\ page'.server = [page.server EXCEPT ![k.id] = e]
      /\ Elsewhere(page, page') /\ page'.res = page.res /\ page'.links = page.links /\ page'.out = page.out
      /\ page'.made = page.made /\ page'.shared = page.shared
  BY <1>1, <1>3, <1>4, <1>6 DEF PictureSent, PageInv, Typed, Fields, Elsewhere
<1>9. Typed(page')
  <2>1. page'.task \in [Slots -> Tasks] /\ page'.server \in [Ids -> Served]
    BY <1>2, <1>5, <1>7, <1>8 DEF PageInv, Typed
  <2>2. QED
    BY <1>8, <2>1 DEF PageInv, Typed, Elsewhere
<1>10. \A i \in Ids : page'.server[i].f = page.server[i].f /\ page'.server[i].heard = page.server[i].heard
  BY <1>2, <1>5, <1>8
<1>11. Onward(page, page') /\ Result(page') = Result(page)
  BY <1>8, <1>9, <1>10, LeadsIs DEF PageInv, Typed, Onward, MadeHere, Result
<1>12. LinksLead(page') /\ CardsLinked(page')
  BY <1>8, <1>11, LeadsOnward, CardOnward DEF PageInv, LinkInv, LinksLead, CardsLinked
<1>13. ServerSound(page') /\ SharedRight(page')
  <2>1. ASSUME NEW i \in Ids
        PROVE  /\ page'.server[i].pic \notin Photos
               /\ page'.server[i].f # NONE => page'.server[i].pic \in {NONE, page'.server[i].f}
    BY <1>2, <1>5, <1>8 DEF PageInv, LinkInv, ServerSound
  <2>2. QED
    BY <2>1, <1>8, <1>10 DEF PageInv, LinkInv, ServerSound, SharedRight, Elsewhere
<1>14. TasksSound(page', Slots)
  <2>0. page.task \in [Slots -> Tasks]
    BY DEF PageInv, Typed
  <2>1. ASSUME NEW x \in Slots PROVE TaskSound(page, page'.task[x])
    BY <2>0, <1>1, <1>7, <1>8 DEF PageInv, LinkInv, TasksSound, TaskSound
  <2>2. ASSUME NEW x \in Slots PROVE TaskSound(page', page'.task[x])
    BY <2>1, <1>8, <1>11, TaskOnward DEF Elsewhere
  <2>3. page'.task["share"].at # "part"
    BY <2>0, <1>7, <1>8 DEF PageInv, LinkInv, TasksSound, Slots
  <2>4. QED
    BY <2>2, <2>3 DEF TasksSound
<1>15. SameCards(page, page') /\ LinkInv(page')
  BY <1>8, <1>12, <1>13, <1>14 DEF SameCards, LinkInv
<1>16. \A i \in Shorts \ {NONE} : page'.server[i].f \in {NONE, page.server[i].f}
  BY <1>2, <1>5, <1>8 DEF PageInv, Typed
<1>17. QED
  BY <1>8, <1>9, <1>15, <1>16, LinkStep

\* The list with a new link in front, cut to its length; what is cut off is written down.
Cut(q, x, w, out, out2) ==
  /\ w \in Seq(Kept)
  /\ \A i \in DOMAIN w : i \in Nat /\ IF i = 1 THEN w[i] = x ELSE i - 1 \in DOMAIN q /\ w[i] = q[i - 1]
  /\ LinkIds(w) \cup out2 = LinkIds(q) \cup {x.id} \cup out

Behind(all, n, out, out2) ==
  /\ out \subseteq out2 /\ \A i \in n + 1 .. Len(all) : all[i].id \in out2
  /\ \A id \in out2 : id \in out \/ \E i \in n + 1 .. Len(all) : id = all[i].id

LEMMA CutIs ==
  ASSUME NEW q \in Seq(Kept), NEW x \in Kept, NEW y, y = <<x>>, NEW all, all = y \o q, NEW n \in 0 .. Len(all),
         NEW w, w = SubSeq(all, 1, n), NEW out, NEW out2, Behind(all, n, out, out2)
  PROVE  Cut(q, x, w, out, out2)
<1>1. y \in Seq(Kept) /\ Len(y) = 1 /\ y[1] = x /\ Len(q) \in Nat /\ DOMAIN q = 1 .. Len(q)
  OBVIOUS
<1>2. /\ all \in Seq(Kept) /\ DOMAIN all = 1 .. Len(q) + 1
      /\ \A i \in DOMAIN all : all[i] = IF i <= 1 THEN y[i] ELSE q[i - 1]
  <2>1. PICK m : m = Len(y) + Len(q)
    OBVIOUS
  <2>2. y \in Seq(Kept) /\ m = Len(y) + Len(q)
    BY <1>1, <2>1
  <2>3. /\ y \o q \in Seq(Kept) /\ DOMAIN (y \o q) = 1 .. m
        /\ \A i \in 1 .. m : (y \o q)[i] = IF i <= Len(y) THEN y[i] ELSE q[i - Len(y)]
    BY ONLY q \in Seq(Kept), <2>2, Joined
  <2>4. m = Len(q) + 1
    BY ONLY <1>1, <2>1
  <2>5. QED
    BY <1>1, <2>3, <2>4
<1>3. Len(all) = Len(q) + 1
  BY ONLY <1>1, <1>2
<1>4. w \in Seq(Kept) /\ DOMAIN w = 1 .. n /\ \A i \in 1 .. n : w[i] = all[i]
  BY ONLY <1>1, <1>2, <1>3, n \in 0 .. Len(all), w = SubSeq(all, 1, n)
<1>5. n \in Nat /\ n <= Len(q) + 1
  BY ONLY <1>1, <1>3, n \in 0 .. Len(all)
<1>6. \A i \in 1 .. Len(q) + 1 : (i = 1 /\ all[i] = x) \/ (i - 1 \in DOMAIN q /\ all[i] = q[i - 1])
  BY ONLY SMTT(60), <1>1, <1>2
<1>7. all[1] = x /\ \A i \in DOMAIN q : i + 1 \in 1 .. Len(q) + 1 /\ all[i + 1] = q[i]
  <2>1. 1 \in 1 .. Len(q) + 1
    BY ONLY <1>1
  <2>2. all[1] = x
    BY ONLY <2>1, <1>1, <1>2
  <2>3. ASSUME NEW i \in DOMAIN q PROVE i + 1 \in 1 .. Len(q) + 1 /\ all[i + 1] = q[i]
    <3>1. i \in Nat /\ i >= 1 /\ i + 1 \in 1 .. Len(q) + 1 /\ (i + 1) - 1 = i /\ ~(i + 1 <= 1)
      BY ONLY <1>1, i \in DOMAIN q
    <3>2. QED
      BY ONLY <3>1, <1>2
  <2>4. QED
    BY <2>2, <2>3
<1>8. /\ out \subseteq out2 /\ \A i \in n + 1 .. Len(q) + 1 : all[i].id \in out2
      /\ \A id \in out2 : id \in out \/ \E i \in n + 1 .. Len(q) + 1 : id = all[i].id
  BY <1>3 DEF Behind
<1>9. \A i \in 1 .. Len(q) + 1 : all[i].id \in LinkIds(w) \cup out2
  <2> SUFFICES ASSUME NEW i \in 1 .. Len(q) + 1 PROVE all[i].id \in LinkIds(w) \cup out2
    OBVIOUS
  <2>1. CASE i > n
    BY ONLY <1>1, <1>5, <1>8, <2>1, i \in 1 .. Len(q) + 1
  <2>2. CASE i <= n
    <3>1. i \in DOMAIN w /\ w[i] = all[i]
      BY ONLY <1>1, <1>4, <1>5, <2>2, i \in 1 .. Len(q) + 1
    <3>2. QED
      BY ONLY <3>1 DEF LinkIds
  <2>3. QED
    BY ONLY <1>1, <1>5, <2>1, <2>2, i \in 1 .. Len(q) + 1
<1>10. \A i \in DOMAIN w : i \in Nat /\ IF i = 1 THEN w[i] = x ELSE i - 1 \in DOMAIN q /\ w[i] = q[i - 1]
  <2> SUFFICES ASSUME NEW i \in DOMAIN w
               PROVE  i \in Nat /\ IF i = 1 THEN w[i] = x ELSE i - 1 \in DOMAIN q /\ w[i] = q[i - 1]
    OBVIOUS
  <2>1. i \in 1 .. n /\ i \in 1 .. Len(q) + 1 /\ w[i] = all[i]
    BY ONLY <1>1, <1>4, <1>5, i \in DOMAIN w
  <2>2. (i = 1 /\ all[i] = x) \/ (i - 1 \in DOMAIN q /\ all[i] = q[i - 1])
    BY ONLY <1>6, <2>1
  <2>3. i - 1 \in DOMAIN q => i # 1
    BY ONLY <1>1, <2>1
  <2>4. QED
    BY ONLY <2>1, <2>2, <2>3
<1>11. \A i \in 1 .. Len(q) + 1 : all[i].id \in LinkIds(q) \cup {x.id}
  <2> SUFFICES ASSUME NEW i \in 1 .. Len(q) + 1 PROVE all[i].id \in LinkIds(q) \cup {x.id}
    OBVIOUS
  <2>1. all[i] = x \/ \E j \in DOMAIN q : all[i] = q[j]
    BY ONLY <1>6, i \in 1 .. Len(q) + 1
  <2>2. QED
    BY ONLY <2>1 DEF LinkIds
<1>12. \A i \in DOMAIN w : w[i].id \in LinkIds(q) \cup {x.id}
  BY ONLY <1>1, <1>4, <1>5, <1>11
<1>13. LinkIds(w) \cup out2 \subseteq LinkIds(q) \cup {x.id} \cup out
  <2>1. LinkIds(w) \subseteq LinkIds(q) \cup {x.id}
    BY ONLY <1>12 DEF LinkIds
  <2>2. \A i \in n + 1 .. Len(q) + 1 : i \in 1 .. Len(q) + 1
    BY ONLY <1>1, <1>5
  <2>3. out2 \subseteq LinkIds(q) \cup {x.id} \cup out
    BY ONLY <1>8, <1>11, <2>2
  <2>4. QED
    BY ONLY <2>1, <2>3
<1>14. LinkIds(q) \cup {x.id} \cup out \subseteq LinkIds(w) \cup out2
  <2>1. x.id \in LinkIds(w) \cup out2
    <3>1. 1 \in 1 .. Len(q) + 1
      BY ONLY <1>1
    <3>2. QED
      BY ONLY <1>7, <1>9, <3>1
  <2>2. \A i \in DOMAIN q : q[i].id \in LinkIds(w) \cup out2
    BY ONLY <1>7, <1>9
  <2>3. out \subseteq out2
    BY ONLY <1>8
  <2>4. QED
    BY ONLY <2>1, <2>2, <2>3 DEF LinkIds
<1>15. QED
  BY <1>4, <1>10, <1>13, <1>14 DEF Cut

\* From s to u short link id for f is made, and heard of or not.
Posts(s, u, id, f, heard, x) ==
  /\ Elsewhere(s, u) /\ u.res = s.res /\ u.task = s.task /\ u.shared = s.shared /\ u.made = s.made + 1
  /\ u.server = [s.server EXCEPT ![id] = [f |-> f, pic |-> NONE, heard |-> heard]]
  /\ x \in Kept /\ x.id = id /\ x.f = f /\ x.th = NONE
  /\ heard => Cut(s.links, x, u.links, s.out, u.out)
  /\ ~heard => u.links = s.links /\ u.out = s.out

(* What is made leads to its card; what falls out of the list is in `out'.  *)
LEMMA PostedKeeps ==
  ASSUME PageSetting, PageInv(page), NEW t \in Slots, page.task[t].at = "post", page.made < MaxLinks,
         NEW heard \in BOOLEAN, NEW id, id = Len(Posted) + page.made + 1, NEW f, f = page.res[page.task[t].res].doc,
         NEW x, NEW s, Posts(page, s, id, f, heard, x)
  PROVE  /\ Typed(s) /\ LinkInvBut(s, t)
         /\ heard => Leads(s, id, f)
         /\ \A i \in Shorts \ {NONE} : s.server[i].f \in {NONE, page.server[i].f}
<1>0. /\ Elsewhere(page, s) /\ s.res = page.res /\ s.task = page.task /\ s.shared = page.shared /\ s.made = page.made + 1
      /\ s.server = [page.server EXCEPT ![id] = [f |-> f, pic |-> NONE, heard |-> heard]]
      /\ x \in Kept /\ x.id = id /\ x.f = f /\ x.th = NONE
      /\ heard => Cut(page.links, x, s.links, page.out, s.out)
      /\ ~heard => s.links = page.links /\ s.out = page.out
  BY DEF Posts
<1>1. /\ page.task[t].res \in DOMAIN page.res /\ page.res # <<>> /\ f \in Works
  <2>1. page.task[t].res \in DOMAIN page.res /\ page.res # <<>>
    BY <1>0 DEF PageInv, LinkInv, TasksSound, TaskSound
  <2>2. page.res[page.task[t].res] \in Cards
    BY SMTT(60), <1>0, <2>1 DEF PageInv, Typed
  <2>3. QED
    BY <1>0, <2>1, <2>2 DEF Cards
<1>2. /\ Len(Posted) \in Nat /\ page.made \in Nat /\ id \in Ids /\ id \notin MadeHere(page) /\ id \notin Shorts
      /\ MadeHere(s) = MadeHere(page) \cup {id} /\ page.made + 1 \in 0 .. MaxLinks
      /\ MadeHere(page) \subseteq Ids /\ NONE \notin Ids
  <2>1. Len(Posted) \in Nat /\ page.made \in Nat /\ MaxLinks \in Nat
    BY SMTT(60), <1>0 DEF PageSetting, PageInv, Typed
  <2>2. MadeHere(page) \subseteq Ids /\ NONE \notin Ids
    BY LeadsIs DEF PageInv
  <2>3. id \in Ids /\ id \notin MadeHere(page) /\ id \notin Shorts /\ MadeHere(s) = MadeHere(page) \cup {id}
    BY <1>0, <2>1 DEF Ids, MadeHere, Shorts, NONE
  <2>4. QED
    BY <1>0, <2>1, <2>2, <2>3
<1>4. page.links \in Seq(Kept) /\ \A i \in DOMAIN page.links : i \in Nat /\ page.links[i] \in Kept
  BY <1>0 DEF PageInv, Typed
<1>9. \A i \in DOMAIN page.links : page.links[i].id \in MadeHere(page)
  BY <1>0 DEF PageInv, LinkInv, LinksLead, Leads
<1>10. \A i \in DOMAIN s.links :
         \/ heard /\ i = 1 /\ s.links[i] = x
         \/ ~heard /\ i \in DOMAIN page.links /\ s.links[i] = page.links[i]
         \/ heard /\ i # 1 /\ i \in Nat /\ i - 1 \in DOMAIN page.links /\ s.links[i] = page.links[i - 1]
  BY <1>0 DEF Cut
<1>11. s.server \in [Ids -> Served] /\ page.server \in [Ids -> Served]
  <2>1. page.server \in [Ids -> Served]
    BY DEF PageInv, Typed
  <2>2. [f |-> f, pic |-> NONE, heard |-> heard] \in Served
    BY ONLY <1>1, heard \in BOOLEAN DEF Served, Texts
  <2>3. s.server = [page.server EXCEPT ![id] = [f |-> f, pic |-> NONE, heard |-> heard]]
    BY <1>0
  <2>4. QED
    BY ONLY <2>1, <2>2, <2>3
<1>12. /\ \A i \in Ids : i # id => s.server[i] = page.server[i]
       /\ s.server[id].f = f /\ s.server[id].pic = NONE /\ s.server[id].heard = heard
  <2>1. s.server = [page.server EXCEPT ![id] = [f |-> f, pic |-> NONE, heard |-> heard]]
    BY <1>0
  <2>2. QED
    BY ONLY <1>2, <1>11, <2>1
<1>13. LinkIds(s.links) \cup s.out = LinkIds(page.links) \cup page.out \cup IF heard THEN {id} ELSE {}
  BY <1>0 DEF Cut
<1>14. s.out \subseteq Ids /\ s.links \in Seq(Kept)
  <2>1. page.out \subseteq Ids /\ LinkIds(page.links) \subseteq Ids
    <3>1. page.out \subseteq Ids
      BY DEF PageInv, Typed
    <3>2. QED
      BY ONLY <1>4, <3>1 DEF LinkIds, Kept
  <2>2. s.out \subseteq Ids
    BY <1>0, <1>2, <1>13, <2>1
  <2>3. QED
    BY <1>0, <1>4, <2>2 DEF Cut
<1>15. Typed(s)
  BY <1>0, <1>2, <1>11, <1>14 DEF PageInv, Typed, Elsewhere
<1>16. Onward(page, s)
  <2>1. \A i \in MadeHere(page) : s.server[i].f = page.server[i].f
    BY <1>0, <1>2, <1>12
  <2>2. \A i \in DOMAIN s.links : s.links[i].id \in MadeHere(page) => \E j \in DOMAIN page.links : s.links[i] = page.links[j]
    BY SMTT(60), <1>0, <1>2, <1>4, <1>10
  <2>3. QED
    BY <1>0, <1>2, <2>1, <2>2 DEF Onward
<1>17. heard => Leads(s, id, f)
  <2>1. ASSUME NEW i \in DOMAIN s.links, s.links[i].id = id PROVE s.links[i] = x
    BY <1>0, <1>2, <1>9, <1>10, <2>1
  <2>2. \A i \in DOMAIN s.links : s.links[i].id = id => s.links[i].f = f /\ s.links[i].th \in {NONE, f}
    BY <1>0, <2>1
  <2>3. QED
    BY <1>0, <1>2, <1>12, <2>2 DEF Leads
<1>18. LinksLead(s)
  <2>1. ASSUME NEW i \in DOMAIN s.links PROVE Leads(s, s.links[i].id, s.links[i].f)
    <3>1. CASE s.links[i] = x /\ heard
      BY <1>0, <1>4, <1>17, <3>1
    <3>2. CASE \E j \in DOMAIN page.links : s.links[i] = page.links[j]
      BY <1>0, <1>16, <3>2, LeadsOnward DEF PageInv, LinkInv, LinksLead
    <3>3. QED
      BY <1>0, <1>10, <3>1, <3>2
  <2>2. ASSUME NEW i \in DOMAIN s.links, NEW j \in DOMAIN s.links, s.links[i].id = s.links[j].id PROVE i = j
    <3>1. \A a, b \in DOMAIN page.links : page.links[a].id = page.links[b].id => a = b
      BY <1>0 DEF PageInv, LinkInv, LinksLead
    <3>2. i \in Nat /\ j \in Nat
      BY <1>0, <1>14
    <3>3. CASE ~heard
      BY <1>0, <1>10, <2>2, <3>1, <3>3
    <3>4. CASE heard /\ i = 1
      <4>1. s.links[i].id = id /\ \A a \in DOMAIN page.links : page.links[a].id # id
        BY ONLY <1>0, <1>2, <1>9, <1>10, <3>4, i \in DOMAIN s.links
      <4>2. QED
        BY ONLY <1>10, <2>2, <3>4, <4>1, i \in DOMAIN s.links, j \in DOMAIN s.links
    <3>5. CASE heard /\ j = 1
      <4>1. s.links[j].id = id /\ \A a \in DOMAIN page.links : page.links[a].id # id
        BY ONLY <1>0, <1>2, <1>9, <1>10, <3>5, j \in DOMAIN s.links
      <4>2. QED
        BY ONLY <1>10, <2>2, <3>5, <4>1, i \in DOMAIN s.links, j \in DOMAIN s.links
    <3>6. CASE heard /\ i # 1 /\ j # 1
      <4>1. /\ i - 1 \in DOMAIN page.links /\ s.links[i] = page.links[i - 1]
            /\ j - 1 \in DOMAIN page.links /\ s.links[j] = page.links[j - 1]
        BY <1>0, <1>10, <3>6
      <4>2. i - 1 = j - 1
        BY SMTT(60), <1>0, <2>2, <3>1, <4>1
      <4>3. QED
        BY <3>2, <4>2
    <3>7. QED
      BY <3>3, <3>4, <3>5, <3>6
  <2>3. QED
    BY <1>0, <2>1, <2>2 DEF LinksLead
<1>19. CardsLinked(s)
  BY <1>0, <1>16, CardOnward DEF PageInv, LinkInv, CardsLinked
<1>20. ServerSound(s)
  <2> SUFFICES ASSUME NEW i \in Ids
               PROVE  /\ s.server[i].pic \notin Photos
                      /\ s.server[i].f # NONE => s.server[i].pic \in {NONE, s.server[i].f}
                      /\ s.server[i].heard /\ s.server[i].f # NONE => i \in LinkIds(s.links) \cup s.out
    BY <1>0 DEF ServerSound
  <2>1. CASE i = id
    BY <1>0, <1>12, <1>13, <2>1 DEF PageSetting
  <2>2. CASE i # id
    BY <1>0, <1>12, <1>13, <2>2 DEF PageInv, LinkInv, ServerSound
  <2>3. QED
    BY <1>0, <2>1, <2>2
<1>21. SharedRight(s)
  BY <1>0 DEF PageInv, LinkInv, SharedRight, Elsewhere
<1>22. TasksSound(s, Slots \ {t})
  <2>1. Result(s) = Result(page) /\ s.hasty = page.hasty
    BY <1>0 DEF Result, Elsewhere
  <2>2. QED
    BY <1>0, <1>16, <2>1, TaskOnward DEF PageInv, LinkInv, TasksSound
<1>23. LinkInvBut(s, t)
  BY <1>0, <1>1, <1>18, <1>19, <1>20, <1>21, <1>22 DEF LinkInvBut
<1>24. \A i \in Shorts \ {NONE} : s.server[i].f \in {NONE, page.server[i].f}
  <2>1. Shorts \ {NONE} \subseteq Ids
    <3>1. MaxLinks \in Nat
      BY DEF PageSetting
    <3>2. QED
      BY ONLY <1>2, <3>1 DEF Shorts, Ids, NONE
  <2>2. QED
    BY ONLY <1>2, <1>12, <2>1
<1>25. QED
  BY <1>0, <1>15, <1>17, <1>23, <1>24

LEMMA PostAnswerStep ==
  ASSUME PageSetting, PageInv(page), NEW t \in Slots, NEW how \in {"heard", "lost", "none"}, PostAnswer(t, how)
  PROVE  PageInv(page')
<1> DEFINE all == <<[id |-> Len(Posted) + page.made + 1, f |-> page.res[page.task[t].res].doc, th |-> NONE]>> \o page.links
           n == IF Len(all) < MAX_KEPT THEN Len(all) ELSE MAX_KEPT
           s0 == [page EXCEPT !.made = @ + 1,
                    !.server[Len(Posted) + page.made + 1] =
                      [f |-> page.res[page.task[t].res].doc, pic |-> NONE, heard |-> how = "heard"]]
<1>1. /\ page.task[t].at = "post" /\ page.task[t].res \in DOMAIN page.res /\ page.res # <<>>
      /\ how # "none" => page.made < MaxLinks
  BY DEF PageInv, LinkInv, TasksSound, TaskSound, PostAnswer
<1>2. PICK f, id : f = page.res[page.task[t].res].doc /\ id = Len(Posted) + page.made + 1
  OBVIOUS
<1>3. f \in Works
  <2>1. page.res[page.task[t].res] \in Cards
    BY <1>1 DEF PageInv, Typed
  <2>2. QED
    BY <1>2, <2>1 DEF Cards
<1>4. CASE how = "none"
  <2>1. PICK link : link = [id |-> NONE, f |-> f]
    OBVIOUS
  <2>2. link \in Links /\ link.f = f /\ link.id = NONE
    BY <1>3, <2>1 DEF Links, LinkIds0, Texts
  <2>3. page' = Got(page, t, link)
    BY <1>2, <1>4, <2>1 DEF PostAnswer
  <2>4. LinkInvBut(page, t)
    BY <1>1 DEF PageInv, LinkInv, LinkInvBut, TasksSound
  <2>5. Typed(page') /\ Elsewhere(page, page') /\ LinkInv(page') /\ SameCards(page, page') /\ page'.server = page.server
    BY <1>1, <1>2, <2>2, <2>3, <2>4, GotKeeps DEF PageInv
  <2>6. QED
    BY <2>5, LinkStep
<1>5. CASE how # "none"
  <2>1. PICK x, y, q, m : /\ x = [id |-> id, f |-> f, th |-> NONE] /\ y = <<x>> /\ q = y \o page.links
                          /\ m = IF Len(q) < MAX_KEPT THEN Len(q) ELSE MAX_KEPT
    OBVIOUS
  <2>2. PICK a : a = [page EXCEPT !.made = @ + 1, !.server[id] = [f |-> f, pic |-> NONE, heard |-> how = "heard"]]
    OBVIOUS
  <2>3. PICK s : s = IF how = "heard"
                     THEN [a EXCEPT !.links = SubSeq(q, 1, m), !.out = @ \cup {q[i].id : i \in m + 1 .. Len(q)}]
                     ELSE a
    OBVIOUS
  <2>4. PICK link : link = [id |-> IF how = "heard" THEN id ELSE NONE, f |-> f]
    OBVIOUS
  <2>5. page' = Got(s, t, link)
    <3>1. CASE how = "heard"
      <4>1. page' = Got([s0 EXCEPT !.links = SubSeq(all, 1, n), !.out = @ \cup {all[i].id : i \in n + 1 .. Len(all)}], t,
                        [id |-> Len(Posted) + page.made + 1, f |-> page.res[page.task[t].res].doc])
        BY <1>5, <3>1 DEF PostAnswer
      <4>2. all = q /\ n = m /\ s0 = a
        BY <1>2, <2>1, <2>2
      <4>3. link = [id |-> Len(Posted) + page.made + 1, f |-> page.res[page.task[t].res].doc]
        BY <1>2, <2>4, <3>1
      <4> HIDE DEF all, n, s0
      <4>4. QED
        BY <2>3, <3>1, <4>1, <4>2, <4>3
    <3>2. CASE how # "heard"
      BY <1>2, <1>5, <2>2, <2>3, <2>4, <3>2 DEF PostAnswer
    <3>3. QED
      BY <3>1, <3>2
  <2>6. PICK heard \in BOOLEAN : heard = (how = "heard")
    OBVIOUS
  <2>7. /\ Elsewhere(page, a) /\ a.res = page.res /\ a.task = page.task /\ a.shared = page.shared /\ a.made = page.made + 1
        /\ a.server = [page.server EXCEPT ![id] = [f |-> f, pic |-> NONE, heard |-> heard]]
        /\ a.links = page.links /\ a.out = page.out
    BY <2>2, <2>6 DEF PageInv, Typed, Fields, Elsewhere
  <2>8. /\ Elsewhere(page, s) /\ s.res = page.res /\ s.task = page.task /\ s.shared = page.shared /\ s.made = page.made + 1
        /\ s.server = [page.server EXCEPT ![id] = [f |-> f, pic |-> NONE, heard |-> heard]]
        /\ ~heard => s.links = page.links /\ s.out = page.out
        /\ heard => s.links = SubSeq(q, 1, m) /\ s.out = page.out \cup {q[i].id : i \in m + 1 .. Len(q)}
    <3>1. CASE how = "heard"
      BY <2>3, <2>6, <2>7, <3>1 DEF PageInv, Typed, Fields, Elsewhere
    <3>2. CASE how # "heard"
      BY <2>3, <2>6, <2>7, <3>2
    <3>3. QED
      BY <3>1, <3>2
  <2>9. Len(Posted) \in Nat /\ page.made \in Nat /\ id \in Ids /\ page.links \in Seq(Kept) /\ page.made < MaxLinks
    <3>1. Len(Posted) \in Nat /\ page.made \in Nat /\ MaxLinks \in Nat /\ page.links \in Seq(Kept) /\ page.made < MaxLinks
      BY <1>1, <1>5 DEF PageSetting, PageInv, Typed
    <3>2. QED
      BY <1>2, <3>1 DEF Ids
  <2>10. x \in Kept /\ x.id = id /\ x.f = f /\ x.th = NONE
    BY <1>3, <2>1, <2>9 DEF Kept, Texts
  <2>11. m \in 0 .. Len(q)
    <3>1. Len(q) \in Nat
      <4>1. y \in Seq(Kept)
        BY <2>1, <2>10
      <4>2. q \in Seq(Kept)
        BY <2>1, <2>9, <4>1
      <4>3. QED
        BY <4>2
    <3>2. QED
      BY <2>1, <3>1 DEF PageSetting
  <2>12. ASSUME heard PROVE Cut(page.links, x, s.links, page.out, s.out)
    <3>1. y = <<x>> /\ q = y \o page.links
      BY <2>1
    <3>2. s.links = SubSeq(q, 1, m) /\ s.out = page.out \cup {q[i].id : i \in m + 1 .. Len(q)}
      BY <2>8, <2>12
    <3>3. Behind(q, m, page.out, s.out)
      BY ONLY <3>2 DEF Behind
    <3>4. QED
      BY ONLY <2>9, <2>10, <2>11, <3>1, <3>2, <3>3, CutIs
  <2>13. /\ Typed(s) /\ LinkInvBut(s, t) /\ (heard => Leads(s, id, f))
         /\ \A i \in Shorts \ {NONE} : s.server[i].f \in {NONE, page.server[i].f}
    <3>1. Posts(page, s, id, f, heard, x)
      BY <2>8, <2>10, <2>12 DEF Posts
    <3>2. QED
      BY <1>1, <1>2, <2>9, <3>1, PostedKeeps
  <2>14. link \in Links /\ link.f = f /\ (link.id # NONE => heard /\ link.id = id)
    BY <1>3, <2>4, <2>6, <2>9 DEF Links, LinkIds0, Texts
  <2>15. /\ Typed(page') /\ Elsewhere(s, page') /\ LinkInv(page')
         /\ SameCards(s, page') /\ page'.server = s.server
    <3>1. /\ s.task[t].res \in DOMAIN s.res /\ link.f = s.res[s.task[t].res].doc
          /\ link.id # NONE => Leads(s, link.id, link.f)
      BY <1>1, <1>2, <2>8, <2>13, <2>14
    <3>2. QED
      BY <2>5, <2>13, <2>14, <3>1, GotKeeps
  <2>16. Elsewhere(page, page') /\ SameCards(page, page')
    BY <2>8, <2>15 DEF Elsewhere, SameCards
  <2>17. QED
    BY <2>13, <2>15, <2>16, LinkStep
<1>6. QED
  BY <1>4, <1>5

LEMMA RemoveAnswerStep ==
  ASSUME PageSetting, PageInv(page), NEW how \in {"gone", "lost", "offline"}, RemoveAnswer(how)
  PROVE  PageInv(page')
<1>1. page.del \in Ids /\ page.server \in [Ids -> Served] /\ page.links \in Seq(Kept)
  BY DEF RemoveAnswer, PageInv, Typed, LinkIds0
<1>2. PICK w : w = IF how = "gone" THEN Without(page.links, page.del) ELSE page.links
  OBVIOUS
<1>3. /\ w \in Seq(Kept) /\ \A i \in DOMAIN w : \E j \in DOMAIN page.links : w[i] = page.links[j]
      /\ \A i, j \in DOMAIN w : w[i].id = w[j].id => i = j
      /\ LinkIds(page.links) \subseteq LinkIds(w) \cup IF how = "gone" THEN {page.del} ELSE {}
  <2>1. \A i, j \in DOMAIN page.links : page.links[i].id = page.links[j].id => i = j
    BY DEF PageInv, LinkInv, LinksLead
  <2>2. CASE how = "gone"
    BY <1>1, <1>2, <2>1, <2>2, WithoutIs
  <2>3. CASE how # "gone"
    BY <1>1, <1>2, <2>1, <2>3
  <2>4. QED
    BY <2>2, <2>3
<1>4. PICK e : e = [page.server[page.del] EXCEPT !.f = IF how = "offline" THEN @ ELSE NONE]
  OBVIOUS
<1>5. /\ e \in Served /\ e.f \in {NONE, page.server[page.del].f} /\ e.pic = page.server[page.del].pic
      /\ e.heard = page.server[page.del].heard /\ (how = "gone" => e.f = NONE)
  BY <1>1, <1>4 DEF Served, Texts
<1>6. /\ page'.server = [page.server EXCEPT ![page.del] = e] /\ page'.links = w /\ page'.del = NONE /\ page'.screen = "shelf"
      /\ page'.res = page.res /\ page'.task = page.task /\ page'.out = page.out /\ page'.made = page.made
      /\ page'.shared = page.shared /\ page'.hash = page.hash /\ page'.shortId = page.shortId /\ page'.home = page.home
      /\ page'.strayed = page.strayed /\ page'.hasty = page.hasty /\ page'.ed = page.ed /\ page'.played = page.played
      /\ page'.fin = page.fin /\ page'.visit = page.visit /\ page'.look = page.look /\ DOMAIN page' = DOMAIN page
  BY <1>2, <1>4 DEF RemoveAnswer, PageInv, Typed, Fields
<1>7. page'.server \in [Ids -> Served] /\ \A i \in Ids : page'.server[i] = IF i = page.del THEN e ELSE page.server[i]
  BY <1>1, <1>5, <1>6
<1>8. Typed(page')
  BY <1>3, <1>6, <1>7 DEF PageInv, Typed, LinkIds0
<1>9. Onward(page, page') /\ Result(page') = Result(page)
  <2>1. MadeHere(page) \subseteq Ids /\ MadeHere(page') = MadeHere(page)
    BY <1>6, LeadsIs DEF PageInv, MadeHere
  <2>2. \A i \in MadeHere(page) : page'.server[i].f \in {NONE, page.server[i].f}
    BY <1>5, <1>7, <2>1
  <2>3. QED
    BY <1>3, <1>6, <2>1, <2>2 DEF Onward, Result
<1>10. LinksLead(page') /\ CardsLinked(page')
  <2>1. LinksLead(page) /\ \A i \in DOMAIN page.links : page.links[i].id \in MadeHere(page)
    BY DEF PageInv, LinkInv, LinksLead, Leads
  <2>2. \A i \in DOMAIN w : w[i].id \in MadeHere(page)
    BY <1>3, <2>1
  <2>3. LinksLead(page')
    BY <1>3, <1>6, <1>9, <2>1, <2>2, LinksOnward
  <2>4. QED
    BY <1>6, <1>9, <2>3, CardOnward DEF PageInv, LinkInv, CardsLinked
<1>11. ServerSound(page') /\ SharedRight(page')
  <2>1. SharedRight(page')
    BY <1>6 DEF PageInv, LinkInv, SharedRight
  <2>2. ASSUME NEW i \in Ids
        PROVE  /\ page'.server[i].pic \notin Photos
               /\ page'.server[i].f # NONE => page'.server[i].pic \in {NONE, page'.server[i].f}
               /\ page'.server[i].heard /\ page'.server[i].f # NONE => i \in LinkIds(page'.links) \cup page'.out
    <3>1. /\ page.server[i].pic \notin Photos
          /\ page.server[i].f # NONE => page.server[i].pic \in {NONE, page.server[i].f}
          /\ page.server[i].heard /\ page.server[i].f # NONE => i \in LinkIds(page.links) \cup page.out
      BY DEF PageInv, LinkInv, ServerSound
    <3>2. CASE i = page.del
      BY <1>3, <1>5, <1>6, <1>7, <3>1, <3>2
    <3>3. CASE i # page.del
      BY <1>3, <1>6, <1>7, <3>1, <3>3
    <3>4. QED
      BY <3>2, <3>3
  <2>3. QED
    BY <2>1, <2>2 DEF ServerSound
<1>12. TasksSound(page', Slots)
  BY <1>6, <1>9, TaskOnward DEF PageInv, LinkInv, TasksSound
<1>13. LinkInv(page')
  BY <1>10, <1>11, <1>12 DEF LinkInv
<1>14. OpenWork(page')
  BY <1>6 DEF PageInv, OpenWork
<1>15. CameThrough(page')
  <2>1. \A i \in Shorts \ {NONE} : page'.server[i].f \in {NONE, page.server[i].f}
    <3>1. Shorts \ {NONE} \subseteq Ids
      <4>1. Len(Posted) \in Nat /\ MaxLinks \in Nat
        BY DEF PageSetting
      <4>2. QED
        BY <4>1 DEF Shorts, Ids, NONE
    <3>2. QED
      BY <1>1, <1>5, <1>6, <1>7, <3>1
  <2>2. SameWay(page, page')
    BY <1>6 DEF SameWay
  <2>3. QED
    BY <2>1, <2>2, WayStays DEF PageInv
<1>16. QED
  BY <1>8, <1>13, <1>14, <1>15 DEF PageInv

-----------------------------------------------------------------------------
(* The page as it is when it is opened.                                     *)
LEMMA PageStarts ==
  ASSUME PageSetting, PageInit
  PROVE  PageInv(page)
<1>1. PICK v \in Visits : page = [NoVisit EXCEPT !.visit = v, !.screen = "home"]
  BY DEF PageInit
<1>2. /\ DOMAIN page = Fields /\ page.visit = v /\ page.screen = "home" /\ page.home = Day /\ page.ed = NONE
      /\ page.played = NONE /\ page.fin = NONE /\ page.res = <<>> /\ page.task = [t \in Slots |-> NoTask]
      /\ page.links = <<>> /\ page.out = {} /\ page.made = 0 /\ page.del = NONE /\ page.hash = NONE /\ page.look = NONE
      /\ page.server = [i \in Ids |-> [f |-> IF i <= Len(Posted) THEN Posted[i] ELSE NONE, pic |-> NONE, heard |-> FALSE]]
      /\ page.shortId = NONE /\ page.shared = [link |-> NoLink, pic |-> NONE] /\ page.hasty = FALSE /\ page.strayed = FALSE
  BY <1>1 DEF NoVisit, Fields
<1>3. /\ page.task \in [Slots -> Tasks] /\ \A t \in Slots : page.task[t] = NoTask
      /\ NoLink \in Links /\ NoLink.f = NONE /\ Day = [doc |-> NONE, link |-> NONE]
  BY <1>2, NothingUnderWay DEF NoLink, Links, LinkIds0, Texts, Day
<1>4. /\ page.server \in [Ids -> Served]
      /\ \A i \in Ids : page.server[i].pic = NONE /\ page.server[i].heard = FALSE
  <2>1. ASSUME NEW i \in Ids PROVE (IF i <= Len(Posted) THEN Posted[i] ELSE NONE) \in Texts
    <3>1. Len(Posted) \in Nat /\ MaxLinks \in Nat /\ Posted \in Seq(Works)
      BY DEF PageSetting
    <3>2. i \in Nat /\ i >= 1
      BY <3>1 DEF Ids
    <3>3. QED
      BY <3>1, <3>2 DEF Texts
  <2>2. QED
    BY <1>2, <2>1 DEF Served, Texts
<1>5. Typed(page)
  <2>1. page.home \in [doc : Texts \cup {Idea}, link : Shorts] /\ page.shared \in [link : Links, pic : Texts]
    BY <1>2, <1>3 DEF Texts, Shorts
  <2>2. page.res \in Seq(Cards) /\ page.links \in Seq(Kept)
    BY <1>2
  <2>3. /\ NONE \in Texts /\ NONE \in Shorts /\ NONE \in LinkIds0 /\ page.made \in 0 .. MaxLinks
    BY <1>2 DEF Texts, Shorts, LinkIds0, PageSetting
  <2>4. QED
    BY <1>2, <1>3, <1>4, <2>1, <2>2, <2>3 DEF Typed
<1>6. LinkInv(page)
  <2>1. LinksLead(page) /\ CardsLinked(page) /\ SharedRight(page)
    BY <1>2, <1>3 DEF LinksLead, CardsLinked, SharedRight
  <2>2. ServerSound(page)
    BY <1>4 DEF ServerSound, PageSetting
  <2>3. TasksSound(page, Slots)
    BY <1>3, NothingUnderWay DEF TasksSound, Slots
  <2>4. QED
    BY <2>1, <2>2, <2>3 DEF LinkInv
<1>7. OpenWork(page) /\ CameThrough(page)
  BY <1>2, <1>3 DEF OpenWork, CameThrough
<1>8. QED
  BY <1>5, <1>6, <1>7 DEF PageInv

(* Every action of the page keeps it.                                       *)
LEMMA PageGoesOn ==
  ASSUME PageSetting, PageInv(page), [PageNext]_page
  PROVE  PageInv(page')
<1>1. CASE page' = page
  BY <1>1
<1>2. ASSUME NEW d \in Works, OpenEditor(d) \/ Edit(d) \/ Quick(d) PROVE PageInv(page')
  BY <1>2, OpenEditorStep, EditStep, QuickStep
<1>3. CASE OpenStyle \/ OpenWall \/ MakePlayable \/ Back \/ PhoneBack \/ Finish
  BY <1>3, OpenStyleStep, OpenWallStep, MakePlayableStep, BackStep, PhoneBackStep, FinishStep
<1>4. CASE Finished \/ TapShare \/ ShareReady \/ TapStory \/ StoryLinked \/ StoryDrawn \/ PartMissing \/ BackToEditor
  BY <1>4, FinishedStep, TapShareStep, ShareReadyStep, TapStoryStep, StoryLinkedStep, StoryDrawnStep,
     PartMissingStep, BackToEditorStep
<1>5. ASSUME NEW t \in Slots, NEW how \in {"heard", "lost", "none"}, PostAnswer(t, how) PROVE PageInv(page')
  BY <1>5, PostAnswerStep
<1>6. ASSUME NEW t \in Slots, NEW arrives \in BOOLEAN, PictureSent(t, arrives) PROVE PageInv(page')
  BY <1>6, PictureSentStep
<1>7. ASSUME NEW i, RemoveLink(i) PROVE PageInv(page')
  BY <1>7, RemoveLinkStep
<1>8. ASSUME NEW how \in {"gone", "lost", "offline"}, RemoveAnswer(how) PROVE PageInv(page')
  BY <1>8, RemoveAnswerStep
<1>9. ASSUME NEW h \in Hashes, OpenHash(h) PROVE PageInv(page')
  BY <1>9, OpenHashStep
<1>10. ASSUME NEW found \in BOOLEAN, Resolved(found) PROVE PageInv(page')
  BY <1>10, ResolvedStep
<1>11. QED
  BY Zenon, <1>1, <1>2, <1>3, <1>4, <1>5, <1>6, <1>7, <1>8, <1>9, <1>10, RouteStep DEF PageNext

(* The invariant has the property in it.                                    *)
LEMMA PageSays ==
  ASSUME PageInv(page)
  PROVE  OneCardOneLink
<1>1. \A i \in DOMAIN page.links :
        page.server[page.links[i].id].f \in {NONE, page.links[i].f} /\ page.links[i].th \in {NONE, page.links[i].f}
  BY DEF PageInv, LinkInv, LinksLead, Leads
<1>2. /\ \A i \in Ids : page.server[i].pic \notin Photos
                        /\ (page.server[i].f # NONE => page.server[i].pic \in {NONE, page.server[i].f})
      /\ \A i \in Ids : page.server[i].heard /\ page.server[i].f # NONE
                        => i \in LinkIds(page.links) \cup page.out
  BY DEF PageInv, LinkInv, ServerSound
<1>3. page.hasty \/ page.shared.pic = page.shared.link.f
  BY DEF PageInv, LinkInv, SharedRight
<1>4. /\ page.screen = "editor" => page.ed # NONE
      /\ page.screen = "done" => page.hasty \/ Result(page).keep = Result(page).doc
  BY DEF PageInv, OpenWork
<1>5. page.strayed \/ page.home.link = NONE \/ page.server[page.home.link].f \in {NONE, page.home.doc}
  BY DEF PageInv, CameThrough
<1>6. QED
  BY <1>1, <1>2, <1>3, <1>4, <1>5 DEF OneCardOneLink

(* One card, one link: through every order of taps, answers, deletions and  *)
(* addresses a short link leads to the work its thumbnail and its chat       *)
(* picture show, carries no photo's picture, can be deleted by whoever made  *)
(* it, and what is shared shows the work its link leads to (app.js:          *)
(* shortLink(), exportStory(), route(), goHome(); shortlink.js: shorten(),   *)
(* resolve(), remove()).                                                     *)
THEOREM LinksAreHonest ==
  ASSUME PageSetting
  PROVE  PageSpec => []OneCardOneLink
<1>1. PageInit => PageInv(page)
  BY PageStarts
<1>2. PageInv(page) /\ [PageNext]_page => PageInv(page)'
  BY PageGoesOn
<1>3. PageInv(page) => OneCardOneLink
  BY PageSays
<1>4. QED
  BY <1>1, <1>2, <1>3, PTL DEF PageSpec
=============================================================================
