--------------------------- MODULE ProfileProofs ---------------------------
(***************************************************************************)
(* One profile on all devices: OneProfile of Profile for any number of     *)
(* devices, codes, entries and syncs, and for any limits.                  *)
(***************************************************************************)
EXTENDS Profile, TLAPS

(* Saved cards are no photo works, 0 is no code; what people make are entries. *)
Setting ==
  /\ Photos \cap Saved = {} /\ 0 \notin Codes /\ Entries \subseteq Nat
  /\ \A l \in Lives : l.entries \in Nat /\ 1 .. l.entries \subseteq Entries

-----------------------------------------------------------------------------
(* What the state consists of. *)

Names == Nicks \cup {0}
Profiles == [nick : Names, has : SUBSET Entries]
Bases == [set : BOOLEAN, nick : Names, has : SUBSET Entries]
Links == [code : Codes \cup {0}, serial : Nat, make : BOOLEAN, base : Bases, rev : Nat]
Jobs == [at : {"no", "get", "got", "put", "put2"}, link : Links, round : {0, 1}, got : Profiles,
         there : {"none", "there", "gone"}, rev : Nat, out : Profiles,
         answer : {"none", "ok", "stale", "gone"}]
Devs == [nick : Names, has : SUBSET Entries, link : Links, serial : Nat, job : Jobs,
         state : {"", "ok", "error", "gone", "unknown"}, waits : BOOLEAN, dirty : BOOLEAN]
Kept == [there : {"none", "there", "gone"}, rev : Nat, p : Profiles]
IsStore(p) ==
  p = [life |-> p.life, dev |-> p.dev, server |-> p.server, deleting |-> p.deleting, made |-> p.made,
       named |-> p.named, syncs |-> p.syncs, maker |-> p.maker, erased |-> p.erased,
       struck |-> p.struck, fell |-> p.fell, loose |-> p.loose, coded |-> p.coded, buried |-> p.buried]
Fields(p) ==
  /\ p.life \in Lives /\ p.dev \in [Devices -> Devs] /\ p.server \in [Codes -> Kept]
  /\ p.deleting \in [Devices -> Codes \cup {0}] /\ p.made \in Nat /\ p.named \in Nat /\ p.syncs \in Nat
  /\ p.maker \in [Entries -> Devices \cup {0}] /\ p.erased \in [Devices -> SUBSET Entries]
  /\ p.struck \in SUBSET Entries /\ p.fell \in SUBSET Entries /\ p.loose \in SUBSET Entries
  /\ p.coded \in SUBSET Codes /\ p.buried \in SUBSET Codes
Stored(p) == IsStore(p) /\ Fields(p)

(* Entries are numbered in the order they are made. *)
Made(S) == \A e \in S : e <= prof.made
DevMade(d) ==
  LET s == prof.dev[d]
  IN /\ Made(s.has) /\ Made(s.link.base.has) /\ Made(s.job.got.has) /\ Made(s.job.out.has)
     /\ Made(prof.erased[d])
AllMade ==
  /\ \A d \in Devices : DevMade(d)
  /\ \A c \in Codes : Made(prof.server[c].p.has)

Typed == Stored(prof) /\ prof.made <= prof.life.entries /\ AllMade

-----------------------------------------------------------------------------
(* Links, syncs and codes. *)

Linked(s) == s.link # NoLink
\* The sync under way is one of the link the device still has.
Current(s) == Linked(s) /\ s.job.link = s.link
Writing(s) == s.job.at \in {"put", "put2"} /\ Current(s)
HasBase(l) == l.base.set
\* A new code that has not been agreed on.
Making(l) == l.make /\ ~l.base.set

(* A link has a code, a job one too; a link without a base is waited for.    *)
LinkSound(s) ==
  /\ Linked(s) => s.link.code \in Codes
  /\ Linked(s) /\ ~s.link.base.set => s.waits
  /\ ~s.link.base.set => s.link.base = NoBase
  /\ s.link.serial <= s.serial /\ s.job.link.serial <= s.serial
  /\ s.job.at = "no" => s.job = Idle
  /\ s.job.at # "no" => s.job.link.code \in Codes

(* A new code is the code of one link.                                       *)
CodeIsOnes ==
  /\ \A d \in Devices : \A l \in {prof.dev[d].link, prof.dev[d].job.link} : l.make => l.code \in prof.coded
  /\ \A d, f \in Devices :
       \A l \in {prof.dev[d].link, prof.dev[d].job.link}, m \in {prof.dev[f].link, prof.dev[f].job.link} :
         l.make /\ m.make /\ l.code = m.code => d = f /\ l = m

(* What the server has on a code a device is at.                             *)
Unwritten(c) == prof.server[c] = [there |-> "none", rev |-> 0, p |-> NoProfile]
ServerSound(c) ==
  LET at == prof.server[c]
  IN /\ at.there = "none" => Unwritten(c)
     /\ at.there = "gone" => at.p = NoProfile
     /\ at.there # "none" => c \in prof.coded
     /\ c \in prof.buried => at.there = "gone"

\* Revision r of the server's profile is p, if it is still the revision.
IsRevision(at, r, nick, has) ==
  /\ at.there # "none" /\ r <= at.rev
  /\ r = at.rev => at.there = "there" /\ at.p.nick = nick /\ at.p.has = has

LinkKnown(s) ==
  LET l == s.link
      j == s.job
  IN /\ l.base.set => l.code \in Codes /\ IsRevision(prof.server[l.code], l.rev, l.base.nick, l.base.has)
     /\ j.link.base.set => j.link.code \in Codes /\ prof.server[j.link.code].there # "none"
     /\ Making(l) /\ ~(j.at = "put2" /\ j.link = l) => Unwritten(l.code)
     /\ Making(j.link) /\ j.at # "put2" => Unwritten(j.link.code)
JobKnown(s) ==
  LET j == s.job
  IN /\ j.at \in {"got", "put"} /\ j.there = "there" =>
          IsRevision(prof.server[j.link.code], j.rev, j.got.nick, j.got.has)
     /\ j.at \in {"got", "put"} /\ j.link.base.set => j.there # "none"
     /\ j.at \in {"got", "put"} /\ j.there # "there" => j.got = NoProfile
     /\ j.at \in {"got", "put"} /\ Making(j.link) => j.rev = 0 /\ j.there = "none"
     /\ j.at = "put" => j.there = "there" \/ Making(j.link)
     /\ j.at = "put2" => j.answer # "none" /\ (Making(j.link) => j.answer = "ok")
     /\ j.at = "put2" /\ j.answer = "ok" =>
          IsRevision(prof.server[j.link.code], j.rev + 1, j.out.nick, j.out.has)

Codes0 ==
  /\ \A d \in Devices : LinkSound(prof.dev[d])
  /\ CodeIsOnes
  /\ \A c \in Codes : ServerSound(c)
  /\ \A d \in Devices : LinkKnown(prof.dev[d]) /\ JobKnown(prof.dev[d])
  /\ \A d \in Devices : prof.deleting[d] # 0 => prof.server[prof.deleting[d]].there # "none"

-----------------------------------------------------------------------------
(* Photos stay on the device. *)
NoPhotos ==
  /\ \A d \in Devices :
       LET s == prof.dev[d]
       IN (s.link.base.has \cup s.job.got.has \cup s.job.out.has) \cap Photos = {}
  /\ \A c \in Codes : prof.server[c].p.has \cap Photos = {}

-----------------------------------------------------------------------------
(* Nothing is lost: S is still there in T, but for what was deleted or fell  *)
(* out of a limit.                                                           *)
KeptIn(S, T) == S \subseteq T \cup prof.struck \cup prof.fell
KeptAt(S, c) == prof.server[c].there # "gone" => KeptIn(S, prof.server[c].p.has)

NothingLost(s) ==
  LET l == s.link
      j == s.job
  IN /\ KeptIn(l.base.has, s.has)
     /\ Writing(s) => KeptIn(j.out.has, s.has)
     /\ l.base.set => KeptAt(l.base.has, l.code)
     /\ j.at = "got" /\ Current(s) /\ j.there = "there" => KeptIn(l.base.has, j.got.has)
     /\ j.at \in {"got", "put"} /\ j.there = "there" => KeptAt(j.got.has, j.link.code)
     /\ j.at = "put" => KeptIn(j.got.has, j.out.has)
     /\ j.at = "put2" /\ j.answer = "ok" => KeptAt(j.out.has, j.link.code)

StaysWithMaker ==
  \A e \in 1 .. prof.made :
    prof.maker[e] \in Devices /\ e \in prof.dev[prof.maker[e]].has \cup prof.struck \cup prof.fell

Lineage == (\A d \in Devices : NothingLost(prof.dev[d])) /\ StaysWithMaker

-----------------------------------------------------------------------------
(* What is deleted does not come back. *)

\* What device d has anywhere: in its store, its base, its job and its marks.
HeldIn(p, d) ==
  LET s == p.dev[d]
  IN s.has \cup s.link.base.has \cup s.job.got.has \cup s.job.out.has \cup p.erased[d]

\* Nobody but its maker ever had it.
Fresh(p, e) ==
  /\ \A c \in Codes : e \notin p.server[c].p.has
  /\ \A d \in Devices :
       LET s == p.dev[d]
       IN /\ e \notin s.job.got.has /\ e \notin s.job.out.has /\ e \notin s.link.base.has
          /\ d # p.maker[e] => e \notin s.has /\ e \notin p.erased[d]

Excepted(p) == p.loose \cup p.fell
\* What the device and the server will have agreed on.
AgreedOn(s) == IF Writing(s) THEN s.job.out.has ELSE s.link.base.has

(* An entry that is not agreed on is its maker's alone.                      *)
Unsent(p, s) == \A e \in s.has \ (AgreedOn(s) \cup Excepted(p)) : Fresh(p, e)

(* What a job brings to the server anew, nobody else has.                    *)
Foreign(p, e, d) ==
  /\ \A c \in Codes : e \notin p.server[c].p.has
  /\ \A f \in Devices \ {d} : e \notin HeldIn(p, f)
  /\ e \notin p.dev[d].link.base.has
  /\ ~Current(p.dev[d]) => e \notin p.dev[d].has /\ e \notin p.erased[d]
BringsAnew(p, d) ==
  LET j == p.dev[d].job
  IN j.at = "put" => \A e \in j.out.has \ (j.got.has \cup Excepted(p)) : Foreign(p, e, d)

(* What is agreed on and missing at the server does not come back to it.     *)
NotReadded(p, s) ==
  LET j == s.job
  IN j.at = "got" /\ Current(s) /\ j.there = "there" =>
       p.server[s.link.code].p.has \cap s.link.base.has \subseteq j.got.has \cup Excepted(p)

(* A deleted entry: what the server still has of it was agreed on.           *)
Deleted0(p, d, e) ==
  LET s == p.dev[d]
      j == s.job
      there == p.server[s.link.code].p.has
  IN /\ e \notin s.has
     /\ ~Linked(s) => Fresh(p, e)
     /\ Linked(s) /\ e \in there => e \in s.link.base.has \/ (Writing(s) /\ e \in j.out.has)
     /\ Writing(s) /\ j.at = "put2" /\ j.answer = "ok" /\ e \in there => e \in j.out.has
     /\ j.at = "got" /\ Current(s) /\ e \in j.got.has => e \in s.link.base.has
StaysDeleted(p, d) == \A e \in p.erased[d] \ Excepted(p) : Deleted0(p, d, e)

DeletionsIn(p) ==
  \A d \in Devices :
    Unsent(p, p.dev[d]) /\ BringsAnew(p, d) /\ NotReadded(p, p.dev[d]) /\ StaysDeleted(p, d)
Deletions == DeletionsIn(prof)

-----------------------------------------------------------------------------
(* What a device that has just synced shows. *)
InSync(s) ==
  /\ Linked(s) /\ s.link.base.set /\ s.job.at = "no" /\ s.state = "ok" /\ ~s.dirty =>
       Pack(s).nick = s.link.base.nick /\ Pack(s).has = s.link.base.has
  /\ Writing(s) /\ ~s.dirty => s.job.out = Pack(s)
Agreement == \A d \in Devices : InSync(prof.dev[d])

IInv == Typed /\ Codes0 /\ NoPhotos /\ Lineage /\ Deletions /\ Agreement

-----------------------------------------------------------------------------
(* What the steps do, field by field. *)

States == {"", "ok", "error", "gone", "unknown"}

\* From p to q, only what device d has, its marks and the history change.
SameWorld(p, q) ==
  /\ q.life = p.life /\ q.server = p.server /\ q.deleting = p.deleting /\ q.maker = p.maker
  /\ q.made = p.made /\ q.coded = p.coded /\ q.buried = p.buried /\ q.struck = p.struck
Aside(p, q, d) ==
  \A f \in Devices \ {d} : q.dev[f] = p.dev[f] /\ q.erased[f] = p.erased[f]
SameStore(s, t) == t.has = s.has /\ t.nick = s.nick /\ t.serial = s.serial /\ t.dirty = s.dirty
SameSession(s, t) ==
  t.link = s.link /\ t.serial = s.serial /\ t.job = s.job /\ t.waits = s.waits /\ t.state = s.state

\* d is without a link in q.
GoesOff(p, q, d) ==
  /\ q.dev[d].link = NoLink /\ q.dev[d].state = ""
  /\ q.loose = p.loose \cup p.dev[d].has /\ q.erased[d] = {}
StaysOn(p, q, d, state) ==
  /\ q.dev[d].link = p.dev[d].link /\ q.dev[d].state = state
  /\ q.loose = p.loose /\ q.erased[d] = p.erased[d]

LEMMA Nothing ==
  /\ NoProfile \in Profiles /\ NoBase \in Bases /\ NoLink \in Links /\ Idle \in Jobs
  /\ Idle.at = "no" /\ Idle.link = NoLink /\ Idle.got = NoProfile /\ Idle.out = NoProfile
  /\ NoProfile.has = {} /\ NoLink.base = NoBase /\ NoBase.has = {} /\ ~NoBase.set
  /\ NoLink.code = 0 /\ NoLink.serial = 0 /\ ~NoLink.make
  BY DEF NoProfile, NoBase, NoLink, Idle, Profiles, Bases, Links, Jobs, Names

LEMMA UnlinkedIs ==
  ASSUME NEW p, Stored(p), NEW d \in Devices, NEW q, q = Unlinked(p, d)
  PROVE  /\ Stored(q) /\ SameWorld(p, q) /\ q.fell = p.fell /\ Aside(p, q, d)
         /\ GoesOff(p, q, d) /\ SameStore(p.dev[d], q.dev[d])
         /\ q.dev[d].job = p.dev[d].job /\ q.dev[d].waits = p.dev[d].waits
<1> DEFINE t == [p.dev[d] EXCEPT !.link = NoLink, !.state = ""]
<1>1. p.dev[d] \in Devs
  BY DEF Stored, Fields
<1>2. /\ t \in Devs /\ SameStore(p.dev[d], t) /\ t.link = NoLink /\ t.state = ""
      /\ t.job = p.dev[d].job /\ t.waits = p.dev[d].waits
  BY <1>1, Nothing, Zenon DEF Devs, SameStore
<1>3. p.dev[d].has \in SUBSET Entries
  BY <1>1, Zenon DEF Devs
<1>4. /\ IsStore(q) /\ SameWorld(p, q) /\ q.fell = p.fell /\ q.dev = [p.dev EXCEPT ![d] = t]
      /\ q.loose = p.loose \cup p.dev[d].has /\ q.erased = [p.erased EXCEPT ![d] = {}]
      /\ q.named = p.named /\ q.syncs = p.syncs
  BY DEF Unlinked, Stored, IsStore, SameWorld
<1> HIDE DEF t
<1>5. Fields(q)
  <2>1. q.dev \in [Devices -> Devs]
    BY <1>2, <1>4, Zenon DEF Stored, Fields
  <2>2. q.erased \in [Devices -> SUBSET Entries]
    BY <1>4 DEF Stored, Fields
  <2>3. q.loose \in SUBSET Entries
    BY <1>3, <1>4 DEF Stored, Fields
  <2>4. QED
    BY <2>1, <2>2, <2>3, <1>4 DEF Stored, Fields, SameWorld
<1>6. Aside(p, q, d) /\ q.dev[d] = t /\ q.erased[d] = {}
  BY <1>4 DEF Stored, Fields, Aside
<1>7. QED
  BY <1>2, <1>4, <1>5, <1>6, Zenon DEF Stored, GoesOff

LEMMA EndedIs ==
  ASSUME NEW p, Stored(p), NEW d \in Devices, NEW state \in States, NEW q, q = Ended(p, d, state)
  PROVE  /\ Stored(q) /\ SameWorld(p, q) /\ q.fell = p.fell /\ Aside(p, q, d)
         /\ SameStore(p.dev[d], q.dev[d]) /\ q.dev[d].job = Idle /\ ~q.dev[d].waits
         /\ IF p.dev[d].waits /\ state # "ok" THEN GoesOff(p, q, d) ELSE StaysOn(p, q, d, state)
<1> DEFINE t == [p.dev[d] EXCEPT !.job = Idle, !.state = state, !.waits = FALSE]
           e == [p EXCEPT !.dev[d] = [@ EXCEPT !.job = Idle, !.state = state, !.waits = FALSE]]
<1>1. p.dev[d] \in Devs
  BY DEF Stored, Fields
<1>2. /\ t \in Devs /\ SameStore(p.dev[d], t) /\ t.job = Idle /\ t.state = state /\ ~t.waits
      /\ t.link = p.dev[d].link
  BY <1>1, Nothing, Zenon DEF Devs, SameStore, States
<1>3. /\ IsStore(e) /\ SameWorld(p, e) /\ e.fell = p.fell /\ e.dev = [p.dev EXCEPT ![d] = t]
      /\ e.loose = p.loose /\ e.erased = p.erased /\ e.named = p.named /\ e.syncs = p.syncs
  BY DEF Stored, IsStore, SameWorld
<1>4. q = IF p.dev[d].waits /\ state # "ok" THEN Unlinked(e, d) ELSE e
  BY DEF Ended
<1> HIDE DEF t, e
<1>5. Stored(e)
  BY <1>2, <1>3 DEF Stored, Fields, SameWorld
<1>6. Aside(p, e, d) /\ e.dev[d] = t /\ StaysOn(p, e, d, state)
  BY <1>2, <1>3 DEF Stored, Fields, Aside, StaysOn
<1>7. CASE p.dev[d].waits /\ state # "ok"
  <2>1. q = Unlinked(e, d)
    BY <1>4, <1>7
  <2>2. /\ Stored(q) /\ SameWorld(e, q) /\ q.fell = e.fell /\ Aside(e, q, d)
        /\ GoesOff(e, q, d) /\ SameStore(e.dev[d], q.dev[d])
        /\ q.dev[d].job = e.dev[d].job /\ q.dev[d].waits = e.dev[d].waits
    BY <1>5, <2>1, UnlinkedIs
  <2>3. /\ SameWorld(p, q) /\ q.fell = p.fell /\ Aside(p, q, d)
    BY <1>3, <1>6, <2>2 DEF SameWorld, Aside
  <2>4. /\ SameStore(p.dev[d], q.dev[d]) /\ q.dev[d].job = Idle /\ ~q.dev[d].waits /\ GoesOff(p, q, d)
    BY <1>2, <1>3, <1>6, <2>2, Zenon DEF SameStore, GoesOff
  <2>5. QED
    BY <1>7, <2>2, <2>3, <2>4
<1>8. CASE ~(p.dev[d].waits /\ state # "ok")
  BY <1>2, <1>3, <1>4, <1>5, <1>6, <1>8 DEF Stored
<1>9. QED
  BY <1>7, <1>8

\* d agrees with the server on profile out at revision rev.
AgreedIs0(p, q, d, out, rev) ==
  LET l == p.dev[d].link
      m == q.dev[d].link
  IN /\ m.code = l.code /\ m.serial = l.serial /\ m.make = l.make /\ m.rev = rev
     /\ m.base.set /\ m.base.nick = out.nick /\ m.base.has = out.has
     /\ q.dev[d].job = Idle /\ ~q.dev[d].waits /\ q.dev[d].state = "ok"
     /\ q.loose = p.loose /\ q.erased[d] = p.erased[d]

LEMMA AgreedIs ==
  ASSUME NEW p, Stored(p), NEW d \in Devices, NEW out \in Profiles, NEW rev \in Nat,
         NEW q, q = Agreed(p, d, out, rev)
  PROVE  /\ Stored(q) /\ SameWorld(p, q) /\ q.fell = p.fell /\ Aside(p, q, d)
         /\ SameStore(p.dev[d], q.dev[d]) /\ AgreedIs0(p, q, d, out, rev)
<1> DEFINE l == [p.dev[d].link EXCEPT !.rev = rev, !.base = Snapshot(out)]
           t == [p.dev[d] EXCEPT !.link = l]
           e == [p EXCEPT !.dev[d] = [@ EXCEPT !.link = l]]
<1>1. p.dev[d] \in Devs /\ p.dev[d].link \in Links
  BY Zenon DEF Stored, Fields, Devs
<1>2. /\ Snapshot(out) \in Bases /\ Snapshot(out).set /\ Snapshot(out).nick = out.nick
      /\ Snapshot(out).has = out.has
  BY DEF Snapshot, Bases, Profiles
<1>3. /\ l \in Links /\ l.code = p.dev[d].link.code /\ l.serial = p.dev[d].link.serial
      /\ l.make = p.dev[d].link.make /\ l.rev = rev /\ l.base = Snapshot(out)
  BY <1>1, <1>2 DEF Links
<1>4. e = [p EXCEPT !.dev[d] = t]
  OBVIOUS
<1>5. q = Ended(e, d, "ok") /\ "ok" \in States
  BY DEF Agreed, States
<1> HIDE DEF l, e
<1>6. t \in Devs /\ SameStore(p.dev[d], t) /\ t.link = l
  BY <1>1, <1>3, Zenon DEF Devs, SameStore
<1> HIDE DEF t
<1>13. /\ IsStore(e) /\ SameWorld(p, e) /\ e.fell = p.fell /\ e.dev = [p.dev EXCEPT ![d] = t]
      /\ e.loose = p.loose /\ e.erased = p.erased /\ e.named = p.named /\ e.syncs = p.syncs
  BY <1>4 DEF Stored, IsStore, SameWorld
<1>7. Stored(e)
  BY <1>13, <1>6 DEF Stored, Fields, SameWorld
<1>8. Aside(p, e, d) /\ e.dev[d] = t
  BY <1>13 DEF Stored, Fields, Aside
<1>9. /\ Stored(q) /\ SameWorld(e, q) /\ q.fell = e.fell /\ Aside(e, q, d)
      /\ SameStore(e.dev[d], q.dev[d]) /\ q.dev[d].job = Idle /\ ~q.dev[d].waits
      /\ StaysOn(e, q, d, "ok")
  BY <1>5, <1>7, EndedIs
<1>10. /\ SameWorld(p, q) /\ q.fell = p.fell /\ Aside(p, q, d) /\ SameStore(p.dev[d], q.dev[d])
  BY <1>13, <1>6, <1>8, <1>9 DEF SameWorld, Aside, SameStore
<1>11. AgreedIs0(p, q, d, out, rev)
  BY <1>2, <1>3, <1>13, <1>6, <1>8, <1>9 DEF AgreedIs0, StaysOn
<1>12. QED
  BY <1>9, <1>10, <1>11

LEMMA UnsettledIs ==
  ASSUME NEW p, Stored(p), NEW d \in Devices, NEW q, q = Unsettled(p, d)
  PROVE  /\ Stored(q) /\ SameWorld(p, q) /\ q.fell = p.fell /\ q.dev = p.dev /\ q.erased = p.erased
         /\ LET s == p.dev[d]
            IN q.loose = p.loose \cup ((s.has \cup s.job.got.has \cup s.job.out.has) \ s.link.base.has)
<1> DEFINE S == (p.dev[d].has \cup p.dev[d].job.got.has \cup p.dev[d].job.out.has) \ p.dev[d].link.base.has
<1>1. p.dev[d] \in Devs
  BY DEF Stored, Fields
<1>2. S \in SUBSET Entries
  BY <1>1, Zenon DEF Devs, Jobs, Profiles
<1>3. /\ IsStore(q) /\ SameWorld(p, q) /\ q.fell = p.fell /\ q.dev = p.dev /\ q.erased = p.erased
      /\ q.loose = p.loose \cup S /\ q.named = p.named /\ q.syncs = p.syncs
  BY DEF Unsettled, Stored, IsStore, SameWorld
<1> HIDE DEF S
<1>4. Fields(q)
  BY <1>2, <1>3 DEF Stored, Fields, SameWorld
<1> USE DEF S
<1>5. QED
  BY <1>3, <1>4 DEF Stored
-----------------------------------------------------------------------------
(* The steps of a device. *)

\* The sync is over without an agreement, perhaps with the link.
Quits(d) ==
  LET s == prof.dev[d]
      t == prof'.dev[d]
  IN /\ Stored(prof') /\ SameWorld(prof, prof') /\ prof'.fell = prof.fell /\ Aside(prof, prof', d)
     /\ SameStore(s, t) /\ t.job = Idle /\ ~t.waits /\ prof.loose \subseteq prof'.loose
     /\ \/ t.link = NoLink /\ prof'.erased[d] = {} /\ s.has \subseteq prof'.loose
        \/ /\ t.link = s.link /\ prof'.erased[d] = prof.erased[d] /\ ~s.waits /\ t.state # "ok"
           /\ Writing(s) => (s.has \cup s.job.got.has \cup s.job.out.has) \ s.link.base.has \subseteq prof'.loose

LEMMA EndedQuits ==
  ASSUME Stored(prof), NEW d \in Devices, NEW state \in States, state # "ok",
         prof' = Ended(prof, d, state), ~Writing(prof.dev[d])
  PROVE  Quits(d)
<1>1. /\ Stored(prof') /\ SameWorld(prof, prof') /\ prof'.fell = prof.fell /\ Aside(prof, prof', d)
      /\ SameStore(prof.dev[d], prof'.dev[d]) /\ prof'.dev[d].job = Idle /\ ~prof'.dev[d].waits
      /\ IF prof.dev[d].waits /\ state # "ok" THEN GoesOff(prof, prof', d) ELSE StaysOn(prof, prof', d, state)
  BY EndedIs
<1>2. QED
  BY <1>1, Zenon DEF Quits, GoesOff, StaysOn

LEMMA OffQuits ==
  ASSUME Stored(prof), NEW d \in Devices, NEW state \in States, state # "ok",
         prof' = Ended(Unlinked(prof, d), d, state)
  PROVE  Quits(d)
<1> DEFINE p == Unlinked(prof, d)
<1>1. /\ Stored(p) /\ SameWorld(prof, p) /\ p.fell = prof.fell /\ Aside(prof, p, d)
      /\ GoesOff(prof, p, d) /\ SameStore(prof.dev[d], p.dev[d])
  BY UnlinkedIs
<1> HIDE DEF p
<1>2. prof' = Ended(p, d, state)
  BY DEF p
<1>3. /\ Stored(prof') /\ SameWorld(p, prof') /\ prof'.fell = p.fell /\ Aside(p, prof', d)
      /\ SameStore(p.dev[d], prof'.dev[d]) /\ prof'.dev[d].job = Idle /\ ~prof'.dev[d].waits
      /\ IF p.dev[d].waits /\ state # "ok" THEN GoesOff(p, prof', d) ELSE StaysOn(p, prof', d, state)
  BY <1>1, <1>2, EndedIs
<1>4. SameWorld(prof, prof') /\ Aside(prof, prof', d) /\ SameStore(prof.dev[d], prof'.dev[d])
  BY <1>1, <1>3 DEF SameWorld, Aside, SameStore
<1>5. /\ prof.loose \subseteq prof'.loose /\ prof'.dev[d].link = NoLink /\ prof'.erased[d] = {}
      /\ prof.dev[d].has \subseteq prof'.loose
  BY <1>1, <1>3, Zenon DEF GoesOff, StaysOn
<1>6. QED
  BY <1>1, <1>3, <1>4, <1>5 DEF Quits

LEMMA FailedQuits ==
  ASSUME Stored(prof), NEW d \in Devices, NEW state \in States, state # "ok",
         prof' = Failed(prof, d, state)
  PROVE  Quits(d)
<1> DEFINE p == Unsettled(prof, d)
<1>1. /\ Stored(p) /\ SameWorld(prof, p) /\ p.fell = prof.fell /\ p.dev = prof.dev /\ p.erased = prof.erased
      /\ LET s == prof.dev[d]
         IN p.loose = prof.loose \cup ((s.has \cup s.job.got.has \cup s.job.out.has) \ s.link.base.has)
  BY UnsettledIs
<1>2. prof' = Ended(p, d, state)
  BY DEF Failed
<1> HIDE DEF p
<1>3. /\ Stored(prof') /\ SameWorld(p, prof') /\ prof'.fell = p.fell /\ Aside(p, prof', d)
      /\ SameStore(p.dev[d], prof'.dev[d]) /\ prof'.dev[d].job = Idle /\ ~prof'.dev[d].waits
      /\ IF p.dev[d].waits /\ state # "ok" THEN GoesOff(p, prof', d) ELSE StaysOn(p, prof', d, state)
  BY <1>1, <1>2, EndedIs
<1>4. SameWorld(prof, prof') /\ Aside(prof, prof', d) /\ SameStore(prof.dev[d], prof'.dev[d])
  BY <1>1, <1>3 DEF SameWorld, Aside
<1>5. QED
  BY <1>1, <1>3, <1>4, Zenon DEF Quits, GoesOff, StaysOn

(* pack() and merge(): what they keep of the lists they are given. *)
LEMMA PackIs ==
  ASSUME Setting, NEW s \in Devs
  PROVE  /\ Pack(s) \in Profiles /\ Pack(s).nick = s.nick /\ Pack(s).has \subseteq s.has
         /\ Pack(s).has \cap Photos = {}
         /\ s.has \subseteq Pack(s).has \cup Photos \cup ((s.has \cap Walls) \ Pack(s).has)
  BY Zenon DEF Pack, Profiles, Devs, Newest, Walls, Setting

LEMMA MergeIs ==
  ASSUME NEW s \in Devs, NEW remote \in Profiles, NEW base \in Bases, NEW t, t = Merge(s, remote, base)
  PROVE  /\ t \in Devs /\ t.link = s.link /\ t.job = s.job /\ t.serial = s.serial /\ t.state = s.state
         /\ t.waits = s.waits /\ t.has \subseteq Merge3(s.has, remote.has, base.has)
<1> DEFINE n == IF (~base.set \/ base.nick = s.nick) /\ remote.nick # 0 THEN remote.nick ELSE s.nick
           h == Cut(Merge3(s.has, remote.has, base.has))
<1>1. n \in Names
  BY Zenon DEF Profiles, Devs
<1>2. h \subseteq Merge3(s.has, remote.has, base.has)
  BY DEF Cut, Newest
<1>3. h \in SUBSET Entries
  BY <1>2, Zenon DEF Merge3, Profiles, Devs
<1>4. t = [s EXCEPT !.nick = n, !.has = h]
  BY DEF Merge
<1> HIDE DEF n, h
<1>5. QED
  BY <1>1, <1>2, <1>3, <1>4, Zenon DEF Devs

LEMMA CutIs == ASSUME NEW S PROVE Cut(S) \subseteq S
  BY DEF Cut, Newest

-----------------------------------------------------------------------------
(* The steps of a device, field by field. *)

\* From p to q, the server and what is known of codes stay.
SameServer(p, q) ==
  q.server = p.server /\ q.deleting = p.deleting /\ q.coded = p.coded /\ q.buried = p.buried

Adds(d) ==
  LET s == prof.dev[d]
      t == prof'.dev[d]
      e == prof.made + 1
  IN /\ SameServer(prof, prof') /\ Aside(prof, prof', d) /\ prof'.erased = prof.erased
     /\ prof'.life = prof.life /\ prof'.struck = prof.struck /\ prof'.loose = prof.loose
     /\ prof'.made = e /\ e <= prof.life.entries /\ e \in Entries /\ prof'.maker = [prof.maker EXCEPT ![e] = d]
     /\ prof.fell \subseteq prof'.fell /\ SameSession(s, t) /\ t.nick = s.nick /\ t.dirty
     /\ t.has \subseteq s.has \cup {e} /\ s.has \cup {e} \subseteq t.has \cup prof'.fell

LEMMA AddIs ==
  ASSUME Setting, Typed, NEW d \in Devices, Add(d)
  PROVE  Stored(prof') /\ Adds(d)
<1> DEFINE e == prof.made + 1
           all == prof.dev[d].has \cup {e}
           t == [[prof.dev[d] EXCEPT !.has = Cut(all)] EXCEPT !.dirty = TRUE]
<1>1. /\ prof.dev[d] \in Devs /\ prof.dev \in [Devices -> Devs] /\ prof.made \in Nat /\ prof.life \in Lives
      /\ prof.maker \in [Entries -> Devices \cup {0}] /\ prof.fell \in SUBSET Entries
  BY DEF Typed, Stored, Fields
<1>2. e \in Entries /\ e <= prof.life.entries /\ e \in Nat
  BY <1>1 DEF Add, Setting
<1>3. all \in SUBSET Entries /\ Cut(all) \subseteq all
  BY <1>1, <1>2, CutIs, Zenon DEF Devs
<1>4. /\ t \in Devs /\ SameSession(prof.dev[d], t) /\ t.nick = prof.dev[d].nick /\ t.dirty /\ t.has = Cut(all)
  BY <1>1, <1>3, Zenon DEF Devs, SameSession
<1>5. prof' = [prof EXCEPT !.dev[d] = t, !.made = e, !.maker[e] = d, !.fell = @ \cup (all \ Cut(all))]
  BY DEF Add, Store, Typed, Stored, IsStore
<1> HIDE DEF e, all, t
<1>6. /\ IsStore(prof') /\ SameServer(prof, prof') /\ prof'.erased = prof.erased
      /\ prof'.life = prof.life /\ prof'.struck = prof.struck /\ prof'.loose = prof.loose
      /\ prof'.made = e /\ prof'.maker = [prof.maker EXCEPT ![e] = d]
      /\ prof'.fell = prof.fell \cup (all \ Cut(all)) /\ prof'.dev = [prof.dev EXCEPT ![d] = t]
      /\ prof'.named = prof.named /\ prof'.syncs = prof.syncs
  BY <1>5 DEF Typed, Stored, IsStore, SameServer
<1>7. Fields(prof')
  <2>1. prof'.dev \in [Devices -> Devs]
    BY <1>1, <1>4, <1>6
  <2>2. prof'.maker \in [Entries -> Devices \cup {0}]
    BY <1>1, <1>2, <1>6
  <2>3. prof'.fell \in SUBSET Entries
    BY <1>1, <1>3, <1>6
  <2>4. QED
    BY <2>1, <2>2, <2>3, <1>2, <1>6 DEF Typed, Stored, Fields, SameServer
<1>8. prof'.dev[d] = t /\ Aside(prof, prof', d)
  BY <1>1, <1>6 DEF Aside
<1>9. t.has \subseteq prof.dev[d].has \cup {e} /\ prof.dev[d].has \cup {e} \subseteq t.has \cup prof'.fell
  BY <1>3, <1>4, <1>6 DEF all
<1> USE DEF e
<1>10. QED
  BY <1>2, <1>4, <1>6, <1>7, <1>8, <1>9 DEF Adds, Stored

\* d deletes e.
Erases(d, e) ==
  LET s == prof.dev[d]
      t == prof'.dev[d]
  IN /\ SameServer(prof, prof') /\ Aside(prof, prof', d)
     /\ prof'.life = prof.life /\ prof'.made = prof.made /\ prof'.maker = prof.maker
     /\ prof'.struck = prof.struck \cup {e} /\ prof'.loose = prof.loose /\ prof'.fell = prof.fell
     /\ e \in s.has /\ t.has = s.has \ {e} /\ SameSession(s, t) /\ t.nick = s.nick /\ t.dirty
     /\ prof'.erased[d] = prof.erased[d] \cup {e}

LEMMA EraseIs ==
  ASSUME Typed, NEW d \in Devices, NEW e \in Entries, Erase(d, e)
  PROVE  Stored(prof') /\ Erases(d, e)
<1> DEFINE t == [[prof.dev[d] EXCEPT !.has = @ \ {e}] EXCEPT !.dirty = TRUE]
<1>1. /\ prof.dev[d] \in Devs /\ prof.dev \in [Devices -> Devs] /\ prof.struck \in SUBSET Entries
      /\ prof.erased \in [Devices -> SUBSET Entries]
  BY DEF Typed, Stored, Fields
<1>2. /\ t \in Devs /\ SameSession(prof.dev[d], t) /\ t.nick = prof.dev[d].nick /\ t.dirty
      /\ t.has = prof.dev[d].has \ {e}
  BY <1>1, Zenon DEF Devs, SameSession
<1>3. prof' = [prof EXCEPT !.dev[d] = t, !.erased[d] = @ \cup {e}, !.struck = @ \cup {e}] /\ e \in prof.dev[d].has
  BY DEF Erase, Store, Typed, Stored, IsStore
<1> HIDE DEF t
<1>4. /\ IsStore(prof') /\ SameServer(prof, prof') /\ prof'.erased = [prof.erased EXCEPT ![d] = @ \cup {e}]
      /\ prof'.life = prof.life /\ prof'.struck = prof.struck \cup {e} /\ prof'.loose = prof.loose
      /\ prof'.made = prof.made /\ prof'.maker = prof.maker
      /\ prof'.fell = prof.fell /\ prof'.dev = [prof.dev EXCEPT ![d] = t]
      /\ prof'.named = prof.named /\ prof'.syncs = prof.syncs
  BY <1>3 DEF Typed, Stored, IsStore, SameServer
<1>5. Fields(prof')
  <2>1. prof'.dev \in [Devices -> Devs]
    BY <1>1, <1>2, <1>4
  <2>2. prof'.erased \in [Devices -> SUBSET Entries]
    BY <1>1, <1>4
  <2>3. QED
    BY <1>1, <2>1, <2>2, <1>4 DEF Typed, Stored, Fields, SameServer
<1>6. prof'.dev[d] = t /\ Aside(prof, prof', d) /\ prof'.erased[d] = prof.erased[d] \cup {e}
  BY <1>1, <1>4 DEF Aside
<1>7. QED
  BY <1>2, <1>3, <1>4, <1>5, <1>6 DEF Erases, Stored

\* Only the session of d changes.
Session(d) ==
  /\ SameWorld(prof, prof') /\ Aside(prof, prof', d) /\ prof'.erased = prof.erased
  /\ prof'.fell = prof.fell /\ prof'.loose = prof.loose /\ prof'.dev[d].has = prof.dev[d].has
  /\ prof'.dev[d].nick = prof.dev[d].nick /\ prof'.dev[d].dirty = prof.dev[d].dirty

LEMMA RenameIs ==
  ASSUME Typed, NEW d \in Devices, NEW n \in Nicks, Rename(d, n)
  PROVE  /\ Stored(prof') /\ SameWorld(prof, prof') /\ Aside(prof, prof', d) /\ prof'.erased = prof.erased
         /\ prof'.fell = prof.fell /\ prof'.loose = prof.loose /\ prof'.dev[d].has = prof.dev[d].has
         /\ prof'.dev[d].dirty /\ SameSession(prof.dev[d], prof'.dev[d])
<1> DEFINE t == [[prof.dev[d] EXCEPT !.nick = n] EXCEPT !.dirty = TRUE]
<1>1. prof.dev[d] \in Devs /\ prof.dev \in [Devices -> Devs] /\ prof.named \in Nat
  BY DEF Typed, Stored, Fields
<1>2. t \in Devs /\ SameSession(prof.dev[d], t) /\ t.dirty /\ t.has = prof.dev[d].has
  BY <1>1, Zenon DEF Devs, SameSession, Names
<1>3. prof' = [prof EXCEPT !.dev[d] = t, !.named = @ + 1]
  BY DEF Rename, Store, Typed, Stored, IsStore
<1> HIDE DEF t
<1>4. /\ IsStore(prof') /\ SameWorld(prof, prof') /\ prof'.erased = prof.erased
      /\ prof'.fell = prof.fell /\ prof'.loose = prof.loose /\ prof'.dev = [prof.dev EXCEPT ![d] = t]
      /\ prof'.named = prof.named + 1 /\ prof'.syncs = prof.syncs
  BY <1>3 DEF Typed, Stored, IsStore, SameWorld
<1>5. Fields(prof')
  <2>1. prof'.dev \in [Devices -> Devs]
    BY <1>1, <1>2, <1>4
  <2>2. QED
    BY <1>1, <2>1, <1>4 DEF Typed, Stored, Fields, SameWorld
<1>6. prof'.dev[d] = t /\ Aside(prof, prof', d)
  BY <1>1, <1>4 DEF Aside
<1>7. QED
  BY <1>2, <1>4, <1>5, <1>6 DEF Stored

\* The job of t asks the server about the link t has.
Asks(t) ==
  /\ t.job.at = "get" /\ t.job.link = t.link /\ t.job.got = NoProfile /\ t.job.out = NoProfile

Syncs(d) ==
  LET s == prof.dev[d]
      t == prof'.dev[d]
  IN /\ Session(d) /\ t.link = s.link /\ t.serial = s.serial /\ t.waits = s.waits /\ t.state = s.state
     /\ Linked(s) /\ s.job = Idle /\ Asks(t)

LEMMA AskingIs ==
  ASSUME NEW s \in Devs, NEW t, t = Asking(s)
  PROVE  /\ t \in Devs /\ Asks(t) /\ t.link = s.link /\ t.serial = s.serial /\ t.waits = s.waits
         /\ t.state = s.state /\ t.has = s.has /\ t.nick = s.nick /\ t.dirty = s.dirty
<1> DEFINE j == [Idle EXCEPT !.at = "get", !.link = s.link]
<1>1. j \in Jobs /\ j.at = "get" /\ j.link = s.link /\ j.got = NoProfile /\ j.out = NoProfile
  BY Nothing, Zenon DEF Devs, Jobs, Idle
<1>2. t = [s EXCEPT !.job = j]
  BY DEF Asking
<1> HIDE DEF j
<1>3. QED
  BY <1>1, <1>2, Zenon DEF Devs, Asks

\* A step that only sets dev[d] and counts syncs, codes or jobs.
LEMMA SessionIs ==
  ASSUME Stored(prof), Stored(prof'), NEW d \in Devices, NEW t \in Devs,
         prof'.dev = [prof.dev EXCEPT ![d] = t], prof'.erased = prof.erased
  PROVE  prof'.dev[d] = t /\ Aside(prof, prof', d)
  BY DEF Stored, Fields, Aside

LEMMA SyncIs ==
  ASSUME Typed, NEW d \in Devices, Sync(d)
  PROVE  Stored(prof') /\ Syncs(d)
<1> DEFINE t == Asking(prof.dev[d])
<1>1. prof.dev[d] \in Devs /\ prof.dev \in [Devices -> Devs] /\ prof.syncs \in Nat /\ Stored(prof)
  BY DEF Typed, Stored, Fields
<1>2. /\ t \in Devs /\ Asks(t) /\ t.link = prof.dev[d].link /\ t.serial = prof.dev[d].serial
      /\ t.waits = prof.dev[d].waits /\ t.state = prof.dev[d].state /\ t.has = prof.dev[d].has
      /\ t.nick = prof.dev[d].nick /\ t.dirty = prof.dev[d].dirty
  BY <1>1, AskingIs
<1>3. prof' = [prof EXCEPT !.dev[d] = t, !.syncs = @ + 1] /\ Linked(prof.dev[d]) /\ prof.dev[d].job = Idle
  BY DEF Sync, Linked
<1> HIDE DEF t
<1>4. /\ IsStore(prof') /\ SameWorld(prof, prof') /\ prof'.erased = prof.erased
      /\ prof'.fell = prof.fell /\ prof'.loose = prof.loose /\ prof'.dev = [prof.dev EXCEPT ![d] = t]
      /\ prof'.named = prof.named /\ prof'.syncs = prof.syncs + 1
  BY <1>3 DEF Typed, Stored, IsStore, SameWorld
<1>5. Stored(prof')
  <2>1. prof'.dev \in [Devices -> Devs]
    BY <1>1, <1>2, <1>4
  <2>2. QED
    BY <1>1, <2>1, <1>4 DEF Stored, Fields, SameWorld
<1>6. prof'.dev[d] = t /\ Aside(prof, prof', d)
  BY <1>1, <1>2, <1>4, <1>5, SessionIs
<1>7. QED
  BY <1>2, <1>3, <1>4, <1>5, <1>6 DEF Syncs, Session

StartsCode(d, c, make) ==
  LET s == prof.dev[d]
      t == prof'.dev[d]
  IN /\ prof'.life = prof.life /\ prof'.server = prof.server /\ prof'.deleting = prof.deleting
     /\ prof'.maker = prof.maker /\ prof'.made = prof.made /\ prof'.buried = prof.buried
     /\ prof'.struck = prof.struck /\ prof'.fell = prof.fell /\ prof'.loose = prof.loose
     /\ prof'.erased = prof.erased /\ Aside(prof, prof', d)
     /\ prof'.coded = (IF make THEN prof.coded \cup {c} ELSE prof.coded)
     /\ t.has = s.has /\ t.nick = s.nick /\ t.dirty = s.dirty /\ t.state = s.state
     /\ ~Linked(s) /\ (make => c \notin prof.coded)
     /\ t.serial = s.serial + 1 /\ t.waits /\ t.link.code = c /\ t.link.serial = s.serial + 1
     /\ t.link.make = make /\ t.link.base = NoBase /\ t.link.rev = 0
     /\ IF s.job = Idle THEN Asks(t) ELSE t.job = s.job

LEMMA NewLinkIs ==
  ASSUME NEW c \in Codes, NEW n \in Nat, NEW make \in BOOLEAN, NoBase \in Bases,
         NEW l, l = [code |-> c, serial |-> n, make |-> make, base |-> NoBase, rev |-> 0]
  PROVE  l \in Links /\ l.code = c /\ l.serial = n /\ l.make = make /\ l.base = NoBase /\ l.rev = 0
<1>1. l \in Links
  BY DEF Links
<1>2. l.code = c /\ l.serial = n /\ l.make = make /\ l.base = NoBase /\ l.rev = 0
  OBVIOUS
<1>3. QED
  BY <1>1, <1>2

LEMMA StartCodeIs ==
  ASSUME Typed, NEW d \in Devices, NEW c \in Codes, NEW make \in BOOLEAN, StartCode(d, c, make)
  PROVE  Stored(prof') /\ StartsCode(d, c, make)
<1> DEFINE s == prof.dev[d]
           n == prof.dev[d].serial + 1
           l == [code |-> c, serial |-> n, make |-> make, base |-> NoBase, rev |-> 0]
           u == [prof.dev[d] EXCEPT !.serial = n, !.waits = TRUE, !.link = l]
           t == IF u.job = Idle THEN Asking(u) ELSE u
           co == IF make THEN prof.coded \cup {c} ELSE prof.coded
<1>0. /\ s \in Devs /\ prof.dev \in [Devices -> Devs] /\ prof.syncs \in Nat /\ Stored(prof)
      /\ prof.coded \in SUBSET Codes
  BY DEF Typed, Stored, Fields
<1>13. s.serial \in Nat
  BY <1>0, Zenon DEF Devs
<1>1. /\ s \in Devs /\ prof.dev \in [Devices -> Devs] /\ prof.syncs \in Nat /\ Stored(prof)
      /\ s.serial \in Nat /\ n \in Nat /\ n = s.serial + 1 /\ prof.coded \in SUBSET Codes
  BY <1>0, <1>13
<1>2. l \in Links /\ l.code = c /\ l.serial = n /\ l.make = make /\ l.base = NoBase /\ l.rev = 0
  <2>1. NoBase \in Bases
    BY Nothing
  <2>2. QED
    BY <1>1, <2>1, NewLinkIs
<1>3. prof' = [prof EXCEPT !.dev[d] = t, !.syncs = @ + 1, !.coded = co]
  BY DEF StartCode
<1>4. s.link = NoLink /\ (make => c \notin prof.coded)
  BY DEF StartCode
<1> HIDE DEF l
<1>5. /\ u \in Devs /\ u.serial = n /\ u.waits /\ u.link = l /\ u.job = s.job
      /\ u.has = s.has /\ u.nick = s.nick /\ u.dirty = s.dirty /\ u.state = s.state
  <2> HIDE DEF n
  <2>1. u \in Devs
    BY <1>1, <1>2, Zenon DEF Devs
  <2>2. QED
    BY <1>1, <2>1, Zenon DEF Devs
<1> HIDE DEF u
<1>6. /\ t \in Devs /\ t.serial = n /\ t.waits /\ t.link = l
      /\ t.has = s.has /\ t.nick = s.nick /\ t.dirty = s.dirty /\ t.state = s.state
      /\ IF s.job = Idle THEN Asks(t) ELSE t.job = s.job
  BY <1>5, AskingIs
<1>7. co \in SUBSET Codes
  BY <1>1
<1> HIDE DEF t, co
<1>8. /\ IsStore(prof') /\ prof'.erased = prof.erased /\ prof'.coded = co
      /\ prof'.fell = prof.fell /\ prof'.loose = prof.loose /\ prof'.dev = [prof.dev EXCEPT ![d] = t]
      /\ prof'.named = prof.named /\ prof'.syncs = prof.syncs + 1
      /\ prof'.life = prof.life /\ prof'.server = prof.server /\ prof'.deleting = prof.deleting
      /\ prof'.maker = prof.maker /\ prof'.made = prof.made /\ prof'.buried = prof.buried
      /\ prof'.struck = prof.struck
  BY <1>3 DEF Typed, Stored, IsStore
<1>9. Stored(prof')
  <2>1. prof'.dev \in [Devices -> Devs]
    BY <1>1, <1>6, <1>8
  <2>2. QED
    BY <1>1, <1>7, <2>1, <1>8 DEF Stored, Fields
<1>10. prof'.dev[d] = t /\ Aside(prof, prof', d)
  BY <1>1, <1>6, <1>8, <1>9, SessionIs
<1>11. co = IF make THEN prof.coded \cup {c} ELSE prof.coded
  BY DEF co
<1>12. QED
  BY <1>2, <1>4, <1>6, <1>8, <1>9, <1>10, <1>11 DEF StartsCode, Linked

\* The server reads the profile for d.
Reads(d) ==
  LET s == prof.dev[d]
      t == prof'.dev[d]
      at == prof.server[s.job.link.code]
  IN /\ Session(d) /\ t.link = s.link /\ t.serial = s.serial /\ t.waits = s.waits /\ t.state = s.state
     /\ s.job.at = "get" /\ t.job.at = "got" /\ t.job.link = s.job.link /\ t.job.out = s.job.out
     /\ t.job.there = at.there /\ t.job.got = at.p /\ t.job.rev = at.rev

LEMMA ServerGetIs ==
  ASSUME Typed, NEW d \in Devices, ServerGet(d), prof.dev[d].job.link.code \in Codes
  PROVE  Stored(prof') /\ Reads(d)
<1> DEFINE s == prof.dev[d]
           at == prof.server[prof.dev[d].job.link.code]
           j == [prof.dev[d].job EXCEPT !.at = "got", !.there = at.there, !.got = at.p, !.rev = at.rev]
           t == [prof.dev[d] EXCEPT !.job = j]
<1>1. s \in Devs /\ prof.dev \in [Devices -> Devs] /\ Stored(prof) /\ s.job \in Jobs /\ at \in Kept
  BY Zenon DEF Typed, Stored, Fields, Devs
<1>2. /\ j \in Jobs /\ j.at = "got" /\ j.link = s.job.link /\ j.out = s.job.out
      /\ j.there = at.there /\ j.got = at.p /\ j.rev = at.rev
  BY <1>1, Zenon DEF Jobs, Kept
<1>3. prof' = [prof EXCEPT !.dev[d] = t] /\ s.job.at = "get"
  BY DEF ServerGet
<1> HIDE DEF j
<1>4. /\ t \in Devs /\ t.job = j /\ t.link = s.link /\ t.serial = s.serial /\ t.waits = s.waits
      /\ t.state = s.state /\ t.has = s.has /\ t.nick = s.nick /\ t.dirty = s.dirty
  BY <1>1, <1>2, Zenon DEF Devs
<1> HIDE DEF t
<1>5. /\ IsStore(prof') /\ SameWorld(prof, prof') /\ prof'.erased = prof.erased
      /\ prof'.fell = prof.fell /\ prof'.loose = prof.loose /\ prof'.dev = [prof.dev EXCEPT ![d] = t]
      /\ prof'.named = prof.named /\ prof'.syncs = prof.syncs
  BY <1>3 DEF Typed, Stored, IsStore, SameWorld
<1>6. Stored(prof')
  <2>1. prof'.dev \in [Devices -> Devs]
    BY <1>1, <1>4, <1>5
  <2>2. QED
    BY <1>1, <2>1, <1>5 DEF Stored, Fields, SameWorld
<1>7. prof'.dev[d] = t /\ Aside(prof, prof', d)
  BY <1>1, <1>4, <1>5, <1>6, SessionIs
<1>8. QED
  BY <1>2, <1>3, <1>4, <1>5, <1>6, <1>7, Zenon DEF Reads, Session

LEMMA GetFailsQuits ==
  ASSUME Typed, NEW d \in Devices, GetFails(d)
  PROVE  Quits(d) /\ prof.dev[d].job.at = "get"
<1>1. prof.dev[d].job.at = "get" /\ ~Writing(prof.dev[d])
  BY Zenon DEF GetFails, Writing
<1>2. CASE prof.dev[d].link # prof.dev[d].job.link
  <2>1. prof' = Ended(prof, d, "") /\ "" \in States /\ "" # "ok"
    BY <1>2, Zenon DEF GetFails, States
  <2>2. QED
    BY <1>1, <2>1, EndedQuits, Zenon DEF Typed
<1>3. CASE prof.dev[d].link = prof.dev[d].job.link
  <2>1. prof' = Ended(prof, d, "error") /\ "error" \in States /\ "error" # "ok"
    BY <1>3 DEF GetFails, States
  <2>2. QED
    BY <1>1, <2>1, EndedQuits DEF Typed
<1>4. QED
  BY <1>2, <1>3

LEMMA PutFailsQuits ==
  ASSUME Typed, NEW d \in Devices, PutFails(d)
  PROVE  Quits(d) /\ prof.dev[d].job.at \in {"put", "put2"}
<1>1. prof.dev[d].job.at \in {"put", "put2"}
  BY Zenon DEF PutFails
<1>2. CASE prof.dev[d].link # prof.dev[d].job.link
  <2>1. prof' = Ended(prof, d, "") /\ "" \in States /\ "" # "ok"
    BY <1>2, Zenon DEF PutFails, States
  <2>2. QED
    BY <1>1, <1>2, <2>1, EndedQuits, Zenon DEF Typed, Writing, Current
<1>3. CASE prof.dev[d].link = prof.dev[d].job.link
  <2>1. prof' = Failed(prof, d, "error") /\ "error" \in States /\ "error" # "ok"
    BY <1>3 DEF PutFails, States
  <2>2. QED
    BY <1>1, <2>1, FailedQuits DEF Typed
<1>4. QED
  BY <1>2, <1>3

\* What the answer brings is merged into the store of d: p, with m for d.
MergesTo(d, p, m) ==
  LET s == prof.dev[d]
      j == s.job
      all == Merge3(s.has, j.got.has, s.link.base.has)
  IN /\ SameWorld(prof, p) /\ Aside(prof, p, d) /\ p.erased = prof.erased /\ p.loose = prof.loose
     /\ prof.fell \subseteq p.fell /\ (m.has \cap Walls) \ Pack(m).has \subseteq p.fell
     /\ m.link = s.link /\ m.job = s.job /\ m.serial = s.serial /\ m.waits = s.waits /\ m.state = s.state
     /\ ~m.dirty /\ p.dev[d] = m
     /\ IF j.there = "there" THEN m.has \subseteq all /\ all \subseteq m.has \cup p.fell
        ELSE m.has = s.has


LEMMA DevsOf ==
  ASSUME NEW f \in [Devices -> Devs], NEW d \in Devices, NEW t \in Devs, NEW g, g = [f EXCEPT ![d] = t]
  PROVE  g \in [Devices -> Devs] /\ g[d] = t
  OBVIOUS

LEMMA MergedIs ==
  ASSUME Typed, NEW d \in Devices
  PROVE  LET p == Received(d)
         IN /\ Stored(p) /\ MergesTo(d, p, p.dev[d]) /\ p.dev[d] \in Devs
            /\ Pack(Merged(d)) = Pack(p.dev[d]) /\ Merged(d) \in Devs
<1> DEFINE s == prof.dev[d]
           p == Received(d)
           merged == Merged(d)
           j == prof.dev[d].job
           all == Merge3(s.has, j.got.has, s.link.base.has)
           t == [merged EXCEPT !.dirty = FALSE]
           lost == (IF j.there = "there" THEN all ELSE {}) \ merged.has
           small == (merged.has \cap Walls) \ Pack(merged).has
<1>1. s \in Devs /\ prof.dev \in [Devices -> Devs] /\ prof.fell \in SUBSET Entries /\ Stored(prof)
  BY DEF Typed, Stored, Fields
<1>2. j.got \in Profiles /\ s.link.base \in Bases
  BY <1>1, Zenon DEF Devs, Jobs, Links
<1>3. /\ merged \in Devs /\ merged.link = s.link /\ merged.job = s.job /\ merged.serial = s.serial
      /\ merged.state = s.state /\ merged.waits = s.waits
      /\ IF j.there = "there" THEN merged.has \subseteq all ELSE merged = s
  <2> HIDE DEF s
  <2>1. CASE j.there = "there"
    <3>1. merged = Merge(s, j.got, s.link.base)
      BY <2>1 DEF s, Merged
    <3>2. QED
      BY <1>1, <1>2, <2>1, <3>1, MergeIs DEF all
  <2>2. CASE j.there # "there"
    <3>1. merged = s
      BY <2>2 DEF s, Merged
    <3>2. QED
      BY <1>1, <2>2, <3>1
  <2>3. QED
    BY <2>1, <2>2
<1>4. /\ t \in Devs /\ t.link = s.link /\ t.job = s.job /\ t.serial = s.serial
      /\ t.state = s.state /\ t.waits = s.waits /\ ~t.dirty /\ t.has = merged.has /\ t.nick = merged.nick
  BY <1>3, Zenon DEF Devs
<1>5. Pack(merged) = Pack(t)
  BY <1>4 DEF Pack
<1>6. all \in SUBSET Entries /\ small \in SUBSET Entries /\ lost \in SUBSET Entries
  <2>1. all \in SUBSET Entries
    BY <1>1, <1>2, Zenon DEF Merge3, Devs, Profiles
  <2>2. merged.has \in SUBSET Entries
    BY <1>3, Zenon DEF Devs
  <2>3. QED
    BY <2>1, <2>2
<1>7. p = [prof EXCEPT !.dev[d] = t, !.fell = @ \cup small \cup lost]
  BY DEF Received
<1>12. (j.there = "there" => lost = all \ merged.has) /\ small = (merged.has \cap Walls) \ Pack(merged).has
  OBVIOUS
<1> HIDE DEF t, all, lost, small, p, merged
<1>8. /\ IsStore(p) /\ SameWorld(prof, p) /\ p.erased = prof.erased /\ p.loose = prof.loose
      /\ p.fell = prof.fell \cup small \cup lost /\ p.dev = [prof.dev EXCEPT ![d] = t]
      /\ p.named = prof.named /\ p.syncs = prof.syncs
  BY <1>7 DEF Typed, Stored, IsStore, SameWorld
<1>9. Stored(p)
  <2>1. p.dev \in [Devices -> Devs]
    BY <1>1, <1>4, <1>8, DevsOf
  <2>2. p.fell \in SUBSET Entries
    BY <1>1, <1>6, <1>8
  <2>3. QED
    BY <1>1, <2>1, <2>2, <1>8 DEF Stored, Fields, SameWorld
<1>10. p.dev[d] = t /\ Aside(prof, p, d)
  BY <1>1, <1>4, <1>8 DEF Aside
<1>11. MergesTo(d, p, t)
  <2>1. IF j.there = "there" THEN t.has \subseteq all /\ all \subseteq t.has \cup p.fell ELSE t.has = s.has
    BY <1>3, <1>4, <1>8, <1>12
  <2>2. (t.has \cap Walls) \ Pack(t).has \subseteq p.fell /\ prof.fell \subseteq p.fell
    BY <1>4, <1>5, <1>8, <1>12
  <2>3. QED
    BY <1>4, <1>8, <1>10, <2>1, <2>2 DEF MergesTo, all
<1>13. QED
  BY <1>3, <1>4, <1>5, <1>9, <1>10, <1>11 DEF p, merged

\* What d has after the answer was merged into it.
HasMerged(d) ==
  LET s == prof.dev[d]
      t == prof'.dev[d]
      all == Merge3(s.has, s.job.got.has, s.link.base.has)
  IN /\ SameWorld(prof, prof') /\ Aside(prof, prof', d) /\ prof'.erased[d] = prof.erased[d]
     /\ prof'.loose = prof.loose /\ prof.fell \subseteq prof'.fell
     /\ (t.has \cap Walls) \ Pack(t).has \subseteq prof'.fell
     /\ t.serial = s.serial /\ ~t.dirty /\ t \in Devs
     /\ IF s.job.there = "there" THEN t.has \subseteq all /\ all \subseteq t.has \cup prof'.fell
        ELSE t.has = s.has

\* d shows what the server has, at the revision it read.
GotAgrees(d) ==
  LET s == prof.dev[d]
      t == prof'.dev[d]
  IN /\ HasMerged(d) /\ s.job.at = "got" /\ s.link = s.job.link /\ s.job.there = "there"
     /\ t.link.code = s.link.code /\ t.link.serial = s.link.serial /\ t.link.make = s.link.make
     /\ t.link.rev = s.job.rev /\ t.link.base.set /\ t.link.base.nick = s.job.got.nick
     /\ t.link.base.has = s.job.got.has /\ Pack(t) = s.job.got
     /\ t.job = Idle /\ ~t.waits /\ t.state = "ok"

\* d writes what it shows.
GotWrites(d) ==
  LET s == prof.dev[d]
      t == prof'.dev[d]
  IN /\ HasMerged(d) /\ s.job.at = "got" /\ s.link = s.job.link
     /\ ~(s.job.there = "gone" /\ s.link.base.set)
     /\ s.link.base.set \/ s.link.make \/ s.job.there = "there"
     /\ t.link = s.link /\ t.waits = s.waits /\ t.state = s.state
     /\ t.job.at = "put" /\ t.job.link = s.job.link /\ t.job.got = s.job.got /\ t.job.there = s.job.there
     /\ t.job.rev = s.job.rev /\ t.job.out = Pack(t)

LEMMA SameStorePacks ==
  ASSUME NEW s, NEW t, t.has = s.has, t.nick = s.nick
  PROVE  Pack(t) = Pack(s)
  BY DEF Pack

LEMMA GotAgreesIs ==
  ASSUME Setting, Typed, NEW d \in Devices, prof.dev[d].job.at = "got",
         prof.dev[d].link = prof.dev[d].job.link, prof.dev[d].job.there = "there",
         Pack(Merged(d)) = prof.dev[d].job.got,
         prof' = Agreed(Received(d), d, Pack(Merged(d)), prof.dev[d].job.rev)
  PROVE  Stored(prof') /\ GotAgrees(d)
<1> DEFINE p == Received(d)
           m == p.dev[d]
           s == prof.dev[d]
           out == Pack(Merged(d))
<1>1. s \in Devs /\ Stored(prof) /\ s.job.rev \in Nat
  BY Zenon DEF Typed, Stored, Fields, Devs, Jobs
<1>2. Stored(p) /\ MergesTo(d, p, m) /\ m \in Devs /\ out = Pack(m) /\ Merged(d) \in Devs
  BY MergedIs
<1>3. out \in Profiles
  BY <1>2, PackIs
<1> HIDE DEF p, out
<1>4. prof' = Agreed(p, d, out, s.job.rev) /\ out = s.job.got
  BY DEF p, out
<1>5. /\ Stored(prof') /\ SameWorld(p, prof') /\ prof'.fell = p.fell /\ Aside(p, prof', d)
      /\ SameStore(m, prof'.dev[d]) /\ AgreedIs0(p, prof', d, out, s.job.rev)
  BY <1>1, <1>2, <1>3, <1>4, AgreedIs
<1>6. Pack(prof'.dev[d]) = Pack(m)
  BY <1>5, SameStorePacks, Zenon DEF SameStore
<1>7. prof'.dev[d] \in Devs
  BY <1>5, Zenon DEF Stored, Fields
<1> HIDE DEF s, m
<1>8. SameWorld(prof, prof') /\ Aside(prof, prof', d)
  BY <1>2, <1>5, ZenonT(30) DEF SameWorld, Aside, MergesTo
<1>9. HasMerged(d)
  BY <1>2, <1>5, <1>6, <1>7, <1>8, Zenon DEF HasMerged, MergesTo, AgreedIs0, SameStore, s, m
<1>10. QED
  BY <1>2, <1>4, <1>5, <1>6, <1>9, Zenon DEF GotAgrees, AgreedIs0, MergesTo, s, m

LEMMA PutsIs ==
  ASSUME NEW p, Stored(p), NEW d \in Devices, NEW out \in Profiles, NEW q, q = Puts(p, d, out)
  PROVE  LET j == p.dev[d].job
             t == q.dev[d]
         IN /\ Stored(q) /\ SameWorld(p, q) /\ q.fell = p.fell /\ q.loose = p.loose /\ q.erased = p.erased
            /\ Aside(p, q, d) /\ SameStore(p.dev[d], t) /\ t.link = p.dev[d].link
            /\ t.waits = p.dev[d].waits /\ t.state = p.dev[d].state
            /\ t.job.at = "put" /\ t.job.out = out /\ t.job.link = j.link /\ t.job.got = j.got
            /\ t.job.there = j.there /\ t.job.rev = j.rev
<1> DEFINE j == [p.dev[d].job EXCEPT !.at = "put", !.out = out]
           t == [p.dev[d] EXCEPT !.job = j]
<1>1. p.dev[d] \in Devs /\ p.dev[d].job \in Jobs /\ p.dev \in [Devices -> Devs]
  BY Zenon DEF Stored, Fields, Devs
<1>2. /\ j \in Jobs /\ j.at = "put" /\ j.out = out /\ j.link = p.dev[d].job.link /\ j.got = p.dev[d].job.got
      /\ j.there = p.dev[d].job.there /\ j.rev = p.dev[d].job.rev
  BY <1>1 DEF Jobs
<1>3. q = [p EXCEPT !.dev[d] = t]
  BY DEF Puts
<1> HIDE DEF j
<1>4. /\ t \in Devs /\ t.job = j /\ t.link = p.dev[d].link /\ SameStore(p.dev[d], t)
      /\ t.waits = p.dev[d].waits /\ t.state = p.dev[d].state
  BY <1>1, <1>2, Zenon DEF Devs, SameStore
<1> HIDE DEF t
<1>5. /\ IsStore(q) /\ SameWorld(p, q) /\ q.erased = p.erased
      /\ q.fell = p.fell /\ q.loose = p.loose /\ q.dev = [p.dev EXCEPT ![d] = t]
      /\ q.named = p.named /\ q.syncs = p.syncs
  BY <1>3 DEF Stored, IsStore, SameWorld
<1>6. Stored(q)
  BY <1>4, <1>5 DEF Stored, Fields, SameWorld
<1>7. q.dev[d] = t /\ Aside(p, q, d)
  BY <1>1, <1>4, <1>5 DEF Aside
<1>8. QED
  BY <1>2, <1>4, <1>5, <1>6, <1>7

LEMMA GotWritesIs ==
  ASSUME Setting, Typed, NEW d \in Devices, prof.dev[d].job.at = "got",
         prof.dev[d].link = prof.dev[d].job.link,
         ~(prof.dev[d].job.there = "gone" /\ prof.dev[d].link.base.set),
         prof.dev[d].link.base.set \/ prof.dev[d].link.make \/ prof.dev[d].job.there = "there",
         prof' = Puts(Received(d), d, Pack(Merged(d)))
  PROVE  Stored(prof') /\ GotWrites(d)
<1> DEFINE p == Received(d)
           m == p.dev[d]
           s == prof.dev[d]
           t == prof'.dev[d]
           out == Pack(Merged(d))
<1>1. Stored(p) /\ MergesTo(d, p, m) /\ m \in Devs /\ out = Pack(m) /\ Merged(d) \in Devs
  BY MergedIs
<1>2. out \in Profiles
  BY <1>1, PackIs
<1> HIDE DEF p, out
<1>3. prof' = Puts(p, d, out)
  BY DEF p, out
<1>4. /\ Stored(prof') /\ SameWorld(p, prof') /\ prof'.fell = p.fell /\ prof'.loose = p.loose /\ prof'.erased = p.erased
      /\ Aside(p, prof', d) /\ SameStore(m, t) /\ t.link = m.link
      /\ t.waits = m.waits /\ t.state = m.state
      /\ t.job.at = "put" /\ t.job.out = out /\ t.job.link = m.job.link /\ t.job.got = m.job.got
      /\ t.job.there = m.job.there /\ t.job.rev = m.job.rev
  BY <1>1, <1>2, <1>3, PutsIs
<1>5. t \in Devs
  BY <1>4 DEF Stored, Fields
<1> HIDE DEF s, m, t
<1>6. Pack(t) = Pack(m)
  BY <1>4, SameStorePacks DEF SameStore
<1>7. SameWorld(prof, prof') /\ Aside(prof, prof', d)
  BY <1>1, <1>4 DEF SameWorld, Aside, MergesTo
<1>8. HasMerged(d)
  BY <1>1, <1>4, <1>5, <1>6, <1>7, ZenonT(30) DEF HasMerged, MergesTo, SameStore, s, t
<1>9. QED
  BY <1>1, <1>4, <1>6, <1>8 DEF GotWrites, MergesTo, SameStore, s, t

LEMMA GotIs ==
  ASSUME Setting, Typed, NEW d \in Devices, Got(d)
  PROVE  \/ Quits(d) /\ prof.dev[d].job.at = "got"
         \/ Stored(prof') /\ (GotAgrees(d) \/ GotWrites(d))
<1> DEFINE s == prof.dev[d]
           j == s.job
           out == Pack(Merged(d))
<1>1. j.at = "got" /\ ~Writing(s)
  BY Zenon DEF Got, Writing
<1>2. prof' = IF s.link # j.link THEN Ended(prof, d, "")
              ELSE IF j.there = "gone" /\ s.link.base.set THEN Ended(Unlinked(prof, d), d, "gone")
              ELSE IF ~s.link.base.set /\ ~j.link.make /\ j.there # "there"
                   THEN Ended(Unlinked(prof, d), d, "unknown")
              ELSE IF j.there = "there" /\ out = j.got THEN Agreed(Received(d), d, out, j.rev)
              ELSE Puts(Received(d), d, out)
  BY Zenon DEF Got
<1> HIDE DEF out
<1>3. "" \in States /\ "gone" \in States /\ "unknown" \in States
  BY DEF States
<1>4. CASE s.link # j.link
  BY <1>1, <1>2, <1>3, <1>4, EndedQuits, Zenon DEF Typed
<1>5. CASE s.link = j.link /\ j.there = "gone" /\ s.link.base.set
  BY <1>1, <1>2, <1>3, <1>5, OffQuits, Zenon DEF Typed
<1>6. CASE s.link = j.link /\ ~s.link.base.set /\ ~j.link.make /\ j.there # "there"
  BY <1>1, <1>2, <1>3, <1>6, OffQuits, Zenon DEF Typed
<1>7. CASE s.link = j.link /\ j.there = "there" /\ out = j.got
  BY <1>1, <1>2, <1>7, GotAgreesIs DEF out
<1>8. CASE /\ s.link = j.link /\ ~(j.there = "gone" /\ s.link.base.set)
           /\ s.link.base.set \/ j.link.make \/ j.there = "there"
           /\ ~(j.there = "there" /\ out = j.got)
  BY <1>1, <1>2, <1>8, GotWritesIs DEF out
<1>9. QED
  BY <1>4, <1>5, <1>6, <1>7, <1>8

\* The server writes the profile of d, or refuses it.
ServerWrites(d) ==
  LET s == prof.dev[d]
      t == prof'.dev[d]
      j == s.job
      at == prof.server[j.link.code]
  IN /\ prof'.life = prof.life /\ prof'.deleting = prof.deleting /\ prof'.maker = prof.maker
     /\ prof'.made = prof.made /\ prof'.coded = prof.coded /\ prof'.buried = prof.buried
     /\ prof'.struck = prof.struck /\ prof'.fell = prof.fell /\ prof'.loose = prof.loose
     /\ prof'.erased = prof.erased /\ Aside(prof, prof', d)
     /\ SameStore(s, t) /\ t.link = s.link /\ t.waits = s.waits /\ t.state = s.state
     /\ j.at = "put" /\ t.job.at = "put2" /\ t.job.link = j.link /\ t.job.got = j.got
     /\ t.job.there = j.there /\ t.job.rev = j.rev /\ t.job.out = j.out
     /\ t.job.answer = IF at.there = "gone" /\ j.link.base.set THEN "gone"
                       ELSE IF at.rev # j.rev THEN "stale" ELSE "ok"
     /\ \A c \in Codes : c # j.link.code => prof'.server[c] = prof.server[c]
     /\ LET w == prof'.server[j.link.code]
        IN IF t.job.answer = "ok" THEN w.there = "there" /\ w.rev = at.rev + 1 /\ w.p = j.out ELSE w = at

LEMMA ServerPutIs ==
  ASSUME Typed, NEW d \in Devices, ServerPut(d), prof.dev[d].job.link.code \in Codes
  PROVE  Stored(prof') /\ ServerWrites(d)
<1> DEFINE s == prof.dev[d]
           j == s.job
           c == j.link.code
           at == prof.server[c]
           answer == IF at.there = "gone" /\ j.link.base.set THEN "gone"
                     ELSE IF at.rev # j.rev THEN "stale" ELSE "ok"
           n == at.rev + 1
           w == IF answer = "ok" THEN [there |-> "there", rev |-> n, p |-> j.out] ELSE at
           k == [j EXCEPT !.at = "put2", !.answer = answer]
           t == [s EXCEPT !.job = k]
<1>1. s \in Devs /\ Stored(prof) /\ prof.dev \in [Devices -> Devs] /\ prof.server \in [Codes -> Kept]
  BY DEF Typed, Stored, Fields
<1>2. j \in Jobs /\ at \in Kept /\ j.out \in Profiles
  BY <1>1, Zenon DEF Devs, Jobs
<1>3. n \in Nat /\ answer \in {"gone", "stale", "ok"}
  BY <1>2 DEF Kept
<1>4. prof' = [prof EXCEPT !.server[c] = w, !.dev[d] = t] /\ j.at = "put"
  BY Zenon DEF ServerPut
<1> HIDE DEF n, answer
<1>5. /\ k \in Jobs /\ k.at = "put2" /\ k.answer = answer /\ k.link = j.link /\ k.got = j.got
      /\ k.there = j.there /\ k.rev = j.rev /\ k.out = j.out
  BY <1>2, <1>3 DEF Jobs
<1>6. w \in Kept /\ IF answer = "ok" THEN w.there = "there" /\ w.rev = n /\ w.p = j.out ELSE w = at
  BY ZenonT(30), <1>2, <1>3 DEF Kept
<1> HIDE DEF k, w
<1>7. /\ t \in Devs /\ t.job = k /\ t.link = s.link /\ SameStore(s, t)
      /\ t.waits = s.waits /\ t.state = s.state
  BY <1>1, <1>5, Zenon DEF Devs, SameStore
<1> HIDE DEF t
<1>8. /\ IsStore(prof') /\ prof'.server = [prof.server EXCEPT ![c] = w] /\ prof'.dev = [prof.dev EXCEPT ![d] = t]
      /\ prof'.life = prof.life /\ prof'.deleting = prof.deleting /\ prof'.maker = prof.maker
      /\ prof'.made = prof.made /\ prof'.coded = prof.coded /\ prof'.buried = prof.buried
      /\ prof'.struck = prof.struck /\ prof'.fell = prof.fell /\ prof'.loose = prof.loose
      /\ prof'.erased = prof.erased /\ prof'.named = prof.named /\ prof'.syncs = prof.syncs
  BY <1>1, <1>4 DEF Stored, IsStore
<1>9. prof'.dev \in [Devices -> Devs] /\ prof'.dev[d] = t /\ Aside(prof, prof', d)
  BY <1>1, <1>7, <1>8 DEF Aside
<1>10. prof'.server \in [Codes -> Kept] /\ prof'.server[c] = w /\ \A x \in Codes : x # c => prof'.server[x] = prof.server[x]
  BY <1>1, <1>6, <1>8
<1>11. Stored(prof')
  BY <1>1, <1>8, <1>9, <1>10 DEF Stored, Fields
<1>12. QED
  BY <1>4, <1>5, <1>6, <1>7, <1>8, <1>9, <1>10, <1>11, ZenonT(30) DEF ServerWrites, answer, n

\* A stale write starts over: the question again, the base as it was.
Restarts(d) ==
  LET s == prof.dev[d]
      t == prof'.dev[d]
  IN /\ SameWorld(prof, prof') /\ Aside(prof, prof', d) /\ prof'.erased = prof.erased
     /\ prof'.fell = prof.fell
     /\ prof'.loose = prof.loose \cup ((s.has \cup s.job.got.has \cup s.job.out.has) \ s.link.base.has)
     /\ SameStore(s, t) /\ t.link = s.link /\ t.waits = s.waits /\ t.state = s.state
     /\ s.job.at = "put2" /\ s.job.answer = "stale" /\ s.link = s.job.link
     /\ Asks(t)

\* The server has what d wrote.
PutAgrees(d) ==
  LET s == prof.dev[d]
      t == prof'.dev[d]
  IN /\ SameWorld(prof, prof') /\ Aside(prof, prof', d) /\ prof'.fell = prof.fell
     /\ SameStore(s, t) /\ s.job.at = "put2" /\ s.job.answer \notin {"stale", "gone"} /\ s.link = s.job.link
     /\ AgreedIs0(prof, prof', d, s.job.out, s.job.rev + 1)

LEMMA RestartIs ==
  ASSUME Typed, NEW d \in Devices, prof.dev[d].job.at = "put2", prof.dev[d].job.answer = "stale",
         prof.dev[d].link = prof.dev[d].job.link,
         prof' = Again(Unsettled(prof, d), d)
  PROVE  Stored(prof') /\ Restarts(d)
<1> DEFINE s == prof.dev[d]
           p == Unsettled(prof, d)
           k == [Idle EXCEPT !.at = "get", !.link = s.link, !.round = 1]
           t == [s EXCEPT !.job = k]
<1>1. s \in Devs /\ Stored(prof) /\ s.link \in Links /\ prof.dev \in [Devices -> Devs]
  BY Zenon DEF Typed, Stored, Fields, Devs
<1>2. /\ Stored(p) /\ SameWorld(prof, p) /\ p.fell = prof.fell /\ p.dev = prof.dev /\ p.erased = prof.erased
      /\ p.loose = prof.loose \cup ((s.has \cup s.job.got.has \cup s.job.out.has) \ s.link.base.has)
  BY <1>1, UnsettledIs
<1> HIDE DEF p
<1>3. prof' = [p EXCEPT !.dev[d] = t]
  BY <1>2 DEF Again, p
<1>4. k \in Jobs /\ k.at = "get" /\ k.link = s.link /\ k.got = NoProfile /\ k.out = NoProfile
  BY <1>1, Nothing DEF Jobs, Idle
<1> HIDE DEF k, s
<1>5. /\ t \in Devs /\ Asks(t) /\ t.link = s.link /\ SameStore(s, t)
      /\ t.waits = s.waits /\ t.state = s.state
  BY <1>1, <1>4, Zenon DEF Devs, SameStore, Asks
<1> HIDE DEF t
<1>6. /\ IsStore(prof') /\ SameWorld(p, prof') /\ prof'.erased = p.erased
      /\ prof'.fell = p.fell /\ prof'.loose = p.loose /\ prof'.dev = [p.dev EXCEPT ![d] = t]
      /\ prof'.named = p.named /\ prof'.syncs = p.syncs
  BY <1>2, <1>3 DEF Stored, IsStore, SameWorld
<1>7. prof'.dev \in [Devices -> Devs] /\ prof'.dev[d] = t /\ Aside(prof, prof', d)
  BY <1>1, <1>2, <1>5, <1>6 DEF Aside
<1>8. Stored(prof')
  BY <1>2, <1>6, <1>7 DEF Stored, Fields, SameWorld
<1>9. SameWorld(prof, prof')
  BY <1>2, <1>6 DEF SameWorld
<1>10. QED
  BY <1>2, <1>5, <1>6, <1>7, <1>8, <1>9 DEF Restarts, s

LEMMA PutAnsweredIs ==
  ASSUME Typed, NEW d \in Devices, PutAnswered(d)
  PROVE  /\ prof.dev[d].job.at = "put2" /\ Stored(prof')
         /\ Quits(d) \/ Restarts(d) \/ PutAgrees(d)
<1> DEFINE s == prof.dev[d]
           j == s.job
<1>1. s \in Devs /\ j \in Jobs /\ j.at = "put2" /\ j.out \in Profiles /\ j.rev \in Nat /\ Stored(prof)
  BY Zenon DEF Typed, Stored, Fields, Devs, Jobs, PutAnswered
<1>2. "" \in States /\ "error" \in States /\ "gone" \in States
  BY DEF States
<1>3. CASE s.link # j.link
  <2>1. prof' = Ended(prof, d, "") /\ ~Writing(s)
    BY <1>3, Zenon DEF PutAnswered, Writing, Current
  <2>2. QED
    BY <1>1, <1>2, <2>1, EndedQuits, Zenon DEF Quits
<1>4. CASE s.link = j.link /\ j.answer = "stale" /\ j.round = 0
  <2>1. prof' = Again(Unsettled(prof, d), d)
    BY <1>4 DEF PutAnswered
  <2>2. QED
    BY <1>1, <1>4, <2>1, RestartIs
<1>5. CASE s.link = j.link /\ j.answer = "stale" /\ j.round # 0
  <2>1. prof' = Failed(prof, d, "error")
    BY <1>5 DEF PutAnswered
  <2>2. QED
    BY <1>1, <1>2, <2>1, FailedQuits, Zenon DEF Quits
<1>6. CASE s.link = j.link /\ j.answer = "gone"
  <2>1. prof' = Ended(Unlinked(prof, d), d, "gone")
    BY <1>6 DEF PutAnswered
  <2>2. QED
    BY <1>1, <1>2, <2>1, OffQuits, Zenon DEF Quits
<1>7. CASE s.link = j.link /\ j.answer \notin {"stale", "gone"}
  <2>1. prof' = Agreed(prof, d, j.out, j.rev + 1)
    BY <1>7 DEF PutAnswered
  <2>2. /\ Stored(prof') /\ SameWorld(prof, prof') /\ prof'.fell = prof.fell /\ Aside(prof, prof', d)
        /\ SameStore(s, prof'.dev[d]) /\ AgreedIs0(prof, prof', d, j.out, j.rev + 1)
    BY <1>1, <2>1, AgreedIs
  <2>3. QED
    BY <1>1, <1>7, <2>2 DEF PutAgrees
<1>8. QED
  BY <1>3, <1>4, <1>5, <1>6, <1>7

\* d asks the server to delete its profile.
LEMMA DeleteIs ==
  ASSUME Typed, NEW d \in Devices, Delete(d), prof.dev[d].link.code \in Codes
  PROVE  /\ Stored(prof') /\ prof'.dev = prof.dev /\ prof'.server = prof.server
         /\ prof'.life = prof.life /\ prof'.maker = prof.maker /\ prof'.made = prof.made
         /\ prof'.coded = prof.coded /\ prof'.buried = prof.buried
         /\ prof'.struck = prof.struck /\ prof'.fell = prof.fell /\ prof'.loose = prof.loose
         /\ prof'.erased = prof.erased /\ prof'.deleting[d] = prof.dev[d].link.code
         /\ prof.dev[d].link.base.set
         /\ \A f \in Devices \ {d} : prof'.deleting[f] = prof.deleting[f]
<1> DEFINE c == prof.dev[d].link.code
<1>1. prof' = [prof EXCEPT !.deleting[d] = c] /\ prof.dev[d].link.base.set
  BY DEF Delete
<1> HIDE DEF c
<1>2. /\ IsStore(prof') /\ prof'.dev = prof.dev /\ prof'.server = prof.server
      /\ prof'.life = prof.life /\ prof'.maker = prof.maker /\ prof'.made = prof.made
      /\ prof'.coded = prof.coded /\ prof'.buried = prof.buried
      /\ prof'.struck = prof.struck /\ prof'.fell = prof.fell /\ prof'.loose = prof.loose
      /\ prof'.erased = prof.erased /\ prof'.deleting = [prof.deleting EXCEPT ![d] = c]
      /\ prof'.named = prof.named /\ prof'.syncs = prof.syncs
  BY <1>1 DEF Typed, Stored, IsStore
<1>3. Stored(prof)
  BY DEF Typed
<1>4. c \in Codes
  BY DEF c
<1>5. prof'.deleting \in [Devices -> Codes \cup {0}]
  BY <1>2, <1>3, <1>4 DEF Stored, Fields
<1>6. Stored(prof')
  BY <1>2, <1>3, <1>5 DEF Stored, Fields
<1>7. prof'.deleting[d] = c /\ \A f \in Devices \ {d} : prof'.deleting[f] = prof.deleting[f]
  BY <1>2, <1>3 DEF Stored, Fields
<1>8. QED
  BY <1>1, <1>2, <1>6, <1>7 DEF c

\* The server deletes the profile d asked it to delete.
Removes(d) ==
  LET c == prof.deleting[d]
  IN /\ c \in Codes /\ prof'.deleting[d] = 0 /\ prof'.buried = prof.buried \cup {c}
     /\ \A f \in Devices \ {d} : prof'.deleting[f] = prof.deleting[f]
     /\ prof'.life = prof.life /\ prof'.maker = prof.maker /\ prof'.made = prof.made
     /\ prof'.coded = prof.coded /\ prof'.struck = prof.struck /\ prof'.fell = prof.fell
     /\ \A x \in Codes : x # c => prof'.server[x] = prof.server[x]
     /\ prof'.server[c].there = "gone" /\ prof'.server[c].p = NoProfile
     /\ prof'.server[c].rev = IF prof.server[c].there = "gone" THEN prof.server[c].rev ELSE prof.server[c].rev + 1

\* d has not heard of it.
Unheard == prof'.dev = prof.dev /\ prof'.erased = prof.erased /\ prof'.loose = prof.loose
\* d drops its link.
DropsLink(d) ==
  /\ Aside(prof, prof', d) /\ GoesOff(prof, prof', d) /\ SameStore(prof.dev[d], prof'.dev[d])
  /\ prof'.dev[d].job = prof.dev[d].job /\ prof'.dev[d].waits = prof.dev[d].waits

LEMMA IsStoreStill ==
  ASSUME NEW d \in Devices, NEW c, NEW w, IsStore(prof),
         NEW q, q = [prof EXCEPT !.deleting[d] = 0, !.buried = @ \cup {c}, !.server[c] = w]
  PROVE  IsStore(q)
  BY DEF IsStore

LEMMA DeletedIs ==
  ASSUME Setting, Typed, NEW d \in Devices, NEW heard \in BOOLEAN, Deleted(d, heard)
  PROVE  Stored(prof') /\ Removes(d) /\ (Unheard \/ DropsLink(d))
<1> DEFINE c == prof.deleting[d]
           at == prof.server[c]
           n == IF at.there = "gone" THEN at.rev ELSE at.rev + 1
           w == [there |-> "gone", p |-> NoProfile, rev |-> n]
           p == [prof EXCEPT !.deleting[d] = 0, !.buried = @ \cup {c}, !.server[c] = w]
<1>1. /\ Stored(prof) /\ prof.server \in [Codes -> Kept] /\ prof.deleting \in [Devices -> Codes \cup {0}]
      /\ prof.buried \in SUBSET Codes
  BY DEF Typed, Stored, Fields
<1>2. c \in Codes
  BY <1>1 DEF Deleted, Setting
<1>3. n \in Nat
  BY <1>1, <1>2 DEF Kept
<1>4. prof' = IF heard THEN Unlinked(p, d) ELSE p
  BY DEF Deleted
<1> HIDE DEF n
<1>5. w.there = "gone" /\ w.p = NoProfile /\ w.rev = n
  OBVIOUS
<1>6. w \in Kept
  BY <1>3, Nothing DEF Kept
<1> HIDE DEF w, c, at
<1>14. IsStore(prof)
  BY <1>1 DEF Stored
<1>7. /\ IsStore(p) /\ p.dev = prof.dev /\ p.server = [prof.server EXCEPT ![c] = w]
      /\ p.life = prof.life /\ p.maker = prof.maker /\ p.made = prof.made
      /\ p.coded = prof.coded /\ p.buried = prof.buried \cup {c}
      /\ p.struck = prof.struck /\ p.fell = prof.fell /\ p.loose = prof.loose
      /\ p.erased = prof.erased /\ p.deleting = [prof.deleting EXCEPT ![d] = 0]
      /\ p.named = prof.named /\ p.syncs = prof.syncs
  <2>1. IsStore(p)
    <3>1. p = [prof EXCEPT !.deleting[d] = 0, !.buried = @ \cup {c}, !.server[c] = w]
      OBVIOUS
    <3> HIDE DEF p
    <3>2. QED
      BY <1>14, <3>1, IsStoreStill, Zenon
  <2>2. p.server = [prof.server EXCEPT ![c] = w]
    BY <1>14 DEF IsStore
  <2>3. p.deleting = [prof.deleting EXCEPT ![d] = 0]
    BY <1>14 DEF IsStore
  <2>4. /\ p.dev = prof.dev /\ p.life = prof.life /\ p.maker = prof.maker /\ p.made = prof.made
        /\ p.coded = prof.coded /\ p.buried = prof.buried \cup {c}
        /\ p.struck = prof.struck /\ p.fell = prof.fell /\ p.loose = prof.loose
        /\ p.erased = prof.erased /\ p.named = prof.named /\ p.syncs = prof.syncs
    BY <1>14 DEF IsStore
  <2>5. QED
    BY <2>1, <2>2, <2>3, <2>4
<1> HIDE DEF p
<1>8. /\ p.server \in [Codes -> Kept] /\ p.server[c] = w /\ \A x \in Codes : x # c => p.server[x] = prof.server[x]
  BY <1>1, <1>2, <1>6, <1>7
<1>9. /\ p.deleting \in [Devices -> Codes \cup {0}] /\ p.deleting[d] = 0
      /\ \A f \in Devices \ {d} : p.deleting[f] = prof.deleting[f]
  BY <1>1, <1>7
<1>10. Stored(p)
  BY <1>1, <1>2, <1>7, <1>8, <1>9 DEF Stored, Fields
<1>11. CASE ~heard
  <2>1. prof' = p
    BY <1>4, <1>11
  <2>2. QED
    BY <1>2, <1>5, <1>7, <1>8, <1>9, <1>10, <2>1 DEF Removes, Unheard, c, n, at
<1>12. CASE heard
  <2>1. prof' = Unlinked(p, d)
    BY <1>4, <1>12
  <2>2. /\ Stored(prof') /\ SameWorld(p, prof') /\ prof'.fell = p.fell /\ Aside(p, prof', d)
        /\ GoesOff(p, prof', d) /\ SameStore(p.dev[d], prof'.dev[d])
        /\ prof'.dev[d].job = p.dev[d].job /\ prof'.dev[d].waits = p.dev[d].waits
    BY <1>10, <2>1, UnlinkedIs
  <2>3. DropsLink(d)
    BY <1>7, <2>2, ZenonT(30) DEF DropsLink, Aside, GoesOff
  <2>4. Removes(d)
    BY <1>2, <1>5, <1>7, <1>8, <1>9, <2>2 DEF Removes, SameWorld, c, n, at
  <2>5. QED
    BY <2>2, <2>3, <2>4
<1>13. QED
  BY <1>11, <1>12

LEMMA UnlinkIs ==
  ASSUME Typed, NEW d \in Devices, Unlink(d)
  PROVE  Stored(prof') /\ SameWorld(prof, prof') /\ prof'.fell = prof.fell /\ DropsLink(d) /\ Linked(prof.dev[d])
<1>1. prof' = Unlinked(prof, d) /\ Linked(prof.dev[d]) /\ Stored(prof)
  BY DEF Unlink, Linked, Typed
<1>2. QED
  BY <1>1, UnlinkedIs DEF DropsLink

Renames(d) ==
  /\ SameWorld(prof, prof') /\ Aside(prof, prof', d) /\ prof'.erased = prof.erased
  /\ prof'.fell = prof.fell /\ prof'.loose = prof.loose /\ prof'.dev[d].has = prof.dev[d].has
  /\ prof'.dev[d].dirty /\ SameSession(prof.dev[d], prof'.dev[d])
Unlinks(d) ==
  SameWorld(prof, prof') /\ prof'.fell = prof.fell /\ DropsLink(d)
Requests(d) ==
  /\ prof'.dev = prof.dev /\ prof'.server = prof.server
  /\ prof'.life = prof.life /\ prof'.maker = prof.maker /\ prof'.made = prof.made
  /\ prof'.coded = prof.coded /\ prof'.buried = prof.buried
  /\ prof'.struck = prof.struck /\ prof'.fell = prof.fell /\ prof'.loose = prof.loose
  /\ prof'.erased = prof.erased /\ prof'.deleting[d] = prof.dev[d].link.code
  /\ prof.dev[d].link.base.set
  /\ \A f \in Devices \ {d} : prof'.deleting[f] = prof.deleting[f]

\* What a step of device d can be.
Steps(d) ==
  \/ Adds(d) \/ (\E e \in Entries : Erases(d, e)) \/ Renames(d) \/ Unlinks(d) \/ Syncs(d)
  \/ (\E c \in Codes, make \in BOOLEAN : StartsCode(d, c, make)) \/ Reads(d)
  \/ Quits(d) /\ prof.dev[d].job.at # "no"
  \/ GotAgrees(d) \/ GotWrites(d) \/ ServerWrites(d) \/ Restarts(d) \/ PutAgrees(d) \/ Requests(d)
  \/ Removes(d) /\ (Unheard \/ DropsLink(d))

LEMMA NextSteps ==
  ASSUME Setting, Typed, \A d \in Devices : LinkSound(prof.dev[d]), ProfileNext
  PROVE  Stored(prof') /\ \E d \in Devices : Steps(d)
<1>1. PICK d \in Devices :
      \/ Add(d) \/ Unlink(d) \/ Sync(d) \/ Delete(d)
      \/ (\E e \in Entries : Erase(d, e))
      \/ (\E n \in Nicks : Rename(d, n))
      \/ (\E c \in Codes, make \in BOOLEAN : StartCode(d, c, make))
      \/ ServerGet(d) \/ GetFails(d) \/ Got(d)
      \/ ServerPut(d) \/ PutFails(d) \/ PutAnswered(d)
      \/ (\E heard \in BOOLEAN : Deleted(d, heard))
  BY DEF ProfileNext
<1>2. LinkSound(prof.dev[d])
  OBVIOUS
<1> SUFFICES Stored(prof') /\ Steps(d)
  OBVIOUS
<1>3. CASE Add(d)
  BY <1>3, AddIs DEF Steps
<1>4. CASE Unlink(d)
  BY <1>4, UnlinkIs DEF Steps, Unlinks
<1>5. CASE Sync(d)
  BY <1>5, SyncIs DEF Steps
<1>6. CASE Delete(d)
  <2>1. prof.dev[d].link.code \in Codes
    BY <1>2, <1>6, Nothing DEF LinkSound, Linked, Delete
  <2>2. Stored(prof') /\ Requests(d)
    BY <1>6, <2>1, DeleteIs DEF Requests
  <2>3. QED
    BY <2>2 DEF Steps
<1>7. CASE \E e \in Entries : Erase(d, e)
  BY <1>7, EraseIs DEF Steps
<1>8. CASE \E n \in Nicks : Rename(d, n)
  <2>1. Stored(prof') /\ Renames(d)
    BY <1>8, RenameIs DEF Renames
  <2>2. QED
    BY <2>1 DEF Steps
<1>9. CASE \E c \in Codes, make \in BOOLEAN : StartCode(d, c, make)
  BY <1>9, StartCodeIs DEF Steps
<1>10. CASE ServerGet(d)
  <2>1. prof.dev[d].job.link.code \in Codes
    BY ZenonT(30), <1>2, <1>10 DEF LinkSound, ServerGet
  <2>2. QED
    BY <1>10, <2>1, ServerGetIs DEF Steps
<1>11. CASE GetFails(d)
  <2>1. Quits(d) /\ prof.dev[d].job.at # "no"
    BY <1>11, GetFailsQuits
  <2>2. Stored(prof')
    BY <2>1 DEF Quits
  <2>3. QED
    BY <2>1, <2>2 DEF Steps
<1>12. CASE Got(d)
  <2>1. \/ Quits(d) /\ prof.dev[d].job.at = "got"
        \/ Stored(prof') /\ (GotAgrees(d) \/ GotWrites(d))
    BY <1>12, GotIs
  <2>2. Quits(d) => Stored(prof')
    BY DEF Quits
  <2>3. QED
    BY <2>1, <2>2 DEF Steps
<1>13. CASE ServerPut(d)
  <2>1. prof.dev[d].job.link.code \in Codes
    BY <1>2, <1>13, Zenon DEF LinkSound, ServerPut
  <2>2. QED
    BY <1>13, <2>1, ServerPutIs DEF Steps
<1>14. CASE PutFails(d)
  <2>1. Quits(d) /\ prof.dev[d].job.at # "no"
    BY <1>14, PutFailsQuits
  <2>2. Stored(prof')
    BY <2>1 DEF Quits
  <2>3. QED
    BY <2>1, <2>2 DEF Steps
<1>15. CASE PutAnswered(d)
  BY <1>15, PutAnsweredIs DEF Steps
<1>16. CASE \E heard \in BOOLEAN : Deleted(d, heard)
  BY <1>16, DeletedIs DEF Steps
<1>17. QED
  BY <1>1, <1>3, <1>4, <1>5, <1>6, <1>7, <1>8, <1>9, <1>10, <1>11, <1>12, <1>13, <1>14, <1>15, <1>16

-----------------------------------------------------------------------------
(* Where the entries of the next state come from. *)

\* From p to q, d gets nothing but S, and the server nothing but T.
Gets(p, q, d, S) == HeldIn(q, d) \subseteq HeldIn(p, d) \cup S
Kept0(p, q) == \A c \in Codes : q.server[c].p.has \subseteq p.server[c].p.has

LEMMA ElseStays ==
  ASSUME NEW p, NEW q, NEW d \in Devices, Aside(p, q, d), NEW f \in Devices \ {d}
  PROVE  HeldIn(q, f) = HeldIn(p, f)
BY DEF Aside, HeldIn

LEMMA AddsGets ==
  ASSUME NEW d \in Devices, Adds(d)
  PROVE  Gets(prof, prof', d, {prof.made + 1}) /\ Kept0(prof, prof')
BY DEF Adds, Gets, Kept0, HeldIn, SameServer, SameSession

LEMMA ErasesGets ==
  ASSUME NEW d \in Devices, NEW e \in Entries, Erases(d, e)
  PROVE  Gets(prof, prof', d, {}) /\ Kept0(prof, prof')
BY DEF Erases, Gets, Kept0, HeldIn, SameServer, SameSession

LEMMA RenamesGets ==
  ASSUME NEW d \in Devices, Renames(d)
  PROVE  Gets(prof, prof', d, {}) /\ Kept0(prof, prof')
BY DEF Renames, Gets, Kept0, HeldIn, SameWorld, SameSession

LEMMA UnlinksGets ==
  ASSUME NEW d \in Devices, DropsLink(d)
  PROVE  Gets(prof, prof', d, {})
BY Nothing, Zenon DEF DropsLink, GoesOff, SameStore, Gets, HeldIn

LEMMA SyncsGets ==
  ASSUME NEW d \in Devices, Syncs(d)
  PROVE  Gets(prof, prof', d, {}) /\ Kept0(prof, prof')
BY Nothing DEF Syncs, Session, Asks, SameWorld, Gets, Kept0, HeldIn

LEMMA StartsCodeGets ==
  ASSUME NEW d \in Devices, NEW c \in Codes, NEW make \in BOOLEAN, StartsCode(d, c, make)
  PROVE  Gets(prof, prof', d, {}) /\ Kept0(prof, prof')
BY ZenonT(30), Nothing DEF StartsCode, Asks, Gets, Kept0, HeldIn

LEMMA ReadsGets ==
  ASSUME NEW d \in Devices, Reads(d)
  PROVE  Gets(prof, prof', d, prof.server[prof.dev[d].job.link.code].p.has) /\ Kept0(prof, prof')
BY Zenon DEF Reads, Session, SameWorld, Gets, Kept0, HeldIn

LEMMA QuitsGets ==
  ASSUME NEW d \in Devices, Quits(d)
  PROVE  Gets(prof, prof', d, {}) /\ Kept0(prof, prof')
BY Nothing DEF Quits, SameWorld, SameStore, Gets, Kept0, HeldIn

LEMMA MergedGets ==
  ASSUME NEW d \in Devices, HasMerged(d)
  PROVE  prof'.dev[d].has \subseteq HeldIn(prof, d) /\ prof'.erased[d] \subseteq HeldIn(prof, d)
         /\ Kept0(prof, prof')
BY DEF HasMerged, Merge3, SameWorld, Kept0, HeldIn

LEMMA GotAgreesGets ==
  ASSUME NEW d \in Devices, GotAgrees(d)
  PROVE  Gets(prof, prof', d, {}) /\ Kept0(prof, prof')
<1>1. /\ prof'.dev[d].has \subseteq HeldIn(prof, d) /\ prof'.erased[d] \subseteq HeldIn(prof, d)
      /\ Kept0(prof, prof')
  BY MergedGets DEF GotAgrees
<1>2. prof'.dev[d].link.base.has = prof.dev[d].job.got.has /\ prof'.dev[d].job = Idle
  BY DEF GotAgrees
<1>3. QED
  BY <1>1, <1>2, Nothing DEF Gets, HeldIn

LEMMA GotWritesGets ==
  ASSUME Setting, NEW d \in Devices, GotWrites(d)
  PROVE  Gets(prof, prof', d, {}) /\ Kept0(prof, prof')
<1>1. /\ prof'.dev[d].has \subseteq HeldIn(prof, d) /\ prof'.erased[d] \subseteq HeldIn(prof, d)
      /\ Kept0(prof, prof')
  BY MergedGets DEF GotWrites
<1>2. /\ prof'.dev[d].link = prof.dev[d].link /\ prof'.dev[d].job.got = prof.dev[d].job.got
      /\ prof'.dev[d].job.out = Pack(prof'.dev[d]) /\ prof'.dev[d] \in Devs
  BY DEF GotWrites, HasMerged
<1>3. prof'.dev[d].job.out.has \subseteq prof'.dev[d].has
  BY <1>2, PackIs
<1>4. QED
  BY <1>1, <1>2, <1>3 DEF Gets, HeldIn

LEMMA ServerWritesGets ==
  ASSUME NEW d \in Devices, ServerWrites(d)
  PROVE  /\ Gets(prof, prof', d, {})
         /\ \A c \in Codes : prof'.server[c].p.has \subseteq prof.server[c].p.has \cup HeldIn(prof, d)
<1>1. Gets(prof, prof', d, {})
  BY Zenon DEF ServerWrites, SameStore, Gets, HeldIn
<1>2. ASSUME NEW c \in Codes
      PROVE  prof'.server[c].p.has \subseteq prof.server[c].p.has \cup HeldIn(prof, d)
  <2>1. CASE c = prof.dev[d].job.link.code
    BY <2>1, Zenon DEF ServerWrites, HeldIn
  <2>2. CASE c # prof.dev[d].job.link.code
    BY <2>2, Zenon DEF ServerWrites
  <2>3. QED
    BY <2>1, <2>2
<1>3. QED
  BY <1>1, <1>2

LEMMA RestartsGets ==
  ASSUME NEW d \in Devices, Restarts(d)
  PROVE  Gets(prof, prof', d, {}) /\ Kept0(prof, prof')
BY ZenonT(30), Nothing DEF Restarts, Asks, SameWorld, SameStore, Gets, Kept0, HeldIn

LEMMA PutAgreesGets ==
  ASSUME NEW d \in Devices, PutAgrees(d)
  PROVE  Gets(prof, prof', d, {}) /\ Kept0(prof, prof')
BY ZenonT(30), Nothing DEF PutAgrees, AgreedIs0, SameWorld, SameStore, Gets, Kept0, HeldIn

LEMMA RemovesGets ==
  ASSUME NEW d \in Devices, Removes(d)
  PROVE  Kept0(prof, prof')
BY Nothing DEF Removes, Kept0

\* An entry that the step of d may bring to d, or to the server.
Reachable(d, e) ==
  e \in HeldIn(prof, d) \/ (\E c \in Codes : e \in prof.server[c].p.has) \/ (Adds(d) /\ e = prof.made + 1)

LEMMA StepGets ==
  ASSUME Setting, Typed, NEW d \in Devices, LinkSound(prof.dev[d]), Steps(d)
  PROVE  /\ \A e \in HeldIn(prof', d) : Reachable(d, e)
         /\ \A c \in Codes : \A e \in prof'.server[c].p.has : e \in prof.server[c].p.has \/ e \in HeldIn(prof, d)
<1> DEFINE Goal == /\ \A e \in HeldIn(prof', d) : Reachable(d, e)
                   /\ \A c \in Codes : \A e \in prof'.server[c].p.has :
                        e \in prof.server[c].p.has \/ e \in HeldIn(prof, d)
<1>1. ASSUME Gets(prof, prof', d, {}), Kept0(prof, prof') PROVE Goal
  BY <1>1 DEF Gets, Kept0, Reachable
<1>2. CASE Adds(d)
  BY <1>2, AddsGets DEF Gets, Kept0, Reachable
<1>3. CASE \E e \in Entries : Erases(d, e)
  BY <1>3, <1>1, ErasesGets
<1>4. CASE Renames(d)
  BY <1>4, <1>1, RenamesGets
<1>5. CASE Unlinks(d)
  <2>1. DropsLink(d) /\ Kept0(prof, prof')
    BY <1>5 DEF Unlinks, SameWorld, Kept0
  <2>2. QED
    BY <2>1, <1>1, UnlinksGets
<1>6. CASE Syncs(d)
  BY <1>6, <1>1, SyncsGets
<1>7. CASE \E c \in Codes, make \in BOOLEAN : StartsCode(d, c, make)
  BY <1>7, <1>1, StartsCodeGets
<1>8. CASE Reads(d)
  <2>1. prof.dev[d].job.link.code \in Codes
    BY <1>8 DEF Reads, LinkSound
  <2>2. QED
    BY <1>8, <2>1, ReadsGets DEF Gets, Kept0, Reachable
<1>9. CASE Quits(d)
  BY <1>9, <1>1, QuitsGets
<1>10. CASE GotAgrees(d)
  BY <1>10, <1>1, GotAgreesGets
<1>11. CASE GotWrites(d)
  BY <1>11, <1>1, GotWritesGets
<1>12. CASE ServerWrites(d)
  BY <1>12, ServerWritesGets DEF Gets, Reachable
<1>13. CASE Restarts(d)
  BY <1>13, <1>1, RestartsGets
<1>14. CASE PutAgrees(d)
  BY <1>14, <1>1, PutAgreesGets
<1>15. CASE Requests(d)
  <2>1. Gets(prof, prof', d, {}) /\ Kept0(prof, prof')
    BY <1>15 DEF Requests, Gets, Kept0, HeldIn
  <2>2. QED
    BY <2>1, <1>1
<1>16. CASE Removes(d) /\ (Unheard \/ DropsLink(d))
  <2>1. CASE Unheard
    <3>1. Gets(prof, prof', d, {})
      BY <2>1 DEF Unheard, Gets, HeldIn
    <3>2. QED
      BY <3>1, <1>16, <1>1, RemovesGets
  <2>2. CASE DropsLink(d)
    BY <2>2, <1>16, <1>1, RemovesGets, UnlinksGets
  <2>3. QED
    BY <1>16, <2>1, <2>2
<1>17. QED
  BY <1>2, <1>3, <1>4, <1>5, <1>6, <1>7, <1>8, <1>9, <1>10, <1>11, <1>12, <1>13, <1>14, <1>15, <1>16 DEF Steps

\* Every step is a step of one device.
LEMMA StepAside ==
  ASSUME NEW d \in Devices, Steps(d)
  PROVE  /\ Aside(prof, prof', d) /\ prof'.life = prof.life
         /\ IF Adds(d) THEN prof'.made = prof.made + 1 /\ prof'.made <= prof.life.entries
            ELSE prof'.made = prof.made /\ prof'.maker = prof.maker
<1> DEFINE Goal == Aside(prof, prof', d) /\ prof'.life = prof.life /\ prof'.made = prof.made /\ prof'.maker = prof.maker
<1>1. CASE Adds(d)
  BY <1>1 DEF Adds
<1>2. CASE \E e \in Entries : Erases(d, e)
  <2>1. Goal
    BY <1>2 DEF Erases
  <2>2. QED
    BY <1>1, <2>1
<1>3. CASE Renames(d) \/ Unlinks(d) \/ Syncs(d) \/ Reads(d) \/ Quits(d)
  <2>1. Goal
    BY <1>3, Zenon DEF Renames, Unlinks, DropsLink, Syncs, Session, Reads, Quits, SameWorld
  <2>2. QED
    BY <1>1, <2>1
<1>4. CASE \E c \in Codes, make \in BOOLEAN : StartsCode(d, c, make)
  <2>1. Goal
    BY <1>4 DEF StartsCode
  <2>2. QED
    BY <1>1, <2>1
<1>5. CASE GotAgrees(d) \/ GotWrites(d)
  <2>1. HasMerged(d)
    BY <1>5 DEF GotAgrees, GotWrites
  <2>2. Goal
    BY <2>1 DEF HasMerged, SameWorld
  <2>3. QED
    BY <1>1, <2>2
<1>6. CASE ServerWrites(d) \/ Restarts(d) \/ PutAgrees(d)
  <2>1. Goal
    BY <1>6, Zenon DEF ServerWrites, Restarts, PutAgrees, SameWorld
  <2>2. QED
    BY <1>1, <2>1
<1>7. CASE Requests(d) \/ (Removes(d) /\ (Unheard \/ DropsLink(d)))
  <2>1. Goal
    BY <1>7 DEF Requests, Removes, Unheard, DropsLink, Aside
  <2>2. QED
    BY <1>1, <2>1
<1>8. QED
  BY <1>1, <1>2, <1>3, <1>4, <1>5, <1>6, <1>7 DEF Steps

LEMMA HeldAreMade ==
  ASSUME NEW f \in Devices
  PROVE  DevMade(f) <=> \A e \in HeldIn(prof, f) : e <= prof.made
BY DEF DevMade, Made, HeldIn

LEMMA StepTyped ==
  ASSUME Setting, Typed, Stored(prof'), NEW d \in Devices, LinkSound(prof.dev[d]), Steps(d)
  PROVE  Typed'
<1>1. /\ \A f \in Devices : \A e \in HeldIn(prof, f) : e <= prof.made
      /\ \A c \in Codes : \A e \in prof.server[c].p.has : e <= prof.made
      /\ prof.made <= prof.life.entries /\ prof.made \in Nat /\ prof'.made \in Nat
  BY HeldAreMade DEF Typed, AllMade, Made, Stored, Fields
<1>2. /\ Aside(prof, prof', d) /\ prof'.life = prof.life
      /\ IF Adds(d) THEN prof'.made = prof.made + 1 /\ prof'.made <= prof.life.entries
         ELSE prof'.made = prof.made /\ prof'.maker = prof.maker
  BY StepAside
<1>3. /\ \A e \in HeldIn(prof', d) : Reachable(d, e)
      /\ \A c \in Codes : \A e \in prof'.server[c].p.has : e \in prof.server[c].p.has \/ e \in HeldIn(prof, d)
  BY StepGets
<1>4. /\ \A f \in Devices : HeldIn(prof, f) \subseteq Nat
      /\ \A c \in Codes : prof.server[c].p.has \subseteq Nat
  <2>1. Entries \subseteq Nat /\ Stored(prof)
    BY DEF Typed, Setting
  <2>2. ASSUME NEW f \in Devices PROVE HeldIn(prof, f) \subseteq Entries
    BY <2>1, ZenonT(30) DEF Stored, Fields, HeldIn, Devs, Links, Bases, Jobs, Profiles
  <2>3. ASSUME NEW c \in Codes PROVE prof.server[c].p.has \subseteq Entries
    BY <2>1 DEF Stored, Fields, Kept, Profiles
  <2>4. QED
    BY <2>1, <2>2, <2>3
<1>5. prof.made <= prof'.made
  BY <1>1, <1>2
<1>6. ASSUME NEW f \in Devices, NEW e \in HeldIn(prof', f) PROVE e <= prof'.made
  <2>1. CASE f = d
    <3>1. CASE e \in HeldIn(prof, d) \/ (\E c \in Codes : e \in prof.server[c].p.has)
      <4>1. e <= prof.made /\ e \in Nat
        BY <3>1, <1>1, <1>4
      <4>2. QED
        BY <4>1, <1>1, <1>5
    <3>2. CASE Adds(d) /\ e = prof.made + 1
      BY <3>2, <1>1, <1>2
    <3>3. QED
      BY <2>1, <1>3, <1>6, <3>1, <3>2 DEF Reachable
  <2>2. CASE f # d
    <3>1. HeldIn(prof', f) = HeldIn(prof, f)
      BY <2>2, <1>2, ElseStays
    <3>2. e <= prof.made /\ e \in Nat
      BY <3>1, <1>6, <1>1, <1>4
    <3>3. QED
      BY <3>2, <1>1, <1>5
  <2>3. QED
    BY <2>1, <2>2
<1>7. ASSUME NEW c \in Codes, NEW e \in prof'.server[c].p.has PROVE e <= prof'.made
  <2>1. e <= prof.made /\ e \in Nat
    BY <1>1, <1>3, <1>4, <1>7
  <2>2. QED
    BY <2>1, <1>1, <1>5
<1>8. \A f \in Devices : DevMade(f)'
  BY <1>6 DEF DevMade, Made, HeldIn
<1>9. \A c \in Codes : Made(prof.server[c].p.has)'
  BY <1>7 DEF Made
<1>10. prof'.made <= prof'.life.entries
  BY <1>1, <1>2
<1>11. QED
  BY <1>8, <1>9, <1>10 DEF Typed, AllMade

-----------------------------------------------------------------------------
(* The server's profiles only move on. *)

Advances(a, b) ==
  \/ b = a
  \/ b.there # "none" /\ a.rev < b.rev
  \/ b.there = "gone" /\ a.there = "gone" /\ b.rev = a.rev /\ b.p = NoProfile

LEMMA AdvanceKeepsRevisions ==
  ASSUME NEW a \in Kept, NEW b \in Kept, Advances(a, b), NEW r \in Nat, NEW nick, NEW has,
         IsRevision(a, r, nick, has)
  PROVE  IsRevision(b, r, nick, has)
<1>1. a.rev \in Nat /\ b.rev \in Nat
  BY DEF Kept
<1>2. QED
  BY <1>1 DEF Advances, IsRevision

\* The writes of a new code's first sync.
Opens(d, c) == ServerWrites(d) /\ c = prof.dev[d].job.link.code /\ Making(prof.dev[d].job.link)

LEMMA WrittenOver ==
  ASSUME Typed, Codes0, NEW d \in Devices, ServerWrites(d)
  PROVE  LET j == prof.dev[d].job
             at == prof.server[j.link.code]
             w == prof'.server[j.link.code]
         IN /\ j.link.code \in prof.coded /\ j.link.code \in Codes
            /\ prof'.dev[d].job.answer = "ok" => /\ w.there = "there" /\ w.rev = at.rev + 1 /\ w.p = j.out
                                                 /\ Making(j.link) => Unwritten(j.link.code)
                                                 /\ ~Making(j.link) => at.there = "there" /\ j.there = "there"
            /\ prof'.dev[d].job.answer # "ok" => w = at /\ ~Making(j.link)
<1> DEFINE j == prof.dev[d].job
           c == j.link.code
           at == prof.server[c]
           w == prof'.server[c]
<1>1. /\ j.at = "put" /\ prof'.dev[d].job.answer = (IF at.there = "gone" /\ j.link.base.set THEN "gone"
                                                     ELSE IF at.rev # j.rev THEN "stale" ELSE "ok")
      /\ IF prof'.dev[d].job.answer = "ok" THEN w.there = "there" /\ w.rev = at.rev + 1 /\ w.p = j.out ELSE w = at
  BY Zenon DEF ServerWrites
<1>2. c \in Codes
  BY <1>1, Zenon DEF Codes0, LinkSound
<1>3. LinkKnown(prof.dev[d]) /\ JobKnown(prof.dev[d]) /\ ServerSound(c)
  BY <1>2 DEF Codes0
<1>4. Making(j.link) => Unwritten(c) /\ j.rev = 0 /\ j.there = "none"
  BY <1>1, <1>3, Zenon DEF LinkKnown, JobKnown
<1>5. ~Making(j.link) => j.there = "there" /\ IsRevision(at, j.rev, j.got.nick, j.got.has)
  BY <1>1, <1>3, Zenon DEF JobKnown
<1>6. Making(j.link) => at.there = "none" /\ at.rev = 0
  BY <1>4 DEF Unwritten
<1>7. Making(j.link) => prof'.dev[d].job.answer = "ok"
  BY <1>1, <1>4, <1>6, Zenon
<1>8. c \in prof.coded
  <2>1. CASE Making(j.link)
    BY <2>1 DEF Codes0, CodeIsOnes, Making
  <2>2. CASE ~Making(j.link)
    BY <2>2, <1>5, <1>3, Zenon DEF IsRevision, ServerSound
  <2>3. QED
    BY <2>1, <2>2
<1>9. prof'.dev[d].job.answer = "ok" /\ ~Making(j.link) => at.there = "there"
  BY <1>1, <1>5, Zenon DEF IsRevision
<1>10. QED
  BY <1>1, <1>2, <1>4, <1>5, <1>7, <1>8, <1>9, Zenon

LEMMA ServerMoves ==
  ASSUME NEW d \in Devices, Steps(d)
  PROVE  prof'.server = prof.server \/ ServerWrites(d) \/ Removes(d)
<1>1. CASE Adds(d) \/ (\E e \in Entries : Erases(d, e))
  BY <1>1 DEF Adds, Erases, SameServer
<1>2. CASE Renames(d) \/ Unlinks(d) \/ Syncs(d) \/ Reads(d) \/ Quits(d)
  BY <1>2, Zenon DEF Renames, Unlinks, Syncs, Session, Reads, Quits, SameWorld
<1>3. CASE \E k \in Codes, make \in BOOLEAN : StartsCode(d, k, make)
  BY <1>3 DEF StartsCode
<1>4. CASE GotAgrees(d) \/ GotWrites(d) \/ Restarts(d) \/ PutAgrees(d)
  BY <1>4, Zenon DEF GotAgrees, GotWrites, HasMerged, Restarts, PutAgrees, SameWorld
<1>5. CASE Requests(d)
  BY <1>5 DEF Requests
<1>6. QED
  BY <1>1, <1>2, <1>3, <1>4, <1>5 DEF Steps

LEMMA StepAdvances ==
  ASSUME Setting, Typed, Codes0, Stored(prof'), NEW d \in Devices, Steps(d), NEW c \in Codes
  PROVE  /\ Advances(prof.server[c], prof'.server[c])
         /\ prof'.server[c] # prof.server[c] => prof.server[c].there # "none" \/ Opens(d, c)
<1>1. prof.server[c] \in Kept /\ prof.server[c].rev \in Nat /\ ServerSound(c)
  BY DEF Typed, Stored, Fields, Kept, Codes0
<1>2. CASE prof'.server = prof.server
  BY <1>2 DEF Advances
<1>3. CASE ServerWrites(d)
  <2>1. CASE c = prof.dev[d].job.link.code /\ prof'.dev[d].job.answer = "ok"
    <3>1. prof'.server[c].there = "there" /\ prof'.server[c].rev = prof.server[c].rev + 1
      BY <2>1, <1>3, WrittenOver, Zenon
    <3>2. ~Making(prof.dev[d].job.link) => prof.server[c].there = "there"
      BY <2>1, <1>3, WrittenOver, Zenon
    <3>3. prof.server[c].rev < prof'.server[c].rev
      BY <3>1, <1>1
    <3>4. Advances(prof.server[c], prof'.server[c])
      BY <3>1, <3>3 DEF Advances
    <3>5. prof.server[c].there # "none" \/ Opens(d, c)
      BY <3>2, <2>1, <1>3 DEF Opens
    <3>6. QED
      BY <3>4, <3>5
  <2>2. CASE ~(c = prof.dev[d].job.link.code /\ prof'.dev[d].job.answer = "ok")
    <3>1. prof'.server[c] = prof.server[c]
      BY <2>2, <1>3, Zenon DEF ServerWrites
    <3>2. QED
      BY <3>1 DEF Advances
  <2>3. QED
    BY <2>1, <2>2
<1>4. CASE Removes(d)
  <2>1. CASE c = prof.deleting[d]
    <3>1. prof.server[c].there # "none"
      BY <2>1, <1>4 DEF Removes, Codes0, Setting
    <3>2. /\ prof'.server[c].there = "gone" /\ prof'.server[c].p = NoProfile
          /\ prof'.server[c].rev = IF prof.server[c].there = "gone" THEN prof.server[c].rev
                                   ELSE prof.server[c].rev + 1
      BY <2>1, <1>4 DEF Removes
    <3>3. Advances(prof.server[c], prof'.server[c])
      BY <3>2, <1>1 DEF Advances
    <3>4. QED
      BY <3>1, <3>3
  <2>2. CASE c # prof.deleting[d]
    BY <2>2, <1>4 DEF Removes, Advances
  <2>3. QED
    BY <2>1, <2>2
<1>5. prof'.server = prof.server \/ ServerWrites(d) \/ Removes(d)
  BY ServerMoves
<1>6. QED
  BY <1>2, <1>3, <1>4, <1>5

\* What was not gone and is not written stays.
LEMMA UnwrittenStays ==
  ASSUME Setting, Typed, Codes0, Stored(prof'), NEW d \in Devices, Steps(d), NEW c \in Codes, Unwritten(c), ~Opens(d, c)
  PROVE  Unwritten(c)'
<1>1. prof.server[c].there = "none"
  BY DEF Unwritten
<1>2. prof'.server[c] = prof.server[c]
  BY <1>1, StepAdvances
<1>3. QED
  BY <1>2 DEF Unwritten

-----------------------------------------------------------------------------
(* Links stay sound. *)

LEMMA StepLinkSound ==
  ASSUME Setting, Typed, Stored(prof'), NEW d \in Devices, LinkSound(prof.dev[d]), Steps(d)
  PROVE  LinkSound(prof'.dev[d])
<1> DEFINE s == prof.dev[d]
           t == prof'.dev[d]
<1>1. /\ s.serial \in Nat /\ s.link.serial \in Nat /\ s.job.link.serial \in Nat /\ t.serial \in Nat
      /\ s.job.link.code \in Codes \cup {0} /\ s.link.code \in Codes \cup {0}
  BY Zenon DEF Typed, Stored, Fields, Devs, Jobs, Links
<1>2. /\ Idle.at = "no" /\ Idle.link = NoLink /\ NoLink.base = NoBase /\ ~NoBase.set
      /\ NoLink.code = 0 /\ NoLink.serial = 0 /\ 0 \notin Codes
  BY Nothing DEF Setting
<1>3. CASE t.link = s.link /\ t.job = s.job /\ t.waits = s.waits /\ t.serial = s.serial
  BY <1>3 DEF LinkSound, Linked
<1>4. CASE t.link = NoLink /\ (t.job = s.job \/ t.job = Idle) /\ t.serial = s.serial
  BY <1>4, <1>1, <1>2 DEF LinkSound, Linked
<1>5. CASE Adds(d) \/ (\E e \in Entries : Erases(d, e)) \/ Renames(d)
  <2>1. t.link = s.link /\ t.job = s.job /\ t.waits = s.waits /\ t.serial = s.serial
    BY <1>5 DEF Adds, Erases, Renames, SameSession
  <2>2. QED
    BY <2>1, <1>3
<1>6. CASE DropsLink(d)
  <2>1. t.link = NoLink /\ t.job = s.job /\ t.serial = s.serial
    BY <1>6, Zenon DEF DropsLink, GoesOff, SameStore
  <2>2. QED
    BY <2>1, <1>4
<1>7. CASE Syncs(d)
  <2>1. /\ t.link = s.link /\ t.serial = s.serial /\ t.waits = s.waits /\ Linked(s)
        /\ t.job.at = "get" /\ t.job.link = t.link
    BY <1>7 DEF Syncs, Asks
  <2>2. QED
    BY <2>1 DEF LinkSound, Linked
<1>8. ASSUME NEW c \in Codes, NEW make \in BOOLEAN, StartsCode(d, c, make)
      PROVE  LinkSound(t)
  <2>1. /\ t.serial = s.serial + 1 /\ t.waits /\ t.link.code = c /\ t.link.serial = s.serial + 1
        /\ t.link.base = NoBase
        /\ IF s.job = Idle THEN t.job.at = "get" /\ t.job.link = t.link ELSE t.job = s.job
    BY <1>8 DEF StartsCode, Asks
  <2>2. CASE s.job = Idle
    BY <2>1, <2>2, <1>1 DEF LinkSound, Linked
  <2>3. CASE s.job # Idle
    <3>1. t.link.serial <= t.serial /\ t.job.link.serial <= t.serial
      BY <2>1, <2>3, <1>1 DEF LinkSound
    <3>2. QED
      BY <2>1, <2>3, <3>1 DEF LinkSound
  <2>4. QED
    BY <2>2, <2>3
<1>9. CASE Reads(d) \/ ServerWrites(d) \/ GotWrites(d)
  <2>1. /\ t.link = s.link /\ t.serial = s.serial /\ t.waits = s.waits
        /\ s.job.at # "no" /\ t.job.at # "no" /\ t.job.link = s.job.link
    BY <1>9, Zenon DEF Reads, ServerWrites, SameStore, GotWrites, HasMerged
  <2>2. QED
    BY <2>1 DEF LinkSound, Linked
<1>10. CASE Quits(d)
  <2>0. t.job = Idle /\ SameStore(s, t) /\ (t.link = NoLink \/ (t.link = s.link /\ ~s.waits))
    BY <1>10 DEF Quits
  <2>1. /\ t.serial = s.serial /\ t.job = Idle
        /\ t.link = NoLink \/ (t.link = s.link /\ ~s.waits)
    BY <2>0 DEF SameStore
  <2>2. CASE t.link = NoLink
    BY <2>1, <2>2, <1>4
  <2>3. CASE t.link = s.link /\ ~s.waits
    BY <2>1, <2>3, <1>1, <1>2 DEF LinkSound, Linked
  <2>4. QED
    BY <2>1, <2>2, <2>3
<1>11. CASE GotAgrees(d) \/ PutAgrees(d)
  <2>1. /\ t.link.code = s.link.code /\ t.link.serial = s.link.serial /\ t.link.base.set
        /\ t.job = Idle /\ t.serial = s.serial /\ s.link = s.job.link /\ s.job.at # "no"
    BY <1>11, Zenon DEF GotAgrees, HasMerged, PutAgrees, AgreedIs0, SameStore
  <2>2. QED
    BY <2>1, <1>1, <1>2 DEF LinkSound, Linked
<1>12. CASE Restarts(d)
  <2>1. /\ t.link = s.link /\ t.serial = s.serial /\ t.waits = s.waits /\ s.link = s.job.link
        /\ s.job.at # "no" /\ t.job.at = "get" /\ t.job.link = t.link
    BY <1>12 DEF Restarts, SameStore, Asks
  <2>2. QED
    BY <2>1 DEF LinkSound, Linked
<1>13. CASE Requests(d) \/ Unheard
  <2>1. t = s
    BY <1>13 DEF Requests, Unheard
  <2>2. QED
    BY <2>1
<1>14. QED
  BY <1>5, <1>6, <1>7, <1>8, <1>9, <1>10, <1>11, <1>12, <1>13 DEF Steps, Unlinks

LEMMA StepServerSound ==
  ASSUME Setting, Typed, Codes0, Stored(prof'), NEW d \in Devices, Steps(d)
  PROVE  /\ prof.coded \subseteq prof'.coded
         /\ \A c \in Codes : ServerSound(c)'
<1>1. prof.coded \subseteq prof'.coded
  <2>1. CASE Adds(d) \/ (\E e \in Entries : Erases(d, e))
    BY <2>1 DEF Adds, Erases, SameServer
  <2>2. CASE Renames(d) \/ Unlinks(d) \/ Syncs(d) \/ Reads(d) \/ Quits(d)
    BY <2>2, Zenon DEF Renames, Unlinks, Syncs, Session, Reads, Quits, SameWorld
  <2>3. CASE \E k \in Codes, make \in BOOLEAN : StartsCode(d, k, make)
    BY <2>3 DEF StartsCode
  <2>4. CASE GotAgrees(d) \/ GotWrites(d) \/ Restarts(d) \/ PutAgrees(d)
    BY <2>4, Zenon DEF GotAgrees, GotWrites, HasMerged, Restarts, PutAgrees, SameWorld
  <2>5. CASE Requests(d) \/ ServerWrites(d) \/ Removes(d)
    BY <2>5, Zenon DEF Requests, ServerWrites, Removes
  <2>6. QED
    BY <2>1, <2>2, <2>3, <2>4, <2>5 DEF Steps
<1>2. Removes(d) \/ prof'.buried = prof.buried
  <2>1. CASE Adds(d) \/ (\E e \in Entries : Erases(d, e))
    BY <2>1 DEF Adds, Erases, SameServer
  <2>2. CASE Renames(d) \/ Unlinks(d) \/ Syncs(d) \/ Reads(d) \/ Quits(d)
    BY <2>2, Zenon DEF Renames, Unlinks, Syncs, Session, Reads, Quits, SameWorld
  <2>3. CASE \E k \in Codes, make \in BOOLEAN : StartsCode(d, k, make)
    BY <2>3 DEF StartsCode
  <2>4. CASE GotAgrees(d) \/ GotWrites(d) \/ Restarts(d) \/ PutAgrees(d)
    BY <2>4, Zenon DEF GotAgrees, GotWrites, HasMerged, Restarts, PutAgrees, SameWorld
  <2>5. CASE Requests(d) \/ ServerWrites(d)
    BY <2>5, Zenon DEF Requests, ServerWrites
  <2>6. QED
    BY <2>1, <2>2, <2>3, <2>4, <2>5 DEF Steps
<1>3. ASSUME NEW c \in Codes PROVE ServerSound(c)'
  <2>1. ServerSound(c)
    BY DEF Codes0
  <2>2. CASE prof'.server[c] = prof.server[c] /\ (c \in prof'.buried => c \in prof.buried)
    BY <2>1, <2>2, <1>1 DEF ServerSound, Unwritten
  <2>3. CASE Removes(d)
    <3>1. CASE c = prof.deleting[d]
      <4>1. prof.server[c].there # "none"
        BY <3>1, <2>3 DEF Removes, Codes0, Setting
      <4>2. c \in prof'.coded /\ prof'.server[c].there = "gone" /\ prof'.server[c].p = NoProfile
        BY <4>1, <3>1, <2>1, <2>3, <1>1 DEF Removes, ServerSound
      <4>3. QED
        BY <4>2 DEF ServerSound
    <3>2. CASE c # prof.deleting[d]
      BY <3>2, <2>3, <2>2 DEF Removes
    <3>3. QED
      BY <3>1, <3>2
  <2>4. CASE ServerWrites(d) /\ prof'.buried = prof.buried
    <3>1. CASE c = prof.dev[d].job.link.code /\ prof'.dev[d].job.answer = "ok"
      <4>1. prof'.server[c].there = "there" /\ c \in prof.coded
        BY <3>1, <2>4, WrittenOver, Zenon
      <4>2. prof.server[c].there = "there" \/ Unwritten(c)
        BY <3>1, <2>4, WrittenOver, Zenon
      <4>3. c \notin prof.buried
        BY <4>2, <2>1 DEF ServerSound, Unwritten
      <4>4. QED
        BY <4>1, <4>3, <2>4, <1>1 DEF ServerSound
    <3>2. CASE ~(c = prof.dev[d].job.link.code /\ prof'.dev[d].job.answer = "ok")
      BY <3>2, <2>4, <2>2, Zenon DEF ServerWrites
    <3>3. QED
      BY <3>1, <3>2
  <2>5. CASE ~Removes(d) /\ ~ServerWrites(d)
    <3>1. prof'.buried = prof.buried
      BY <2>5, <1>2
    <3>2. prof'.server[c] = prof.server[c]
      BY <2>5, ServerMoves
    <3>3. QED
      BY <3>1, <3>2, <2>2
  <2>6. QED
    BY <2>3, <2>4, <2>5, <1>2
<1>4. QED
  BY <1>1, <1>3

-----------------------------------------------------------------------------
(* A new code is the code of one link. *)

LinksOf(p, d) == {p.dev[d].link, p.dev[d].job.link}

\* What the step of d may do to its own links.
LinksCarry(d) ==
  /\ \A m \in LinksOf(prof', d) : m.make =>
       \/ \E l \in LinksOf(prof, d) : l.make /\ l.code = m.code
       \/ m.code \notin prof.coded /\ m.code \in prof'.coded
  /\ \A m, n \in LinksOf(prof', d) : m.make /\ n.make /\ m.code = n.code => m = n

LEMMA StepLinks ==
  ASSUME Typed, Codes0, NEW d \in Devices, Steps(d)
  PROVE  LinksCarry(d)
<1> DEFINE s == prof.dev[d]
           t == prof'.dev[d]
<1>1. /\ \A l \in LinksOf(prof, d) : l.make => l.code \in prof.coded
      /\ \A l, m \in LinksOf(prof, d) : l.make /\ m.make /\ l.code = m.code => l = m
      /\ Idle.link = NoLink /\ ~NoLink.make
  BY Nothing DEF Codes0, CodeIsOnes, LinksOf
<1>2. ASSUME LinksOf(prof', d) \subseteq LinksOf(prof, d) \cup {NoLink}
      PROVE  LinksCarry(d)
  BY <1>2, <1>1 DEF LinksCarry
<1>3. CASE Adds(d) \/ (\E e \in Entries : Erases(d, e)) \/ Renames(d)
  <2>1. t.link = s.link /\ t.job = s.job
    BY <1>3 DEF Adds, Erases, Renames, SameSession
  <2>2. QED
    BY <2>1, <1>2 DEF LinksOf
<1>4. CASE DropsLink(d)
  <2>1. t.link = NoLink /\ t.job = s.job
    BY <1>4, Zenon DEF DropsLink, GoesOff
  <2>2. QED
    BY <2>1, <1>2 DEF LinksOf
<1>5. CASE Syncs(d) \/ Restarts(d)
  <2>1. t.link = s.link /\ t.job.link = t.link
    BY <1>5 DEF Syncs, Restarts, Asks
  <2>2. QED
    BY <2>1, <1>2 DEF LinksOf
<1>6. ASSUME NEW c \in Codes, NEW make \in BOOLEAN, StartsCode(d, c, make)
      PROVE  LinksCarry(d)
  <2>1. /\ t.link.code = c /\ t.link.make = make /\ (make => c \notin prof.coded)
        /\ make => c \in prof'.coded
        /\ t.job.link = t.link \/ t.job = s.job
    BY <1>6 DEF StartsCode, Asks
  <2>2. CASE t.job.link = t.link
    BY <2>1, <2>2 DEF LinksCarry, LinksOf
  <2>3. CASE t.job = s.job
    <3>1. LinksOf(prof', d) = {t.link, s.job.link} /\ s.job.link \in LinksOf(prof, d)
      BY <2>3 DEF LinksOf
    <3>2. s.job.link.make => s.job.link.code \in prof.coded
      BY <3>1, <1>1
    <3>3. QED
      BY <3>1, <3>2, <2>1 DEF LinksCarry
  <2>4. QED
    BY <2>1, <2>2, <2>3
<1>7. CASE Reads(d) \/ ServerWrites(d) \/ GotWrites(d)
  <2>1. t.link = s.link /\ t.job.link = s.job.link
    BY <1>7, Zenon DEF Reads, ServerWrites, GotWrites
  <2>2. QED
    BY <2>1, <1>2 DEF LinksOf
<1>8. CASE Quits(d)
  <2>1. t.job = Idle /\ (t.link = NoLink \/ t.link = s.link)
    BY <1>8 DEF Quits
  <2>2. QED
    BY <2>1, <1>1, <1>2 DEF LinksOf
<1>9. CASE GotAgrees(d) \/ PutAgrees(d)
  <2>1. t.link.code = s.link.code /\ t.link.make = s.link.make /\ t.job.link = NoLink
    BY <1>9, <1>1 DEF GotAgrees, PutAgrees, AgreedIs0
  <2>2. QED
    BY <2>1, <1>1 DEF LinksCarry, LinksOf
<1>10. CASE Requests(d) \/ Unheard
  <2>1. t = s
    BY <1>10 DEF Requests, Unheard
  <2>2. QED
    BY <2>1, <1>2 DEF LinksOf
<1>11. QED
  BY <1>3, <1>4, <1>5, <1>6, <1>7, <1>8, <1>9, <1>10 DEF Steps, Unlinks

LEMMA StepCodeIsOnes ==
  ASSUME Setting, Typed, Codes0, Stored(prof'), NEW d \in Devices, Steps(d)
  PROVE  CodeIsOnes'
<1>1. /\ \A f \in Devices : \A l \in LinksOf(prof, f) : l.make => l.code \in prof.coded
      /\ \A f, g \in Devices : \A l \in LinksOf(prof, f), m \in LinksOf(prof, g) :
           l.make /\ m.make /\ l.code = m.code => f = g /\ l = m
  BY DEF Codes0, CodeIsOnes, LinksOf
<1>2. LinksCarry(d) /\ prof.coded \subseteq prof'.coded
  BY StepLinks, StepServerSound
<1>3. \A f \in Devices \ {d} : LinksOf(prof', f) = LinksOf(prof, f)
  BY StepAside DEF Aside, LinksOf
<1>4. \A f \in Devices : \A l \in LinksOf(prof', f) : l.make => l.code \in prof'.coded
  BY <1>1, <1>2, <1>3 DEF LinksCarry
<1>5. ASSUME NEW f \in Devices, NEW g \in Devices,
             NEW l \in LinksOf(prof', f), NEW m \in LinksOf(prof', g), l.make, m.make, l.code = m.code
      PROVE  f = g /\ l = m
  <2>1. CASE f = d /\ g = d
    BY <2>1, <1>2, <1>5 DEF LinksCarry
  <2>2. CASE f = d /\ g # d
    <3>1. m \in LinksOf(prof, g) /\ m.code \in prof.coded
      BY <2>2, <1>1, <1>3, <1>5
    <3>2. PICK k \in LinksOf(prof, d) : k.make /\ k.code = l.code
      BY <2>2, <3>1, <1>2, <1>5 DEF LinksCarry
    <3>3. QED
      BY <2>2, <3>1, <3>2, <1>1, <1>5
  <2>3. CASE f # d /\ g = d
    <3>1. l \in LinksOf(prof, f) /\ l.code \in prof.coded
      BY <2>3, <1>1, <1>3, <1>5
    <3>2. PICK k \in LinksOf(prof, d) : k.make /\ k.code = m.code
      BY <2>3, <3>1, <1>2, <1>5 DEF LinksCarry
    <3>3. QED
      BY <2>3, <3>1, <3>2, <1>1, <1>5
  <2>4. CASE f # d /\ g # d
    BY <2>4, <1>1, <1>3, <1>5
  <2>5. QED
    BY <2>1, <2>2, <2>3, <2>4
<1>6. QED
  BY <1>4, <1>5 DEF CodeIsOnes, LinksOf

-----------------------------------------------------------------------------
(* What the devices know of the server stays true. *)

\* Another device's link is not the one a new code is opened with.
LEMMA OpensAlone ==
  ASSUME Typed, Codes0, NEW d \in Devices, NEW f \in Devices, NEW c,
         Opens(d, c), NEW l \in LinksOf(prof, f), l.make, l.code = c
  PROVE  f = d /\ l = prof.dev[d].job.link
<1>1. prof.dev[d].job.link.make /\ prof.dev[d].job.link.code = c /\ prof.dev[d].job.link \in LinksOf(prof, d)
  BY DEF Opens, Making, LinksOf
<1>2. QED
  BY <1>1 DEF Codes0, CodeIsOnes, LinksOf

LEMMA ServerStillThere ==
  ASSUME Setting, Typed, Codes0, Stored(prof'), NEW d \in Devices, Steps(d), NEW c \in Codes
  PROVE  /\ prof.server[c].there # "none" => prof'.server[c].there # "none"
         /\ \A r \in Nat : \A n, h : IsRevision(prof.server[c], r, n, h) => IsRevision(prof'.server[c], r, n, h)
<1>1. prof.server[c] \in Kept /\ prof'.server[c] \in Kept
  BY DEF Typed, Stored, Fields
<1>2. Advances(prof.server[c], prof'.server[c])
  BY StepAdvances
<1>3. prof.server[c].there # "none" => prof'.server[c].there # "none"
  BY <1>2 DEF Advances
<1>4. QED
  BY <1>1, <1>2, <1>3, AdvanceKeepsRevisions

LEMMA KnowsStill ==
  ASSUME Setting, Typed, Codes0, Stored(prof'), NEW d \in Devices, Steps(d), NEW f \in Devices,
         f # d \/ ~ServerWrites(d),
         \/ prof'.dev[f].link = prof.dev[f].link /\ prof'.dev[f].job = prof.dev[f].job
         \/ prof'.dev[f].link = NoLink /\ prof'.dev[f].job \in {prof.dev[f].job, Idle}
         \/ prof'.dev[f].link = prof.dev[f].link /\ prof'.dev[f].job = Idle /\ ~prof.dev[f].waits
  PROVE  LinkKnown(prof.dev[f])' /\ JobKnown(prof.dev[f])'
<1> DEFINE s == prof.dev[f]
           t == prof'.dev[f]
<1>1. /\ t.link \in {s.link, NoLink} /\ t.job \in {s.job, Idle}
      /\ t.link = s.link /\ t.job # s.job => ~s.waits \/ s.link = NoLink
      /\ ~NoLink.make /\ ~NoLink.base.set /\ Idle.at = "no" /\ Idle.link = NoLink
  BY Nothing
<1>2. LinkKnown(s) /\ JobKnown(s) /\ LinkSound(s)
  BY DEF Codes0
<1>3. s.link.rev \in Nat /\ s.job.rev \in Nat /\ s.job.rev + 1 \in Nat
  <2>1. s \in Devs
    BY DEF Typed, Stored, Fields
  <2>2. s.link \in Links /\ s.job \in Jobs
    BY <2>1, Zenon DEF Devs
  <2>3. s.link.rev \in Nat /\ s.job.rev \in Nat
    BY <2>2 DEF Links, Jobs
  <2>4. QED
    BY <2>3
<1>4. s.link.make /\ s.link.code \in Codes => ~Opens(d, s.link.code)
  BY OpensAlone DEF LinksOf, Opens
<1>5. s.job.link.make /\ s.job.link.code \in Codes => ~Opens(d, s.job.link.code)
  BY OpensAlone DEF LinksOf, Opens
<1>6. \A c \in Codes : Unwritten(c) /\ ~Opens(d, c) => Unwritten(c)'
  BY UnwrittenStays
<1>7. s.link.make => s.link.code \in Codes
  BY <1>1, <1>2 DEF LinkSound, Linked
<1>8. s.job.link.make => s.job.link.code \in Codes
  BY <1>1, <1>2 DEF LinkSound
<1>9. LinkKnown(prof.dev[f])'
  <2>1. s.link.base.set => /\ s.link.code \in Codes
                           /\ IsRevision(prof'.server[s.link.code], s.link.rev, s.link.base.nick, s.link.base.has)
    BY <1>2, <1>3, ServerStillThere, Zenon DEF LinkKnown
  <2>2. s.job.link.base.set => s.job.link.code \in Codes /\ prof'.server[s.job.link.code].there # "none"
    BY ZenonT(30), <1>2, ServerStillThere DEF LinkKnown
  <2>3. Making(s.link) /\ ~(s.job.at = "put2" /\ s.job.link = s.link) =>
          prof'.server[s.link.code] = [there |-> "none", rev |-> 0, p |-> NoProfile]
    BY ZenonT(30), <1>2, <1>4, <1>6, <1>7 DEF LinkKnown, Making, Unwritten
  <2>4. Making(s.job.link) /\ s.job.at # "put2" =>
          prof'.server[s.job.link.code] = [there |-> "none", rev |-> 0, p |-> NoProfile]
    BY <1>2, <1>5, <1>6, <1>8 DEF LinkKnown, Making, Unwritten
  <2>5. Making(s.link) => s.waits
    BY <1>1, <1>2 DEF Making, LinkSound, Linked
  <2>6. t.link.base.set => /\ t.link.code \in Codes
                           /\ IsRevision(prof'.server[t.link.code], t.link.rev, t.link.base.nick, t.link.base.has)
    BY ZenonT(30), <2>1, <1>1
  <2>7. t.job.link.base.set => t.job.link.code \in Codes /\ prof'.server[t.job.link.code].there # "none"
    BY <2>2, <1>1
  <2>8. Making(t.link) /\ ~(t.job.at = "put2" /\ t.job.link = t.link) =>
          prof'.server[t.link.code] = [there |-> "none", rev |-> 0, p |-> NoProfile]
    BY <2>3, <2>5, <1>1 DEF Making
  <2>9. Making(t.job.link) /\ t.job.at # "put2" =>
          prof'.server[t.job.link.code] = [there |-> "none", rev |-> 0, p |-> NoProfile]
    BY <2>4, <1>1 DEF Making
  <2>10. QED
    BY <2>6, <2>7, <2>8, <2>9, Zenon DEF LinkKnown, Making, Unwritten
<1>10. JobKnown(prof.dev[f])'
  <2>1. s.job.at # "no" => s.job.link.code \in Codes
    BY <1>2 DEF LinkSound
  <2>2. s.job.at \in {"got", "put"} /\ s.job.there = "there" =>
          IsRevision(prof'.server[s.job.link.code], s.job.rev, s.job.got.nick, s.job.got.has)
    BY <1>2, <1>3, <2>1, ServerStillThere, Zenon DEF JobKnown
  <2>3. s.job.at = "put2" /\ s.job.answer = "ok" =>
          IsRevision(prof'.server[s.job.link.code], s.job.rev + 1, s.job.out.nick, s.job.out.has)
    BY <1>2, <1>3, <2>1, ServerStillThere, Zenon DEF JobKnown
  <2>4. CASE t.job = Idle
    BY ZenonT(30), <2>4, <1>1 DEF JobKnown
  <2>5. CASE t.job = s.job
    BY <2>5, <1>2, <2>2, <2>3 DEF JobKnown, Making
  <2>6. QED
    BY <2>4, <2>5, <1>1
<1>11. QED
  BY <1>9, <1>10
LEMMA IsRevisionNow ==
  ASSUME NEW at \in Kept, at.there = "there"
  PROVE  IsRevision(at, at.rev, at.p.nick, at.p.has)
BY DEF Kept, IsRevision

\* What a device with link l and job j knows of the server v.
KnownIn(v, l, j) ==
  /\ l.base.set => l.code \in Codes /\ IsRevision(v[l.code], l.rev, l.base.nick, l.base.has)
  /\ j.link.base.set => j.link.code \in Codes /\ v[j.link.code].there # "none"
  /\ Making(l) /\ ~(j.at = "put2" /\ j.link = l) =>
       v[l.code] = [there |-> "none", rev |-> 0, p |-> NoProfile]
  /\ Making(j.link) /\ j.at # "put2" =>
       v[j.link.code] = [there |-> "none", rev |-> 0, p |-> NoProfile]

LEMMA KnownIs ==
  ASSUME NEW d \in Devices
  PROVE  /\ LinkKnown(prof.dev[d]) <=> KnownIn(prof.server, prof.dev[d].link, prof.dev[d].job)
         /\ LinkKnown(prof.dev[d])' <=> KnownIn(prof'.server, prof'.dev[d].link, prof'.dev[d].job)
<1>1. LinkKnown(prof.dev[d]) <=> KnownIn(prof.server, prof.dev[d].link, prof.dev[d].job)
  BY DEF LinkKnown, KnownIn, Unwritten, Making
<1>2. QED
  BY DEF LinkKnown, KnownIn, Unwritten, Making

LEMMA AskerKnows ==
  ASSUME Typed, Codes0, NEW d \in Devices, Syncs(d) \/ Restarts(d)
  PROVE  LinkKnown(prof.dev[d])' /\ JobKnown(prof.dev[d])'
<1> DEFINE s == prof.dev[d]
           t == prof'.dev[d]
           v == prof.server
<1>1. t.link = s.link /\ t.job.at = "get" /\ t.job.link = s.link /\ prof'.server = v
  BY DEF Syncs, Session, Restarts, Asks, SameWorld
<1>2. KnownIn(v, s.link, s.job) /\ JobKnown(s)
  BY KnownIs DEF Codes0
<1>3. s.job.at = "put2" => s.job.link = s.link /\ s.job.answer = "stale"
  BY Nothing DEF Syncs, Restarts
<1>4. Making(s.link) => ~(s.job.at = "put2" /\ s.job.link = s.link)
  BY <1>2, <1>3 DEF JobKnown
<1>5. KnownIn(v, t.link, t.job)
  BY <1>1, <1>2, <1>4, Zenon DEF KnownIn, IsRevision
<1>6. QED
  BY <1>1, <1>5, KnownIs DEF JobKnown

LEMMA StarterKnows ==
  ASSUME Typed, Codes0, NEW d \in Devices, NEW c \in Codes, NEW make \in BOOLEAN, StartsCode(d, c, make)
  PROVE  LinkKnown(prof.dev[d])' /\ JobKnown(prof.dev[d])'
<1> DEFINE s == prof.dev[d]
           t == prof'.dev[d]
           v == prof.server
<1>1. /\ t.link.code = c /\ t.link.make = make /\ t.link.base = NoBase /\ ~NoBase.set /\ prof'.server = v
      /\ make => c \notin prof.coded
      /\ (t.job.at = "get" /\ t.job.link = t.link) \/ t.job = s.job
  BY Nothing DEF StartsCode, Asks
<1>2. KnownIn(v, s.link, s.job) /\ JobKnown(s) /\ ServerSound(c)
  BY KnownIs DEF Codes0
<1>3. Making(t.link) => v[c] = [there |-> "none", rev |-> 0, p |-> NoProfile]
  BY <1>1, <1>2 DEF Making, ServerSound, Unwritten
<1>4. CASE t.job.at = "get" /\ t.job.link = t.link
  <2>1. KnownIn(v, t.link, t.job)
    BY <1>1, <1>3, <1>4 DEF KnownIn
  <2>2. QED
    BY <1>1, <1>4, <2>1, KnownIs DEF JobKnown
<1>5. CASE t.job = s.job
  <2>1. KnownIn(v, t.link, t.job)
    BY ZenonT(30), <1>1, <1>2, <1>3, <1>5 DEF KnownIn
  <2>2. JobKnown(prof.dev[d])'
    BY ZenonT(30), <1>1, <1>2, <1>5 DEF JobKnown, Making
  <2>3. QED
    BY ZenonT(30), <1>1, <2>1, <2>2, KnownIs
<1>6. QED
  BY <1>1, <1>4, <1>5

LEMMA ReaderKnows ==
  ASSUME Typed, Codes0, NEW d \in Devices, Reads(d)
  PROVE  LinkKnown(prof.dev[d])' /\ JobKnown(prof.dev[d])'
<1> DEFINE s == prof.dev[d]
           t == prof'.dev[d]
           v == prof.server
           c == s.job.link.code
<1>1. /\ t.link = s.link /\ t.job.at = "got" /\ t.job.link = s.job.link /\ s.job.at = "get" /\ prof'.server = v
      /\ t.job.there = v[c].there /\ t.job.got = v[c].p /\ t.job.rev = v[c].rev
  BY DEF Reads, Session, SameWorld
<1>2. KnownIn(v, s.link, s.job) /\ LinkSound(s)
  BY KnownIs DEF Codes0
<1>3. c \in Codes
  BY <1>1, <1>2 DEF LinkSound
<1>4. ServerSound(c) /\ v[c] \in Kept
  BY <1>3 DEF Codes0, Typed, Stored, Fields
<1>5. KnownIn(v, t.link, t.job)
  BY <1>1, <1>2, Zenon DEF KnownIn
<1>6. v[c].there = "there" => IsRevision(v[c], v[c].rev, v[c].p.nick, v[c].p.has)
  BY <1>4, IsRevisionNow, Zenon
<1>7. v[c].there # "there" => v[c].p = NoProfile
  <2>1. v[c].there \in {"none", "there", "gone"}
    BY <1>4 DEF Kept
  <2>2. v[c].there = "none" => v[c] = [there |-> "none", rev |-> 0, p |-> NoProfile]
    BY ZenonT(30), <1>4 DEF ServerSound, Unwritten
  <2>3. v[c].there = "gone" => v[c].p = NoProfile
    BY <1>4 DEF ServerSound
  <2>4. ASSUME v[c].there = "none" PROVE v[c].p = NoProfile
    <3>1. v[c] = [there |-> "none", rev |-> 0, p |-> NoProfile]
      BY <2>2, <2>4
    <3>2. [there |-> "none", rev |-> 0, p |-> NoProfile].p = NoProfile
      OBVIOUS
    <3>3. QED
      BY <3>1, <3>2
  <2>5. QED
    BY <2>1, <2>3, <2>4, Zenon
<1>8. Making(s.job.link) => v[c].rev = 0 /\ v[c].there = "none"
  <2>1. Making(s.job.link) => v[c] = [there |-> "none", rev |-> 0, p |-> NoProfile]
    BY <1>1, <1>2, Zenon DEF KnownIn
  <2>2. QED
    BY SMTT(30), <2>1
<1>9. s.job.link.base.set => v[c].there # "none"
  BY <1>2 DEF KnownIn
<1>10. JobKnown(prof.dev[d])'
  BY <1>1, <1>6, <1>7, <1>8, <1>9, Zenon DEF JobKnown, Making
<1>11. QED
  BY <1>1, <1>5, <1>10, KnownIs

LEMMA GotKnows ==
  ASSUME Typed, Codes0, NEW d \in Devices, GotAgrees(d) \/ GotWrites(d)
  PROVE  LinkKnown(prof.dev[d])' /\ JobKnown(prof.dev[d])'
<1> DEFINE s == prof.dev[d]
           t == prof'.dev[d]
           v == prof.server
           j == s.job
<1>1. j.at = "got" /\ s.link = j.link /\ prof'.server = v
  BY Zenon DEF GotAgrees, GotWrites, HasMerged, SameWorld
<1>2. KnownIn(v, s.link, j) /\ JobKnown(s) /\ LinkSound(s)
  BY KnownIs DEF Codes0
<1>3. j.link.code \in Codes
  BY <1>1, <1>2 DEF LinkSound
<1>4. CASE GotAgrees(d)
  <2>1. /\ t.link.code = s.link.code /\ t.link.rev = j.rev /\ t.link.base.set /\ j.there = "there"
        /\ t.link.base.nick = j.got.nick /\ t.link.base.has = j.got.has /\ t.job = Idle
    BY <1>4 DEF GotAgrees
  <2>2. Idle.at = "no" /\ ~Idle.link.base.set /\ ~Idle.link.make
    BY Nothing
  <2>3. IsRevision(v[j.link.code], j.rev, j.got.nick, j.got.has)
    BY <2>1, <1>1, <1>2, Zenon DEF JobKnown
  <2>4. KnownIn(v, t.link, t.job)
    BY <2>1, <2>2, <2>3, <1>1, <1>3, Zenon DEF KnownIn, Making
  <2>5. QED
    BY <2>1, <2>2, <2>4, <1>1, KnownIs DEF JobKnown
<1>5. CASE GotWrites(d)
  <2>1. /\ t.link = s.link /\ t.job.at = "put" /\ t.job.link = j.link /\ t.job.got = j.got
        /\ t.job.there = j.there /\ t.job.rev = j.rev
        /\ ~(j.there = "gone" /\ s.link.base.set)
        /\ s.link.base.set \/ s.link.make \/ j.there = "there"
    BY <1>5 DEF GotWrites
  <2>2. KnownIn(v, t.link, t.job)
    BY <2>1, <1>1, <1>2, Zenon DEF KnownIn
  <2>3. s.job \in Jobs
    BY Zenon DEF Typed, Stored, Fields, Devs
  <2>4. j.there = "there" \/ Making(j.link)
    BY ZenonT(30), <2>1, <2>3, <1>1, <1>2 DEF JobKnown, Making, Jobs
  <2>5. JobKnown(prof.dev[d])'
    BY <2>1, <2>4, <1>1, <1>2 DEF JobKnown, Making
  <2>6. QED
    BY <2>2, <2>5, <1>1, KnownIs
<1>6. QED
  BY <1>4, <1>5

LEMMA WriterKnows ==
  ASSUME Setting, Typed, Codes0, Stored(prof'), NEW d \in Devices, Steps(d), ServerWrites(d)
  PROVE  LinkKnown(prof.dev[d])' /\ JobKnown(prof.dev[d])'
<1> DEFINE s == prof.dev[d]
           t == prof'.dev[d]
           v == prof.server
           j == s.job
           c == j.link.code
<1>1. /\ t.link = s.link /\ j.at = "put" /\ t.job.at = "put2" /\ t.job.link = j.link /\ t.job.out = j.out
      /\ t.job.rev = j.rev
      /\ t.job.answer = IF v[c].there = "gone" /\ j.link.base.set THEN "gone"
                        ELSE IF v[c].rev # j.rev THEN "stale" ELSE "ok"
  BY Zenon DEF ServerWrites
<1>2. KnownIn(v, s.link, j) /\ LinkSound(s)
  BY KnownIs DEF Codes0
<1>3. /\ c \in Codes /\ prof'.server[c] \in Kept /\ s.link.rev \in Nat
      /\ t.job.answer = "ok" => prof'.server[c].there = "there" /\ prof'.server[c].rev = v[c].rev + 1
                                /\ prof'.server[c].p = j.out
      /\ t.job.answer # "ok" => ~Making(j.link)
  BY WrittenOver, Zenon DEF Typed, Stored, Fields, Devs, Links
<1>4. s.link.base.set => /\ s.link.code \in Codes
                         /\ IsRevision(prof'.server[s.link.code], s.link.rev, s.link.base.nick, s.link.base.has)
  BY <1>2, <1>3, ServerStillThere, Zenon DEF KnownIn
<1>5. j.link.base.set => prof'.server[c].there # "none"
  BY <1>2, <1>3, ServerStillThere, Zenon DEF KnownIn
<1>6. ASSUME Making(s.link), s.link # j.link
      PROVE  prof'.server[s.link.code] = [there |-> "none", rev |-> 0, p |-> NoProfile]
  <2>1. s.link.code \in Codes
    BY <1>6, <1>2, Nothing DEF LinkSound, Linked, Making
  <2>2. ~Opens(d, s.link.code)
    BY <1>6, OpensAlone DEF LinksOf, Making
  <2>3. Unwritten(s.link.code)
    BY <1>1, <1>2, <1>6, Zenon DEF KnownIn, Unwritten
  <2>4. \A k \in Codes : Unwritten(k) /\ ~Opens(d, k) => Unwritten(k)'
    BY UnwrittenStays
  <2>5. QED
    BY <2>1, <2>2, <2>3, <2>4 DEF Unwritten
<1>7. KnownIn(prof'.server, t.link, t.job)
  BY <1>1, <1>3, <1>4, <1>5, <1>6, Zenon DEF KnownIn
<1>8. t.job.answer = "ok" => IsRevision(prof'.server[c], j.rev + 1, j.out.nick, j.out.has)
  BY <1>1, <1>3, IsRevisionNow, Zenon
<1>9. JobKnown(prof.dev[d])'
  BY <1>1, <1>3, <1>8, Zenon DEF JobKnown, Making
<1>10. QED
  BY <1>7, <1>9, KnownIs

LEMMA AgreerKnows ==
  ASSUME Typed, Codes0, NEW d \in Devices, PutAgrees(d)
  PROVE  LinkKnown(prof.dev[d])' /\ JobKnown(prof.dev[d])'
<1> DEFINE s == prof.dev[d]
           t == prof'.dev[d]
           v == prof.server
           j == s.job
<1>1. /\ j.at = "put2" /\ s.link = j.link /\ j.answer \notin {"stale", "gone"} /\ prof'.server = v
      /\ t.link.code = s.link.code /\ t.link.rev = j.rev + 1 /\ t.link.base.set
      /\ t.link.base.nick = j.out.nick /\ t.link.base.has = j.out.has /\ t.job = Idle
  BY DEF PutAgrees, AgreedIs0, SameWorld
<1>2. LinkSound(s) /\ JobKnown(s) /\ j \in Jobs
  BY Zenon DEF Codes0, Typed, Stored, Fields, Devs
<1>3. j.answer = "ok" /\ j.link.code \in Codes
  BY <1>1, <1>2 DEF JobKnown, LinkSound, Jobs
<1>4. IsRevision(v[j.link.code], j.rev + 1, j.out.nick, j.out.has)
  BY <1>1, <1>2, <1>3, Zenon DEF JobKnown
<1>5. Idle.at = "no" /\ ~Idle.link.base.set /\ ~Idle.link.make
  BY Nothing
<1>6. KnownIn(v, t.link, t.job)
  BY <1>1, <1>3, <1>4, <1>5, Zenon DEF KnownIn, Making
<1>7. QED
  BY <1>1, <1>5, <1>6, KnownIs DEF JobKnown

LEMMA StepKnown ==
  ASSUME Setting, Typed, Codes0, Stored(prof'), NEW d \in Devices, Steps(d), NEW f \in Devices
  PROVE  LinkKnown(prof.dev[f])' /\ JobKnown(prof.dev[f])'
<1> DEFINE s == prof.dev[d]
           t == prof'.dev[d]
           Goal == LinkKnown(prof.dev[d])' /\ JobKnown(prof.dev[d])'
<1>1. CASE f # d
  <2>1. prof'.dev[f] = prof.dev[f]
    BY <1>1, StepAside DEF Aside
  <2>2. QED
    BY <1>1, <2>1, KnowsStill
<1>2. ASSUME ~ServerWrites(d),
             \/ t.link = s.link /\ t.job = s.job
             \/ t.link = NoLink /\ t.job \in {s.job, Idle}
             \/ t.link = s.link /\ t.job = Idle /\ ~s.waits
      PROVE  Goal
  BY <1>2, KnowsStill
<1>3. ASSUME ServerWrites(d)
      PROVE  Goal
  BY <1>3, WriterKnows
<1>4. ASSUME (Adds(d) \/ (\E e \in Entries : Erases(d, e)) \/ Renames(d)) /\ ~ServerWrites(d)
      PROVE  Goal
  <2>1. t.link = s.link /\ t.job = s.job
    BY <1>4 DEF Adds, Erases, Renames, SameSession
  <2>2. QED
    BY <2>1, <1>2, <1>4
<1>5. ASSUME DropsLink(d) /\ ~ServerWrites(d)
      PROVE  Goal
  <2>1. t.link = NoLink /\ t.job = s.job
    BY <1>5, Zenon DEF DropsLink, GoesOff
  <2>2. QED
    BY <2>1, <1>2, <1>5
<1>6. ASSUME Quits(d) /\ ~ServerWrites(d)
      PROVE  Goal
  <2>1. t.job = Idle /\ (t.link = NoLink \/ (t.link = s.link /\ ~s.waits))
    BY <1>6 DEF Quits
  <2>2. QED
    BY <2>1, <1>2, <1>6
<1>7. ASSUME (Requests(d) \/ Unheard) /\ ~ServerWrites(d)
      PROVE  Goal
  <2>1. t = s
    BY <1>7 DEF Requests, Unheard
  <2>2. QED
    BY <2>1, <1>2, <1>7
<1>8. ASSUME Syncs(d) \/ Restarts(d)
      PROVE  Goal
  BY <1>8, AskerKnows
<1>9. ASSUME \E c \in Codes, make \in BOOLEAN : StartsCode(d, c, make)
      PROVE  Goal
  BY <1>9, StarterKnows
<1>10. ASSUME Reads(d)
      PROVE  Goal
  BY <1>10, ReaderKnows
<1>11. ASSUME GotAgrees(d) \/ GotWrites(d)
      PROVE  Goal
  BY <1>11, GotKnows
<1>12. ASSUME PutAgrees(d)
      PROVE  Goal
  BY <1>12, AgreerKnows
<1>13. Goal
  BY <1>3, <1>4, <1>5, <1>6, <1>7, <1>8, <1>9, <1>10, <1>11, <1>12 DEF Steps, Unlinks
<1>14. QED
  BY <1>1, <1>13

LEMMA StepDeleting ==
  ASSUME Setting, Typed, Codes0, Stored(prof'), NEW d \in Devices, Steps(d), NEW f \in Devices,
         prof'.deleting[f] # 0
  PROVE  prof'.server[prof'.deleting[f]].there # "none"
<1>1. prof'.deleting[f] \in Codes
  BY DEF Stored, Fields
<1>2. ASSUME prof'.deleting[f] = prof.deleting[f]
      PROVE  prof'.server[prof'.deleting[f]].there # "none"
  BY <1>1, <1>2, ServerStillThere DEF Codes0
<1>3. CASE Requests(d)
  <2>1. CASE f = d
    <3>1. prof'.deleting[f] = prof.dev[d].link.code /\ prof.dev[d].link.base.set /\ prof'.server = prof.server
      BY <1>3, <2>1 DEF Requests
    <3>2. LinkKnown(prof.dev[d])
      BY DEF Codes0
    <3>3. QED
      BY <3>1, <3>2 DEF LinkKnown, IsRevision
  <2>2. CASE f # d
    BY <1>3, <2>2, <1>2 DEF Requests
  <2>3. QED
    BY ZenonT(30), <2>1, <2>2
<1>4. CASE Removes(d)
  BY <1>4, <1>2 DEF Removes
<1>5. CASE Adds(d) \/ (\E e \in Entries : Erases(d, e))
  BY <1>5, <1>2 DEF Adds, Erases, SameServer
<1>6. CASE Renames(d) \/ Unlinks(d) \/ Syncs(d) \/ Reads(d) \/ Quits(d)
  BY <1>6, <1>2, Zenon DEF Renames, Unlinks, Syncs, Session, Reads, Quits, SameWorld
<1>7. CASE \E k \in Codes, make \in BOOLEAN : StartsCode(d, k, make)
  BY <1>7, <1>2 DEF StartsCode
<1>8. CASE GotAgrees(d) \/ GotWrites(d) \/ Restarts(d) \/ PutAgrees(d)
  BY <1>8, <1>2, Zenon DEF GotAgrees, GotWrites, HasMerged, Restarts, PutAgrees, SameWorld
<1>9. CASE ServerWrites(d)
  BY <1>9, <1>2, Zenon DEF ServerWrites
<1>10. QED
  BY <1>3, <1>4, <1>5, <1>6, <1>7, <1>8, <1>9 DEF Steps

LEMMA StepCodes ==
  ASSUME Setting, Typed, Codes0, Stored(prof'), NEW d \in Devices, Steps(d)
  PROVE  Codes0'
<1>1. ASSUME NEW f \in Devices PROVE LinkSound(prof'.dev[f])
  <2>1. LinkSound(prof.dev[f])
    BY DEF Codes0
  <2>2. CASE f = d
    BY <2>1, <2>2, StepLinkSound
  <2>3. CASE f # d
    BY <2>1, <2>3, StepAside DEF Aside
  <2>4. QED
    BY <2>2, <2>3
<1>2. \A c \in Codes : ServerSound(c)'
  BY StepServerSound
<1>3. CodeIsOnes'
  BY StepCodeIsOnes
<1>4. \A f \in Devices : LinkKnown(prof.dev[f])' /\ JobKnown(prof.dev[f])'
  BY StepKnown
<1>5. \A f \in Devices : prof'.deleting[f] # 0 => prof'.server[prof'.deleting[f]].there # "none"
  BY StepDeleting
<1>6. QED
  BY <1>1, <1>2, <1>3, <1>4, <1>5 DEF Codes0

-----------------------------------------------------------------------------
(* Photos stay on the device. *)

\* What travels from device d: its base and its job.
Travels(p, d) ==
  LET s == p.dev[d]
  IN s.link.base.has \cup s.job.got.has \cup s.job.out.has

LEMMA StepTravels ==
  ASSUME Setting, Typed, Codes0, Stored(prof'), NEW d \in Devices, Steps(d)
  PROVE  /\ \A e \in Travels(prof', d) :
              \/ e \in Travels(prof, d) \/ (\E c \in Codes : e \in prof.server[c].p.has)
              \/ GotWrites(d) /\ e \notin Photos /\ e \in prof'.dev[d].job.out.has
         /\ \A c \in Codes : \A e \in prof'.server[c].p.has :
              e \in prof.server[c].p.has \/ e \in Travels(prof, d)
<1> DEFINE s == prof.dev[d]
           t == prof'.dev[d]
           There(e) == \E c \in Codes : e \in prof.server[c].p.has
           Goal == \A e \in Travels(prof', d) :
                     \/ e \in Travels(prof, d) \/ There(e)
                     \/ GotWrites(d) /\ e \notin Photos /\ e \in prof'.dev[d].job.out.has
<1>1. /\ Idle.link = NoLink /\ Idle.got.has = {} /\ Idle.out.has = {} /\ NoLink.base.has = {}
      /\ NoProfile.has = {} /\ NoBase.has = {}
  BY Nothing
<1>2. ASSUME t.link.base.has \subseteq Travels(prof, d), t.job = s.job \/ t.job = Idle
      PROVE  Goal
  BY <1>1, <1>2 DEF Travels
<1>3. ASSUME Adds(d) \/ (\E e \in Entries : Erases(d, e)) \/ Renames(d)
      PROVE  Goal
  <2>1. t.link = s.link /\ t.job = s.job
    BY <1>3 DEF Adds, Erases, Renames, SameSession
  <2>2. QED
    BY <2>1, <1>2 DEF Travels
<1>4. ASSUME DropsLink(d)
      PROVE  Goal
  <2>1. t.link = NoLink /\ t.job = s.job
    BY <1>4, Zenon DEF DropsLink, GoesOff
  <2>2. QED
    BY <2>1, <1>1, <1>2
<1>5. ASSUME Quits(d)
      PROVE  Goal
  <2>1. t.job = Idle /\ (t.link = NoLink \/ t.link = s.link)
    BY <1>5 DEF Quits
  <2>2. QED
    BY <2>1, <1>1, <1>2 DEF Travels
<1>6. ASSUME Requests(d) \/ Unheard
      PROVE  Goal
  <2>1. t = s
    BY <1>6 DEF Requests, Unheard
  <2>2. QED
    BY <2>1, <1>2 DEF Travels
<1>7. ASSUME Syncs(d) \/ Restarts(d)
      PROVE  Goal
  BY <1>7, <1>1 DEF Syncs, Restarts, Asks, Travels
<1>8. ASSUME NEW c \in Codes, NEW make \in BOOLEAN, StartsCode(d, c, make)
      PROVE  Goal
  BY <1>8, <1>1 DEF StartsCode, Asks, Travels
<1>9. ASSUME Reads(d)
      PROVE  Goal
  <2>1. LinkSound(s)
    BY DEF Codes0
  <2>2. /\ t.link = s.link /\ t.job.out = s.job.out /\ s.job.at = "get"
        /\ t.job.got = prof.server[s.job.link.code].p
    BY <1>9 DEF Reads
  <2>3. s.job.link.code \in Codes
    BY <2>1, <2>2 DEF LinkSound
  <2>4. QED
    BY <2>2, <2>3, Zenon DEF Travels
<1>10. ASSUME GotAgrees(d)
      PROVE  Goal
  <2>1. t.link.base.has = s.job.got.has /\ t.job = Idle
    BY <1>10 DEF GotAgrees
  <2>2. QED
    BY <2>1, <1>2 DEF Travels
<1>11. ASSUME GotWrites(d)
      PROVE  Goal
  <2>1. t.link = s.link /\ t.job.got = s.job.got /\ t.job.out = Pack(t) /\ t \in Devs
    BY <1>11 DEF GotWrites, HasMerged
  <2>2. t.job.out.has \cap Photos = {}
    BY <2>1, PackIs
  <2>3. QED
    BY <2>1, <2>2, <1>11 DEF Travels
<1>12. ASSUME ServerWrites(d)
      PROVE  Goal
  BY <1>12, Zenon DEF ServerWrites, Travels
<1>13. ASSUME PutAgrees(d)
      PROVE  Goal
  <2>1. t.link.base.has = s.job.out.has /\ t.job = Idle
    BY <1>13 DEF PutAgrees, AgreedIs0
  <2>2. QED
    BY <2>1, <1>2 DEF Travels
<1>14. Goal
  BY <1>3, <1>4, <1>5, <1>6, <1>7, <1>8, <1>9, <1>10, <1>11, <1>12, <1>13 DEF Steps, Unlinks
<1>15. ASSUME NEW c \in Codes, NEW e \in prof'.server[c].p.has
       PROVE  e \in prof.server[c].p.has \/ e \in Travels(prof, d)
  <2>1. CASE prof'.server = prof.server
    BY <2>1, <1>15
  <2>2. CASE ServerWrites(d)
    <3>1. CASE c = s.job.link.code
      BY <3>1, <2>2, <1>15, Zenon DEF ServerWrites, Travels
    <3>2. CASE c # s.job.link.code
      BY <3>2, <2>2, <1>15, Zenon DEF ServerWrites
    <3>3. QED
      BY <3>1, <3>2
  <2>3. CASE Removes(d)
    BY <2>3, <1>15, <1>1 DEF Removes
  <2>4. QED
    BY <2>1, <2>2, <2>3, ServerMoves
<1>16. QED
  BY <1>14, <1>15

LEMMA StepNoPhotos ==
  ASSUME Setting, Typed, Codes0, NoPhotos, Stored(prof'), NEW d \in Devices, Steps(d)
  PROVE  NoPhotos'
<1>1. /\ \A f \in Devices : \A e \in Travels(prof, f) : e \notin Photos
      /\ \A c \in Codes : \A e \in prof.server[c].p.has : e \notin Photos
  BY DEF NoPhotos, Travels
<1>2. \A e \in Travels(prof', d) : e \notin Photos
  BY <1>1, StepTravels
<1>3. \A c \in Codes : \A e \in prof'.server[c].p.has : e \notin Photos
  BY <1>1, StepTravels
<1>4. \A f \in Devices \ {d} : Travels(prof', f) = Travels(prof, f)
  BY StepAside DEF Aside, Travels
<1>5. \A f \in Devices : \A e \in Travels(prof', f) : e \notin Photos
  BY <1>1, <1>2, <1>4
<1>6. QED
  BY <1>3, <1>5 DEF NoPhotos, Travels

-----------------------------------------------------------------------------
(* Nothing is lost. *)

Excused(p) == p.struck \cup p.fell
\* S is in T, or on the server's page k, but for what is excused.
In(S, T, G) == S \subseteq T \cup G
At(S, k, G) == k.there # "gone" => S \subseteq k.p.has \cup G
NoLoss(v, G, s) ==
  LET l == s.link
      j == s.job
  IN /\ In(l.base.has, s.has, G)
     /\ Writing(s) => In(j.out.has, s.has, G)
     /\ l.base.set => At(l.base.has, v[l.code], G)
     /\ j.at = "got" /\ Current(s) /\ j.there = "there" => In(l.base.has, j.got.has, G)
     /\ j.at \in {"got", "put"} /\ j.there = "there" => At(j.got.has, v[j.link.code], G)
     /\ j.at = "put" => In(j.got.has, j.out.has, G)
     /\ j.at = "put2" /\ j.answer = "ok" => At(j.out.has, v[j.link.code], G)

LEMMA NoLossIs ==
  ASSUME NEW d \in Devices
  PROVE  /\ NothingLost(prof.dev[d]) <=> NoLoss(prof.server, Excused(prof), prof.dev[d])
         /\ NothingLost(prof.dev[d])' <=> NoLoss(prof'.server, Excused(prof'), prof'.dev[d])
<1>1. NothingLost(prof.dev[d]) <=> NoLoss(prof.server, Excused(prof), prof.dev[d])
  BY Zenon DEF NothingLost, NoLoss, KeptIn, KeptAt, In, At, Excused, Writing, Current, Linked
<1>2. NothingLost(prof.dev[d])' <=> NoLoss(prof'.server, Excused(prof'), prof'.dev[d])
  BY Zenon DEF NothingLost, NoLoss, KeptIn, KeptAt, In, At, Excused, Writing, Current, Linked
<1>3. QED
  BY <1>1, <1>2

LEMMA JobLinked ==
  ASSUME Setting, Typed, Codes0, NEW d \in Devices,
         prof.dev[d].job.at # "no", prof.dev[d].link = prof.dev[d].job.link
  PROVE  Linked(prof.dev[d]) /\ Current(prof.dev[d])
BY Nothing DEF Setting, Codes0, LinkSound, Linked, Current

\* A job of an earlier link is not the job of a new one.
LEMMA NewLinkIsNew ==
  ASSUME Typed, Codes0, Stored(prof'), NEW d \in Devices, NEW c \in Codes, NEW make \in BOOLEAN,
         StartsCode(d, c, make), prof'.dev[d].job = prof.dev[d].job
  PROVE  prof'.dev[d].job.link # prof'.dev[d].link
<1>1. /\ prof.dev[d].job.link.serial <= prof.dev[d].serial /\ prof.dev[d].serial \in Nat
      /\ prof.dev[d].job.link.serial \in Nat
  BY Zenon DEF Codes0, LinkSound, Typed, Stored, Fields, Devs, Jobs, Links
<1>2. prof'.dev[d].link.serial = prof.dev[d].serial + 1
  BY DEF StartsCode
<1>3. QED
  BY <1>1, <1>2

LEMMA StepMarks ==
  ASSUME NEW d \in Devices, Steps(d)
  PROVE  prof.struck \subseteq prof'.struck /\ prof.fell \subseteq prof'.fell /\ prof.loose \subseteq prof'.loose
<1> DEFINE Goal == prof.struck \subseteq prof'.struck /\ prof.fell \subseteq prof'.fell /\ prof.loose \subseteq prof'.loose
<1>1. CASE Adds(d) \/ (\E e \in Entries : Erases(d, e))
  BY <1>1 DEF Adds, Erases
<1>2. CASE Renames(d) \/ Unlinks(d) \/ Syncs(d) \/ Reads(d)
  BY <1>2, Zenon DEF Renames, Unlinks, DropsLink, GoesOff, Syncs, Session, Reads, SameWorld
<1>3. CASE Quits(d)
  BY <1>3 DEF Quits, SameWorld
<1>4. CASE \E k \in Codes, make \in BOOLEAN : StartsCode(d, k, make)
  BY <1>4 DEF StartsCode
<1>5. CASE GotAgrees(d) \/ GotWrites(d)
  BY <1>5, Zenon DEF GotAgrees, GotWrites, HasMerged, SameWorld
<1>6. CASE Restarts(d) \/ PutAgrees(d)
  BY <1>6 DEF Restarts, PutAgrees, AgreedIs0, SameWorld
<1>7. CASE ServerWrites(d) \/ Requests(d)
  BY <1>7, Zenon DEF ServerWrites, Requests
<1>8. CASE Removes(d) /\ (Unheard \/ DropsLink(d))
  BY <1>8, Zenon DEF Removes, Unheard, DropsLink, GoesOff
<1>9. QED
  BY <1>1, <1>2, <1>3, <1>4, <1>5, <1>6, <1>7, <1>8 DEF Steps

\* What the server keeps of a profile when it moves on to m.
Keeps(k, m, G) == m.there # "gone" => k.there # "gone" /\ k.p.has \subseteq m.p.has \cup G

LEMMA ServerKeeps ==
  ASSUME Setting, Typed, Codes0, Lineage, Stored(prof'), NEW d \in Devices, Steps(d), NEW c \in Codes
  PROVE  Keeps(prof.server[c], prof'.server[c], Excused(prof'))
<1> DEFINE j == prof.dev[d].job
<1>1. CASE prof'.server[c] = prof.server[c]
  BY <1>1 DEF Keeps
<1>2. CASE Removes(d)
  BY <1>1, <1>2 DEF Removes, Keeps
<1>3. CASE ServerWrites(d)
  <2>1. CASE c = j.link.code /\ prof'.dev[d].job.answer = "ok"
    <3>1. /\ prof'.server[c].p = j.out /\ (Making(j.link) => Unwritten(c))
          /\ ~Making(j.link) => prof.server[c].there = "there" /\ j.there = "there"
      BY <2>1, <1>3, WrittenOver, Zenon
    <3>2. j.at = "put" /\ (~Making(j.link) => prof.server[c].rev = j.rev)
      BY <2>1, <3>1, <1>3, Zenon DEF ServerWrites
    <3>3. NoLoss(prof.server, Excused(prof), prof.dev[d]) /\ JobKnown(prof.dev[d])
      BY NoLossIs DEF Lineage, Codes0
    <3>4. CASE Making(j.link)
      <4>1. prof.server[c].there = "none" /\ prof.server[c].p = NoProfile /\ NoProfile.has = {}
        BY <3>1, <3>4, Nothing DEF Unwritten
      <4>2. QED
        BY <4>1 DEF Keeps
    <3>5. CASE ~Making(j.link)
      <4>1. prof.server[c].p.has = j.got.has
        BY <3>1, <3>2, <3>3, <3>5, <2>1, Zenon DEF JobKnown, IsRevision
      <4>2. j.got.has \subseteq j.out.has \cup Excused(prof)
        BY <3>2, <3>3 DEF NoLoss, In
      <4>3. Excused(prof) \subseteq Excused(prof')
        BY StepMarks DEF Excused
      <4>4. QED
        BY <4>1, <4>2, <4>3, <3>1, <3>5 DEF Keeps
    <3>6. QED
      BY <3>4, <3>5
  <2>2. CASE ~(c = j.link.code /\ prof'.dev[d].job.answer = "ok")
    BY <2>2, <1>1, <1>3, Zenon DEF ServerWrites
  <2>3. QED
    BY <2>1, <2>2
<1>4. QED
  BY <1>1, <1>2, <1>3, ServerMoves

LEMMA InStill ==
  ASSUME NEW S, NEW T, NEW U, NEW G, NEW H, In(S, T, G), G \subseteq H, T \subseteq U \cup H
  PROVE  In(S, U, H)
BY DEF In
LEMMA AtStill ==
  ASSUME NEW S, NEW k, NEW m, NEW G, NEW H, At(S, k, G), G \subseteq H, Keeps(k, m, H)
  PROVE  At(S, m, H)
BY DEF At, Keeps

\* What a step must know to carry over what is not lost.
LEMMA LossContext ==
  ASSUME Setting, Typed, Codes0, Lineage, Stored(prof'), NEW d \in Devices, Steps(d), NEW f \in Devices
  PROVE  LET s == prof.dev[f]
             v == prof.server
             w == prof'.server
             G == Excused(prof)
             H == Excused(prof')
         IN /\ NoLoss(v, G, s) /\ LinkSound(s) /\ LinkKnown(s) /\ JobKnown(s)
            /\ G \subseteq H
            /\ s.link.base.set => s.link.code \in Codes /\ Keeps(v[s.link.code], w[s.link.code], H)
            /\ s.job.at # "no" => s.job.link.code \in Codes /\ Keeps(v[s.job.link.code], w[s.job.link.code], H)
<1>1. NoLoss(prof.server, Excused(prof), prof.dev[f])
  BY NoLossIs DEF Lineage
<1>2. LinkSound(prof.dev[f]) /\ LinkKnown(prof.dev[f]) /\ JobKnown(prof.dev[f])
  BY DEF Codes0
<1>3. Excused(prof) \subseteq Excused(prof')
  BY StepMarks DEF Excused
<1>4. prof.dev[f].link.base.set => prof.dev[f].link.code \in Codes
  BY <1>2, Zenon DEF LinkKnown
<1>5. prof.dev[f].job.at # "no" => prof.dev[f].job.link.code \in Codes
  BY <1>2 DEF LinkSound
<1>6. QED
  BY <1>1, <1>2, <1>3, <1>4, <1>5, ServerKeeps

LEMMA NoLossStill ==
  ASSUME Setting, Typed, Codes0, Lineage, Stored(prof'), NEW d \in Devices, Steps(d), NEW f \in Devices,
         prof'.dev[f].link \in {prof.dev[f].link, NoLink}, prof'.dev[f].job \in {prof.dev[f].job, Idle},
         prof.dev[f].has \subseteq prof'.dev[f].has \cup Excused(prof')
  PROVE  NothingLost(prof.dev[f])'
<1> DEFINE s == prof.dev[f]
           t == prof'.dev[f]
           v == prof.server
           w == prof'.server
           G == Excused(prof)
           H == Excused(prof')
<1>1. /\ NoLoss(v, G, s) /\ G \subseteq H
      /\ s.link.base.set => Keeps(v[s.link.code], w[s.link.code], H)
      /\ s.job.at # "no" => Keeps(v[s.job.link.code], w[s.job.link.code], H)
  BY LossContext
<1>2. /\ Idle.at = "no" /\ NoLink.base.has = {} /\ ~NoLink.base.set
  BY Nothing
<1>3. Current(t) /\ t.job.at # "no" => t.link = s.link /\ t.job = s.job /\ Current(s)
  BY <1>2 DEF Current, Linked
<1>4. In(t.link.base.has, t.has, H)
  <2>1. CASE t.link = s.link
    BY <2>1, <1>1, InStill DEF NoLoss
  <2>2. CASE t.link = NoLink
    BY <2>2, <1>2 DEF In
  <2>3. QED
    BY ZenonT(30), <2>1, <2>2
<1>5. Writing(t) => In(t.job.out.has, t.has, H)
  <2>1. ASSUME Writing(t) PROVE Writing(s) /\ t.job = s.job
    BY <2>1, <1>3 DEF Writing
  <2>2. ASSUME Writing(t) PROVE In(s.job.out.has, s.has, G)
    BY <2>1, <2>2, <1>1, Zenon DEF NoLoss
  <2>3. QED
    BY <2>1, <2>2, <1>1, InStill
<1>6. t.link.base.set => At(t.link.base.has, w[t.link.code], H)
  BY <1>1, <1>2, AtStill DEF NoLoss
<1>7. t.job.at = "got" /\ Current(t) /\ t.job.there = "there" => In(t.link.base.has, t.job.got.has, H)
  <2>1. ASSUME t.job.at = "got", Current(t), t.job.there = "there"
        PROVE  In(s.link.base.has, s.job.got.has, G) /\ t.link = s.link /\ t.job = s.job
    BY <2>1, <1>1, <1>3, Zenon DEF NoLoss
  <2>2. QED
    BY ZenonT(30), <2>1, <1>1 DEF In
<1>8. t.job.at \in {"got", "put"} /\ t.job.there = "there" => At(t.job.got.has, w[t.job.link.code], H)
  BY SMTT(90), <1>1, <1>2, AtStill DEF NoLoss
<1>9. t.job.at = "put" => In(t.job.got.has, t.job.out.has, H)
  BY ZenonT(30), <1>1, <1>2 DEF NoLoss, In
<1>10. t.job.at = "put2" /\ t.job.answer = "ok" => At(t.job.out.has, w[t.job.link.code], H)
  BY <1>1, <1>2, AtStill DEF NoLoss
<1>11. QED
  BY <1>4, <1>5, <1>6, <1>7, <1>8, <1>9, <1>10, NoLossIs, Zenon DEF NoLoss

LEMMA AskerLosesNothing ==
  ASSUME Setting, Typed, Codes0, Lineage, Stored(prof'), NEW d \in Devices, Steps(d), Syncs(d) \/ Restarts(d)
  PROVE  NothingLost(prof.dev[d])'
<1> DEFINE s == prof.dev[d]
           t == prof'.dev[d]
           v == prof.server
           w == prof'.server
           G == Excused(prof)
           H == Excused(prof')
<1>1. /\ NoLoss(v, G, s) /\ G \subseteq H
      /\ s.link.base.set => Keeps(v[s.link.code], w[s.link.code], H)
  BY LossContext
<1>2. t.link = s.link /\ t.has = s.has /\ t.job.at = "get"
  BY DEF Syncs, Session, Restarts, SameStore, Asks
<1>3. In(t.link.base.has, t.has, H)
  BY <1>1, <1>2 DEF NoLoss, In
<1>4. ASSUME t.link.base.set PROVE At(t.link.base.has, w[t.link.code], H)
  <2>1. At(s.link.base.has, v[s.link.code], G) /\ Keeps(v[s.link.code], w[s.link.code], H)
    BY <1>1, <1>2, <1>4, Zenon DEF NoLoss
  <2>2. At(s.link.base.has, w[s.link.code], H)
    BY <2>1, <1>1, AtStill
  <2>3. QED
    BY <2>2, <1>2
<1>5. QED
  BY <1>2, <1>3, <1>4, NoLossIs, Zenon DEF NoLoss, Writing

LEMMA StarterLosesNothing ==
  ASSUME Setting, Typed, Codes0, Lineage, Stored(prof'), NEW d \in Devices, Steps(d),
         NEW c \in Codes, NEW make \in BOOLEAN, StartsCode(d, c, make)
  PROVE  NothingLost(prof.dev[d])'
<1> DEFINE s == prof.dev[d]
           t == prof'.dev[d]
           v == prof.server
           w == prof'.server
           G == Excused(prof)
           H == Excused(prof')
<1>1. /\ NoLoss(v, G, s) /\ G \subseteq H
      /\ s.job.at # "no" => Keeps(v[s.job.link.code], w[s.job.link.code], H)
  BY LossContext
<1>2. /\ t.link.base = NoBase /\ NoBase.has = {} /\ ~NoBase.set
      /\ t.job.at = "get" \/ t.job = s.job
  BY Nothing DEF StartsCode, Asks
<1>3. CASE t.job.at = "get"
  BY <1>2, <1>3, NoLossIs DEF NoLoss, Writing, In
<1>4. CASE t.job = s.job
  <2>1. ~Current(t)
    BY ZenonT(30), <1>4, NewLinkIsNew DEF Current
  <2>2. t.job.at \in {"got", "put"} /\ t.job.there = "there" => At(t.job.got.has, w[t.job.link.code], H)
    BY <1>1, <1>4, AtStill DEF NoLoss
  <2>3. t.job.at = "put" => In(t.job.got.has, t.job.out.has, H)
    BY <1>1, <1>4, Zenon DEF NoLoss, In
  <2>4. t.job.at = "put2" /\ t.job.answer = "ok" => At(t.job.out.has, w[t.job.link.code], H)
    BY <1>1, <1>4, AtStill, Zenon DEF NoLoss
  <2>5. In(t.link.base.has, t.has, H) /\ ~t.link.base.set /\ ~Writing(t)
    BY <1>2, <2>1 DEF In, Writing
  <2>6. QED
    BY <2>1, <2>2, <2>3, <2>4, <2>5, NoLossIs, Zenon DEF NoLoss
<1>5. QED
  BY <1>2, <1>3, <1>4

LEMMA ReaderLosesNothing ==
  ASSUME Setting, Typed, Codes0, Lineage, Stored(prof'), NEW d \in Devices, Steps(d), Reads(d)
  PROVE  NothingLost(prof.dev[d])'
<1> DEFINE s == prof.dev[d]
           t == prof'.dev[d]
           v == prof.server
           w == prof'.server
           G == Excused(prof)
           H == Excused(prof')
           c == s.job.link.code
<1>1. NoLoss(v, G, s) /\ G \subseteq H /\ LinkSound(s)
  BY LossContext
<1>2. /\ w = v /\ t.link = s.link /\ t.has = s.has /\ t.job.at = "got" /\ t.job.link = s.job.link
      /\ t.job.there = v[c].there /\ t.job.got = v[c].p
  BY DEF Reads, Session, SameWorld
<1>3. In(t.link.base.has, t.has, H)
  BY <1>1, <1>2, Zenon DEF NoLoss, In
<1>4. t.link.base.set => At(t.link.base.has, w[t.link.code], H)
  BY <1>1, <1>2, Zenon DEF NoLoss, At
<1>5. ~t.link.base.set => t.link.base.has = {}
  BY ZenonT(30), <1>1, <1>2, Nothing DEF LinkSound
<1>6. Current(t) /\ t.job.there = "there" => In(t.link.base.has, t.job.got.has, H)
  BY <1>2, <1>4, <1>5, Zenon DEF Current, At, In
<1>7. At(t.job.got.has, w[t.job.link.code], H)
  BY <1>2, Zenon DEF At
<1>8. QED
  BY <1>2, <1>3, <1>4, <1>6, <1>7, NoLossIs, Zenon DEF NoLoss, Writing

LEMMA MergedKeeps ==
  ASSUME Setting, Typed, Codes0, Lineage, NEW d \in Devices, HasMerged(d),
         prof.dev[d].job.at = "got", prof.dev[d].link = prof.dev[d].job.link
  PROVE  LET s == prof.dev[d]
             t == prof'.dev[d]
             H == Excused(prof')
         IN /\ s.has \subseteq t.has \cup H
            /\ s.job.there = "there" => s.job.got.has \subseteq t.has \cup H
            /\ s.link.base.has \subseteq t.has \cup H
<1> DEFINE s == prof.dev[d]
           t == prof'.dev[d]
           G == Excused(prof)
           H == Excused(prof')
<1>1. /\ prof.fell \subseteq prof'.fell /\ prof'.struck = prof.struck
      /\ s.job.there = "there" => Merge3(s.has, s.job.got.has, s.link.base.has) \subseteq t.has \cup prof'.fell
      /\ s.job.there # "there" => t.has = s.has
  BY DEF HasMerged, SameWorld
<1>2. G \subseteq H /\ prof'.fell \subseteq H
  BY <1>1 DEF Excused
<1>3. NoLoss(prof.server, G, s) /\ Current(s)
  BY NoLossIs, JobLinked DEF Lineage
<1>4. /\ s.link.base.has \subseteq s.has \cup G
      /\ s.job.there = "there" => s.link.base.has \subseteq s.job.got.has \cup G
  BY <1>3 DEF NoLoss, In
<1>5. CASE s.job.there = "there"
  <2>1. Merge3(s.has, s.job.got.has, s.link.base.has) \subseteq t.has \cup H
    BY <1>1, <1>2, <1>5
  <2>2. ASSUME NEW e, e \in s.has PROVE e \in t.has \cup H
    <3>1. e \in Merge3(s.has, s.job.got.has, s.link.base.has) \/ e \in G
      BY <2>2, <1>4, <1>5 DEF Merge3
    <3>2. QED
      BY <3>1, <2>1, <1>2
  <2>3. ASSUME NEW e, e \in s.job.got.has PROVE e \in t.has \cup H
    <3>1. e \in Merge3(s.has, s.job.got.has, s.link.base.has) \/ e \in G
      BY <2>3, <1>4, <1>5 DEF Merge3
    <3>2. QED
      BY <3>1, <2>1, <1>2
  <2>4. QED
    BY <2>2, <2>3, <1>2, <1>4
<1>6. CASE s.job.there # "there"
  BY <1>6, <1>1, <1>2, <1>4
<1>7. QED
  BY <1>5, <1>6

LEMMA GotLosesNothing ==
  ASSUME Setting, Typed, Codes0, NoPhotos, Lineage, Stored(prof'), NEW d \in Devices, Steps(d),
         GotAgrees(d) \/ GotWrites(d)
  PROVE  NothingLost(prof.dev[d])'
<1> DEFINE s == prof.dev[d]
           t == prof'.dev[d]
           j == s.job
           v == prof.server
           w == prof'.server
           G == Excused(prof)
           H == Excused(prof')
<1>1. NoLoss(v, G, s) /\ G \subseteq H /\ JobKnown(s)
  BY LossContext
<1>2. HasMerged(d) /\ j.at = "got" /\ s.link = j.link /\ w = v /\ prof'.fell \subseteq H
  BY Zenon DEF GotAgrees, GotWrites, HasMerged, SameWorld, Excused
<1>3. /\ j.there = "there" => j.got.has \subseteq t.has \cup H
      /\ s.link.base.has \subseteq t.has \cup H
  BY <1>2, MergedKeeps
<1>4. j.there = "there" => At(j.got.has, w[j.link.code], H)
  BY <1>1, <1>2, Zenon DEF NoLoss, At
<1>5. CASE GotAgrees(d)
  <2>1. /\ t.link.code = s.link.code /\ t.link.base.has = j.got.has /\ t.job = Idle /\ j.there = "there"
        /\ Idle.at = "no"
    BY <1>5, Nothing DEF GotAgrees
  <2>2. In(t.link.base.has, t.has, H)
    BY ZenonT(30), <2>1, <1>3 DEF In
  <2>3. At(t.link.base.has, w[t.link.code], H)
    BY <2>1, <1>2, <1>4
  <2>4. QED
    BY <2>1, <2>2, <2>3, NoLossIs, Zenon DEF NoLoss, Writing
<1>6. CASE GotWrites(d)
  <2>1. /\ t.link = s.link /\ t.job.at = "put" /\ t.job.link = j.link /\ t.job.got = j.got
        /\ t.job.there = j.there /\ t.job.out = Pack(t) /\ t \in Devs
        /\ (t.has \cap Walls) \ Pack(t).has \subseteq H
    BY <1>6, <1>2, Zenon DEF GotWrites, HasMerged
  <2>2. /\ Pack(t).has \subseteq t.has
        /\ t.has \subseteq Pack(t).has \cup Photos \cup H
    BY <2>1, PackIs
  <2>3. In(t.link.base.has, t.has, H)
    BY <2>1, <1>3 DEF In
  <2>4. In(t.job.out.has, t.has, H)
    BY <2>1, <2>2 DEF In
  <2>5. t.link.base.set => At(t.link.base.has, w[t.link.code], H)
    BY <2>1, <1>1, <1>2, Zenon DEF NoLoss, At
  <2>6. t.job.there = "there" => At(t.job.got.has, w[t.job.link.code], H)
    BY <2>1, <1>4
  <2>7. In(t.job.got.has, t.job.out.has, H)
    <3>1. j.got.has \cap Photos = {}
      BY DEF NoPhotos
    <3>2. CASE j.there = "there"
      BY <3>1, <3>2, <2>1, <2>2, <1>3 DEF In
    <3>3. CASE j.there # "there"
      BY <3>3, <2>1, <1>1, <1>2, Nothing DEF JobKnown, In
    <3>4. QED
      BY <3>2, <3>3
  <2>8. QED
    BY <2>1, <2>3, <2>4, <2>5, <2>6, <2>7, NoLossIs, Zenon DEF NoLoss
<1>7. QED
  BY <1>5, <1>6

LEMMA WriterLosesNothing ==
  ASSUME Setting, Typed, Codes0, Lineage, Stored(prof'), NEW d \in Devices, Steps(d), ServerWrites(d)
  PROVE  NothingLost(prof.dev[d])'
<1> DEFINE s == prof.dev[d]
           t == prof'.dev[d]
           j == s.job
           v == prof.server
           w == prof'.server
           G == Excused(prof)
           H == Excused(prof')
<1>1. /\ NoLoss(v, G, s) /\ G \subseteq H
      /\ s.link.base.set => Keeps(v[s.link.code], w[s.link.code], H)
  BY LossContext
<1>2. /\ t.has = s.has /\ t.link = s.link /\ j.at = "put" /\ t.job.at = "put2" /\ t.job.link = j.link
      /\ t.job.out = j.out
  BY Zenon DEF ServerWrites, SameStore
<1>3. t.job.answer = "ok" => w[j.link.code].p = j.out
  BY WrittenOver, Zenon
<1>4. In(t.link.base.has, t.has, H)
  BY <1>1, <1>2 DEF NoLoss, In
<1>5. Writing(t) => In(t.job.out.has, t.has, H)
  BY <1>1, <1>2 DEF NoLoss, In, Writing, Current, Linked
<1>6. ASSUME t.link.base.set PROVE At(t.link.base.has, w[t.link.code], H)
  <2>1. At(s.link.base.has, v[s.link.code], G) /\ Keeps(v[s.link.code], w[s.link.code], H)
    BY <1>1, <1>2, <1>6, Zenon DEF NoLoss
  <2>2. At(s.link.base.has, w[s.link.code], H)
    BY <2>1, <1>1, AtStill
  <2>3. QED
    BY <2>2, <1>2
<1>7. t.job.answer = "ok" => At(t.job.out.has, w[t.job.link.code], H)
  BY <1>2, <1>3, Zenon DEF At
<1>8. QED
  BY <1>2, <1>4, <1>5, <1>6, <1>7, NoLossIs, Zenon DEF NoLoss

LEMMA AgreerLosesNothing ==
  ASSUME Setting, Typed, Codes0, Lineage, Stored(prof'), NEW d \in Devices, Steps(d), PutAgrees(d)
  PROVE  NothingLost(prof.dev[d])'
<1> DEFINE s == prof.dev[d]
           t == prof'.dev[d]
           j == s.job
           v == prof.server
           w == prof'.server
           G == Excused(prof)
           H == Excused(prof')
<1>1. NoLoss(v, G, s) /\ G \subseteq H /\ JobKnown(s)
  BY LossContext
<1>2. /\ t.has = s.has /\ j.at = "put2" /\ j.answer \notin {"stale", "gone"} /\ s.link = j.link /\ w = v
      /\ t.link.code = s.link.code /\ t.link.base.has = j.out.has /\ t.job = Idle /\ Idle.at = "no"
  BY Nothing DEF PutAgrees, AgreedIs0, SameStore, SameWorld
<1>3. j \in Jobs
  BY Zenon DEF Typed, Stored, Fields, Devs
<1>4. j.answer = "ok"
  BY <1>1, <1>2, <1>3 DEF JobKnown, Jobs
<1>5. Writing(s)
  BY <1>2, JobLinked DEF Writing
<1>6. In(t.link.base.has, t.has, H)
  BY <1>1, <1>2, <1>5 DEF NoLoss, In
<1>7. At(t.link.base.has, w[t.link.code], H)
  BY <1>1, <1>2, <1>4, Zenon DEF NoLoss, At
<1>8. QED
  BY <1>2, <1>6, <1>7, NoLossIs, Zenon DEF NoLoss, Writing

LEMMA StoreKeeps ==
  ASSUME Setting, Typed, Codes0, Lineage, NEW d \in Devices, Steps(d), NEW f \in Devices
  PROVE  prof.dev[f].has \subseteq prof'.dev[f].has \cup Excused(prof')
<1> DEFINE s == prof.dev[d]
           t == prof'.dev[d]
           H == Excused(prof')
           Goal == s.has \subseteq t.has \cup H
<1>1. CASE f # d
  BY <1>1, StepAside DEF Aside
<1>2. ASSUME t.has = s.has PROVE Goal
  BY <1>2
<1>3. ASSUME Adds(d) PROVE Goal
  BY <1>3 DEF Adds, Excused
<1>4. ASSUME NEW e \in Entries, Erases(d, e) PROVE Goal
  BY <1>4 DEF Erases, Excused
<1>5. ASSUME Renames(d) \/ Unlinks(d) \/ Syncs(d) \/ Reads(d) PROVE Goal
  <2>1. t.has = s.has
    BY <1>5 DEF Renames, Unlinks, DropsLink, SameStore, Syncs, Session, Reads
  <2>2. QED
    BY <2>1
<1>6. ASSUME (\E c \in Codes, make \in BOOLEAN : StartsCode(d, c, make)) PROVE Goal
  <2>1. t.has = s.has
    BY <1>6 DEF StartsCode
  <2>2. QED
    BY <2>1
<1>7. ASSUME Quits(d) \/ ServerWrites(d) \/ Restarts(d) \/ PutAgrees(d) PROVE Goal
  <2>1. t.has = s.has
    BY <1>7, Zenon DEF Quits, ServerWrites, Restarts, PutAgrees, SameStore
  <2>2. QED
    BY <2>1
<1>8. ASSUME Requests(d) \/ Unheard \/ DropsLink(d) PROVE Goal
  <2>1. t.has = s.has
    BY <1>8 DEF Requests, Unheard, DropsLink, SameStore
  <2>2. QED
    BY <2>1
<1>9. ASSUME GotAgrees(d) \/ GotWrites(d) PROVE Goal
  <2>1. HasMerged(d) /\ s.job.at = "got" /\ s.link = s.job.link
    BY <1>9 DEF GotAgrees, GotWrites
  <2>2. QED
    BY <2>1, MergedKeeps
<1>10. Goal
  BY <1>3, <1>4, <1>5, <1>6, <1>7, <1>8, <1>9 DEF Steps
<1>11. QED
  BY <1>1, <1>10

LEMMA StepNothingLost ==
  ASSUME Setting, Typed, Codes0, NoPhotos, Lineage, Stored(prof'), NEW d \in Devices, Steps(d), NEW f \in Devices
  PROVE  NothingLost(prof.dev[f])'
<1> DEFINE s == prof.dev[d]
           t == prof'.dev[d]
           Goal == NothingLost(prof.dev[d])'
<1>1. CASE f # d
  <2>1. prof'.dev[f] = prof.dev[f]
    BY <1>1, StepAside DEF Aside
  <2>2. QED
    BY <2>1, StoreKeeps, NoLossStill
<1>2. ASSUME t.link \in {s.link, NoLink}, t.job \in {s.job, Idle} PROVE Goal
  BY <1>2, StoreKeeps, NoLossStill
<1>3. ASSUME Adds(d) \/ (\E e \in Entries : Erases(d, e)) \/ Renames(d) PROVE Goal
  <2>1. t.link = s.link /\ t.job = s.job
    BY <1>3 DEF Adds, Erases, Renames, SameSession
  <2>2. QED
    BY <2>1, <1>2
<1>4. ASSUME DropsLink(d) PROVE Goal
  <2>1. t.link = NoLink /\ t.job = s.job
    BY <1>4, Zenon DEF DropsLink, GoesOff
  <2>2. QED
    BY <2>1, <1>2
<1>5. ASSUME Quits(d) PROVE Goal
  <2>1. t.job = Idle /\ (t.link = NoLink \/ t.link = s.link)
    BY <1>5 DEF Quits
  <2>2. QED
    BY <2>1, <1>2
<1>6. ASSUME Requests(d) \/ Unheard PROVE Goal
  <2>1. t = s
    BY <1>6 DEF Requests, Unheard
  <2>2. QED
    BY <2>1, <1>2
<1>7. ASSUME Syncs(d) \/ Restarts(d) PROVE Goal
  BY <1>7, AskerLosesNothing
<1>8. ASSUME (\E c \in Codes, make \in BOOLEAN : StartsCode(d, c, make)) PROVE Goal
  BY <1>8, StarterLosesNothing
<1>9. ASSUME Reads(d) PROVE Goal
  BY <1>9, ReaderLosesNothing
<1>10. ASSUME GotAgrees(d) \/ GotWrites(d) PROVE Goal
  BY <1>10, GotLosesNothing
<1>11. ASSUME ServerWrites(d) PROVE Goal
  BY <1>11, WriterLosesNothing
<1>12. ASSUME PutAgrees(d) PROVE Goal
  BY <1>12, AgreerLosesNothing
<1>13. Goal
  BY <1>3, <1>4, <1>5, <1>6, <1>7, <1>8, <1>9, <1>10, <1>11, <1>12 DEF Steps, Unlinks
<1>14. QED
  BY <1>1, <1>13

LEMMA StepLineage ==
  ASSUME Setting, Typed, Codes0, NoPhotos, Lineage, Stored(prof'), NEW d \in Devices, Steps(d)
  PROVE  Lineage'
<1>1. \A f \in Devices : NothingLost(prof.dev[f])'
  BY StepNothingLost
<1>2. ASSUME NEW e \in 1 .. prof'.made
      PROVE  /\ prof'.maker[e] \in Devices
             /\ e \in prof'.dev[prof'.maker[e]].has \cup prof'.struck \cup prof'.fell
  <2>1. prof.made \in Nat /\ prof'.made \in Nat /\ prof.maker \in [Entries -> Devices \cup {0}]
    BY DEF Typed, Stored, Fields
  <2>2. CASE e \in 1 .. prof.made /\ prof'.maker[e] = prof.maker[e]
    <3>1. prof.maker[e] \in Devices /\ e \in prof.dev[prof.maker[e]].has \cup Excused(prof)
      BY <2>2 DEF Lineage, StaysWithMaker, Excused
    <3>2. Excused(prof) \subseteq Excused(prof')
      BY StepMarks DEF Excused
    <3>3. prof.dev[prof.maker[e]].has \subseteq prof'.dev[prof.maker[e]].has \cup Excused(prof')
      BY <3>1, StoreKeeps
    <3>4. QED
      BY <2>2, <3>1, <3>2, <3>3 DEF Excused
  <2>3. CASE Adds(d)
    <3>1. /\ prof'.made = prof.made + 1 /\ prof'.maker = [prof.maker EXCEPT ![prof.made + 1] = d]
          /\ prof.made + 1 \in Entries
          /\ prof.made + 1 \in prof'.dev[d].has \cup prof'.fell
      BY <2>3 DEF Adds
    <3>2. CASE e = prof.made + 1
      BY <3>1, <3>2, <2>1
    <3>3. CASE e # prof.made + 1
      <4>1. e \in 1 .. prof.made
        BY <3>1, <3>3, <2>1
      <4>2. prof'.maker[e] = prof.maker[e]
        <5>1. prof.maker = [x \in DOMAIN prof.maker |-> prof.maker[x]] /\ DOMAIN prof.maker = Entries
          BY <2>1
        <5>2. e \in Entries
          BY <4>1, <2>1 DEF Typed, Setting, Stored, Fields
        <5>3. QED
          BY <3>1, <3>3, <5>1, <5>2
      <4>3. QED
        BY <4>1, <4>2, <2>2
    <3>4. QED
      BY <3>2, <3>3
  <2>4. CASE ~Adds(d)
    BY <2>4, <2>2, StepAside
  <2>5. QED
    BY <2>3, <2>4
<1>3. QED
  BY <1>1, <1>2 DEF Lineage, StaysWithMaker

-----------------------------------------------------------------------------
(* What a device that has just synced shows. *)

LEMMA StepInSync ==
  ASSUME Setting, Typed, Codes0, Agreement, Stored(prof'), NEW d \in Devices, Steps(d)
  PROVE  InSync(prof'.dev[d])
<1> DEFINE s == prof.dev[d]
           t == prof'.dev[d]
           Goal == InSync(t)
<1>1. InSync(s) /\ Idle.at = "no"
  BY Nothing DEF Agreement
<1>2. ASSUME ~Linked(t) \/ t.dirty PROVE Goal
  BY <1>2 DEF InSync, Writing, Current
<1>3. ASSUME Adds(d) \/ (\E e \in Entries : Erases(d, e)) \/ Renames(d) PROVE Goal
  <2>1. t.dirty
    BY <1>3 DEF Adds, Erases, Renames
  <2>2. QED
    BY <2>1, <1>2
<1>4. ASSUME DropsLink(d) PROVE Goal
  <2>1. ~Linked(t)
    BY <1>4, Zenon DEF DropsLink, GoesOff, Linked
  <2>2. QED
    BY <2>1, <1>2
<1>5. ASSUME Quits(d) PROVE Goal
  <2>1. t.job = Idle /\ (t.link = NoLink \/ t.state # "ok")
    BY <1>5 DEF Quits
  <2>2. QED
    BY <2>1, <1>1, <1>2 DEF InSync, Writing, Linked
<1>6. ASSUME Requests(d) \/ Unheard PROVE Goal
  <2>1. t = s
    BY <1>6 DEF Requests, Unheard
  <2>2. QED
    BY <2>1, <1>1
<1>7. ASSUME Syncs(d) \/ Restarts(d) \/ Reads(d) PROVE Goal
  <2>1. t.job.at \in {"get", "got"}
    BY <1>7, Zenon DEF Syncs, Restarts, Asks, Reads
  <2>2. QED
    BY <2>1 DEF InSync, Writing
<1>8. ASSUME NEW c \in Codes, NEW make \in BOOLEAN, StartsCode(d, c, make) PROVE Goal
  <2>1. ~t.link.base.set /\ (t.job.at = "get" \/ t.job = s.job)
    BY <1>8, Nothing DEF StartsCode, Asks
  <2>2. ~Writing(t)
    BY <1>8, <2>1, NewLinkIsNew DEF Writing, Current
  <2>3. QED
    BY <2>1, <2>2 DEF InSync
<1>9. ASSUME GotAgrees(d) PROVE Goal
  <2>1. /\ t.link.base.nick = s.job.got.nick /\ t.link.base.has = s.job.got.has /\ Pack(t) = s.job.got
        /\ t.job = Idle
    BY <1>9 DEF GotAgrees
  <2>2. QED
    BY <2>1, <1>1 DEF InSync, Writing
<1>10. ASSUME GotWrites(d) PROVE Goal
  <2>1. t.job.out = Pack(t) /\ t.job.at = "put"
    BY <1>10 DEF GotWrites
  <2>2. QED
    BY <2>1 DEF InSync
<1>11. ASSUME ServerWrites(d) PROVE Goal
  <2>1. /\ SameStore(s, t) /\ t.link = s.link /\ s.job.at = "put" /\ t.job.at = "put2" /\ t.job.link = s.job.link
        /\ t.job.out = s.job.out
    BY <1>11, Zenon DEF ServerWrites
  <2>2. Pack(t) = Pack(s) /\ t.dirty = s.dirty
    BY <2>1, SameStorePacks DEF SameStore
  <2>3. Writing(t) => Writing(s)
    BY <2>1 DEF Writing, Current, Linked
  <2>4. QED
    BY <2>1, <2>2, <2>3, <1>1 DEF InSync
<1>12. ASSUME PutAgrees(d) PROVE Goal
  <2>1. /\ SameStore(s, t) /\ t.job = Idle /\ s.link = s.job.link /\ s.job.at = "put2"
        /\ t.link.base.nick = s.job.out.nick /\ t.link.base.has = s.job.out.has
    BY <1>12 DEF PutAgrees, AgreedIs0
  <2>2. Pack(t) = Pack(s) /\ t.dirty = s.dirty
    BY <2>1, SameStorePacks DEF SameStore
  <2>3. Writing(s)
    BY <2>1, JobLinked DEF Writing
  <2>4. ~s.dirty => s.job.out = Pack(s)
    BY <2>3, <1>1 DEF InSync
  <2>5. QED
    BY <2>1, <2>2, <2>4, <1>1 DEF InSync, Writing
<1>13. QED
  BY <1>3, <1>4, <1>5, <1>6, <1>7, <1>8, <1>9, <1>10, <1>11, <1>12 DEF Steps, Unlinks

LEMMA StepAgreement ==
  ASSUME Setting, Typed, Codes0, Agreement, Stored(prof'), NEW d \in Devices, Steps(d)
  PROVE  Agreement'
<1>1. ASSUME NEW f \in Devices PROVE InSync(prof'.dev[f])
  <2>1. CASE f = d
    BY <2>1, StepInSync
  <2>2. CASE f # d
    <3>1. prof'.dev[f] = prof.dev[f]
      BY <2>2, StepAside DEF Aside
    <3>2. QED
      BY <3>1 DEF Agreement
  <2>3. QED
    BY <2>1, <2>2
<1>2. QED
  BY <1>1 DEF Agreement

LEMMA AgreedProfile ==
  ASSUME Setting, Typed, Codes0, Agreement, NEW d \in Devices,
         prof.dev[d].link # NoLink, prof.dev[d].link.base.set, prof.dev[d].job = Idle,
         prof.dev[d].state = "ok", ~prof.dev[d].dirty,
         prof.dev[d].link.rev = prof.server[prof.dev[d].link.code].rev
  PROVE  prof.server[prof.dev[d].link.code].p = Pack(prof.dev[d])
<1> DEFINE s == prof.dev[d]
           at == prof.server[s.link.code]
<1>1. Pack(s).nick = s.link.base.nick /\ Pack(s).has = s.link.base.has
  BY Nothing DEF Agreement, InSync, Linked
<1>2. s.link.code \in Codes /\ at.p.nick = s.link.base.nick /\ at.p.has = s.link.base.has
  BY Zenon DEF Codes0, LinkKnown, IsRevision
<1>3. at.p \in Profiles /\ Pack(s) \in Profiles
  BY <1>2, PackIs DEF Typed, Stored, Fields, Kept
<1>4. \A p \in Profiles : p = [nick |-> p.nick, has |-> p.has]
  BY DEF Profiles
<1>5. QED
  BY <1>1, <1>2, <1>3, <1>4

-----------------------------------------------------------------------------
(* What is deleted does not come back. *)

LEMMA FreshIs ==
  ASSUME NEW p, NEW e, Fresh(p, e)
  PROVE  /\ \A c \in Codes : e \notin p.server[c].p.has
         /\ \A f \in Devices : /\ e \notin Travels(p, f)
                               /\ f # p.maker[e] => e \notin HeldIn(p, f) /\ e \notin p.dev[f].has
                               /\ e \in p.dev[f].has \cup p.erased[f] => f = p.maker[e]
BY DEF Fresh, Travels, HeldIn

LEMMA MadeIs ==
  ASSUME Setting, Typed, NEW f \in Devices, NEW e, e \in HeldIn(prof, f)
  PROVE  e \in Entries /\ e <= prof.made /\ e # prof.made + 1 /\ e \in Nat /\ prof.made \in Nat
<1>1. \A x \in HeldIn(prof, f) : x <= prof.made
  BY HeldAreMade DEF Typed, AllMade
<1>2. prof.made \in Nat /\ Entries \subseteq Nat
  BY DEF Typed, Stored, Fields, Setting
<1>3. HeldIn(prof, f) \subseteq Entries
  BY Zenon DEF Typed, Stored, Fields, HeldIn, Devs, Links, Bases, Jobs, Profiles
<1>4. e \in Entries /\ e \in Nat /\ e <= prof.made
  BY <1>1, <1>2, <1>3
<1>5. QED
  BY <1>2, <1>4

\* An entry d does not have and the server does not have stays away from both.
LEMMA StaysAway ==
  ASSUME Setting, Typed, Codes0, Stored(prof'), NEW d \in Devices, Steps(d),
         NEW e, e # prof.made + 1, e \notin HeldIn(prof, d), \A c \in Codes : e \notin prof.server[c].p.has
  PROVE  e \notin HeldIn(prof', d) /\ \A c \in Codes : e \notin prof'.server[c].p.has
<1>1. LinkSound(prof.dev[d])
  BY DEF Codes0
<1>2. QED
  BY <1>1, StepGets DEF Reachable

LEMMA MakerStays ==
  ASSUME Typed, NEW d \in Devices, Steps(d), NEW e \in Entries, e # prof.made + 1
  PROVE  prof'.maker[e] = prof.maker[e]
<1>1. CASE Adds(d)
  <2>1. prof.maker \in [Entries -> Devices \cup {0}]
    BY DEF Typed, Stored, Fields
  <2>2. prof'.maker = [prof.maker EXCEPT ![prof.made + 1] = d]
    BY <1>1 DEF Adds
  <2>3. QED
    BY <2>1, <2>2
<1>2. CASE ~Adds(d)
  BY <1>2, StepAside
<1>3. QED
  BY <1>1, <1>2

LEMMA FreshStays ==
  ASSUME Setting, Typed, Codes0, Stored(prof'), NEW d \in Devices, Steps(d),
         NEW e \in Entries, e # prof.made + 1, Fresh(prof, e),
         d # prof.maker[e] \/ ~GotWrites(d) \/ e \notin prof'.dev[d].job.out.has
  PROVE  Fresh(prof', e)
<1>1. /\ \A c \in Codes : e \notin prof.server[c].p.has
      /\ \A f \in Devices : e \notin Travels(prof, f) /\ (f # prof.maker[e] => e \notin HeldIn(prof, f))
  BY FreshIs
<1>2. prof'.maker[e] = prof.maker[e]
  BY MakerStays
<1>3. \A c \in Codes : e \notin prof'.server[c].p.has
  BY <1>1, StepTravels
<1>4. CASE d = prof.maker[e]
  <2>1. e \notin Travels(prof', d)
    BY <1>1, <1>4, StepTravels
  <2>2. \A f \in Devices \ {d} : prof'.dev[f] = prof.dev[f] /\ prof'.erased[f] = prof.erased[f]
    BY ZenonT(30), StepAside DEF Aside
  <2>3. QED
    BY <1>1, <1>2, <1>3, <1>4, <2>1, <2>2, Zenon DEF Fresh, Travels, HeldIn
<1>5. CASE d # prof.maker[e]
  <2>1. e \notin HeldIn(prof', d)
    BY <1>1, <1>5, StaysAway
  <2>2. \A f \in Devices \ {d} : prof'.dev[f] = prof.dev[f] /\ prof'.erased[f] = prof.erased[f]
    BY StepAside DEF Aside
  <2>3. QED
    BY <1>1, <1>2, <1>3, <1>5, <2>1, <2>2 DEF Fresh, Travels, HeldIn
<1>6. QED
  BY <1>4, <1>5

LEMMA NewIsFresh ==
  ASSUME Setting, Typed, Stored(prof'), NEW d \in Devices, Steps(d), Adds(d)
  PROVE  Fresh(prof', prof.made + 1)
<1> DEFINE e == prof.made + 1
           s == prof.dev[d]
           t == prof'.dev[d]
<1>1. prof.made \in Nat /\ e \in Entries /\ prof'.maker = [prof.maker EXCEPT ![e] = d]
  BY DEF Typed, Stored, Fields, Adds
<1>2. prof'.maker[e] = d
  BY <1>1 DEF Typed, Stored, Fields
<1>3. \A f \in Devices : e \notin HeldIn(prof, f)
  BY MadeIs
<1>4. \A c \in Codes : e \notin prof.server[c].p.has
  BY <1>1 DEF Typed, AllMade, Made
<1>5. prof'.server = prof.server /\ t.link = s.link /\ t.job = s.job
  BY DEF Adds, SameServer, SameSession
<1>6. \A f \in Devices \ {d} : prof'.dev[f] = prof.dev[f] /\ prof'.erased[f] = prof.erased[f]
  BY StepAside DEF Aside
<1>7. QED
  BY <1>2, <1>3, <1>4, <1>5, <1>6 DEF Fresh, HeldIn

LEMMA ExceptedGrows ==
  ASSUME NEW d \in Devices, Steps(d)
  PROVE  Excepted(prof) \subseteq Excepted(prof')
BY StepMarks DEF Excepted

LEMMA UnsentFrom ==
  ASSUME Setting, Typed, Codes0, Deletions, Stored(prof'), NEW d \in Devices, Steps(d),
         \A e \in prof'.dev[d].has \ (AgreedOn(prof'.dev[d]) \cup Excepted(prof')) :
           \/ /\ e \in prof.dev[d].has /\ e \notin AgreedOn(prof.dev[d])
              /\ ~GotWrites(d) \/ e \notin prof'.dev[d].job.out.has
           \/ Adds(d) /\ e = prof.made + 1
  PROVE  Unsent(prof', prof'.dev[d])
<1> DEFINE s == prof.dev[d]
           t == prof'.dev[d]
<1>1. ASSUME NEW e \in t.has \ (AgreedOn(t) \cup Excepted(prof')) PROVE Fresh(prof', e)
  <2>1. CASE Adds(d) /\ e = prof.made + 1
    BY <2>1, NewIsFresh
  <2>2. CASE /\ e \in s.has /\ e \notin AgreedOn(s)
             /\ ~GotWrites(d) \/ e \notin t.job.out.has
    <3>1. e \notin Excepted(prof)
      BY <1>1, ExceptedGrows
    <3>2. Fresh(prof, e)
      BY <2>2, <3>1 DEF Deletions, DeletionsIn, Unsent
    <3>3. e \in HeldIn(prof, d)
      BY <2>2 DEF HeldIn
    <3>4. e \in Entries /\ e # prof.made + 1
      BY ZenonT(30), <3>3, MadeIs
    <3>5. QED
      BY <2>2, <3>2, <3>4, FreshStays
  <2>3. QED
    BY <1>1, <2>1, <2>2
<1>2. QED
  BY <1>1 DEF Unsent

\* What the merge leaves on the device.
LEMMA MergedHas ==
  ASSUME Setting, Typed, Codes0, NoPhotos, NEW d \in Devices, HasMerged(d),
         prof.dev[d].job.at = "got", prof.dev[d].link = prof.dev[d].job.link
  PROVE  LET s == prof.dev[d]
             t == prof'.dev[d]
         IN /\ AgreedOn(s) = s.link.base.has /\ Current(s)
            /\ \A e \in t.has : e \in s.has \/ (e \in s.job.got.has /\ s.job.there = "there")
            /\ \A e \in t.has : s.job.there = "there" /\ e \notin s.job.got.has => e \notin s.link.base.has
            /\ \A e \in t.has : s.job.there = "there" /\ e \notin s.has => e \notin s.link.base.has
<1>1. Current(prof.dev[d])
  BY JobLinked
<1>2. AgreedOn(prof.dev[d]) = prof.dev[d].link.base.has
  BY DEF AgreedOn, Writing
<1>3. QED
  BY <1>1, <1>2 DEF HasMerged, Merge3

LEMMA OwnUnsent ==
  ASSUME Setting, Typed, Codes0, NoPhotos, Deletions, Stored(prof'), NEW d \in Devices, Steps(d)
  PROVE  Unsent(prof', prof'.dev[d])
<1> DEFINE s == prof.dev[d]
           t == prof'.dev[d]
           X == Excepted(prof')
           Goal == Unsent(prof', t)
<1>1. ASSUME ~GotWrites(d), t.has \subseteq s.has, AgreedOn(s) \subseteq AgreedOn(t) \cup X
      PROVE  Goal
  BY <1>1, UnsentFrom
<1>2. ASSUME t.has \subseteq X PROVE Goal
  BY <1>2 DEF Unsent
<1>3. ASSUME Adds(d), ~GotWrites(d) PROVE Goal
  <2>1. t.has \subseteq s.has \cup {prof.made + 1} /\ t.link = s.link /\ t.job = s.job
    BY <1>3 DEF Adds, SameSession
  <2>2. AgreedOn(s) = AgreedOn(t)
    BY <2>1 DEF AgreedOn, Writing, Current, Linked
  <2>3. QED
    BY <1>3, <2>1, <2>2, UnsentFrom
<1>4. ASSUME (\E e \in Entries : Erases(d, e)) \/ Renames(d), ~GotWrites(d) PROVE Goal
  <2>1. t.has \subseteq s.has /\ t.link = s.link /\ t.job = s.job
    BY <1>4 DEF Erases, Renames, SameSession
  <2>2. AgreedOn(s) = AgreedOn(t)
    BY <2>1 DEF AgreedOn, Writing, Current, Linked
  <2>3. QED
    BY <1>1, <1>4, <2>1, <2>2
<1>5. ASSUME DropsLink(d) PROVE Goal
  <2>1. t.has \subseteq X
    BY <1>5, Zenon DEF DropsLink, SameStore, GoesOff, Excepted
  <2>2. QED
    BY <1>2, <2>1
<1>6. ASSUME Quits(d), ~GotWrites(d) PROVE Goal
  <2>1. /\ t.has = s.has /\ t.job = Idle /\ Idle.at = "no"
        /\ \/ s.has \subseteq prof'.loose
           \/ /\ t.link = s.link
              /\ Writing(s) => (s.has \cup s.job.got.has \cup s.job.out.has) \ s.link.base.has \subseteq prof'.loose
    BY <1>6, Nothing DEF Quits, SameStore
  <2>2. CASE s.has \subseteq prof'.loose
    BY <1>2, <2>1, <2>2 DEF Excepted
  <2>3. CASE /\ t.link = s.link
             /\ Writing(s) => (s.has \cup s.job.got.has \cup s.job.out.has) \ s.link.base.has \subseteq prof'.loose
    <3>1. AgreedOn(t) = s.link.base.has
      BY <2>1, <2>3 DEF AgreedOn, Writing
    <3>2. AgreedOn(s) \subseteq AgreedOn(t) \cup X
      BY ZenonT(30), <2>3, <3>1 DEF AgreedOn, Excepted
    <3>3. QED
      BY <1>1, <1>6, <2>1, <3>2
  <2>4. QED
    BY ZenonT(30), <2>1, <2>2, <2>3
<1>7. ASSUME Syncs(d) \/ Reads(d), ~GotWrites(d) PROVE Goal
  <2>1. /\ t.has = s.has /\ t.link = s.link /\ t.job.at \in {"get", "got"} /\ s.job.at \in {"no", "get"}
    BY <1>7, Nothing DEF Syncs, Reads, Session, Asks
  <2>2. AgreedOn(s) = AgreedOn(t)
    BY <2>1 DEF AgreedOn, Writing
  <2>3. QED
    BY <1>1, <1>7, <2>1, <2>2
<1>8. ASSUME (\E c \in Codes, make \in BOOLEAN : StartsCode(d, c, make)), ~GotWrites(d) PROVE Goal
  <2>1. t.has = s.has /\ s.link = NoLink /\ NoLink.base.has = {}
    BY <1>8, Nothing DEF StartsCode, Linked
  <2>2. AgreedOn(s) = {}
    BY <2>1 DEF AgreedOn, Writing, Current, Linked
  <2>3. QED
    BY <1>1, <1>8, <2>1, <2>2
<1>9. ASSUME GotAgrees(d), ~GotWrites(d) PROVE Goal
  <2>1. /\ HasMerged(d) /\ s.job.at = "got" /\ s.link = s.job.link /\ s.job.there = "there"
        /\ t.link.base.has = s.job.got.has /\ t.job = Idle /\ Idle.at = "no"
    BY <1>9, Nothing DEF GotAgrees
  <2>2. AgreedOn(t) = s.job.got.has
    BY <2>1 DEF AgreedOn, Writing
  <2>3. \A e \in t.has \ AgreedOn(t) : e \in s.has /\ e \notin AgreedOn(s)
    BY <2>1, <2>2, MergedHas
  <2>4. QED
    BY <1>9, <2>3, UnsentFrom
<1>10. ASSUME GotWrites(d) PROVE Goal
  <2>1. /\ HasMerged(d) /\ s.job.at = "got" /\ s.link = s.job.link /\ t \in Devs
        /\ t.link = s.link /\ t.job.at = "put" /\ t.job.link = s.job.link /\ t.job.out = Pack(t)
        /\ (t.has \cap Walls) \ Pack(t).has \subseteq X
    BY <1>10, Zenon DEF GotWrites, HasMerged, Excepted
  <2>2. AgreedOn(s) = s.link.base.has /\ Current(s) /\ \A e \in t.has : e \in s.has \/ e \in s.job.got.has
    BY <2>1, MergedHas
  <2>3. AgreedOn(t) = t.job.out.has
    BY <2>1, <2>2 DEF AgreedOn, Writing, Current, Linked
  <2>4. t.has \subseteq t.job.out.has \cup Photos \cup X
    BY <2>1, PackIs
  <2>5. (s.link.base.has \cup s.job.got.has) \cap Photos = {}
    BY DEF NoPhotos
  <2>6. \A e \in t.has \ (AgreedOn(t) \cup X) : e \in s.has /\ e \notin AgreedOn(s) /\ e \notin t.job.out.has
    BY <2>2, <2>3, <2>4, <2>5
  <2>7. QED
    BY <2>6, UnsentFrom
<1>11. ASSUME ServerWrites(d), ~GotWrites(d) PROVE Goal
  <2>1. /\ t.has = s.has /\ t.link = s.link /\ s.job.at = "put" /\ t.job.at = "put2" /\ t.job.link = s.job.link
        /\ t.job.out = s.job.out
    BY <1>11, Zenon DEF ServerWrites, SameStore
  <2>2. AgreedOn(s) = AgreedOn(t)
    BY <2>1 DEF AgreedOn, Writing, Current, Linked
  <2>3. QED
    BY <1>1, <1>11, <2>1, <2>2
<1>12. ASSUME Restarts(d), ~GotWrites(d) PROVE Goal
  <2>1. /\ t.has = s.has /\ t.link = s.link /\ t.job.at = "get"
        /\ (s.has \cup s.job.got.has \cup s.job.out.has) \ s.link.base.has \subseteq X
    BY <1>12 DEF Restarts, SameStore, Asks, Excepted
  <2>2. AgreedOn(t) = s.link.base.has
    BY <2>1 DEF AgreedOn, Writing
  <2>3. AgreedOn(s) \subseteq AgreedOn(t) \cup X
    BY <2>1, <2>2 DEF AgreedOn
  <2>4. QED
    BY <1>1, <1>12, <2>1, <2>3
<1>13. ASSUME PutAgrees(d), ~GotWrites(d) PROVE Goal
  <2>1. /\ t.has = s.has /\ s.job.at = "put2" /\ s.link = s.job.link /\ t.job = Idle /\ Idle.at = "no"
        /\ t.link.base.has = s.job.out.has
    BY <1>13, Nothing DEF PutAgrees, AgreedIs0, SameStore
  <2>2. AgreedOn(t) = s.job.out.has
    BY <2>1 DEF AgreedOn, Writing
  <2>3. AgreedOn(s) = s.job.out.has
    BY <2>1, JobLinked DEF AgreedOn, Writing
  <2>4. QED
    BY <1>1, <1>13, <2>1, <2>2, <2>3
<1>14. ASSUME Requests(d) \/ Unheard, ~GotWrites(d) PROVE Goal
  <2>1. t = s
    BY <1>14 DEF Requests, Unheard
  <2>2. QED
    BY <1>1, <1>14, <2>1
<1>15. QED
  BY <1>3, <1>4, <1>5, <1>6, <1>7, <1>8, <1>9, <1>10, <1>11, <1>12, <1>13, <1>14 DEF Steps, Unlinks

LEMMA OtherUnsent ==
  ASSUME Setting, Typed, Codes0, Deletions, Stored(prof'), NEW d \in Devices, Steps(d), NEW f \in Devices \ {d}
  PROVE  Unsent(prof', prof'.dev[f])
<1> DEFINE s == prof.dev[f]
<1>1. prof'.dev[f] = s
  BY StepAside DEF Aside
<1>2. ASSUME NEW e \in s.has \ (AgreedOn(s) \cup Excepted(prof')) PROVE Fresh(prof', e)
  <2>1. e \notin Excepted(prof)
    BY <1>2, ExceptedGrows
  <2>2. Fresh(prof, e)
    BY <1>2, <2>1 DEF Deletions, DeletionsIn, Unsent
  <2>3. e \in HeldIn(prof, f)
    BY <1>2 DEF HeldIn
  <2>4. e \in Entries /\ e # prof.made + 1
    BY <2>3, MadeIs
  <2>5. d # prof.maker[e]
    BY <1>2, <2>2, FreshIs
  <2>6. QED
    BY <2>2, <2>4, <2>5, FreshStays
<1>3. QED
  BY <1>1, <1>2 DEF Unsent

LEMMA ServerShrinks ==
  ASSUME NEW d \in Devices, Steps(d), ~ServerWrites(d), NEW c \in Codes
  PROVE  prof'.server[c].p.has \subseteq prof.server[c].p.has
<1>1. CASE prof'.server = prof.server
  BY <1>1
<1>2. CASE Removes(d)
  BY <1>2, Nothing DEF Removes
<1>3. QED
  BY <1>1, <1>2, ServerMoves

LEMMA OtherBrings ==
  ASSUME Setting, Typed, Codes0, Deletions, Stored(prof'), NEW d \in Devices, Steps(d), NEW f \in Devices \ {d}
  PROVE  BringsAnew(prof', f)
<1> DEFINE j == prof.dev[f].job
<1>1. \A g \in Devices \ {d} : prof'.dev[g] = prof.dev[g] /\ prof'.erased[g] = prof.erased[g]
  BY StepAside DEF Aside
<1>2. ASSUME j.at = "put", NEW e \in j.out.has \ (j.got.has \cup Excepted(prof')) PROVE Foreign(prof', e, f)
  <2>1. e \notin Excepted(prof)
    BY <1>2, ExceptedGrows
  <2>2. Foreign(prof, e, f)
    BY <1>2, <2>1 DEF Deletions, DeletionsIn, BringsAnew
  <2>3. e \in HeldIn(prof, f)
    BY <1>2 DEF HeldIn
  <2>4. e \in Entries /\ e # prof.made + 1
    BY <2>3, MadeIs
  <2>5. e \notin HeldIn(prof, d) /\ \A c \in Codes : e \notin prof.server[c].p.has
    BY <2>2 DEF Foreign
  <2>6. e \notin HeldIn(prof', d) /\ \A c \in Codes : e \notin prof'.server[c].p.has
    BY <2>4, <2>5, StaysAway
  <2>7. \A g \in Devices \ {f} : e \notin HeldIn(prof', g)
    <3>1. ASSUME NEW g \in Devices \ {f}, g # d PROVE e \notin HeldIn(prof', g)
      BY <3>1, <1>1, <2>2 DEF Foreign, HeldIn
    <3>2. QED
      BY <2>6, <3>1
  <2>8. QED
    BY <1>1, <2>2, <2>6, <2>7 DEF Foreign
<1>3. QED
  BY <1>1, <1>2 DEF BringsAnew

LEMMA BringsStill ==
  ASSUME Setting, Typed, Codes0, Deletions, Stored(prof'), NEW d \in Devices, Steps(d), ~ServerWrites(d),
         prof'.dev[d].job = prof.dev[d].job,
         \A e \in prof.dev[d].job.out.has : e \notin prof.dev[d].link.base.has => e \notin prof'.dev[d].link.base.has,
         \A e \in prof.dev[d].job.out.has \ Excepted(prof') :
           ~Current(prof'.dev[d]) => \/ e \notin prof'.dev[d].has /\ e \notin prof'.erased[d]
                                     \/ /\ ~Current(prof.dev[d])
                                        /\ e \in prof'.dev[d].has \cup prof'.erased[d] => e \in prof.dev[d].has \cup prof.erased[d]
  PROVE  BringsAnew(prof', d)
<1> DEFINE j == prof.dev[d].job
<1>1. \A g \in Devices \ {d} : prof'.dev[g] = prof.dev[g] /\ prof'.erased[g] = prof.erased[g]
  BY StepAside DEF Aside
<1>2. ASSUME j.at = "put", NEW e \in j.out.has \ (j.got.has \cup Excepted(prof')) PROVE Foreign(prof', e, d)
  <2>1. e \notin Excepted(prof)
    BY <1>2, ExceptedGrows
  <2>2. Foreign(prof, e, d)
    BY <1>2, <2>1 DEF Deletions, DeletionsIn, BringsAnew
  <2>3. \A c \in Codes : e \notin prof'.server[c].p.has
    BY <2>2, ServerShrinks DEF Foreign
  <2>4. \A g \in Devices \ {d} : e \notin HeldIn(prof', g)
    BY <1>1, <2>2 DEF Foreign, HeldIn
  <2>5. e \notin prof'.dev[d].link.base.has
    BY <1>2, <2>2 DEF Foreign
  <2>6. ~Current(prof'.dev[d]) => e \notin prof'.dev[d].has /\ e \notin prof'.erased[d]
    BY <1>2, <2>2 DEF Foreign
  <2>7. QED
    BY <2>3, <2>4, <2>5, <2>6 DEF Foreign
<1>3. QED
  BY <1>2 DEF BringsAnew

LEMMA OwnBrings ==
  ASSUME Setting, Typed, Codes0, NoPhotos, Deletions, Stored(prof'), NEW d \in Devices, Steps(d)
  PROVE  BringsAnew(prof', d)
<1> DEFINE s == prof.dev[d]
           t == prof'.dev[d]
           Goal == BringsAnew(prof', d)
<1>1. ASSUME t.job.at # "put" PROVE Goal
  BY <1>1 DEF BringsAnew
<1>2. \A e \in s.job.out.has : e # prof.made + 1
  BY MadeIs DEF HeldIn
<1>3. ASSUME Adds(d) \/ Renames(d), ~ServerWrites(d) PROVE Goal
  <2>1. /\ t.link = s.link /\ t.job = s.job /\ prof'.erased = prof.erased
        /\ t.has \subseteq s.has \cup {prof.made + 1}
    BY <1>3 DEF Adds, Renames, SameSession
  <2>2. Current(t) <=> Current(s)
    BY <2>1 DEF Current, Linked
  <2>3. QED
    BY <1>2, <1>3, <2>1, <2>2, BringsStill
<1>4. ASSUME NEW x \in Entries, Erases(d, x), ~ServerWrites(d) PROVE Goal
  <2>1. /\ t.link = s.link /\ t.job = s.job /\ prof'.erased[d] = prof.erased[d] \cup {x}
        /\ t.has \subseteq s.has /\ x \in s.has
    BY <1>4 DEF Erases, SameSession
  <2>2. Current(t) <=> Current(s)
    BY <2>1 DEF Current, Linked
  <2>3. QED
    BY <1>4, <2>1, <2>2, BringsStill
<1>5. ASSUME DropsLink(d), ~ServerWrites(d) PROVE Goal
  <2>1. /\ t.link = NoLink /\ NoLink.base.has = {} /\ t.job = s.job /\ prof'.erased[d] = {}
        /\ t.has \subseteq Excepted(prof')
    BY <1>5, Nothing, Zenon DEF DropsLink, GoesOff, SameStore, Excepted
  <2>2. QED
    BY <1>5, <2>1, BringsStill
<1>6. ASSUME Requests(d) \/ Unheard, ~ServerWrites(d) PROVE Goal
  <2>1. t = s /\ prof'.erased = prof.erased
    BY <1>6 DEF Requests, Unheard
  <2>2. QED
    BY <1>6, <2>1, BringsStill
<1>7. ASSUME NEW c \in Codes, NEW make \in BOOLEAN, StartsCode(d, c, make), ~ServerWrites(d) PROVE Goal
  <2>1. /\ t.link.base.has = {} /\ t.has = s.has /\ prof'.erased = prof.erased /\ ~Linked(s)
        /\ t.job.at = "get" \/ t.job = s.job
    BY <1>7, Nothing DEF StartsCode, Asks
  <2>2. CASE t.job.at = "get"
    BY <1>1, <2>2
  <2>3. CASE t.job = s.job
    <3>1. ~Current(s)
      BY <2>1 DEF Current
    <3>2. QED
      BY <1>7, <2>1, <2>3, <3>1, BringsStill
  <2>4. QED
    BY <2>1, <2>2, <2>3
<1>8. ASSUME Syncs(d) \/ Reads(d) \/ Quits(d) \/ GotAgrees(d) PROVE Goal
  <2>1. t.job.at # "put"
    BY <1>8, Nothing, Zenon DEF Syncs, Asks, Reads, Quits, GotAgrees
  <2>2. QED
    BY <1>1, <2>1
<1>9. ASSUME ServerWrites(d) \/ Restarts(d) \/ PutAgrees(d) PROVE Goal
  <2>1. t.job.at # "put"
    BY <1>9, Nothing, Zenon DEF ServerWrites, Restarts, Asks, PutAgrees, AgreedIs0
  <2>2. QED
    BY <1>1, <2>1
<1>10. ASSUME GotWrites(d) PROVE Goal
  <2>1. /\ HasMerged(d) /\ s.job.at = "got" /\ s.link = s.job.link /\ t \in Devs
        /\ t.link = s.link /\ t.job.link = s.job.link /\ t.job.out = Pack(t) /\ t.job.got = s.job.got
        /\ prof'.server = prof.server
        /\ ~(s.job.there = "gone" /\ s.link.base.set)
    BY <1>10, Zenon DEF GotWrites, HasMerged, SameWorld
  <2>2. /\ AgreedOn(s) = s.link.base.has /\ Current(s)
        /\ \A e \in t.has : e \in s.has \/ (e \in s.job.got.has /\ s.job.there = "there")
        /\ \A e \in t.has : s.job.there = "there" /\ e \notin s.job.got.has => e \notin s.link.base.has
    BY <2>1, MergedHas, Zenon
  <2>3. Current(t) /\ t.job.out.has \subseteq t.has
    BY <2>1, <2>2, PackIs DEF Current, Linked
  <2>4. s.job.there # "there" => s.link.base.has = {}
    <3>1. LinkSound(s) /\ JobKnown(s) /\ s.job \in Jobs
      BY Zenon DEF Codes0, Typed, Stored, Fields, Devs
    <3>2. s.job.there # "there" => ~s.link.base.set
      BY <2>1, <3>1 DEF JobKnown, Jobs
    <3>3. QED
      BY <3>1, <3>2, Nothing DEF LinkSound
  <2>5. ASSUME NEW e \in t.job.out.has \ (t.job.got.has \cup Excepted(prof')) PROVE Foreign(prof', e, d)
    <3>1. e \in s.has /\ e \notin s.link.base.has
      BY <2>1, <2>2, <2>3, <2>4, <2>5
    <3>2. e \notin Excepted(prof)
      BY <2>5, ExceptedGrows
    <3>3. Fresh(prof, e)
      BY <3>1, <3>2, <2>2 DEF Deletions, DeletionsIn, Unsent
    <3>4. /\ \A c \in Codes : e \notin prof.server[c].p.has
          /\ \A f \in Devices \ {d} : e \notin HeldIn(prof, f)
      BY <3>1, <3>3, FreshIs
    <3>5. \A f \in Devices \ {d} : prof'.dev[f] = prof.dev[f] /\ prof'.erased[f] = prof.erased[f]
      BY StepAside DEF Aside
    <3>6. \A f \in Devices \ {d} : e \notin HeldIn(prof', f)
      BY <3>4, <3>5 DEF HeldIn
    <3>7. QED
      BY ZenonT(30), <3>1, <3>4, <3>6, <2>1, <2>3 DEF Foreign
  <2>6. QED
    BY <2>5 DEF BringsAnew
<1>11. QED
  BY <1>3, <1>4, <1>5, <1>6, <1>7, <1>8, <1>9, <1>10 DEF Steps, Unlinks

\* What a write of d brings to the server, and what it found there.
LEMMA WritesIs ==
  ASSUME Typed, Codes0, Deletions, NEW d \in Devices, ServerWrites(d), NEW c \in Codes,
         NEW e, e \in prof'.server[c].p.has, e \notin Excepted(prof)
  PROVE  e \in prof.server[c].p.has \/ Foreign(prof, e, d)
<1> DEFINE j == prof.dev[d].job
<1>1. CASE c = j.link.code /\ prof'.dev[d].job.answer = "ok"
  <2>1. /\ prof'.server[c].p = j.out
        /\ ~Making(j.link) => j.there = "there"
    BY <1>1, WrittenOver, Zenon
  <2>2. j.at = "put" /\ (j.there = "there" => prof.server[c].rev = j.rev)
    BY <1>1, Zenon DEF ServerWrites
  <2>3. JobKnown(prof.dev[d]) /\ BringsAnew(prof, d)
    BY DEF Codes0, Deletions, DeletionsIn
  <2>4. CASE e \in j.got.has
    <3>1. j.there = "there"
      BY <2>2, <2>3, <2>4, Nothing DEF JobKnown
    <3>2. prof.server[c].p.has = j.got.has
      BY <1>1, <2>2, <2>3, <3>1, Zenon DEF JobKnown, IsRevision
    <3>3. QED
      BY <2>4, <3>2
  <2>5. CASE e \notin j.got.has
    BY <2>1, <2>2, <2>3, <2>5 DEF BringsAnew
  <2>6. QED
    BY <2>4, <2>5
<1>2. CASE ~(c = j.link.code /\ prof'.dev[d].job.answer = "ok")
  <2>1. prof'.server[c] = prof.server[c]
    BY <1>2, Zenon DEF ServerWrites
  <2>2. QED
    BY <2>1
<1>3. QED
  BY <1>1, <1>2

LEMMA StepServes ==
  ASSUME Typed, Codes0, Deletions, NEW d \in Devices, Steps(d), NEW c \in Codes,
         NEW e, e \in prof'.server[c].p.has, e \notin Excepted(prof)
  PROVE  e \in prof.server[c].p.has \/ (ServerWrites(d) /\ Foreign(prof, e, d))
<1>1. CASE ServerWrites(d)
  BY <1>1, WritesIs
<1>2. CASE ~ServerWrites(d)
  BY <1>2, ServerShrinks
<1>3. QED
  BY <1>1, <1>2

\* What was missing at the server stays missing, for a job and link as they were.
LEMMA NotReaddedStill ==
  ASSUME Setting, Typed, Codes0, Deletions, NEW d \in Devices, Steps(d), NEW f \in Devices,
         prof'.dev[f].link = prof.dev[f].link, prof'.dev[f].job = prof.dev[f].job,
         f # d \/ ~ServerWrites(d)
  PROVE  NotReadded(prof', prof'.dev[f])
<1> DEFINE s == prof.dev[f]
           t == prof'.dev[f]
           j == s.job
<1>1. ASSUME j.at = "got", Current(s), j.there = "there",
             NEW e \in prof'.server[s.link.code].p.has \cap s.link.base.has, e \notin Excepted(prof')
      PROVE  e \in j.got.has
  <2>1. s.link.code \in Codes
    BY <1>1 DEF Codes0, LinkSound, Current
  <2>2. e \notin Excepted(prof)
    BY <1>1, ExceptedGrows
  <2>3. ~(ServerWrites(d) /\ Foreign(prof, e, d))
    BY <1>1 DEF Foreign, HeldIn
  <2>4. e \in prof.server[s.link.code].p.has
    BY <1>1, <2>1, <2>2, <2>3, StepServes
  <2>5. QED
    BY <1>1, <2>2, <2>4 DEF Deletions, DeletionsIn, NotReadded
<1>2. Current(t) <=> Current(s)
  BY DEF Current, Linked
<1>3. QED
  BY ZenonT(30), <1>1, <1>2 DEF NotReadded

LEMMA StepNotReadded ==
  ASSUME Setting, Typed, Codes0, Deletions, Stored(prof'), NEW d \in Devices, Steps(d), NEW f \in Devices
  PROVE  NotReadded(prof', prof'.dev[f])
<1> DEFINE s == prof.dev[d]
           t == prof'.dev[d]
           Goal == NotReadded(prof', t)
<1>1. CASE f # d
  <2>1. prof'.dev[f] = prof.dev[f]
    BY <1>1, StepAside DEF Aside
  <2>2. QED
    BY <1>1, <2>1, NotReaddedStill
<1>2. ASSUME t.job.at # "got" \/ ~Current(t) PROVE Goal
  BY <1>2 DEF NotReadded
<1>3. ASSUME ServerWrites(d) \/ Restarts(d) \/ PutAgrees(d) \/ GotAgrees(d) PROVE Goal
  <2>1. t.job.at # "got"
    BY <1>3, Nothing, Zenon DEF ServerWrites, Restarts, Asks, PutAgrees, AgreedIs0, GotAgrees
  <2>2. QED
    BY <1>2, <2>1
<1>4. ASSUME Syncs(d) \/ GotWrites(d) \/ Quits(d) PROVE Goal
  <2>1. t.job.at # "got"
    BY <1>4, Nothing DEF Syncs, Asks, GotWrites, Quits
  <2>2. QED
    BY <1>2, <2>1
<1>5. ASSUME DropsLink(d) PROVE Goal
  <2>1. ~Current(t)
    BY <1>5, Zenon DEF DropsLink, GoesOff, Current, Linked
  <2>2. QED
    BY <1>2, <2>1
<1>6. ASSUME NEW c \in Codes, NEW make \in BOOLEAN, StartsCode(d, c, make) PROVE Goal
  <2>1. t.job.at = "get" \/ t.job = s.job
    BY <1>6 DEF StartsCode, Asks
  <2>2. t.job = s.job => ~Current(t)
    BY <1>6, NewLinkIsNew DEF Current
  <2>3. QED
    BY <1>2, <2>1, <2>2
<1>7. ASSUME Reads(d) PROVE Goal
  <2>1. /\ t.link = s.link /\ t.job.link = s.job.link /\ t.job.got = prof.server[s.job.link.code].p
        /\ prof'.server = prof.server
    BY <1>7 DEF Reads, Session, SameWorld
  <2>2. QED
    BY <2>1, Zenon DEF NotReadded, Current
<1>8. ASSUME Adds(d) \/ (\E e \in Entries : Erases(d, e)) \/ Renames(d), ~ServerWrites(d) PROVE Goal
  <2>1. t.link = s.link /\ t.job = s.job
    BY <1>8 DEF Adds, Erases, Renames, SameSession
  <2>2. QED
    BY <1>8, <2>1, NotReaddedStill
<1>9. ASSUME Requests(d) \/ Unheard, ~ServerWrites(d) PROVE Goal
  <2>1. t = s
    BY <1>9 DEF Requests, Unheard
  <2>2. QED
    BY <1>9, <2>1, NotReaddedStill
<1>10. Goal
  BY ZenonT(30), <1>3, <1>4, <1>5, <1>6, <1>7, <1>8, <1>9 DEF Steps, Unlinks
<1>11. QED
  BY <1>1, <1>10

\* A deleted entry stays deleted when link and job stay, or the job ends.
LEMMA DeletedStill ==
  ASSUME Setting, Typed, Codes0, Deletions, Stored(prof'), NEW d \in Devices, Steps(d), NEW f \in Devices,
         f # d \/ (~ServerWrites(d) /\ ~GotWrites(d)),
         NEW e \in prof.erased[f], e \notin Excepted(prof'),
         e \notin prof'.dev[f].has,
         prof'.dev[f].link = prof.dev[f].link, prof'.dev[f].job = prof.dev[f].job
  PROVE  Deleted0(prof', f, e)
<1> DEFINE s == prof.dev[f]
           t == prof'.dev[f]
           j == s.job
           there == prof.server[s.link.code].p.has
           later == prof'.server[s.link.code].p.has
<1>1. e \notin Excepted(prof)
  BY ExceptedGrows
<1>2. Deleted0(prof, f, e)
  BY <1>1 DEF Deletions, DeletionsIn, StaysDeleted
<1>3. e \in HeldIn(prof, f)
  BY DEF HeldIn
<1>4. e \in Entries /\ e # prof.made + 1
  BY <1>3, MadeIs
<1>5. ASSUME ~Linked(s) PROVE Fresh(prof', e)
  <2>1. Fresh(prof, e)
    BY <1>2, <1>5 DEF Deleted0
  <2>2. f # d => d # prof.maker[e]
    BY <2>1, FreshIs
  <2>3. QED
    BY <2>1, <2>2, <1>4, FreshStays
<1>6. ASSUME Linked(s), e \in later PROVE e \in there
  <2>1. s.link.code \in Codes
    BY <1>6 DEF Codes0, LinkSound
  <2>2. ~(ServerWrites(d) /\ Foreign(prof, e, d))
    BY DEF Foreign, HeldIn
  <2>3. QED
    BY <1>1, <1>6, <2>1, <2>2, StepServes
<1>7. (Linked(t) <=> Linked(s)) /\ (Current(t) <=> Current(s)) /\ (Writing(t) <=> Writing(s))
  BY DEF Linked, Current, Writing
<1>8. Writing(s) => Linked(s)
  BY DEF Writing, Current
<1>9. QED
  BY ZenonT(30), <1>2, <1>5, <1>6, <1>7, <1>8 DEF Deleted0

LEMMA DeletedBefore ==
  ASSUME Setting, Typed, Codes0, Deletions, Stored(prof'), NEW d \in Devices, Steps(d), ~GotWrites(d) \/ Linked(prof.dev[d]),
         NEW e \in prof.erased[d], e \notin Excepted(prof')
  PROVE  /\ Deleted0(prof, d, e) /\ e \notin Excepted(prof) /\ e \in Entries /\ e # prof.made + 1
         /\ ~Linked(prof.dev[d]) => Fresh(prof', e) /\ \A c \in Codes : e \notin prof'.server[c].p.has
<1>1. e \notin Excepted(prof)
  BY ExceptedGrows
<1>2. Deleted0(prof, d, e)
  BY <1>1 DEF Deletions, DeletionsIn, StaysDeleted
<1>3. e \in HeldIn(prof, d)
  BY DEF HeldIn
<1>4. e \in Entries /\ e # prof.made + 1
  BY <1>3, MadeIs
<1>5. ASSUME ~Linked(prof.dev[d]) PROVE Fresh(prof', e)
  <2>1. Fresh(prof, e)
    BY ZenonT(30), <1>2, <1>5 DEF Deleted0
  <2>2. QED
    BY <2>1, <1>4, <1>5, FreshStays
<1>6. QED
  BY <1>1, <1>2, <1>4, <1>5, FreshIs

LEMMA ErasedStaysDeleted ==
  ASSUME Setting, Typed, Codes0, Deletions, Stored(prof'), NEW d \in Devices, Steps(d),
         ~ServerWrites(d), ~GotWrites(d),
         NEW x \in Entries, Erases(d, x), x \notin Excepted(prof')
  PROVE  Deleted0(prof', d, x)
<1> DEFINE s == prof.dev[d]
           t == prof'.dev[d]
<1>1. /\ x \in s.has /\ x \notin t.has /\ t.link = s.link /\ t.job = s.job /\ prof'.server = prof.server
  BY DEF Erases, SameSession, SameServer
<1>2. x \notin Excepted(prof)
  BY ExceptedGrows
<1>3. x \in AgreedOn(s) \/ Fresh(prof, x)
  BY <1>1, <1>2 DEF Deletions, DeletionsIn, Unsent
<1>4. x \in Entries /\ x # prof.made + 1
  BY <1>1, MadeIs DEF HeldIn
<1>5. ~Linked(s) => AgreedOn(s) = {}
  BY Nothing DEF AgreedOn, Writing, Current, Linked
<1>6. ~Linked(s) => Fresh(prof', x)
  BY <1>3, <1>4, <1>5, FreshStays
<1>7. Linked(s) => s.link.code \in Codes
  BY DEF Codes0, LinkSound
<1>8. Linked(s) /\ x \in prof.server[s.link.code].p.has => x \in AgreedOn(s)
  BY <1>3, <1>7, FreshIs
<1>9. s.job.at = "got" /\ x \in s.job.got.has => x \in s.link.base.has
  BY <1>3, FreshIs DEF AgreedOn, Writing, Travels
<1>10. (Linked(t) <=> Linked(s)) /\ (Current(t) <=> Current(s)) /\ (Writing(t) <=> Writing(s))
  BY <1>1 DEF Linked, Current, Writing
<1>11. Writing(s) => Linked(s)
  BY DEF Writing, Current
<1>12. QED
  BY <1>1, <1>6, <1>8, <1>9, <1>10, <1>11 DEF Deleted0, AgreedOn

\* d without a write under way: what the server has of a deleted entry is in the base.
LEMMA DeletedIdle ==
  ASSUME Setting, Typed, Codes0, Deletions, Stored(prof'), NEW d \in Devices, Steps(d), ~GotWrites(d),
         prof'.server = prof.server, prof'.dev[d].link = prof.dev[d].link, prof'.dev[d].has = prof.dev[d].has,
         prof'.dev[d].job.at \notin {"got", "put", "put2"},
         NEW e \in prof.erased[d], e \notin Excepted(prof'),
         Writing(prof.dev[d]) /\ e \in prof.dev[d].job.out.has => e \in prof.dev[d].link.base.has
  PROVE  Deleted0(prof', d, e)
<1> DEFINE s == prof.dev[d]
           t == prof'.dev[d]
<1>1. /\ Deleted0(prof, d, e)
      /\ ~Linked(s) => Fresh(prof', e)
  BY DeletedBefore
<1>2. Linked(t) <=> Linked(s)
  BY DEF Linked
<1>3. ~Writing(t)
  BY DEF Writing
<1>4. QED
  BY <1>1, <1>2, <1>3 DEF Deleted0

LEMMA StarterStaysDeleted ==
  ASSUME Setting, Typed, Codes0, Deletions, Stored(prof'), NEW d \in Devices, Steps(d), ~GotWrites(d),
         NEW c \in Codes, NEW make \in BOOLEAN, StartsCode(d, c, make),
         NEW e \in prof.erased[d], e \notin Excepted(prof')
  PROVE  Deleted0(prof', d, e)
<1> DEFINE s == prof.dev[d]
           t == prof'.dev[d]
<1>1. /\ t.has = s.has /\ ~Linked(s) /\ t.link.code = c /\ (t.job.at = "get" \/ t.job = s.job)
  BY DEF StartsCode, Asks
<1>2. /\ Deleted0(prof, d, e) /\ Fresh(prof', e)
      /\ e \notin prof'.server[c].p.has
  BY <1>1, DeletedBefore
<1>3. t.job.at # "get" => ~Current(t)
  BY ZenonT(30), <1>1, NewLinkIsNew DEF Current
<1>4. QED
  BY <1>1, <1>2, <1>3 DEF Deleted0, Writing

LEMMA ReaderStaysDeleted ==
  ASSUME Setting, Typed, Codes0, Deletions, Stored(prof'), NEW d \in Devices, Steps(d), ~GotWrites(d), Reads(d),
         NEW e \in prof.erased[d], e \notin Excepted(prof')
  PROVE  Deleted0(prof', d, e)
<1> DEFINE s == prof.dev[d]
           t == prof'.dev[d]
<1>1. /\ t.has = s.has /\ t.link = s.link /\ t.job.link = s.job.link /\ s.job.at = "get" /\ t.job.at = "got"
      /\ t.job.got = prof.server[s.job.link.code].p /\ prof'.server = prof.server
  BY DEF Reads, Session, SameWorld
<1>2. Deleted0(prof, d, e) /\ (~Linked(s) => Fresh(prof', e))
  BY DeletedBefore
<1>3. Linked(t) <=> Linked(s)
  BY <1>1 DEF Linked
<1>4. ~Writing(t) /\ ~Writing(s)
  BY <1>1 DEF Writing
<1>5. Current(t) => Linked(s) /\ t.job.got = prof.server[s.link.code].p
  BY <1>1, <1>3 DEF Current
<1>6. QED
  BY ZenonT(30), <1>1, <1>2, <1>3, <1>4, <1>5 DEF Deleted0

LEMMA GotStaysDeleted ==
  ASSUME Setting, Typed, Codes0, NoPhotos, Deletions, Stored(prof'), NEW d \in Devices, Steps(d),
         GotAgrees(d) \/ GotWrites(d),
         NEW e \in prof.erased[d], e \notin Excepted(prof')
  PROVE  Deleted0(prof', d, e)
<1> DEFINE s == prof.dev[d]
           t == prof'.dev[d]
<1>1. HasMerged(d) /\ s.job.at = "got" /\ s.link = s.job.link /\ prof'.server = prof.server
  BY Zenon DEF GotAgrees, GotWrites, HasMerged, SameWorld
<1>2. Linked(s) /\ Current(s)
  BY <1>1, JobLinked
<1>3. Deleted0(prof, d, e) /\ e \notin Excepted(prof)
  BY <1>2, DeletedBefore
<1>4. /\ \A x \in t.has : x \in s.has \/ (x \in s.job.got.has /\ s.job.there = "there")
      /\ \A x \in t.has : s.job.there = "there" /\ x \notin s.has => x \notin s.link.base.has
  BY ZenonT(30), <1>1, MergedHas
<1>5. e \notin t.has
  BY ZenonT(30), <1>1, <1>2, <1>3, <1>4 DEF Deleted0
<1>6. e \in prof.server[s.link.code].p.has => e \in s.link.base.has
  BY ZenonT(30), <1>1, <1>2, <1>3 DEF Deleted0, Writing
<1>7. CASE GotAgrees(d)
  <2>1. /\ t.link.code = s.link.code /\ t.link.base.set /\ t.link.base.has = s.job.got.has /\ t.job = Idle
        /\ s.job.there = "there" /\ Idle.at = "no"
    BY <1>7, Nothing DEF GotAgrees
  <2>2. Linked(t) /\ ~Writing(t)
    BY <2>1, Nothing DEF Linked, Writing
  <2>3. e \in prof.server[s.link.code].p.has => e \in s.job.got.has
    BY <1>1, <1>2, <1>3, <1>6, <2>1, Zenon DEF Deletions, DeletionsIn, NotReadded
  <2>4. QED
    BY ZenonT(30), <1>1, <1>5, <2>1, <2>2, <2>3 DEF Deleted0
<1>8. CASE GotWrites(d)
  <2>1. t.link = s.link /\ t.job.at = "put"
    BY <1>8 DEF GotWrites
  <2>2. Linked(t)
    BY <1>2, <2>1 DEF Linked
  <2>3. QED
    BY <1>1, <1>5, <1>6, <2>1, <2>2 DEF Deleted0
<1>9. QED
  BY <1>7, <1>8

LEMMA WriterStaysDeleted ==
  ASSUME Setting, Typed, Codes0, Deletions, Stored(prof'), NEW d \in Devices, Steps(d), ~GotWrites(d), ServerWrites(d),
         NEW e \in prof.erased[d], e \notin Excepted(prof')
  PROVE  Deleted0(prof', d, e)
<1> DEFINE s == prof.dev[d]
           t == prof'.dev[d]
           j == s.job
           later == prof'.server[s.link.code].p.has
<1>1. /\ t.has = s.has /\ t.link = s.link /\ j.at = "put" /\ t.job.at = "put2" /\ t.job.link = j.link
      /\ t.job.out = j.out
  BY Zenon DEF ServerWrites, SameStore
<1>2. Deleted0(prof, d, e) /\ e \notin Excepted(prof) /\ (~Linked(s) => Fresh(prof', e))
  BY DeletedBefore
<1>3. (Linked(t) <=> Linked(s)) /\ (Current(t) <=> Current(s)) /\ (Writing(t) <=> Writing(s)) /\ (Writing(s) <=> Current(s))
  BY <1>1 DEF Linked, Current, Writing
<1>4. ASSUME Current(s), t.job.answer = "ok" PROVE later = j.out.has
  <2>1. prof'.server[j.link.code].p = j.out /\ s.link = j.link
    BY <1>4, WrittenOver, Zenon DEF Current
  <2>2. QED
    BY ZenonT(30), <2>1
<1>5. ASSUME Current(s), t.job.answer # "ok" PROVE later = prof.server[s.link.code].p.has
  <2>1. prof'.server[j.link.code] = prof.server[j.link.code] /\ s.link = j.link
    BY <1>5, WrittenOver, Zenon DEF Current
  <2>2. QED
    BY ZenonT(30), <2>1
<1>6. ASSUME Linked(s), ~Current(s), e \in later PROVE e \in s.link.base.has
  <2>1. s.link.code \in Codes
    BY <1>6 DEF Codes0, LinkSound
  <2>2. ~Foreign(prof, e, d)
    BY <1>6 DEF Foreign
  <2>3. e \in prof.server[s.link.code].p.has
    BY <1>2, <1>6, <2>1, <2>2, StepServes
  <2>4. QED
    BY <1>2, <1>3, <1>6, <2>3 DEF Deleted0
<1>7. ASSUME Linked(s), e \in later PROVE e \in s.link.base.has \/ (Writing(s) /\ e \in j.out.has)
  <2>1. CASE Current(s) /\ t.job.answer = "ok"
    BY ZenonT(30), <1>3, <1>4, <1>7, <2>1
  <2>2. CASE Current(s) /\ t.job.answer # "ok"
    BY <1>2, <1>5, <1>7, <2>2 DEF Deleted0
  <2>3. CASE ~Current(s)
    BY <1>6, <1>7, <2>3
  <2>4. QED
    BY <2>1, <2>2, <2>3
<1>8. QED
  BY <1>1, <1>2, <1>3, <1>4, <1>7 DEF Deleted0

LEMMA AgreerStaysDeleted ==
  ASSUME Setting, Typed, Codes0, Deletions, Stored(prof'), NEW d \in Devices, Steps(d), ~GotWrites(d), PutAgrees(d),
         NEW e \in prof.erased[d], e \notin Excepted(prof')
  PROVE  Deleted0(prof', d, e)
<1> DEFINE s == prof.dev[d]
           t == prof'.dev[d]
<1>1. /\ t.has = s.has /\ s.job.at = "put2" /\ s.job.answer \notin {"stale", "gone"} /\ s.link = s.job.link
      /\ t.link.code = s.link.code /\ t.link.base.set /\ t.link.base.has = s.job.out.has /\ t.job = Idle
      /\ prof'.server = prof.server /\ Idle.at = "no" /\ ~NoLink.base.set
  BY Nothing DEF PutAgrees, AgreedIs0, SameStore, SameWorld
<1>2. Deleted0(prof, d, e)
  BY DeletedBefore
<1>3. s.job \in Jobs /\ JobKnown(s)
  BY Zenon DEF Typed, Stored, Fields, Devs, Codes0
<1>4. s.job.answer = "ok"
  BY <1>1, <1>3 DEF JobKnown, Jobs
<1>5. Writing(s)
  BY <1>1, JobLinked DEF Writing
<1>6. e \in prof.server[s.link.code].p.has => e \in s.job.out.has
  BY <1>1, <1>2, <1>4, <1>5, Zenon DEF Deleted0
<1>7. Linked(t) /\ ~Writing(t)
  BY <1>1 DEF Linked, Writing
<1>8. QED
  BY <1>1, <1>2, <1>6, <1>7, Zenon DEF Deleted0

LEMMA OwnStaysDeleted ==
  ASSUME Setting, Typed, Codes0, NoPhotos, Deletions, Stored(prof'), NEW d \in Devices, Steps(d)
  PROVE  StaysDeleted(prof', d)
<1> DEFINE s == prof.dev[d]
           t == prof'.dev[d]
           Goal == StaysDeleted(prof', d)
<1>1. ASSUME prof'.erased[d] = {} PROVE Goal
  BY <1>1 DEF StaysDeleted
<1>2. ASSUME t.job = s.job \/ t.job.at = "no" PROVE ~ServerWrites(d) /\ ~GotWrites(d)
  BY <1>2, Zenon DEF ServerWrites, GotWrites
\* The job and the link stay.
<1>3. ASSUME t.job = s.job, t.link = s.link, prof'.erased[d] = prof.erased[d],
             t.has \subseteq s.has \cup {prof.made + 1}
      PROVE  Goal
  <2>1. ASSUME NEW e \in prof.erased[d], e \notin Excepted(prof') PROVE Deleted0(prof', d, e)
    <3>1. Deleted0(prof, d, e) /\ e # prof.made + 1
      BY <1>2, <1>3, <2>1, DeletedBefore
    <3>2. e \notin t.has
      BY <1>3, <3>1 DEF Deleted0
    <3>3. QED
      BY <1>2, <1>3, <2>1, <3>2, DeletedStill
  <2>2. QED
    BY <1>3, <2>1 DEF StaysDeleted
<1>4. ASSUME Adds(d) PROVE Goal
  BY <1>3, <1>4 DEF Adds, SameSession
<1>5. ASSUME Renames(d) PROVE Goal
  BY <1>3, <1>5 DEF Renames, SameSession
<1>6. ASSUME Requests(d) \/ Unheard PROVE Goal
  BY <1>3, <1>6 DEF Requests, Unheard
<1>7. ASSUME NEW x \in Entries, Erases(d, x) PROVE Goal
  <2>1. /\ t.job = s.job /\ t.link = s.link /\ t.has \subseteq s.has
        /\ prof'.erased[d] = prof.erased[d] \cup {x}
    BY <1>7 DEF Erases, SameSession
  <2>2. ASSUME x \notin Excepted(prof') PROVE Deleted0(prof', d, x)
    BY <1>2, <1>7, <2>1, <2>2, ErasedStaysDeleted
  <2>3. ASSUME NEW e \in prof.erased[d], e \notin Excepted(prof') PROVE Deleted0(prof', d, e)
    <3>1. Deleted0(prof, d, e)
      BY <1>2, <2>1, <2>3, DeletedBefore
    <3>2. e \notin t.has
      BY <2>1, <3>1 DEF Deleted0
    <3>3. QED
      BY <1>2, <2>1, <2>3, <3>2, DeletedStill
  <2>4. QED
    BY <2>1, <2>2, <2>3 DEF StaysDeleted
<1>8. ASSUME DropsLink(d) PROVE Goal
  BY <1>1, <1>8, Zenon DEF DropsLink, GoesOff
\* No write is under way.
<1>9. ASSUME prof'.server = prof.server, t.link = s.link, t.has = s.has, prof'.erased[d] = prof.erased[d],
             t.job.at \notin {"got", "put", "put2"},
             Writing(s) => s.job.out.has \ s.link.base.has \subseteq prof'.loose
      PROVE  Goal
  <2>1. ~GotWrites(d)
    BY <1>9 DEF GotWrites
  <2>2. prof'.loose \subseteq Excepted(prof')
    BY DEF Excepted
  <2>3. ASSUME NEW e \in prof.erased[d], e \notin Excepted(prof') PROVE Deleted0(prof', d, e)
    BY <1>9, <2>1, <2>2, <2>3, DeletedIdle
  <2>4. QED
    BY <1>9, <2>3 DEF StaysDeleted
<1>10. ASSUME Quits(d) PROVE Goal
  <2>1. CASE t.link = NoLink /\ prof'.erased[d] = {}
    BY <1>1, <2>1
  <2>2. ASSUME t.link = s.link, prof'.erased[d] = prof.erased[d],
               Writing(s) => (s.has \cup s.job.got.has \cup s.job.out.has) \ s.link.base.has \subseteq prof'.loose
        PROVE  Goal
    <3>1. t.job.at = "no" /\ t.has = s.has /\ prof'.server = prof.server
      BY <1>10, Nothing DEF Quits, SameStore, SameWorld
    <3>2. QED
      BY <1>9, <2>2, <3>1
  <2>3. QED
    BY <1>10, <2>1, <2>2 DEF Quits
<1>11. ASSUME Syncs(d) PROVE Goal
  <2>1. /\ t.link = s.link /\ t.has = s.has /\ prof'.server = prof.server /\ prof'.erased = prof.erased
        /\ t.job.at = "get" /\ s.job.at = "no"
    BY <1>11, Nothing DEF Syncs, Session, SameWorld, Asks
  <2>2. ~Writing(s)
    BY <2>1 DEF Writing
  <2>3. QED
    BY <1>9, <2>1, <2>2
<1>12. ASSUME Restarts(d) PROVE Goal
  <2>1. /\ t.link = s.link /\ t.has = s.has /\ prof'.server = prof.server /\ prof'.erased = prof.erased
        /\ t.job.at = "get" /\ s.job.out.has \ s.link.base.has \subseteq prof'.loose
    BY <1>12 DEF Restarts, SameWorld, SameStore, Asks
  <2>2. QED
    BY <1>9, <2>1
<1>13. ASSUME NEW c \in Codes, NEW make \in BOOLEAN, StartsCode(d, c, make) PROVE Goal
  <2>1. ~GotWrites(d) /\ prof'.erased = prof.erased
    BY <1>13 DEF GotWrites, StartsCode, Asks
  <2>2. QED
    BY <1>13, <2>1, StarterStaysDeleted DEF StaysDeleted
<1>14. ASSUME Reads(d) PROVE Goal
  <2>1. ~GotWrites(d) /\ prof'.erased = prof.erased
    BY <1>14 DEF GotWrites, Reads, Session
  <2>2. QED
    BY <1>14, <2>1, ReaderStaysDeleted DEF StaysDeleted
<1>15. ASSUME GotAgrees(d) \/ GotWrites(d) PROVE Goal
  <2>1. prof'.erased[d] = prof.erased[d]
    BY <1>15, Zenon DEF GotAgrees, GotWrites, HasMerged
  <2>2. QED
    BY <1>15, <2>1, GotStaysDeleted DEF StaysDeleted
<1>16. ASSUME ServerWrites(d) PROVE Goal
  <2>1. ~GotWrites(d) /\ prof'.erased = prof.erased
    BY <1>16, Zenon DEF GotWrites, ServerWrites
  <2>2. QED
    BY <1>16, <2>1, WriterStaysDeleted DEF StaysDeleted
<1>17. ASSUME PutAgrees(d) PROVE Goal
  <2>1. ~GotWrites(d) /\ prof'.erased[d] = prof.erased[d]
    BY <1>17 DEF GotWrites, PutAgrees, AgreedIs0
  <2>2. QED
    BY <1>17, <2>1, AgreerStaysDeleted DEF StaysDeleted
<1>18. QED
  BY <1>4, <1>5, <1>6, <1>7, <1>8, <1>10, <1>11, <1>12, <1>13, <1>14, <1>15, <1>16, <1>17 DEF Steps, Unlinks

LEMMA OtherStaysDeleted ==
  ASSUME Setting, Typed, Codes0, Deletions, Stored(prof'), NEW d \in Devices, Steps(d), NEW f \in Devices \ {d}
  PROVE  StaysDeleted(prof', f)
<1>1. prof'.dev[f] = prof.dev[f] /\ prof'.erased[f] = prof.erased[f]
  BY StepAside DEF Aside
<1>2. ASSUME NEW e \in prof.erased[f], e \notin Excepted(prof') PROVE Deleted0(prof', f, e)
  <2>1. e \notin Excepted(prof)
    BY <1>2, ExceptedGrows
  <2>2. e \notin prof.dev[f].has
    BY <1>2, <2>1 DEF Deletions, DeletionsIn, StaysDeleted, Deleted0
  <2>3. QED
    BY <1>1, <1>2, <2>2, DeletedStill
<1>3. QED
  BY <1>1, <1>2 DEF StaysDeleted

LEMMA StepDeletions ==
  ASSUME Setting, Typed, Codes0, NoPhotos, Deletions, Stored(prof'), NEW d \in Devices, Steps(d)
  PROVE  Deletions'
<1>1. DeletionsIn(prof')
  <2>1. ASSUME NEW f \in Devices
        PROVE  Unsent(prof', prof'.dev[f]) /\ BringsAnew(prof', f) /\ NotReadded(prof', prof'.dev[f]) /\ StaysDeleted(prof', f)
    <3>1. NotReadded(prof', prof'.dev[f])
      BY StepNotReadded
    <3>2. CASE f = d
      BY <3>1, <3>2, OwnUnsent, OwnBrings, OwnStaysDeleted
    <3>3. CASE f # d
      BY <3>1, <3>3, OtherUnsent, OtherBrings, OtherStaysDeleted
    <3>4. QED
      BY <3>2, <3>3
  <2>2. QED
    BY <2>1 DEF DeletionsIn
<1>2. QED
  BY <1>1, Zenon DEF Deletions, DeletionsIn, Unsent, BringsAnew, NotReadded, StaysDeleted, AgreedOn, Excepted, Fresh, Foreign, Deleted0, HeldIn

-----------------------------------------------------------------------------
(* The theorem. *)

LEMMA InitInv ==
  ASSUME Setting, ProfileInit
  PROVE  IInv
<1>1. PICK l \in Lives : prof = [Off EXCEPT !.life = l]
  BY DEF ProfileInit
<1> DEFINE s == [nick |-> 0, has |-> {}, link |-> NoLink, serial |-> 0, job |-> Idle, state |-> "",
                 waits |-> FALSE, dirty |-> FALSE]
           at == [there |-> "none", rev |-> 0, p |-> NoProfile]
<1>2. /\ prof.life = l /\ prof.dev = [f \in Devices |-> s] /\ prof.server = [c \in Codes |-> at]
      /\ prof.deleting = [f \in Devices |-> 0] /\ prof.made = 0 /\ prof.named = 0 /\ prof.syncs = 0
      /\ prof.maker = [e \in Entries |-> 0] /\ prof.erased = [f \in Devices |-> {}]
      /\ prof.struck = {} /\ prof.fell = {} /\ prof.loose = {} /\ prof.coded = {} /\ prof.buried = {}
      /\ IsStore(prof)
  BY <1>1, Zenon DEF Off, IsStore
<1>3. /\ s.nick = 0 /\ s.has = {} /\ s.link = NoLink /\ s.serial = 0 /\ s.job = Idle /\ s.state = ""
      /\ ~s.waits /\ ~s.dirty
      /\ at.there = "none" /\ at.rev = 0 /\ at.p = NoProfile
  OBVIOUS
<1>4. /\ NoLink.code = 0 /\ NoLink.serial = 0 /\ ~NoLink.make /\ NoLink.base = NoBase /\ NoLink.rev = 0
      /\ ~NoBase.set /\ NoBase.has = {} /\ NoProfile.has = {}
      /\ Idle.at = "no" /\ Idle.link = NoLink /\ Idle.got = NoProfile /\ Idle.out = NoProfile
  BY DEF NoLink, NoBase, NoProfile, Idle
<1>5. s \in Devs
  BY <1>3, Nothing DEF Devs, Names
<1>6. at \in Kept
  BY <1>3, Nothing DEF Kept
<1> HIDE DEF s, at
<1>7. /\ \A f \in Devices : prof.dev[f] = s /\ prof.erased[f] = {} /\ prof.deleting[f] = 0
      /\ \A c \in Codes : prof.server[c] = at
  BY <1>2
<1>8. Typed
  <2>1. Stored(prof)
    BY <1>2, <1>5, <1>6 DEF Stored, Fields
  <2>2. prof.made <= prof.life.entries
    BY <1>2 DEF Setting
  <2>3. AllMade
    BY <1>3, <1>4, <1>7, Zenon DEF AllMade, DevMade, Made
  <2>4. QED
    BY <2>1, <2>2, <2>3 DEF Typed
<1>9. Codes0
  <2>1. ASSUME NEW f \in Devices PROVE LinkSound(prof.dev[f]) /\ LinkKnown(prof.dev[f]) /\ JobKnown(prof.dev[f])
    <3>1. LinkSound(prof.dev[f])
      <4>1. /\ prof.dev[f].link = NoLink /\ prof.dev[f].job = Idle /\ prof.dev[f].serial = 0 /\ Idle.at = "no"
            /\ NoLink.base = NoBase /\ NoLink.serial = 0 /\ Idle.link = NoLink
        BY <1>3, <1>4, <1>7, Zenon
      <4>2. QED
        BY <4>1 DEF LinkSound, Linked
    <3>2. LinkKnown(prof.dev[f])
      BY <1>3, <1>4, <1>7, Zenon DEF LinkKnown, Making
    <3>3. JobKnown(prof.dev[f])
      BY <1>3, <1>4, <1>7, Zenon DEF JobKnown
    <3>4. QED
      BY <3>1, <3>2, <3>3
  <2>2. CodeIsOnes
    <3>1. \A f \in Devices : prof.dev[f].link = NoLink /\ prof.dev[f].job.link = NoLink
      BY <1>3, <1>4, <1>7, Zenon
    <3>2. ~NoLink.make
      BY <1>4
    <3>3. QED
      BY <3>1, <3>2 DEF CodeIsOnes
  <2>3. \A c \in Codes : ServerSound(c)
    <3>1. \A c \in Codes : Unwritten(c)
      BY <1>7 DEF Unwritten, at
    <3>2. QED
      BY <3>1, <1>2, <1>3, <1>7, Zenon DEF ServerSound
  <2>4. QED
    BY <2>1, <2>2, <2>3, <1>7 DEF Codes0
<1>10. NoPhotos
  BY <1>3, <1>4, <1>7, Zenon DEF NoPhotos
<1>11. Lineage
  <2>1. ASSUME NEW f \in Devices PROVE NothingLost(prof.dev[f])
    BY <1>3, <1>4, <1>7, Zenon DEF NothingLost, KeptIn, KeptAt, Writing
  <2>2. StaysWithMaker
    BY <1>2 DEF StaysWithMaker
  <2>3. QED
    BY <2>1, <2>2 DEF Lineage
<1>12. Deletions
  BY <1>3, <1>4, <1>7, Zenon DEF Deletions, DeletionsIn, Unsent, BringsAnew, NotReadded, StaysDeleted
<1>13. Agreement
  BY <1>3, <1>4, <1>7, Zenon DEF Agreement, InSync, Linked, Writing
<1>14. QED
  BY <1>8, <1>9, <1>10, <1>11, <1>12, <1>13 DEF IInv

LEMMA StepInv ==
  ASSUME Setting, IInv, [ProfileNext]_prof
  PROVE  IInv'
<1>1. Typed /\ Codes0 /\ NoPhotos /\ Lineage /\ Deletions /\ Agreement
  BY DEF IInv
<1>2. CASE ProfileNext
  <2>1. \A d \in Devices : LinkSound(prof.dev[d])
    BY <1>1 DEF Codes0
  <2>2. Stored(prof') /\ \E d \in Devices : Steps(d)
    BY <1>1, <1>2, <2>1, NextSteps
  <2>3. PICK d \in Devices : Steps(d)
    BY <2>2
  <2>4. Typed' /\ Codes0' /\ NoPhotos'
    BY <1>1, <2>1, <2>2, <2>3, StepTyped, StepCodes, StepNoPhotos
  <2>5. Lineage' /\ Deletions' /\ Agreement'
    BY <1>1, <2>1, <2>2, <2>3, <2>4, StepLineage, StepDeletions, StepAgreement
  <2>6. QED
    BY <2>4, <2>5 DEF IInv
<1>3. CASE UNCHANGED prof
  <2>1. prof' = prof
    BY <1>3
  <2>2. Typed'
    BY <1>1, <2>1 DEF Typed, Stored, IsStore, Fields, AllMade, DevMade, Made
  <2>3. Codes0'
    <3>1. CodeIsOnes' /\ (\A c \in Codes : ServerSound(c)')
      BY <1>1, <2>1 DEF Codes0, CodeIsOnes, ServerSound, Unwritten
    <3>2. ASSUME NEW d \in Devices PROVE (LinkSound(prof.dev[d]) /\ LinkKnown(prof.dev[d]) /\ JobKnown(prof.dev[d]))'
      BY <1>1, <2>1, Zenon DEF Codes0, LinkSound, LinkKnown, JobKnown, Unwritten
    <3>3. QED
      BY <1>1, <2>1, <3>1, <3>2 DEF Codes0
  <2>4. NoPhotos' /\ Agreement'
    BY <1>1, <2>1 DEF NoPhotos, Agreement
  <2>5. Lineage'
    BY <1>1, <2>1, Zenon DEF Lineage, NothingLost, KeptIn, KeptAt, StaysWithMaker
  <2>6. Deletions'
    BY <1>1, <2>1 DEF Deletions
  <2>7. QED
    BY <2>2, <2>3, <2>4, <2>5, <2>6 DEF IInv
<1>4. QED
  BY <1>2, <1>3

LEMMA InvIsOne ==
  ASSUME Setting, IInv
  PROVE  OneProfile
<1>1. Typed /\ Codes0 /\ NoPhotos /\ Lineage /\ Deletions /\ Agreement
  BY DEF IInv
<1>2. \A c \in Codes : prof.server[c].p.has \cap Photos = {}
  BY <1>1 DEF NoPhotos
<1>3. \A e \in 1 .. prof.made : e \in prof.dev[prof.maker[e]].has \cup prof.struck \cup prof.fell
  BY <1>1 DEF Lineage, StaysWithMaker
<1>4. ASSUME NEW d \in Devices PROVE prof.erased[d] \cap prof.dev[d].has \subseteq prof.loose \cup prof.fell
  BY <1>1 DEF Deletions, DeletionsIn, StaysDeleted, Deleted0, Excepted
<1>5. ASSUME NEW d \in Devices, prof.dev[d].link # NoLink, prof.dev[d].link.base.set, prof.dev[d].job = Idle,
             prof.dev[d].state = "ok", ~prof.dev[d].dirty,
             prof.dev[d].link.rev = prof.server[prof.dev[d].link.code].rev
      PROVE  prof.server[prof.dev[d].link.code].p = Pack(prof.dev[d])
  BY <1>1, <1>5, AgreedProfile, Zenon
<1>6. \A c \in prof.buried : prof.server[c].there = "gone"
  BY <1>1 DEF Codes0, ServerSound, Typed, Stored, Fields
<1>7. QED
  BY <1>2, <1>3, <1>4, <1>5, <1>6 DEF OneProfile

(* Devices that share a profile come to the same one, and nothing is lost   *)
(* that nobody deleted: OneProfile, whatever the order of syncs, changes,   *)
(* unlinks and failures (sync, merge3, pack and unlink of profile.js).      *)
THEOREM ProfileIsOne ==
  ASSUME Setting
  PROVE  ProfileSpec => []OneProfile
<1>1. ProfileInit => IInv
  BY InitInv
<1>2. IInv /\ [ProfileNext]_prof => IInv'
  BY StepInv
<1>3. IInv => OneProfile
  BY InvIsOne
<1>4. QED
  BY <1>1, <1>2, <1>3, PTL DEF ProfileSpec
=============================================================================
