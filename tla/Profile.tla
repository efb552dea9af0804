------------------------------ MODULE Profile ------------------------------
(***************************************************************************)
(* One profile on several devices (profile.js): a device linked to a sync  *)
(* code reads the server's profile, merges it into its own store and       *)
(* writes back when the server is behind.                                  *)
(*                                                                         *)
(* An entry is a number, newer entries are larger; Photos are works with a *)
(* photo, Saved are saved cards, the rest are wall pictures.  The nickname *)
(* stands for the whole style, 0 for an empty one.  The server is external *)
(* and modelled from its answers: it keeps one profile per code with a     *)
(* revision, refuses a stale write (409) and remembers a deletion (410).   *)
(* Bounds: links go through a sync code (an account takes the same path);  *)
(* a new code is a code nobody has used; the AI device id is left out.     *)
(***************************************************************************)
EXTENDS Naturals, FiniteSets

CONSTANTS
    Devices, Codes, Entries, Photos, Saved, Nicks,
    FIT,         \* wall pictures inside BODY_MAX
    MAX_WALL,    \* entries of a wall
    Lives        \* bounds: what people do, entries, nicknames, syncs

VARIABLE prof

NoProfile == [nick |-> 0, has |-> {}]
NoBase == [set |-> FALSE, nick |-> 0, has |-> {}]
NoLink == [code |-> 0, serial |-> 0, make |-> FALSE, base |-> NoBase, rev |-> 0]
Idle == [at |-> "no", link |-> NoLink, round |-> 0, got |-> NoProfile,
         there |-> "none", rev |-> 0, out |-> NoProfile, answer |-> "none"]

Off == [life |-> "off",
        dev |-> [d \in Devices |->
                   [nick |-> 0, has |-> {}, link |-> NoLink, serial |-> 0,
                    job |-> Idle, state |-> "", waits |-> FALSE, dirty |-> FALSE]],
        server |-> [c \in Codes |-> [there |-> "none", rev |-> 0, p |-> NoProfile]],
        deleting |-> [d \in Devices |-> 0],
        made |-> 0, named |-> 0, syncs |-> 0, maker |-> [e \in Entries |-> 0],
        erased |-> [d \in Devices |-> {}], struck |-> {}, fell |-> {}, loose |-> {},
        coded |-> {}, buried |-> {}]

ProfileInit == \E l \in Lives : prof = [Off EXCEPT !.life = l]

----------------------------------------------------------------------------
(* The profile that travels, and the three-way merge.                      *)

Walls == Entries \ (Photos \cup Saved)
Newest(S, n) == {e \in S : Cardinality({x \in S : x > e}) < n}

\* pack(): no photo works, the newest wall pictures that fit, saved cards.
Pack(s) == [nick |-> s.nick,
            has |-> Newest(s.has \cap Walls, FIT) \cup (s.has \cap Saved)]

\* snapshot(): what both sides agreed on.
Snapshot(p) == [set |-> TRUE, nick |-> p.nick, has |-> p.has]

Merge3NoBase(local, remote, base) == local \cup remote

\* Keep what both have and what is new on either side since the base.
Merge3(local, remote, base) ==
    {e \in local : e \in remote \/ e \notin base}
      \cup {e \in remote : e \notin local /\ e \notin base}

Cut(S) == Newest(S \ Saved, MAX_WALL) \cup (S \cap Saved)

\* merge(): the style is taken over when it was not changed here; an empty
\* field takes nothing over.
Merge(s, remote, base) ==
    [s EXCEPT !.nick = IF (~base.set \/ base.nick = @) /\ remote.nick # 0
                       THEN remote.nick ELSE @,
              !.has = Cut(Merge3(@, remote.has, base.has))]

----------------------------------------------------------------------------
(* A device.                                                               *)

Does(what) == what \in prof.life.does

\* Kit.save() in the page: the store has changed.
Store(d, s) == [prof EXCEPT !.dev[d] = [s EXCEPT !.dirty = TRUE]]

\* A new entry; the wall of the page keeps MAX_WALL of them too.
Add(d) ==
    /\ prof.made < prof.life.entries
    /\ LET e == prof.made + 1
           all == prof.dev[d].has \cup {e}
       IN prof' = [Store(d, [prof.dev[d] EXCEPT !.has = Cut(all)]) EXCEPT
                     !.made = e, !.maker[e] = d, !.fell = @ \cup (all \ Cut(all))]

Erase(d, e) ==
    /\ Does("erase") /\ e \in prof.dev[d].has
    /\ prof' = [Store(d, [prof.dev[d] EXCEPT !.has = @ \ {e}]) EXCEPT
                  !.erased[d] = @ \cup {e}, !.struck = @ \cup {e}]

Rename(d, n) ==
    /\ prof.named < prof.life.names /\ n # prof.dev[d].nick
    /\ prof' = [Store(d, [prof.dev[d] EXCEPT !.nick = n]) EXCEPT !.named = @ + 1]

\* unlink().  History: what the device keeps counts as new when it joins again,
\* and what it deleted is forgotten.
Unlinked(p, d) ==
    [p EXCEPT !.dev[d] = [@ EXCEPT !.link = NoLink, !.state = ""],
              !.loose = @ \cup p.dev[d].has, !.erased[d] = {}]

Unlink(d) ==
    /\ Does("unlink") /\ prof.dev[d].link # NoLink
    /\ prof' = Unlinked(prof, d)

----------------------------------------------------------------------------
(* One sync.                                                               *)

\* syncNow() begins: the link as it is now, the question on its way.
Asking(s) == [s EXCEPT !.job = [Idle EXCEPT !.at = "get", !.link = s.link]]

\* sync(): while one runs, its result is everybody's.
Sync(d) ==
    /\ prof.syncs < prof.life.syncs
    /\ prof.dev[d].link # NoLink /\ prof.dev[d].job = Idle
    /\ prof' = [prof EXCEPT !.dev[d] = Asking(@), !.syncs = @ + 1]

\* startCode() of the join button and of a new code.
StartCode(d, c, make) ==
    /\ prof.syncs < prof.life.syncs
    /\ prof.dev[d].link = NoLink /\ ~prof.dev[d].waits
    /\ make => c \notin prof.coded
    /\ LET n == prof.dev[d].serial + 1
           l == [code |-> c, serial |-> n, make |-> make, base |-> NoBase, rev |-> 0]
           s == [prof.dev[d] EXCEPT !.serial = n, !.waits = TRUE, !.link = l]
       IN prof' = [prof EXCEPT !.dev[d] = IF s.job = Idle THEN Asking(s) ELSE s,
                               !.syncs = @ + 1,
                               !.coded = IF make THEN @ \cup {c} ELSE @]

\* The sync ends; whoever started the link drops it again unless all went well.
Ended(p, d, state) ==
    LET q == [p EXCEPT !.dev[d] = [@ EXCEPT !.job = Idle, !.state = state, !.waits = FALSE]]
    IN IF p.dev[d].waits /\ state # "ok" THEN Unlinked(q, d) ELSE q

\* History: broken off after the merge without an agreement.  What is not in
\* the base will count as new, here or on the server.
Unsettled(p, d) ==
    [p EXCEPT !.loose = @ \cup ((p.dev[d].has \cup p.dev[d].job.got.has
                                    \cup p.dev[d].job.out.has)
                                   \ p.dev[d].link.base.has)]

Failed(p, d, state) == Ended(Unsettled(p, d), d, state)

Agreed(p, d, out, rev) ==
    LET l == [p.dev[d].link EXCEPT !.rev = rev, !.base = Snapshot(out)]
    IN Ended([p EXCEPT !.dev[d] = [@ EXCEPT !.link = l]], d, "ok")

\* The server reads the profile.
ServerGet(d) ==
    LET j == prof.dev[d].job
        at == prof.server[j.link.code]
    IN /\ j.at = "get"
       /\ prof' = [prof EXCEPT !.dev[d] = [@ EXCEPT !.job =
                     [j EXCEPT !.at = "got", !.there = at.there, !.got = at.p,
                               !.rev = at.rev]]]

\* No answer, a limit, no login.
GetFails(d) ==
    /\ Does("fail") /\ prof.dev[d].job.at = "get"
    /\ prof' = IF prof.dev[d].link # prof.dev[d].job.link
               THEN Ended(prof, d, "") ELSE Ended(prof, d, "error")

\* The store of d with the answer merged into it, and the walls that fell out.
Merged(d) ==
    LET s == prof.dev[d]
    IN IF s.job.there = "there" THEN Merge(s, s.job.got, s.link.base) ELSE s

Received(d) ==
    LET s == prof.dev[d]
        j == s.job
        m == Merged(d)
        all == IF j.there = "there" THEN Merge3(s.has, j.got.has, s.link.base.has) ELSE {}
    IN [prof EXCEPT !.dev[d] = [m EXCEPT !.dirty = FALSE],
                    !.fell = @ \cup ((m.has \cap Walls) \ Pack(m).has) \cup (all \ m.has)]

\* The write goes out.
Puts(p, d, out) ==
    LET j == [p.dev[d].job EXCEPT !.at = "put", !.out = out]
    IN [p EXCEPT !.dev[d] = [@ EXCEPT !.job = j]]

\* The answer: unlinked meanwhile, deleted elsewhere, an unknown code, or
\* merged into the device; then written if the server is behind.
Got(d) ==
    LET s == prof.dev[d]
        j == s.job
        out == Pack(Merged(d))
    IN /\ j.at = "got"
       /\ prof' =
            IF s.link # j.link THEN Ended(prof, d, "")
            ELSE IF j.there = "gone" /\ s.link.base.set THEN Ended(Unlinked(prof, d), d, "gone")
            ELSE IF ~s.link.base.set /\ ~j.link.make /\ j.there # "there"
                 THEN Ended(Unlinked(prof, d), d, "unknown")
            ELSE IF j.there = "there" /\ out = j.got THEN Agreed(Received(d), d, out, j.rev)
            ELSE Puts(Received(d), d, out)

\* The server writes, unless the profile changed or was deleted since.
ServerPut(d) ==
    LET j == prof.dev[d].job
        at == prof.server[j.link.code]
        answer == IF at.there = "gone" /\ j.link.base.set THEN "gone"
                  ELSE IF at.rev # j.rev THEN "stale" ELSE "ok"
    IN /\ j.at = "put"
       /\ prof' = [prof EXCEPT
            !.server[j.link.code] =
                IF answer = "ok"
                THEN [there |-> "there", rev |-> at.rev + 1, p |-> j.out] ELSE @,
            !.dev[d] = [@ EXCEPT !.job = [j EXCEPT !.at = "put2", !.answer = answer]]]

\* The write or its answer is lost, or refused (a limit, a login).
PutFails(d) ==
    /\ Does("fail") /\ prof.dev[d].job.at \in {"put", "put2"}
    /\ prof' = IF prof.dev[d].link # prof.dev[d].job.link
               THEN Ended(prof, d, "") ELSE Failed(prof, d, "error")

Again(p, d) ==
    LET j == [Idle EXCEPT !.at = "get", !.link = p.dev[d].link, !.round = 1]
    IN [p EXCEPT !.dev[d] = [@ EXCEPT !.job = j]]

\* A stale write starts over once, with the base as it was.
PutAnswered(d) ==
    LET j == prof.dev[d].job
        s == prof.dev[d]
    IN /\ j.at = "put2"
       /\ prof' =
            IF s.link # j.link THEN Ended(prof, d, "")
            ELSE IF j.answer = "stale" /\ j.round = 0
                 THEN Again(Unsettled(prof, d), d)
            ELSE IF j.answer = "stale" THEN Failed(prof, d, "error")
            ELSE IF j.answer = "gone" THEN Ended(Unlinked(prof, d), d, "gone")
            ELSE Agreed(prof, d, j.out, j.rev + 1)

----------------------------------------------------------------------------
(* Deleting the profile, for everybody.                                    *)

\* Bounds: asked for after the first sync of the link, and of a profile that is
\* still there.
Delete(d) ==
    /\ Does("delete") /\ prof.dev[d].link.base.set /\ prof.deleting[d] = 0
    /\ prof.dev[d].link.code \notin prof.buried
    /\ prof' = [prof EXCEPT !.deleting[d] = prof.dev[d].link.code]

\* The server deletes; the answer may be lost, then nothing changes here.
Deleted(d, heard) ==
    LET c == prof.deleting[d]
        p == [prof EXCEPT !.deleting[d] = 0, !.buried = @ \cup {c},
                !.server[c] = [there |-> "gone", p |-> NoProfile,
                               rev |-> IF @.there = "gone" THEN @.rev ELSE @.rev + 1]]
    IN /\ c # 0
       /\ prof' = IF heard THEN Unlinked(p, d) ELSE p

ProfileNext ==
    \E d \in Devices :
      \/ Add(d) \/ Unlink(d) \/ Sync(d) \/ Delete(d)
      \/ \E e \in Entries : Erase(d, e)
      \/ \E n \in Nicks : Rename(d, n)
      \/ \E c \in Codes, make \in BOOLEAN : StartCode(d, c, make)
      \/ ServerGet(d) \/ GetFails(d) \/ Got(d)
      \/ ServerPut(d) \/ PutFails(d) \/ PutAnswered(d)
      \/ \E heard \in BOOLEAN : Deleted(d, heard)

ProfileSpec == ProfileInit /\ [][ProfileNext]_prof

----------------------------------------------------------------------------

\* One profile on all devices: a photo work never reaches the server; a work
\* stays with its maker until somebody deletes it or it falls out of a limit;
\* what a device deleted does not come back to it, unless a sync broke off
\* after merging, a device joined anew with it (it then counts as new), or it
\* fell out of a limit (a device that still has it sends it again later); a
\* device that has just agreed with the server's revision shows what the
\* server keeps; a deleted profile is never made again by a sync.
OneProfile ==
    /\ \A c \in Codes : prof.server[c].p.has \cap Photos = {}
    /\ \A e \in 1..prof.made :
         LET d == prof.maker[e]
         IN e \in prof.dev[d].has \cup prof.struck \cup prof.fell
    /\ \A d \in Devices : prof.erased[d] \cap prof.dev[d].has \subseteq prof.loose \cup prof.fell
    /\ \A d \in Devices :
         LET s == prof.dev[d]
         IN s.link # NoLink /\ s.link.base.set /\ s.job = Idle /\ s.state = "ok"
              /\ ~s.dirty /\ s.link.rev = prof.server[s.link.code].rev
            => prof.server[s.link.code].p = Pack(s)
    /\ \A c \in prof.buried : prof.server[c].there = "gone"
=============================================================================
