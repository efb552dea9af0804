------------------------------- MODULE Turns -------------------------------
(***************************************************************************)
(* apps/duell-web/src/turns.js, the engine: games for two, one move at a   *)
(* time; the link holds the whole game.  A prompt asks for one answer, a   *)
(* turn is a sequence of prompts, a game a sequence of turns (TurnGames,   *)
(* PartyGames).                                                            *)
(* A text has no length here, so no answer is too long for its link.       *)
(***************************************************************************)
EXTENDS PartyGames

(* how many there are to choose from after the moves m *)
Count(p, doc, m) ==
  CASE p.from = "names" -> Len(DrawNames(m))
    [] p.from = "left" -> Len(Struck(m))
    [] p.from = "card" -> 7 - Cards(doc)[p.of]
    [] p.from = "ideas" -> Len(GiftLast(m)[1])
    [] OTHER -> p.of
Most(p, doc) == IF p.from = "guess" THEN Guesses(doc)[p.def][2] ELSE p.n
Refused(p, v, doc) ==
  CASE p.from = "board" -> OnBoard(doc, v)
    [] p.from = "word" -> ~OneWord(v)
    [] p.from = "paypal" -> ~PayName(v)
    [] OTHER -> FALSE

ChoiceOf(v, n, among) == Len(v) = n /\ Distinct(v) /\ ToSet(v) \subseteq among
FIELD == Below(25)
OkList(p, v) ==
  /\ Len(v) = p.n /\ \A i \in DOMAIN v : Clean(v[i]) = v[i]
  /\ CASE p.w = "loose" -> p.of > 0 => Len(Filled(v)) >= p.of /\ Distinct(Folds(Filled(v)))
       [] p.w = "same" -> "" \notin ToSet(v)
       [] p.w = "list" -> "" \notin ToSet(v) /\ Distinct(Folds(v))
OkIdeas(v) == Len(v[1]) \in 1 .. 5 /\ Distinct(v[1]) /\ v[2] \in Below(Len(v[1]))

(* every answer has to be one the screen could have given *)
OkAnswer(p, v, doc, m, now) ==
  CASE p.w \in {"show", "touch", "clock", "blow", "rec", "once", "parrot", "pay", "doors"} -> v = 0
    [] p.w = "hunt" -> v \in 1 .. p.n
    [] p.w \in {"drop", "freeze", "voices", "explain"} -> v \in 0 .. p.n
    [] p.w = "react" -> v \in 0 .. 60000
    [] p.w = "inner" -> Len(v) = 5 /\ \A i \in 1 .. 5 : v[i] \in -20000 .. 20000
    [] p.w = "blind" -> v \in 2000 .. 30000
    [] p.w = "door" -> v[1] \in 0 .. 10 /\ v[3] \in 0 .. 999 /\ v[2] \in 0 .. v[3]
    [] p.w = "ideas" -> OkIdeas(v)
    [] p.w = "whose" -> v \in 0 .. 2
    [] p.w = "nim" -> v \in {0, 1}
    [] p.w = "slide" -> v \in p.of .. Most(p, doc)
    [] p.w = "money" -> MoneyOk(v, now[3])
    [] p.w = "slots" -> OkSlots(v)
    [] p.w = "vote" -> OkVote(v, m)
    [] p.w = "grid" -> ChoiceOf(v, p.n, FIELD)
    [] p.w = "probe" -> Len(v) \in 1 .. p.n /\ ChoiceOf(v, Len(v), FIELD \ SockTaps(m, (Len(m) + 1) % 2))
    [] p.w = "blocks" -> Len(v) <= p.n /\ ToSet(v) \subseteq Cells /\ Replay(doc, v) # NULL
    [] p.w = "text" -> Clean(v) # "" /\ Clean(v) = v /\ ~Refused(p, v, doc)
    [] p.w \in {"list", "loose", "same"} -> OkList(p, v)
    [] p.w \in {"pick", "opts"} -> ChoiceOf(v, p.n, Below(Count(p, doc, m)))
    [] p.w = "rank" -> ChoiceOf(v, p.of, Below(p.of))
    [] p.w = "alloc" -> /\ Len(v) = p.of /\ SumOf(v) <= p.n
                        /\ \A i \in DOMAIN v : v[i] \in 0 .. p.n /\ v[i] % p.def = 0
    [] OTHER -> FALSE

-----------------------------------------------------------------------------
(* The seal: the moves are written with the seed and cannot be read with another. *)
Seal(moves, seed) == [by |-> seed, moves |-> moves]
Unseal(blob, seed) == IF blob # NULL /\ blob.by = seed THEN blob.moves ELSE <<>>

Ends(g, doc, m) ==
  \/ g = "hoeflich" /\ PoliteLevel(m) > PoliteLimit(doc)
  \/ g = "socken" /\ Len(m) >= 3 /\ Len(m) % 2 = 1 /\ \E who \in {0, 1} : SockFound(m, who) = 2
Written(g, t, x) == IF g = "sammeln" THEN Store(t, x) ELSE x
Read(g, t, x) == IF g = "sammeln" THEN Legacy(t, x) ELSE x

(* one turn of a link fits after the moves before it *)
Fitting(doc, out, ps, got) ==
  /\ ~Ends(doc.g, doc, out) /\ Len(got) = Len(ps)
  /\ \A i \in DOMAIN got : OkAnswer(ps[i], got[i], doc, out, SubSeq(got, 1, i - 1))
(* the moves up to the first that does not fit *)
Checked(doc, raw) ==
  LET turns == GAMES[doc.g]
      f[t \in 0 .. Len(raw)] ==
        IF t = 0 THEN <<>>
        ELSE IF Len(f[t - 1]) < t - 1 \/ t > Len(turns) THEN f[t - 1]
        ELSE LET got == Read(doc.g, t, raw[t])
             IN IF Fitting(doc, f[t - 1], turns[t], got) THEN Append(f[t - 1], got) ELSE f[t - 1]
  IN f[Len(raw)]
Moves(doc) == Checked(doc, Unseal(doc.q, doc.seed))
Over(doc, m) == Len(m) >= Len(GAMES[doc.g]) \/ Ends(doc.g, doc, m)
(* the prompts after the moves m, none when the game is over *)
Prompts(doc, m) == IF Over(doc, m) THEN <<>> ELSE GAMES[doc.g][Len(m) + 1]

(* the link with these answers, or NULL if they do not fit the turn *)
Play(doc, answers, today) ==
  LET m == Moves(doc)
      out == Append(m, answers)
  IN IF Over(doc, m) \/ ~Fitting(doc, m, Prompts(doc, m), answers) THEN NULL
     ELSE [doc EXCEPT !.q = Seal([t \in DOMAIN out |-> Written(doc.g, t, out[t])], doc.seed),
                      !.o = IF doc.g \in LaterDay /\ m = <<>> THEN today + answers[2] ELSE @]
(* the days a second turn still has to wait *)
Gate(doc, m, today) == IF doc.g \in LaterDay /\ Len(m) = 1 /\ doc.o > today THEN doc.o - today ELSE 0
Rematch(doc, seed) == [doc EXCEPT !.seed = seed, !.q = NULL, !.o = 0]

(* what the card of a finished game says *)
Result(doc, m) ==
  CASE doc.g = "deal" -> DealResult(doc, m) [] doc.g = "einig" -> EinigResult(doc, m) [] doc.g = "wort" -> WortResult(doc, m)
    [] doc.g = "schmuggel" -> SchmuggelResult(doc, m) [] doc.g = "lob" -> LobResult(doc, m) [] doc.g = "auktion" -> AuktionResult(doc, m)
    [] doc.g = "kapsel" -> KapselResult(doc, m) [] doc.g = "kennst" -> KennstResult(doc, m) [] doc.g = "snack" -> SnackResult(doc, m)
    [] doc.g = "teilen" -> TeilenResult(doc, m) [] doc.g = "wette" -> WetteResult(doc, m) [] doc.g = "luecke" -> LueckeResult(doc, m)
    [] doc.g = "socke" -> SockeResult(doc, m) [] doc.g = "bluff" -> BluffResult(doc, m) [] doc.g = "auftrag" -> AuftragResult(doc, m)
    [] doc.g = "ausrede" -> AusredeResult(doc, m) [] doc.g = "gutschein" -> GutscheinResult(doc, m)
    [] doc.g = "rubbellos" -> RubbellosResult(doc, m) [] doc.g = "urkunde" -> UrkundeResult(doc, m) [] doc.g = "luege" -> LuegeResult(doc, m)
    [] doc.g = "blitz" -> BlitzResult(doc, m) [] doc.g = "recht" -> RechtResult(doc, m) [] doc.g = "morgen" -> MorgenResult(doc, m)
    [] doc.g = "umschlag" -> UmschlagResult(doc, m) [] doc.g = "rad" -> RadResult(doc, m) [] doc.g = "steine" -> SteineResult(doc, m)
    [] doc.g = "unlesbar" -> UnlesbarResult(doc, m) [] doc.g = "damals" -> DamalsResult(doc, m) [] doc.g = "kreis" -> KreisResult(doc, m)
    [] doc.g = "hoeflich" -> HoeflichResult(doc, m) [] doc.g = "woerter" -> WoerterResult(doc, m) [] doc.g = "abfragen" -> AbfragenResult(doc, m)
    [] doc.g = "regel" -> RegelResult(doc, m) [] doc.g = "werbung" -> WerbungResult(doc, m) [] doc.g = "maschine" -> MaschineResult(doc, m)
    [] doc.g = "suche" -> SucheResult(doc, m) [] doc.g = "wichteln" -> WichtelnResult(doc, m) [] doc.g = "rangliste" -> RanglisteResult(doc, m)
    [] doc.g = "schaetzen" -> SchaetzenResult(doc, m) [] doc.g = "reihum" -> ReihumResult(doc, m) [] doc.g = "termin" -> TerminResult(doc, m)
    [] doc.g = "danke" -> DankeResult(doc, m) [] doc.g = "kerzen" -> KerzenResult(doc, m) [] doc.g = "tunnel" -> TunnelResult(doc, m)
    [] doc.g = "post" -> PostResult(doc, m) [] doc.g = "fallpreis" -> FallpreisResult(doc, m) [] doc.g = "socken" -> SockenResult(doc, m)
    [] doc.g = "advent" -> AdventResult(doc, m) [] doc.g = "rap" -> RapResult(doc, m) [] doc.g = "disco" -> DiscoResult(doc, m)
    [] doc.g = "stimme" -> StimmeResult(doc, m) [] doc.g = "maus" -> MausResult(doc, m) [] doc.g = "papagei" -> PapageiResult(doc, m)
    [] doc.g = "tier" -> TierResult(doc, m) [] doc.g = "uhr" -> UhrResult(doc, m) [] doc.g = "pokal" -> PokalResult(doc, m)
    [] doc.g = "pommes" -> PommesResult(doc, m) [] doc.g = "reaktion" -> ReaktionResult(doc, m) [] doc.g = "tuer" -> TuerResult(doc, m)
    [] doc.g = "streichen" -> StreichenResult(doc, m) [] doc.g = "finger" -> FingerResult(doc, m) [] doc.g = "erklaeren" -> ErklaerenResult(doc, m)
    [] doc.g = "sorry" -> SorryResult(doc, m) [] doc.g = "sammeln" -> SammelnResult(doc, m) [] doc.g = "geschenk" -> GeschenkResult(doc, m)
    [] OTHER -> NULL
=============================================================================
