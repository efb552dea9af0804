# TLA+ verification of the CADS agent marketplace

This directory holds TLA+ models of the parts of the marketplace in which
order, failure and concurrency matter, the TLC runs that check them on small
instances, and TLAPS proofs of their main safety properties for every value of
the constants. `PROJECT.json` lists components, runs, mutants, findings,
hazards and theorems, and maps every definition that models code to its lines.
Paths below are relative to the repository (`src/` in the map).

Contents: 1 Inventory · 2 Modules and the code · 3 Runs · 4 Fairness ·
5 Proofs · 6 Findings · 7 What is left out · 8 Plan

## 1. Inventory

The repository has three layers. *Rust crates*: an installer that takes signed
manifests to running services, a registry that stores them, a harness for
agents, and the core of the mobile apps with its peer-to-peer channel.
*Browser apps* (`apps/duell-web`, `apps/call-core`): games, a card table, live
co-editing and calls, all of them peer to peer over that channel. *Shells and
deployment*: Android, iOS, dashboards, examples.

| Component | State | Operations | Hard behaviour | What makes it correct |
|---|---|---|---|---|
| Activation pipeline `crates/installer-engine/src/activate.rs`, `fetch.rs`, `process.rs` | work dir, `.env`, child process, selected sandbox, report; the docker daemon, shared | steps 1–10 of `activate_inner` | several calls on one daemon; servers answer anything; children hang; check-then-act against docker | nothing unvetted runs, a Binary is confined, Rejected means nothing ran, every call reports |
| Composition installer `composition.rs` | resolved subs, `succeeded`, teardown outcomes | verify all, trust all, activate each, roll back in reverse | one of several steps fails; a teardown fails; two compositions at once | no sub runs before all are vetted; a rollback accounts for all that succeeded and harms nobody else |
| Guardrails `guardrails.rs` | none | `scan_compose` | YAML forms that reach the same effect | a file without a violation gives its containers nothing of the host but the bundle and loopback |
| Sandbox backends `sandbox/` | none | select, wrap, doctor | probing differs per OS and per moment | fail-closed |
| Wasm runtime `wasm_runtime/` | store, fuel, epoch thread | compile, run, connect filter | fuel and wall clock both end a run | guest ends, no connect outside the policy |
| Install plan `plan.rs` | none | preview | preview and pipeline may drift | preview rejects what the pipeline rejects |
| Manifest core `crates/manifest-core` | none | preimage, sign, verify, validate | – | signature covers every field that is read |
| Registry `crates/registry` | sqlite rows, bundle files, ledger | publish, fetch, list, record | file and row are two writes; conflicts; a crash between | a served manifest has its bundle |
| Harness `crates/harness-core` | message history, budgets | agent loop, local CLI, tool dispatch | a model that never stops; child processes | bounded turns, contained tools |
| Mobile peer channel `crates/mobile-core/src/peer` | session, policy counters, invite | pump, inbound/outbound, invite life | rate windows, open requests, races with closing | bounded state, every request answered once |
| Live co-editing `apps/duell-web/src/collab.js`, `collab-ui.js` | LWW entries, tombstones, Lamport clock, outbox | seed, edit, tick, receive, connect | loss, reconnects, concurrent edits, limits | convergence, no entry goes back |
| Calls `apps/call-core/src` | session state, timers, media, peer connection, promise queue | dial, accept, decline, hang up, offers and answers, restarts | eight timers, awaits, loss and reordering, glare | nothing held after the end, every wait ends, offers and answers paired |
| Game table `table.js` | per player: members, links, holds, readies, queues, the hand | join, mesh, seat, invite, rules, ready, deal, move, hand over, leave | no server; order per link only; departures reported twice | all who play a hand play the same one; no start is lost; departures settle |
| Card games `skat.js`, `doko.js`, `bauernskat.js`, `mpoker.js` | public state, own cards, keys | bid, declare, call, play, Auto, audit, settle; deal without a dealer | long legal sequences; calls crossing plays; keys of face-down cards | never stuck, fair settlement, same cards, no peeking, a foul deal names its seat |
| Turn games by link `turns.js`, `turn-ui.js`, `turn2.js` | a document with its moves; the screen; what a phone keeps | prompt, answer, pass on, open; lists, Santa draw | links opened late, twice, in any order; replay on another phone | a finished turn is always a link that opens; replies merge; one draw |
| Party planning `feier.js`, `feier-ui.js` | boxes in the link, the organiser's boxes, keys | answer, fork, merge, tally, close | awaits of WebCrypto; forks | every answer counts once |
| Live duel link `live.js`, `live-ui.js`, `rpslive.js`, `ballduell.js` | invitation, connection, sealed hands, ball, score | invite, accept, seal, reveal, hit, rematch | both sides at once; late opens | no reveal before both seals; one ball, one score |
| Arcade duels `arcade.js`, `arcade2.js`, `arcade-ui.js` | each side's half, score, pending throws | hit, pass, shoot, fin, rematch, look away | both take the last hit; ends crossing shots | one match on both phones |
| Agent duel `duel.js` | agents, rounds | play a round | each phone computes alone | the seat decides nothing |
| AI actions `ai.js`, `quiz-ui.js` | open receipts, panel, check list | ask, wait, take, drop | an answer later than its sheet | paid for exactly what was taken |
| Minutes `protokoll.js`, `protokoll-page.js` | recording, queue, transcript, kept list | record, recognise, stop, ask the AI, keep | five kinds of late answers | the minutes hold what was said in their meeting |
| Mal & Rat `malrat.js`, `malrat-ui.js` | word, check value, drawing | pick, draw, guess | the check value is late | a picture goes with its own word |
| App shell, short links `app.js`, `shortlink.js` | `ed`, `result`, kept links, routes | edit, finish, share, status card, delete, open | awaits over page variables | one card, one link |
| Profile sync `profile.js` | store, link, base, revision | link, get, merge, put, delete | refused writes, unlinking on the way | one profile on all devices |
| Other pages, mobile shells, dashboard, example bundle, `cads-run` | interface | – | – | not modelled, see section 7 |

Interactions: `activate_composition` calls `activate` for every sub-manifest
and both change the same docker daemon; `activate` is called by `cads-run`, by
the harness and, through HTTP, by the mobile client. Collab, calls, table and
live duels use one kind of channel: ordered while it lives, silent about what it
lost. All browser components run on an event loop, so a handler is atomic up
to its first `await`.

## 2. Modules and the code

Each module is one component: its variables are the component's state, each
action is one handler or one step between two waits. Definitions named
`X_Something` or commented "Variant: ..." or "Mutant of X" are deliberately
wrong variants of the definition X beside them, used to confirm that a property notices that mistake; no
specification refers to them.

| Module | Models | Source |
|---|---|---|
| `Activate` | `activate()` and what it runs, several calls at once | `activate.rs`, `fetch.rs`, `process.rs`, `report.rs`, `sandbox/mod.rs`, parts of `manifest.rs`, `allowlist.rs`, `wasm_runtime.rs` |
| `Guardrails`, `Contracts` | the scan of a compose file, and what docker makes of one; the environment contract and the wasm block of a manifest. `Activate` EXTENDS them | `guardrails.rs`; `manifest-core/src/environment.rs`, `wasm.rs` |
| `Composition` | `activate_composition()`; EXTENDS `Activate`, whose calls it makes | `installer-engine/src/composition.rs`, parts of `manifest-core/src/composition.rs` |
| `Collab` | the collab engine of two peers and their channel | `collab.js`, parts of `collab-ui.js` |
| `Call` | `CallSession` and `CallEndpoint` of two endpoints | `call-core.js`, `protocol.js` |
| `Table`, `HandPact` | the table of three players; what it promises about hands | `table.js` |
| `Hand` | one Skat hand on three devices, deal to audit; EXTENDS `SkatRules` | `table.js` |
| `SkatRules`, `Skat` | the rules as operators; a hand played by them | `skat.js` |
| `Doko`, `Bauernskat`, `Poker` | Doppelkopf; Skat for two on two devices; the deal without a dealer | `doko.js`, `bauernskat.js`, `mpoker.js`, parts of `table.js` |
| `TurnRules`, `TurnGames`, `PartyGames`, `Turns`, `TurnScreen` | the games by link: texts, order and prompts; each game's turns and result; the engine that replays a link; the widgets and the passing on. Each EXTENDS the one before | `turns.js`, `turn-ui.js`, `turn2.js`, parts of `quest.js`, `core.js` |
| `Lists`, `Wichtel` | shopping, task and wish list; Secret Santa | `turns.js`, `turn-ui.js`, `turn2.js`, `flavors/business/games.js` |
| `Feier` | planning a party with sealed answers | `feier.js`, `feier-ui.js` |
| `Live`, `Arcade`, `Duel` | live duels, arcade duels, agent duels | `live*.js`, `rpslive.js`, `ballduell.js`; `arcade*.js`; `duel.js` |
| `AiAction`, `Protokoll`, `Malrat`, `Pages`, `Profile` | the pages whose answers come late | `ai.js`, `quiz-ui.js`; `protokoll*.js`; `malrat*.js`; `app.js`, `shortlink.js`; `profile.js` |
| `MCActivate`, `MCComposition`, `MCCollab`, `MCCall`, `MCGames`, `MCLists` | constants of the runs | – |
| `ActivateProofs`, `CompositionProofs`, `CollabProofs`, `CallProofs`, `FairPlayProofs`, `LinkProofs`, `ProfileProofs`, `GamesProofs` | theorems about the module they extend (section 5) | – |

### Activate

`Procs` are `activate()` calls under way at once. `pc[p]` is the numbered step
`activate_inner` is about to take; every download and every external command
is its own step, so calls interleave exactly where the program blocks.
A *manifest* and a *bundle* are records of what the checks tell apart (signed,
expiry, publisher, digest, kind, wasm block and environment contract, safe
entries, the services of the compose file, resources that `up` creates). What a server answers is any
member of the set served at a location. Names are sequences of segments, so
"equal to the project or starting with project-" in `preflight_collision_check`
is a prefix test on segments; a container is `<project>-<service>-1`, a network
or a volume `<project>_<name>`.

| Action | Code |
|---|---|
| `Start` | `activate` / `activate_with_policy`, options chosen by the caller |
| `FetchManifest`, `CheckManifest` | steps 1–4a: download, signature, expiry, trust, kind, wasm and environment checks, policy, project name, Binary platform |
| `ListDocker` | step 5: `docker ps`, `volume ls`, `network ls`, three calls |
| `FetchBundle`, `Unpack`, `Scan` | steps 6–7: digest, tar entries one by one, guardrails |
| `ResolveEnv` | step 8: missing values reject; `.env` for Compose and Binary |
| `StartCompose`, `StartWasm`, `StartVerify` | steps 8b–10: spawn |
| `Chmod`, `StartBinary` | step 9: the file is made executable; the backends are probed (`Probing`, for as long as it takes), the command is wrapped and spawned |
| `CreateResource` (external) | the docker daemon bringing up one resource of an `up` |
| `ExitOk`, `ExitBad`, `Timeout` | what `run_bounded` sees |

`created` and `ran` are history variables: what this call's `up` brought up and
which bundle code it has started.

`Guardrails` and `Contracts` hold operators only. A compose file is the set of
its services, each a record of the keys that `scan_compose` reads; a rule is an
operator named after its function, whose value is the set of rules the service
breaks. A path is its parts, so `normalize` is a fold over them, and a volume's
source is the chain of `${...}` around a path. `Contained` says what the rules
are for: what docker gives the containers of a file, with every variable unset,
but for what the scan is known to take for something else (`Overlooked`, finding 6);
`OnlyVettedCodeRuns` and `SecretsOnlyForVetted` are stated with it and not with
the verdict of the scan. A volume is read as compose reads it (`Binds`): in the
long form `type` decides, in the short form the look of the source. Left out:
YAML forms the scan does not read, Windows paths, variables inside a path, and
interpolation in `env_file` and `build.context`, which the scan takes as
written. `MCActivate` holds the scan against the repository's own
tests of it (each defect is reported by its rule and by no other), the two
blocks against one defect per check, and every preopen path of up to three
parts against where it leads (`PreopensLeadInside`): folds over paths are data
induction, out of the provers' reach.

### Composition

A process is one `activate_composition` call; its sub-activations are the
actions of `Activate` on the same process. Added: `StartComposition`,
`CheckComposition` (1a), `ResolveSub` (1b, one sub per step), `CheckTrust`
(1c), `CallSub`, `SubReturned`, `AllInstalled` (step 2), `TearDown` (one
`docker compose -p <project> down -v`, which may fail), `RollbackDone`.
`before` remembers what docker held when the attempt began.

### Collab

`st[p]` is the set of entries (fields, stickers, tombstones) of peer p, with
Lamport time and actor; an entry and an op on the wire are the same record.
`Beats` is `wins()` together with the rule that a tombstone beats everything.
`ReceiveOps` applies a frame op by op; as ops of one frame have different keys
and the order of the array is not otherwise told apart, it takes the acceptable
subsets when the id limit bites. `Raised` is the clock rule. The 32-bit digest is
modelled by the hashed content. The edited document and the engine's state are
one: `collab-ui.js` calls `local()` before `receive()` and `applyTo()` within
one turn of the event loop. `TickHello`, `TickOps` and `TickDigest` are the
three branches of `tick()`.

### Call

`call[e]` is the session at endpoint e, `timers` the armed timers; an armed
timer may fire at any time, so every order of timers and messages is covered.
The session's promise queue is one running `job`: its value names the `await`
it stands at, and a queued offer or answer is one still in flight. `TakeOffer`
and `RenewServers` split `onOffer` at the fetch of ICE servers, which comes
*before* the epoch is taken over when the offer brings no servers. `PcState` is
what the browser's peer connection reports (external). `net` is a set: messages
may be lost and overtake each other; a repeated message is one already in it.

### Table and HandPact

`tab[p]` is the record `table()` keeps at player p, `chan[p][q]` the ordered
channel from p to q, `tokens` the invitations and mesh tokens under way at the
bridge (external). A handler is an operator on one record that also fills `out`
and `shut`; `Commit` sends and closes. Each message type has its operator
(`TakeReady`, `TakeHold`, ...); a message that builds on what has not come yet
waits in the sender's queue (`Pump`). `await live.invite` splits an invitation into
`InviteSeat`/`InviteAll` and `InviteReady`/`InviteFails`. `Deal` and `Done`
stand for the hand, which is module `Hand`.

`HandPact` is the abstract specification: players begin and end hands alone, in
rising numbers, yet all who play a hand have the same number, roster and rules.
`ImplementsPact` is the refinement: `playing` is the pact of the hand in each
record, `floor` the number of the next one.

### Hand, SkatRules, Skat, Doko, Bauernskat, Poker

`apply()` is an operator from a state and an action to the *set* of next
states, empty where the code answers `fail(...)`. `Skat` and `Doko` play hands
with a client that may fail to follow suit, so that the audit is exercised.
`Hand` keeps per device which keys of which position it has, its own state, its
queues and its accusations, and lets messages of different players arrive in
any order; a seat can be handed over and is then played on Auto by everyone.
`Bauernskat` does the same for two devices with face-down cards. In `Poker` the
curve is a group of prime order and a point its x-coordinate, so a point and
its negative are one, as in the code.

### TurnRules, TurnGames, PartyGames, Turns, TurnScreen, Lists, Wichtel, Feier

A game of `turns.js` is in `TurnGames` or `PartyGames` a record of its turns
(sequences of prompts, some of them functions of the moves so far) with its own
helpers and its result, with the counts of the code. `Turns` holds which
answers a prompt takes (`OkAnswer`), when a game is over and the replay of a
document (`Moves`, `Play`). The seeded order (`Mix`) is the shuffle of the code
over a constant generator `Rnd`. `TurnScreen` walks the prompts with the
widgets of `turn-ui.js`, which keep their own state; texts are a handful that
the filter and the folding tell apart. In `Lists` a chat holds every link ever
sent; a phone opens any of them at any time. `Wichtel` and `Feier` add keys:
what is sealed to a phone only that phone opens, and sealing takes a while.
Meanwhile the phone opens other links or draws the screen anew; `Wichtel` keeps
the screen that was left (`left`) until what it waits for has come, `Feier` the
ends that are still being signed (`closing`) and the one that came (`next`).

### Live, Arcade, Duel

Two pages and an ordered channel. Where a ball is and whether a paddle meets it
is open, who decides it and what is then sent is not. The ten arcade games are
six kinds that differ in control. In `Duel` two phones compute the same match
with the agents in opposite order.

### AiAction, Protokoll, Malrat, Pages, Profile

Each is one page (`Profile`: two devices and a server, external) with its page
variables and what is under way; whatever comes back later finds the page
variables as they are then, as in the code. Flags (`early`, `hasty`, `strayed`,
and `twice` of `Wichtel`) record that the person has done what section 6 or 7
lists as a known race; `mixed` names the meetings of which something came while
another one was current. A unit of sound is loud or quiet, and a piece passes when it
has a word for every `CARRY` units: the code compares the mean over the piece.

## 3. Runs

| Run | Instance | Distinct states | Shows |
|---|---|---|---|
| `activate` | two calls with nested project names; three sound manifests and eleven with one defect each; every OS, sandbox required or not, policy extended or not | 160,406 | only vetted code runs; Binary confined; Rejected ran nothing; secrets only for vetted bundles; no container adopted; every call reports |
| `composition` | two compositions with nested project names, failing, rejected and hanging subs, failing teardowns, a stale container | 34,471 | all vetted before any; rollback covers what succeeded; an Ok composition stands; containers of others are spared; every attempt reports |
| `v_partial`, `v_volume` | the same, one without and one with a foreign volume | – | findings 1 and 2 |
| `collab` | 1 field, 1 seeded sticker, two values, clocks to 5, 2 frames in flight | 927,192 | unique stamps, one entry per key, id limit, entries only advance |
| `collab_converge` | one lost frame or connection, 1 frame in flight | 106,879 | the states become and stay equal |
| `v_collab_ids` | limits scaled to 2 and 3 | – | finding 4 |
| `call` | 2 calls (also glare), 1 renegotiation, 2 messages in flight | 592,980 | media only in accepted calls; nothing held after the end; every wait has its timer; answers paired with offers; no ghost calls |
| `call_waits` | 1 call, unrestricted channel | 15,285 | every wait ends |
| `v_call_resume` | 1 call, 1 renegotiation | – | finding 3 |

| `games` | one behaviour per activity of the web app, see below | 893,037 | the properties of the table below |
| `v_list_back` | a shopping list, two phones, two links, back to the editor | – | finding 5 |

Run `games` starts in one of eighteen activities; `on` names it. Properties:

| Property | Activity and instance | Says |
|---|---|---|
| `ImplementsPact`, `NoLostStart`, `DeparturesSettle` | table: three players, six evenings | all begin the same hand; a start everybody wants happens; departures reach everyone |
| `CardsAreHonest` | Skat (2 cards each), Doppelkopf (2 and 3), Bauernskat (2 stacks), deal of 2 cards by 2 seats over 7 | never stuck, settled by what was played, same cards on both phones, no peeking, a foul deal names its seat |
| `HandsAgree` | Skat hand on three devices, three tables | same hand, result and audit; nothing waits for good |
| `LinksAndGamesAgree` | all games of `turns.js` | a finished turn is a link that opens to the same moves; each game keeps to its rule of ending |
| `RepliesCountOnce` | shopping and wish list (two phones, two or three links), Santa (3 phones, two lists sent), party poll (2–4 links) | lists come together whichever reply is opened last; the wisher sees no reservation; one fair draw; every answer once in the total |
| `HandsStaySealed` | rock-paper-scissors, ball duel | no hand before both seals; one ball |
| `BothPhonesPlayOneMatch` | nine arcade matches, agent duels of 3 rounds | one match, one score; seats do not matter |
| `PaidForWhatWasTaken`, `PictureOfItsWord`, `MinutesAreTrue` | AI actions, Mal & Rat, the minutes | late answers are booked where they belong; of the minutes: unless another meeting was current when they came |
| `OneCardOneLink` | the shelf: one visit with two links, or coming back by address | a short link stands for one work: its thumbnail, its chat picture, the card, what is shared |
| `OneProfile` | two devices, four syncs, with losses, deletions, a rename or a full wall | nothing is lost or comes back undeclared; devices that agreed are equal |

Every property of a passing run has a mutant in `PROJECT.json`: a plausible
slip in one mapped definition under which TLC reports that property violated.

**Bounds.** `ClockBound` (5) lets the inviter seed a field and a sticker and
then lets both peers make concurrent edits of the same key with equal Lamport
times, the case that tells actors apart; `LocalIds`/`MaxIds` keep the order of
the real 340/400. `MaxInFlight` 2 allows frames to cross; a frame in flight in
each direction is what the loss and digest cases need. `MaxFaults` 1 in the
convergence run puts one loss at every place; in `collab` it is 0, since the
safety properties are proved for every number of faults. `MaxOps` 2 makes a
full state need more than one frame. `MaxCalls` 2 is what a stale invite and
glare need, `MaxEpoch` 1 what a stale answer needs, `MaxNet` 2 what overtaking
needs; `call_waits` takes `MaxNet` large enough never to restrict the channel.
Two processes suffice for `activate` and `composition`, as a step compares a
call with the daemon only and the daemon does not tell callers apart.
In `games`: evenings of the table have one guest with one departure or failed
connection, one guest with a change of the rules by an old or a new player, two
guests by a group link, two inviters for the last seat, and Bauernskat with two
hands and two rule changes: each hazard of the table has its evening, and
`choosers`, `hands`, `rules`, `invites`, `faults` keep the product small. Decks
are cut to what a trump, a suit to follow, a jack and a Skat need; `WIN`,
`GoalsToWin`, `Kicks`, `Marbles`, `Bricks` are 1 to 3, so that matches end and a
rematch fits. A piece of a meeting is cut after two units at a pause and after three in any
case, and with `CARRY` 2 a word between two pauses is lost as in the code.
`K` = 2 and `FIT` = 1 make a poll overflow its link, `MAX_KEPT`
and `MAX_KEEP` = 1 make a shelf overflow. The games by link are played with the
code's numbers of turns, rounds and options; only the field for the blocks
(`SIZE` 4, `MAX_BLOCKS` 3) and the people in a date poll (`VOTERS` 4) are
smaller. `Rnd` is one generator and a new game takes one of two `Seeds`; a game
with a gate is looked at on three `Days`, too early, at the gate and long after
it. `Whims` bounds how many inputs of a game, over both players, are not the
plain one of each widget: two for most games, so that a departure can meet
another one, one for the games with the most turns or options, three where two
answers are compared, four for the fries; a row of choices or texts is changed
at its first four and its last. Every other bound is a named constant with a
comment in its module.
The symmetry sets (values in Collab, endpoints in Call) are only used in runs
without liveness properties.

**Deadlock** is checked except in Call and in the games: when `MaxCalls` calls
have been dialled and are over, or a game or a visit is over, nothing is left to
do. That nothing stops too early is part of the properties (`NeverStuck`,
`NothingWaitsForGood`, `NoLostStart`, "somebody can always go on").

## 4. Fairness

* *Activate*: weak fairness of a call's own steps, the timeout of
  `run_bounded` among them. Downloads are bounded by `FETCH_TIMEOUT` (60 s),
  children by their timeouts. Nothing is assumed of children or of docker: a
  child may hang for ever. Nothing is assumed of the probes for a sandbox
  backend either, which are awaited without a bound (`bwrap.rs:180`, 194,
  `wsl.rs:183`, `sandbox_exec.rs:246`): `StartBinary` is not fair, and
  `EveryCallReports` and `EveryAttemptReports` promise a report unless the call
  hangs there. Taken to return: `taskkill`, which ends a child on Windows and is
  waited for without a bound (`process.rs:110`).
* *Composition*: weak fairness of the one thread that runs it, sub-activation
  included.
* *Collab*: `setInterval` runs `tick()`, the shell reconnects and delivers what
  was not lost. Strong fairness for `Tick`, as the channel may come and go; for
  `TickDigest` and `ReceiveDiffering`, as a digest is due every `DIGEST_MS` = 3 s
  while full states are queued at most every `FULL_MIN_MS` = 2 s and leave in
  flushes of `FLUSH_MS` = 250 ms: a tick finds the queue empty and the digest
  due, and a differing digest that arrives outside `FULL_MIN_MS` is answered.
  Nobody has to edit. `rejected` excludes runs in which the id limit refused an
  op; the finding on `LOCAL_IDS` is about those.
* *Call*: timers fire and promises settle (fetches by `iceFetchTimeoutMs`;
  `getUserMedia` once the user answers). Nothing about the channel, the link or
  the users.
* *Table, games and pages*: no fairness. People may stop at any time, so what
  must not be missed is stated of the states at rest, where every message has
  been handled.

## 5. Proofs

`tlapm` checks the proof modules without an unproved step. Each argues the
same way: an inductive invariant, one lemma per action, the properties as its
consequences. The invariant is needed because a property speaks of the moment a
child runs, a call is over or a picture is sent, far from the checks it rests on.
TLC finds the invariants, and the hypotheses named below, true on the
instances of section 3.

**ActivateProofs** (any number of calls, any sets of manifests, bundles and
requests): `TypeCorrect`, `Vetting` (`OnlyVettedCodeRuns`), `Confinement`
(`BinaryConfined`), `RejectionIsClean` (`RejectedRanNothing`),
`SecretsAreGuarded` (`SecretsOnlyForVetted`), `NoTakeover`
(`NoContainerTakeover`). `ScanContains` needs no invariant: service by service
and rule by rule, a compose file without a violation is `Contained`; `Vetting`
and `SecretsAreGuarded` rest on it. `IInv` is `Typed` and, for every call, `CallInv`:

* `Vetted`: which checks have been passed by the time the call is at a step;
* `OnBranch`: a call at the step of one kind has a manifest of that kind;
* `ChildInPlace`: a child exists only in the run steps, is the one that step
  spawned, and nothing ran, was created or written to `.env` before them;
* `BackendChosen`: the backend is chosen once, in step 9, children of the call
  run under it, and it is one that `wrap_command_with_policy` accepts for these
  options: this is why step 10 cannot reject;
* `ReportSound` and `SecretsVetted`: what a report and the `.env` say.

A step of call p leaves every other call's variables alone, so `Invariance`
takes one action at a time and only p's `CallInv`. `TypeCorrect` adds
`CreatedStands`, which only holds while nobody tears down: it is kept apart, so
that `IInv` can be used for compositions too. `NoTakeover` needs `Cleared`:
from the first listing on, the containers of the call's project are among those
it has seen, and once past step 5 there are none. That is true only if no other
call brings up the same project in between: step 5 is a check before an act.
So the theorem assumes `ProjectsDiffer`, no two calls that run at once use one
project name. The code leaves this to its callers (F.11), and calls for the same
project race by design; names *nested* in one another, which the pre-flight has to
tell apart, are allowed. Assumed of the constants: the fields the pipeline reads have
the values it tells apart (`ManifestsAssumption`, `BundlesAssumption`,
`RequestsAssumption`, `ForeignAssumption`).

**CompositionProofs** (any number of compositions of any length): the pipeline's
`IInv` is reused as it is, as every sub-activation is a run of `Activate`. Part
one adds `CompInv`: `Orderly` (activate() runs only while the composition
awaits it), `CVetted` (steps 1a to 1c as far as they have come), `Counted` (how
far installation and rollback have come), `Noted` (what is written down of a
sub is what its activation did). From it: `CompositionTyped` (`CTypeOK`) and
`VettedBeforeAny` (`AllVettedBeforeAny`). Part two speaks of the host, `HostInv`:
`Standing` (what an attempt that has not turned back has brought up is there),
`TornDown` (a teardown without an error has left nothing of its sub), `Spared`
(what stood before the attempt is seen by the pre-flight, so no sub goes into a
project that had a container). From it, under `ProjectsDiffer`:
`RollbackIsComplete` (`RollbackCoversSucceeded`), `OkStands`
(`OkCompositionStands`), `RollbackSpares` (`RollbackSparesContainers`). Assumed:
requests that `activate_composition` can make (`CompositionAssumption`).

**CollabProofs** (any limits, any number of faults, any values): `TypeCorrect`,
`StampsAreUnique` (`StampsUnique`), `OneEntry` (`OneEntryPerKey`), `IdsStayBounded`
(`IdsBounded`), `Advancing` (`EntriesOnlyAdvance`). `StampsUnique` needs to know
why a new stamp is fresh: an actor's clock is at least every time it ever
stamped, wherever that op is now. So `IInv` adds: `Stamped` (no op anywhere
carries a time, and no sticker id a birth, that its actor's clock has not
reached), `ClockCoversState` (a clock covers all that its owner holds,
so an edit beats it), `QueuesOnePerKey` (an outbox or a frame holds one op per key),
`QueuedDeadIsHeld` (a queued tombstone is still held), `QuietBeforeSeed`
(nothing exists before the inviter seeds). `IdsStayBounded` counts: what a peer
holds is finite and has one entry per key, so its ids are as many as its
entries of stickers; `apply()` takes a new id only while there is room, and a
seed or an edit stays below `LocalIds`. Assumed: two different positive actor
numbers, `SeedStickers <= LocalIds < MaxIds`, and
`ClockBound <= MaxJump <= MaxClock`, i.e. executions that end before 2^40 edits.

**CallProofs** (any number of calls, renegotiations and messages in flight):
`TypeCorrect`, `MediaConsented` (`MediaOnlyInAcceptedCall`), `NothingHeld`
(`OverHoldsNothing`), `WaitsBounded` (`WaitsAreBounded`), `Agreement`
(`StableMeansAgreed`), `NoGhosting` (`NoGhostCalls`). Every step but the loss of a
message changes one endpoint's session and sends at most one message, so
`BecomesKeeps` reduces a step to conditions on the new session: `Sound`
(`LifeCycle`, `TimersSound`, `JobsSound`, `OffersSound`: which timer is armed and
which job runs in which state, whose offer is out), `Consented` (past ringing
means accepted), what an answer in flight or a remote description says about the
other end (`NetInv`, `RemoteInv`, `Vouches`: it has answered the offer of this epoch
or of a later one), and that a call that is over never returns (`EndedInv`).
Assumed: two endpoints (`EndpointsAssumption`), bounds that are numbers
(`CallBounds`).

**FairPlayProofs**, AI actions (any number of sheets, questions and panels, packs of any
size): `BooksKept` (the invariant) and `PaidForTaken` (`PaidForWhatWasTaken`). The
hard part is an answer that comes late, so the invariant says where every
receipt can be: one still to come is nowhere (`Untold`), an open one belongs to the
sheet on screen (`OpenHere`), the question under way is the last one asked
(`Asked`), what can be tapped is open or was taken (`Tappable`), and the check
list on screen is the one that waits for a decision (`Listed`). `early`, once set,
stays. Hypothesis `Setting`: bounds are numbers, a panel does one of three things.

**FairPlayProofs**, live duels (any numbers of rounds, games, invitations and hits):
`LiveStaysFair` (`HandsStaySealed` and `OneBall`). No hand is shown before both are
sealed because of what each phone has been told, so `LiveInv` says it page by page and
message by message: what a sheet holds (`SheetSound`), and how what a page took, what the
other one said and what is still between them fit together (`Heard`, and `OneRally` for
the ball). A step of one page is reduced to what it sends and takes (`PlayKeeps`, `Heeded`).
Hypothesis `LiveSetting`: a duel needs at least one win, and is one of the two kinds.

**LinkProofs**, Mal & Rat (any words, room and rounds): `StepSound` (the invariant) and
`PictureGoesWithItsWord` (`PictureOfItsWord`). The check value is computed beside
the screen, so two facts are followed through every step: the word chosen now is
checked or its check value is still to come (`UnderWay`); an open step shows what
the footer would send for it (`Current`). Hypothesis `Setting`: there is a word to
offer, no word is 0, each has its room.

**LinkProofs**, the app shell (any works, links made by others, visits and limits):
`LinksAreHonest` (`OneCardOneLink`). Making a link, drawing its picture, sharing
and deleting it each wait for the server, and the person goes on meanwhile; so
what is under way names a link that may since have been deleted, cut off the
list or shared again. The argument does not follow those orders: it shows that
a short link made here `Leads` to one work for ever or nowhere any more, that
all that names it says that work (`LinksLead`, `CardsLinked`, `TasksSound`,
`ServerSound`, `SharedRight`: together `LinkInv`), and that no step turns a link to
another work (`Onward`), so whatever names one may wait. `OpenWork` says which
work the editor, the game and the finished card are about, `CameThrough` what
the sheet says of the short link it was opened by; `PageInv` is these and
`Typed`. `shortLink()` takes the first link with the work: that there is a first
one is the only well-founded argument here (`Least`). Hypothesis `PageSetting`:
works, the idea to begin with and short links are told apart, limits are numbers.

**ProfileProofs** (any number of devices, codes, entries, names and syncs, any
limits): `ProfileIsOne` (`OneProfile`). A sync reads, merges and writes in three
steps, and everything may happen between them, so the invariant says what each
side knows of the other at every step. `Codes0`: a new code is the code of one
link; a base, an answer on its way and a write that went well are each a revision the
server had, and its profile if it is still that revision. `NoPhotos`. `Lineage`: base,
answer, write and server form a chain along which nothing is dropped but what
was struck or fell out of a limit. `Deletions`: an entry that is not agreed on is
its maker's alone (`Unsent`, `Fresh`), what a write brings anew nobody else has
(`BringsAnew`), what a base and the server share is also in an answer under way
(`NotReadded`), and a deleted entry that the server still has was agreed on, so that the
merge takes it out (`StaysDeleted`); all of it but for what is `loose` or `fell`.
`Agreement`: an untouched store in sync packs to its base. The lemmas first
say what a step does field by field, then keep one part at a time. Hypothesis
`Setting`: no photo work is a saved card, 0 is no code, what a life makes are entries.

**GamesProofs**: `MCGames` takes part in these components by instantiation (so what they
need of the constants is a hypothesis, not an `ASSUME`). An activity starts
and goes on as its component does, and `on` never changes; so `PaidForTaken`,
`PictureGoesWithItsWord`, `ProfileStaysOne`, `LinksStayHonest` and `HandsStayFair` carry
the invariants over to `GamesSpec` and give five properties of the run `games`.

**Only model-checked.** Liveness (`EveryCallReports`, `EveryAttemptReports`,
`EventuallyConverged`, `EveryWaitEnds`): out of this prover's reach under
fairness. `ImplementsPact`, `NoLostStart` and `DeparturesSettle` of the table: that
all begin a hand with the same rules rests on ordered channels in which a list of rules
may change and change back while readies are under way, and no inductive
invariant short of describing every channel's content was found. The card games
(a hand's whole history decides what is legal) and the games by link, which replay
a whole history with recursive operators. `MinutesAreTrue`: the order of the
minutes is the result of filtering and sorting sequences of any length (induction
over data), as is a poll's or a draw's. The arcade and agent duels.

## 6. Findings

1. `NoPartialInstallation` (`v_partial`): `roll_back` tears down `succeeded`
   only; the sub-manifest that failed after its `up` created containers is not
   in it, although the design document says "never leave a partial installation
   standing" (`docs/design/composition-manifest.md`).
2. `RollbackSparesEverything` (`v_volume`): the pre-flight compares with
   `<project>` and `<project>-`, compose names volumes and networks
   `<project>_<name>`; so an activation proceeds over an existing volume and a
   rollback's `down -v` deletes it (`docs/security-model.md` F.11 says it is
   refused).
3. `ResumesOnlyRenegotiated` (`v_call_resume`): `sendOffer(true)` raises the
   epoch and then awaits the ICE servers with signalling still stable; a
   `watchMedia()` tick in that window takes leftover packets on the old path for
   the re-established call, which the comment of `renegotiated()` rules out.
4. `HonestPeersStayBelowMaxIds` (`v_collab_ids`): each side compares only its
   own count with `LOCAL_IDS`; both adding while disconnected pass `MAX_IDS`,
   and the refused stickers never converge ("two honest peers never reach
   MAX_IDS", `collab.js`).
5. `NothingComesBack` (`v_list_back`): `backToEditor` reopens the editor of a
   list with the base from before the link that has just gone out, so an item
   of that link can be crossed out again; `main` overwrites what the phone keeps
   without merging. "Nothing is ever deleted once it went out, so nothing comes
   back from the dead either" (`turns.js`).

Met while modelling, without a run of their own; the runs leave them out by the
condition named:

6. A bind the scan takes for a volume (`Overlooked`; `MCActivate` checks as
   `TheScanOverlooksABind` that such a service is clean and reads from the host):
   `check_one_source` lets every source pass that begins with neither `/`, `.` nor
   `~` (`guardrails.rs:236`), also that of a long-form entry of `type: bind`, which
   compose resolves against the project directory.
   F.3 of `docs/security-model.md` has everything rejected that is neither a named
   volume nor inside the bundle. `Overlooked` also holds a `~` in `env_file`, which
   the scan reads as the name of a directory.
7. A second Santa draw (`twice`): while a draw is sealed another link can be
   opened, whose screen still has its button when the draw is there
   (`turn2.js:256`, 266). Both draws can go out; the comment at `turn2.js:179` says
   an older link no longer takes a second one. Likewise two keys of one phone (247).
8. Words lost with a quiet piece (`Feed`): a piece is dropped by the mean of the whole
   (`protokoll.js:63`), so a short word in a long pause is lost; the comment at
   `protokoll.js:54` speaks of pieces that are quiet throughout.
9. Minutes of two meetings mixed (`mixed`): pieces, the end of the queue and the
   AI's answer are booked on the meeting that is current when they come
   (`protokoll-page.js:113`, 157, 195), and the AI may so be sent words that were
   not in the preview (184).
10. Two microphones (`hasty`): "Start" is enabled again before the wake lock is
   awaited (`protokoll-page.js:102`, 125). A second tap opens a second microphone,
   and "Stop" releases only that one, though "the microphone is released at once"
   (144); deleting the current meeting in that window makes "Stop" fail (147).

## 7. What is left out

Within the modelled components: the bytes behind a verdict (signatures, tar,
YAML), argv construction, messages and wording; holder keys of a composition;
what the docker daemon still creates for a client that was killed at its timeout.
Two calls for the *same* project race by design (F.11) and are kept apart in
the instances. In Collab: hash collisions, saturation at `MAX_CLOCK`, rejection by
`MAX_JUMP`, the inbound rate limit, and which of more than `MAX_STICKERS`
stickers are drawn. In Call: ICE candidates, relay choice, statistics, muting
and video; a second `restartIce` queued behind a job is a timer that fires
later; the job of a session that a new call has replaced (it only stops its own
media); a throwing `RTCPeerConnection`.

In the games and pages: names, scores of an evening, wording, drawing, physics,
the encoding of links. The instances also keep out of the following races, which
were met while reading and modelling the code; no run shows them, so they are
not findings, and no property claims their absence:

* Table: a change of the rules reaches only the players linked at that moment
  (`table.js:55`), and somebody who stands up while a mesh link is being set up
  is still welcomed by the third player. Two guests may get one seat when they
  arrive before the holds have crossed; this needs four players.
* Skat: Re in a Null with the house rule Kontra races the declarer's cards
  (`skat.js:92`); Bauernskat with `null` and `kontra` together likewise, so the run
  has these house rules one at a time. Doppelkopf: when two partners call at
  once, the second call waits at the others.
* Turn games: a list whose texts are too long together is accepted by the
  widget (`turn-ui.js:197`) and refused by `play()`; texts have no length here, so
  the limits in bytes of a turn are not modelled. Nor are the quiz packs, the
  sentences a text field is filled with, how many fingers touch, and a tap on
  the bouncer's door in the 50 ms after its time is over.
* Live: an invitation closed by ✕ that becomes ready later replaces the
  connection of a running game (`live-ui.js:74`).
* Arcade: a penalty swiped during the countdown can reach a keeper whose
  countdown is still running and is rejected (`arcade2.js:338`); a volleyball that
  crosses the net going back is refused (`arcade.js:359`).
* AI actions: the pack sheet reopened while an answer is under way
  (`quiz-ui.js:109`); an answer lost after it was charged (`ai.js:95`).
* Minutes: going on between the microphone's grant and the recording screen
  (finding 10), asking the AI before the transcript is there (`protokoll-page.js:170`).
* Pages: going on while a picture or a status card is being made
  (`app.js:767`, 833), an address that comes in between (1113, 1161), a late
  deletion that opens the shelf (1018).
* Profile: a sync that breaks off after merging (`profile.js:119`), a picture
  that falls out of the size limit (26; deleted on another device, it comes back
  from a device that still has it), an emptied nickname (51).
* Party: totals are those of the boxes at the moment the screen is drawn
  (`feier-ui.js:169`), the hint about missing answers compares counts (175); going
  back to the screen a link was sent from. An end that is signed late replaces the
  organiser's own answer as what is sent next (180-183); this is in the model.

**Not modelled.** Components without state across calls (plan, manifest wrapper,
`cads-run`, installations client); interface and text code (solo games, calendar,
drawing, shells, dashboard); the example bundle. Three with state of their own:
the registry (file and row as two writes), the mobile peer channel (whose web
side is modelled) and the harness, a sequential bounded loop.

## 8. Plan

Done, in this order: `Activate` with `Guardrails` and `Contracts`, `Composition`, `Collab`, `Call`; the table with
its refinement, the card games, the games by link, the live and arcade duels and
the pages; theorems for `Activate`, `Composition`, `Collab`, `Call`, `AiAction`,
`Profile`, `Malrat`, `Pages` and `Live`: every invariant of the runs over the first four is proved.

Left:

1. Theorems: `SeatsDoNotMatter` (`Duel`). The refinement of
   `HandPact` by `Table` needs an invariant on readies in flight; it comes last.
2. `Registry`: publish, conflict, bundle store, ledger, crash between writes.
3. `Peer` (`mobile-core/src/peer`): inbound policy, pump and invite.
