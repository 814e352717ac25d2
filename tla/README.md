# Slay-the-Spire bench: TLA+ specifications

`slay_bench` is a Slay-the-Spire engine in Python used to measure how language
models plan: models play it through a harness, and frozen experiments ask models
fixed schedules of questions about it on a cluster. Two things have to be right
for its numbers to mean anything. The *experiments* have to ask every question
exactly once and keep every answer, although jobs are preempted, receipts are
lost and several people have a login. The *engine* has to keep its rules - where
every card is, how every chain of effects ends, what carries over from one fight
to the next - although effects call back into each other and runs are long. The
specifications here are about those two.

## The system

| Part | State it keeps | Operations | Hard because |
|---|---|---|---|
| Batch journal (`scripts/confirmatory_batch.py`) | a journal, one report per session, one file per row, a lock file | `run`, `resolve`, `status`/`preflight`, `analyze` | dies between any two file writes; several operators |
| Batch supervisor (`scripts/confirmatory_autoqueue.py`, `cluster/csis_controlled_h_confirmatory.sbatch`) | a state file, a stop file, Slurm's queue and accounting | start, watch, check, submit, stop | lost receipts, late accounting, a job the supervisor did not submit |
| Held-out runner (`scripts/heldout_v3_inference.py`, `heldout_v3_resume.py`) | a row file and a `.pending` marker per query, a lock | `run` with a thread pool, the resume wrapper, `status` | threads, a deadline, a reader without the lock |
| Combat piles (`slay_bench/combat.py`, `cards.py`, `cards_silent.py`, `powers.py`) | draw, hand, discard and exhaust pile | play, draw, discard, exhaust, end of turn | effects nest: an exhaust draws, a draw draws, a card plays a card |
| Combat turn (`combat.py`, `powers.py`, `state.py`, `events.py`) | hit points, block, powers, deaths | damage, start and end of turn | handlers on an event bus; enemies that split, are reborn or die of each other |
| Enemies (`enemies.py`, `enemies_act2.py`) | the move history of each enemy | `select_move`, `execute_move` | patterns that depend on the last moves and on hit points |
| Relics, potions (`relics*.py`, `potions.py`) | counters per turn, combat and run | event handlers | order of handlers |
| Run loop (`run_loop.py`, `nodes.py`, `rewards.py`, `map_gen.py`, `events_pool.py`) | deck, gold, relics, place on the map | fight, rest, shop, event, reward | a long sequence of legal choices |
| Harness (`benchmark.py`, `prompt_builder.py`) | the transcript, partial results | ask a model, retry, save | rate limits, retries, partial saves |
| Confirmatory runner, pilots (`controlled_horizon_*.py`, `small_model_*.py`, `chess_pilot.py`) | one report per run | run, resume | earlier forms of the journal |
| Analysis, builders, figures | files that no longer change | - | numeric; no state |

The parts interact as follows. The supervisor submits batch jobs and reads the
journal through `preflight`; the launcher it submits reads `preflight` again,
runs `run`, and always runs `resolve`. `analyze` decides from the same files
whether the chain is evidence. The resume wrapper replaces three functions of
the held-out runner and calls its `main`. In the engine, `combat.py` moves cards
and emits events, whose handlers (powers, relics) call the pile helpers of
`cards.py`, which emit events in turn.

## The modules

| Module | What it is |
|---|---|
| `EvidenceLog` | what an exact-once runner promises: a log that grows by one result per question, one question out at a time, nothing after a failed first one |
| `BatchJournal` | `confirmatory_batch.py`, file write by file write |
| `BatchEvidence` | `BatchJournal` read as an implementation of `EvidenceLog` |
| `BatchJournalProofs` | no query is asked twice: the inductive invariant of locks, memory and frontier; then the invariant of the files, the properties of `batch` that rest on it, and the refinement of `EvidenceLog` |
| `AutoQueue` | the supervisor, the launcher, the chain as they see it, and Slurm as they use it |
| `AutoQueueProofs` | its invariant and its six safety properties |
| `HeldoutRun` | the held-out runner, its wrapper, its threads and its unlocked reader |
| `HeldoutRunProofs` | what holds with a reader, and what the lock gives without one |
| `CombatPiles` | the piles of a combat and every effect that moves cards |
| `ListLemmas`, `CombatPilesProofs` | lemmas about lists, shared by the proofs; the three invariants of the piles |
| `EnemyMoves` | the enemy catalogue: what every move selector may choose, and the groups enemies come in |
| `CombatRound` | the round of a combat: turns, the enemy phase, ticks, deaths, splits, rebirths and spawns; extends `EnemyMoves` |
| `CombatRoundProofs` | types, debuffs, deaths, reinforcements and Intangible, for any encounters of the tables |
| `Effects` | the vocabulary of the catalogues: one constructor per effect |
| `Relics`, `Cards`, `CardsSilent`, `EventPool` | the catalogues: every relic, card and event as the sequence of effects its code applies |
| `PowerHooks` | `register_power_hooks`: what the player's powers answer to each event |
| `ActMap` | the steps of map generation, as operators |
| `RunMachine` | the state of a run, the event bus, and the effects on the player, the deck and the belt |
| `Fight` | a combat of a run: turns, plays, the hand, the end |
| `Journey` | the rooms, the map and the two drivers, `run_act` and `RunEvaluator` |
| `JourneyTables` | what the lists of the catalogues hold and where it may run, as assumptions TLC evaluates |
| `JourneyProofs` | the invariant of a run, maps, pickups and revivals |
| `JourneyListenProofs` | who listens in a combat, and what may run there |
| `MCBatchJournal`, `MCAutoQueue`, `MCHeldoutRun`, `MCCombatPiles`, `MCCombatRound`, `MCJourney` | the same for TLC |

Operators with a suffix after an underscore (`Enter_NoLock`) are not part of the
model: each is a definition as a plausible bug would have it, kept right before
the definition it spoils, and shows that the property named with it in
`PROJECT.json` can fail.

### BatchJournal

*State.* `journal`, `report` and `rowFile` are the files; `lock` is the
`flock`ed journal lock, which dies with its holder; `pc`, `command`, `jmem`,
`rmem`, `reply` are one process's program counter, command and local variables.
A SHA-256 is the content it stands for. `asked` and `heard` are history
variables: what was really sent to and received from the model.

*Actions.* One action per file write: `_atomic_write_json` writes a temporary
file and renames it, so a write happens or does not, and a process may die
(`Crash`) at every place between two of them. `Enter` takes the lock without
waiting and validates the whole chain (`ChainLoads`); `RunReserve` ...
`AppendFinalized` are `run_batch`, `Resolve*` is `resolve_active`.

*Abstracted.* Prompts, scores and metadata, equal in every file; providers other
than the local server (no batch was run with one). A power failure that loses a
rename already made (there is no fsync) is outside the model: only processes
die.

### AutoQueue

*State.* `queue` is the supervisor's state file, `mem` its copy in memory,
`stop` the stop file, `job`/`acct` what Slurm does and what `sacct` shows, `chain`
the journal as `inspect_chain` summarises it. *Actions.* `Start`, `SeeStop`,
`JobFailed`, `JobCompleted`, `Check`, `Mark`, `Sbatch`, `Record` follow
`run`/`submit` statement by statement; `Crash` may come between any two, also
between the acceptance of a job and the receipt. `JobStart` ... `JobDie` are the
launcher. Slurm, and the person at the login node who may submit by hand, touch
the stop file or resolve, are external.

### HeldoutRun

*State.* `row` and `pending` are the files, the other variables a process's
place in `load_rows`, its queue, its futures and its flags. *Actions.* `Look`,
`Convert`, `Clear` are the body of `load_rows` for one query, split where another
process can come between: the marker is tested twice. `MarkPending`, `Ask`,
`Answer`, `SaveRow`, `SaveDone` are the pool; a future's answer may come in any
order, and `wait()`'s whole batch is saved before a new query starts. Readers
(`status`, `analyze`) call `load_rows` without the lock.

### CombatPiles

*State.* The four piles, `powers` as far as they move cards, and `todo`, the rest
of the call stack: a hook or a `play()` that calls the helpers puts their work in
front. A card is an object, as in the code, where pile membership is by identity.
*Actions.* `PlayCard`, `Settle` are `play_card` before and after the effects,
`EndTurn`, `Leave` are `end_player_turn`; the others are one helper or one card
each. *Abstracted.* Energy, damage and block move no card: any card that is not
unplayable may be played, which allows every order the game allows and more. Not
in the model: cards that create copies, Blue Candle, Gambling Chip, Runic Pyramid,
and the powers that draw at the start of a turn.

### EnemyMoves and CombatRound

*State.* `combat` is the part of the combat object a round changes: the list of
enemies - each with its hit points, its flags, its poison, what its selector
remembers and how often its death was announced -, the player's debuffs (`held`)
and Artifact, and the two fields behind the `justApplied` rule (`window`,
`justApplied`; `owed` is a history variable). `pc` and `at` say which loop of
`end_player_turn` is running and how far it has come: the code loops over
`combat.enemies` itself, so an enemy appended during a loop is still reached by
it. `powers` are the player's lasting ones, `plays` counts a turn's cards.

*Actions.* `SelectMove` and `EnemyTurn` are one iteration of their loop,
`BeginPlayerTurn`, `EndPlayerTurn` and `EndRound` the code between the loops, and
there is an action per kind of card that matters here. Each ends with
`CheckEnemyDeaths` exactly where the code calls it, and only there: Mercury
Hourglass and Combust strike without it. `EnemyMoves` has one operator per enemy
class; a roll of `ai_rng` is a choice, so the branches of a selector are the
members of a set.

*Abstracted.* Hit points are a few units and a blow takes some of them, so
damage numbers, block, strength and multipliers are the choice of the amount; a
blow the block absorbs takes none. Debuffs on enemies only change such amounts.
An enemy's own Artifact appears as a play of no effect. Gold a thief takes, status
cards and escapes change nothing here. Left out: revival (`DEATH_WOULD_OCCUR`),
potions, the relics other than Mercury Hourglass, and the four classes no
encounter contains (Centurion, Mystic, Spire Shield, Spire Spear).

### The run: from Effects to Journey

*How it is split.* The code has some 170 cards, 120 relics and 60 events, each a
few lines that call the same helpers. The catalogues say which helpers each of
them calls, in order; the helpers are actions. `Effects` is the language between
the two. `RunMachine` (effects on the player and the run) is extended by `Fight`
(combat) and that by `Journey` (rooms, map, drivers).

*State.* `player` is the `Player` with the flags relics hang on it; `things`
every relic and potion ever made, with its counter and its one-time mark; `bus`
the listeners in order of registration; `combat` the combat, or `NoCombat`; `run`
the map and the place on it. `todo` is the call stack: `emit` replaces itself by
what every listener of the moment does, innermost call first, so a handler runs
to its end before the next one. `tally` (events so far) and `saves` are history
variables, `scen` the scenario of a behaviour.

*Actions.* One per helper (`_heal_player`, `_gain_block`, `_apply_power`,
`_damage_player` by its outcomes, `_obtain_relic`, ...), one per stage of a
combat between two events (`start_combat`, `begin_player_turn`, `play_card`,
`resolve`, `end_player_turn`, ... `close_combat`), one per kind of room, and the
passes of `generate_map` one by one.

*Abstracted.* Random streams are choices. Enemies are a number of foes, with the
hits and debuffs a scenario gives them; they fall when a hit is said to fell
them; poison, Choke and Corpse Explosion only say that some enemy bears them.
Several hits of one card on one target are one attack. Piles are left to
`CombatPiles`: a card a scenario names may be in hand, a draw, however large, may
meet one reshuffle or one status card, each burden is in a hand at most once, and
Bullet Time may free any card of its turn. Upgrades only change amounts. Neow's
Lament is counted but leaves enemies their hit points. Left out: Time Warp, a
second Havoc played by Havoc, Evolve with a status other than a Wound, the
purchases no driver makes, and the use of potions other than the Fairy, which no
driver ever uses.

## What is checked

Every property is stated with the code behaviour it is about where it is defined.

| Run | Shows | Bounds, and why they are enough |
|---|---|---|
| `batch` | no query sent twice (`AtMostOnce`); rows say what was heard (`RowsTruthful`); what any crash leaves loads again (`ChainAlwaysLoads`); nothing after a failed smoke (`SmokeGate`); `preflight` and `run` agree (`PreflightAgreesWithRun`); evidence that passes the analysis is complete and heard (`EvidenceSound`); the files implement `EvidenceLog`; without crashes the chain settles (`Settles`) | three queries after the parent's, batches of at most two, two operators, one session that ends empty: enough for a smoke, a batch of two with a crash inside, an orphan and a session after it |
| `autoqueue` | accepted submissions are in the state file or behind its marker, and never outnumber the batches that made progress (`SubmissionsAccounted`); each job's predecessor completed; the stop file holds; a foreign job stops the supervisor; no job asks after a failure; the queue concludes | five queries, batches of two, two supervisors, two jobs of theirs and one by hand |
| `heldout` | one request per query, nothing sent is forgotten, rows are final, nothing is sent after a failure or past an unfinished smoke (`NoSpendAfterFailure`), the schedule finishes | four queries, three of them smoke, two threads: the smoke exceeds the pool, so a query can start while another fails; a run and a wrapper |
| `heldout_status` | with a reader beside the run, an answer on disk is still the one received | two queries, two threads |
| `piles` | no card object in two places (`OnePlace`) or nowhere (`NothingLost`); the hand keeps its limit; effects end | seven decks of four cards, a hand of three, two drawn per turn, two stacks of a power, one status card: with these proportions hands fill up and the draw pile runs out in the middle of a draw, and every effect meets every other of its deck in every order |
| `round` | a debuff that lands at the end of a turn or in the enemy phase is in force throughout the next turn (`DebuffsCover`); reinforcements keep their caps (`SpawnCaps`); each life's death is announced once (`DeathsOnce`); Intangible covers the turns it is meant for (`IntangibleTurns`) | twelve fights, each the foes one hazard needs with the cards that provoke it and the turns it takes (eleven until the third pair of daggers), and four turns of every group of the encounter tables; two units per enemy, four for the boss whose halves split again; two cards a turn, blows of up to two units, so that an enemy is hurt, split or killed at every point of a round |
| `journey` | in a fight each relic the player owns listens exactly once and no other (`ListenersAreOwned`); a fight starts with the powers the relics give and no others (`PowersEarned`); energy per turn counts pickups, not fights (`PickupsOnce`); counters lose and double nothing over fights and turns (`CountersKept`); what revives does so once in a run (`RevivesOnce`); every map can be climbed (`MapClimbs`); nothing reaches for a combat that is over (in `TypeOK`) | each relic and each card in a run of its own, each event with each choice in each act, and scenarios that bring together what touches the same state: two fights (a monster and the boss) are what carrying over takes; counters to 10 are reached across fights; maps of three floors and two active columns of three make every pass of the generator act; a second act |

Five runs show a property violated by what the code does:

| Run | What it shows |
|---|---|
| `heldout_status_retries` | `status` takes no lock. The marker of a query is tested for conversion and then again for removal; a marker the run writes between the two is removed, and if the run dies the query is sent again, although "never retried" is the rule. |
| `heldout_resume_smoke` | The wrapper clears `execution_failure` in the rows `smoke_gate` reads: a smoke with lost queries passes. |
| `piles_havocked` | Havoc exhausts the card it has played, also when the card has exhausted itself: the object is in the exhaust pile twice. Double Tap and Burst do the same to a card they replay. This is why the decks of `piles` keep such cards apart. |
| `round_win` | Mercury Hourglass strikes at the start of a turn and nothing checks for deaths before `is_combat_over` is asked: the combat is won with a last enemy whose death was never announced. An Awakened One in its first life is beaten without its rebirth, and no relic hears of the death. |
| `journey_mawbank` | Maw Bank pays "until any shop purchase". The purchase clears a flag that `register()` sets, and every `start_combat` calls `register()` again: after the next fight it pays again. |

With `status` beside a run, an answer may also be replaced by a "lost in flight"
row: `RowsFinal` does not hold there, and is checked without readers.

### Fairness

Safety properties need none. `Settles`: a live process goes on (`WF` of its
steps), and an operator keeps coming back with each command, now and then with
enough time and the right query count (`SF` of `Enter` and `RunReserve`, which
the lock disables meanwhile). The code has no loop that guarantees this: it is
what the launcher and the supervisor are for. `Concludes`: Slurm ends jobs and
accounts for them, a live supervisor goes on, a dead one is started again.
`Finishes`: threads and the main loop go on, runs are launched again with time for
a query. `EffectsEnd`: the engine is one thread, so the next effect always runs.
Each assumes crashes stop eventually, or (`Finishes`) only that a run gets through
loading.

## What is proved

TLAPS checks each theorem for every value of the constants that the assumption of
its module allows (`ConstantsAssumption`, `Bounds`, `ScenariosAssumption`: numbers are naturals, decks
are finite, encounters are rows of the tables, the value that stands for "no
report" is not a report); TLC evaluates the assumptions in every run. None of the
properties below is inductive as it stands; each proof is about the invariant that
makes it so, has a lemma per action, and TLC checked the invariant first.

### BatchJournal

*`TypeCorrect`, `NeverAskedTwice`.* A process could be about
to ask a query already asked. `IInv` says what makes this impossible. The lock's
holder is the only process that is anywhere (`LockInv`), so what it remembers is
what is on disk (`MemInv`). The one report the journal does not list starts where
the journal ends, and its pending query is its next (`SessionInv`). So there is a
frontier - the first query that is neither recorded nor pending - and nothing at
or past it was ever asked (`AskInv`), while a process about to ask stands right
before it (`PlaceInv`). Each action moves the frontier only forward.

*The files.* `CInv` adds what the files say of each other: the entries of
the journal follow one another and cover every query before `next` (`EntriesInv`,
`OrderInv`), the open session was gated and its row files stand at their places
(`OpenInv`), the holder's reply is the row it will write or has written
(`ReplyInv`), and a row says what was heard (`HeardInv`). From it follow
`ChainLoadsAlways`, `RowsTrue`, `SmokeGates`, `PreflightAgrees` and
`EvidenceComplete`, each the property of the `batch` run it names. The refinement,
`EvidenceLogImplemented`, maps the log to the row files (`BatchEvidence`): the
write of a row's own file (`WriteRow`, `ResolvePending`) appends to the log, `Ask`
is its `Ask`, and every other
step stutters, also `Crash` and the writes of reports and of the journal.

### AutoQueue

`IInv` has five parts: the supervisor that holds the lock remembers the state file
(`PlaceInv`); the file names the jobs it submitted, all but the one its marker
stands for (`FileInv`); accounting tells no end that did not happen
(`ClusterInv`); job IDs are given out in order (`JobInv`); and the chain holds a
session for each supervised job that sealed one and for each foreign one
(`SessionInv`). The last is what `Check` relies on: a chain that grew by exactly
one session since the last decision has no foreign session in it. Theorems:
`TypeCorrect`, `JobsAccounted`, `OrderedJobs`, `StopObeyed`, and the action
properties `FailureEndsAsking` and `InterleavingSeen`.

### HeldoutRun

`GInv` holds with readers beside a run and gives `TypeCorrect` and `AnswersTrue`:
a run starts nothing whose answer is on disk, so what a thread brings back is what
was heard. The others - `OneRequest`, `SentIsFound`, `RowsStay`, `SpendingGated` -
have the hypothesis `Readers = {}`. It cannot be dropped: the run
`heldout_status_retries` shows `status` breaking the first. Under it the holder of
the lock is alone with the files, so what it loaded stays what is on disk
(`OnceInv`), and what was saved since it looked at the failures and the smoke it
looked at when it saved (`SpendInv`).

### CombatPiles

`NeverLost` and `TypeCorrect` hold for all decks. `HandCapped` has the hypothesis
`InnateFits`: `start_combat` puts every innate card into the hand without counting
(`combat.py:41-46`), so a deck with more of them than the hand holds starts over
the limit; every draw and retrieval after that is proved to respect it.
`OneCardOnePlace` has the hypothesis `DecksSeparate`, no deck with both a card
whose `play()` exhausts it and a card that makes a `play()` run other than once
before `play_card`'s last check: `piles_havocked` shows what happens otherwise.
The invariant (`PlaceInv`) is about `todo`: a card to be exhausted or to leave is
in no pile, or still in hand because nothing before that effect can move it; no
card is to be exhausted twice; and after the exhaust of the card being played only
`play_card`'s last check of it may follow.

### CombatRound

`RoundInv` puts the combat in a set `Combats(marked)`: the lives, hit points and
announced deaths of every enemy agree, and each debuff owed to the player is held
and, while the tick of this round is still to come (`marked`), one the tick passes
over. Every operator of a round maps this set to itself; the loops over
`combat.enemies` are functions of the index, so they are by induction over it,
`CheckEnemyDeaths` with its chain of explosions, splits and rebirths among them.
`DebuffsStay` and `DeathsCounted` follow, and with them the part of `TypeOK` about
enemies: none is healed past its maximum, by Regenerate or by rising again. The
rest of `RoundTyped` is `Tally` (a living player alone ends a turn, and the blow
that fells it ends the enemy phase, so hit points stop at -1) and `Placed` (the
list of enemies never shrinks, so the place a loop over it has reached stays in
it). No constant bounds that list: the loops go as far as splits can carry them
(`Reach`). `BandInv` says who stands with whom - an
enemy that calls others is the first and the rest are what it calls - and that
what a selector saw when it chose to call (no orbs yet, a free place for a dagger)
still holds a player's turn later, when the move is performed: `SpawnsCapped`.
`LonerInv` follows the count of selections of a Nemesis and the last move of an
Awakened One through selection, tick, death in mid-turn and rebirth:
`IntangibleKept`.

### Journey

The catalogues are tables without parameters, so what is true of them is a matter
of evaluation. `JourneyTables` states it as four assumptions, which TLC evaluates
in the run `journey`: the effects in the lists of every card, event and relic, and
all they may lead to (`Vocabulary`), are closed and contain nothing that belongs
to the generator, the turn loop, a pickup or a one-time relic; cards and events
are written in this vocabulary; an energy relic gives its energy first and once;
`register()` does not make a Lizard Tail or a Fairy start again; and what a card, an
event, a pickup and the answer to an event lead to fits where it runs, in a combat
or outside of one (`WordsAssumption`). The proofs use
the tables through these assumptions alone, and hold for every scenario of
`ScenariosAssumption`: any relics, cards, events, drops, hands, numbers of floors,
foes and turns.

`IInv` is about `todo`. A list of effects that any handler may put there is
*clean*: it lies in some closed set of proper effects (`Clean`), which is how "and
all it may ever run" is said without recursion. Then (`Ordinary`) all that waits
in `todo` is clean, or an answer of the relic or potion it names, and what may
happen once - the energy of a pickup, a revival - is at its head or nowhere. So
the energy due is the energy of one relic at most (`EnergyPaid`), and between the
mark a Lizard Tail sets and the revival it then makes no other handler comes
(`SaveOnce`). While the generator works (`Mapping`), `todo` is the floors still to
build, then its passes in their order, then an ordinary rest; after the pass that
connects the floors the map is `Climbs`. `MapsClimb`, `PickupsPaidOnce` and
`SavedOnce` follow.

`ListenInv` (in `JourneyListenProofs`) is the whole shape of `todo`: first a body of
effects that fit the place (`Free`), then what the driver does next (`Ending`: the
loop of a combat, its end, the rewards, the next room), which says whether a combat
is open. Relics are obtained inside of a combat too - a Tiny Chest opens at its
end, when the combat is still there - and then the new relic is owned before it
listens: the front of `todo` holds the `register()` of exactly the relics that are
not on the bus, each once, among effects that hurt nobody and ask for no combat
(`Obtaining`, `Awaited`). With the belongings each in one place (`Belongings`) and
the bus without repetition (`Listening`) this is inductive. At a decision nothing
stands before the driver, so nothing is awaited: `ListenersOwned`. `CombatsApart` is
what the shape says of the effect at the head.

### Only model-checked

- `Settles`, `Concludes`, `Finishes`, `EffectsEnd`: liveness under fairness, out of
  the prover's reach, as is `ENABLED`.
- `PowersEarned` and `CountersKept` of `Journey`: sums over the lists of a relic
  compared with what happened since, an induction over data.
- `TypeOK` of `Journey` but for its last conjunct (`CombatsApart`). It is true of the
  runs' scenarios and not of every one that `ScenariosAssumption` admits: a scenario
  may start with more than three potions, or go through the first act again and
  again, with a Neow who takes ten maximum hit points each time. A theorem would
  need both bounded there as the code bounds them, and an invariant that counts
  the Neows still to come.
- The five properties that are violated.

## Not modelled

- Model clients, retries, backoff and partial saves of the harness; the oracle of
  the controlled-horizon experiment (a memoised depth-first search, whose
  exactness rests on `state_digest` telling states apart); the confirmatory
  runner's own loop, the small-model pilot with its supervisor, and the chess
  pilot, earlier and simpler forms of what `BatchJournal` and `AutoQueue` have.
  These are within reach and come next.
- Statistics and figures: floating-point numbers over files that no longer change.
- Builders, linkers, the commands that prepare documents, launchers without state:
  one pass over files, nothing that interleaves.
- The random generator: its outcomes are choices.
- Of the modelled parts, what the sections above list as left out. `PROJECT.json`
  has every part with the reason.

A few things the models show that no document of the repository contradicts, so
that no run refutes them: a Fairy in a Bottle traded away at We Meet Again answers
a death before the next fight and then raises (the status `raised`); a relic taken
by N'loth or the Golden Wing keeps its handlers until the next fight and its flags
for good; `RunEvaluator` counts a fight won with the last card of its last turn as
lost.

## Plan

1. Proofs about `Journey`: `TypeOK`, for scenarios that go through each act once.
2. The oracle, with its recursive definition as the reference.
3. Harness: retries, backoff, rate-limit exhaustion, partial saves.
4. The small-model pilot and its supervisor, the confirmatory runner and the chess
   pilot: one pending report per run, as further implementations of `EvidenceLog`.
5. Time Warp, and the fights of `CombatRound` inside the runs of `Journey`.
