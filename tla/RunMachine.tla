------------------------------ MODULE RunMachine ------------------------------
(****************************************************************************)
(* The state of a run of the game and how its program is executed: the event *)
(* bus with the relics, potions and powers that listen, and the effects that *)
(* cards, relics and events have in and out of combat.  Module Fight adds    *)
(* combats, module Journey the rooms, the map and the drivers.               *)
(*                                                                           *)
(* todo is the rest of the program: what is still to be executed, the        *)
(* innermost call first.  emit() calls the handlers of a snapshot of the     *)
(* listeners one after the other, and what a handler calls returns before    *)
(* the next one runs, so an action takes the first entry of todo and puts    *)
(* what it calls in its place.                                               *)
(****************************************************************************)
EXTENDS PowerHooks, Relics, EventPool, ActMap, Sequences, SequencesExt

CONSTANT
    Scenarios   \* the runs to explore, see ScenarioShape

VARIABLES
    scen,    \* the scenario of this behaviour
    player,  \* the Player, and what GameState keeps for the run
    things,  \* every relic and potion that was ever made; an id is its position
    bus,     \* ids of the registered relics and potions, in order of registration
    combat,  \* the CombatState, or NoCombat
    run,     \* the RunState and its map
    todo,    \* the rest of the program, innermost call first
    saved,   \* whether a handler of the current DEATH_WOULD_OCCUR answered True
    tally    \* history: how often each event was emitted

vars == <<scen, player, things, bus, combat, run, todo, saved, tally>>

CardKinds == {"Strike", "Defend", "Attack", "Skill", "Power", "Curse"}
NewCards == {"Attack", "Skill", "Power"}
Book == IRONCLAD_CARD_CLASSES @@ SILENT_CARD_CLASSES
Statuses == {c \in DOMAIN Book : Book[c].type = "STATUS"}
Debuffs == {"WEAK", "VULNERABLE", "FRAIL", "ENTANGLED", "CONSTRICTED", "POISON", "CONFUSED", "HEX", "NO_DRAW"}
TypeOf(kind) ==
    CASE kind \in {"Strike", "Attack"} -> "ATTACK"
      [] kind \in {"Defend", "Skill"} -> "SKILL"
      [] kind = "Power" -> "POWER"
      [] OTHER -> "CURSE"

FairyInABottle == Hears(On("DEATH_WOULD_OCCUR", <<Once(<<Do("fairy", 30, "", <<>>)>>)>>))

Known == Catalogue @@ "FairyInABottle" :> FairyInABottle @@ "Potion" :> Inert

\* The events the counters of relics count.
Counted == {"ATTACK", "SKILL_PLAY", "SHUFFLE", "TURN_START", "COMBAT_END"}
CountedAs(e, arg) == IF e = "CARD_PLAY" THEN arg ELSE e

\* What a scenario fixes: the driver and its freedom; the start; what the
\* random streams may give (columns, rooms, events, relics, potions, cards);
\* the cards that may be in hand to be played and those that are a burden, how
\* many others a hand holds, how many are played in a turn; the enemies' number,
\* hits, thorns and debuffs; and the turns after which a combat is a draw
\* (run_act: 100, RunEvaluator: 50).
ScenarioShape ==
    [driver: {"run_loop", "llm"}, routing: BOOLEAN, acts: Seq(1..3),
     character: {"ironclad", "silent"}, gifts: Seq(DOMAIN Catalogue),
     potions: Seq({"Potion", "FairyInABottle"}), hp: Nat, deck: [CardKinds -> Nat],
     cols: SUBSET (0..6), active: 1..6, floors: Nat, rooms: SUBSET NodeTypes,
     events: SUBSET DOMAIN Registry, anyChoice: BOOLEAN, loot: SUBSET DOMAIN Catalogue,
     drops: SUBSET {"Potion", "FairyInABottle"}, offers: SUBSET NewCards,
     cards: SUBSET DOMAIN Book, burdens: SUBSET (Statuses \cup DOMAIN EndOfTurn \cup {"Pain"}),
     hand: Nat, plays: Nat, foes: Nat, hits: SUBSET Nat, thorns: Nat, debuffs: SUBSET Debuffs,
     shuffles: BOOLEAN, turns: Nat]

ASSUME ScenariosAssumption == \A s \in Scenarios : s \in ScenarioShape

\* tags: what some enemy bears (poison, choked, corpse), and that a card was
\* discarded in this turn or the hand is free.  ending: from TURN_END to the end
\* of the round, when a debuff is fresh: it skips the next tick.
NoCombat == [open |-> FALSE, foe |-> "", foes |-> 0, fallen |-> 0, turn |-> 0, loops |-> 0,
             plays |-> 0, tags |-> {}, ending |-> FALSE, fresh |-> {}, base |-> [e \in Counted |-> 0]]

Thing(kind) ==
    [kind |-> kind, count |-> 0, mark |-> FALSE, seen |-> {},
     since |-> tally, saves |-> 0]

--------------------------------------------------------------------------------
(* The program counter. *)

it == Head(todo)
Doing(op) == todo # <<>> /\ Head(todo).op = op
Call(calls) == todo' = calls \o Tail(todo)
Go(op) == Do(op, 0, "", <<>>)
GoWith(op, n, of) == Do(op, n, of, <<>>)

\* What a guarded effect runs: for the same relic, answering the same event.
Guarded == [i \in DOMAIN it.then |-> [it.then[i] EXCEPT !.who = it.who, !.arg = IF @ = "" THEN it.arg ELSE @]]

Smaller(a, b) == IF a < b THEN a ELSE b
Larger(a, b) == IF a < b THEN b ELSE a
Has(flag) == flag \in player.flags
Owns(kind) == \E i \in DOMAIN player.relics : things[player.relics[i]].kind = kind
OwnedKinds == {things[player.relics[i]].kind : i \in DOMAIN player.relics}
DeckSize == FoldFunction(+, 0, player.deck)
InDeck == {k \in CardKinds : player.deck[k] > 0}
Amount(powers, p) == IF p \in DOMAIN powers THEN powers[p] ELSE 0
With(f, x, value) == [y \in DOMAIN f \cup {x} |-> IF y = x THEN value ELSE f[y]]
Without(powers, ps) == [p \in DOMAIN powers \ ps |-> powers[p]]
\* A power at 0 counts as absent; only Strength and Dexterity may be negative.
Gain(powers, p, n) ==
    IF Amount(powers, p) + n = 0 THEN Without(powers, {p}) ELSE With(powers, p, Amount(powers, p) + n)
--------------------------------------------------------------------------------
(* The event bus. *)

\* What a listener does on an event, each effect tagged with it and with what
\* the event carries.
Answer(id, e, arg) ==
    LET hears == Known[things[id].kind].hears
    IN  IF e \in DOMAIN hears /\ arg \in hears[e].arg
        THEN [i \in DOMAIN hears[e].do |->
                 [hears[e].do[i] EXCEPT !.who = id, !.arg = IF @ = "" THEN arg ELSE @]]
        ELSE <<>>

\* EventBus.emit: every listener of the moment, in order of registration; the
\* power hooks of a combat come first.
emit ==
    /\ Doing("emit")
    /\ Call((IF combat.open THEN PowerHooks(it.of, it.arg, player.powers, player.flags, combat.tags) ELSE <<>>)
            \o FlattenSeq([j \in DOMAIN bus |-> Answer(bus[j], it.of, it.arg)]))
    /\ LET e == CountedAs(it.of, it.arg)
       IN  tally' = IF e \in Counted THEN [tally EXCEPT ![e] = @ + 1] ELSE tally
    /\ UNCHANGED <<scen, player, things, bus, combat, run, saved>>

\* Bug: register() resets the counters and marks of all relics.
Afresh_Every(thing) == [thing EXCEPT !.count = 0, !.mark = FALSE, !.seen = {}]
\* register() resets the counter or the mark of some relics.
Afresh(thing) == IF Known[thing.kind].fresh THEN [thing EXCEPT !.count = 0, !.mark = FALSE, !.seen = {}] ELSE thing

\* Bug: the pickup effects are applied once more.
register_PicksUp ==
    /\ Doing("register")
    /\ bus' = Append(bus, it.n)
    /\ things' = [things EXCEPT ![it.n] = Afresh(@)]
    /\ player' = [player EXCEPT !.flags = @ \cup Known[things[it.n].kind].flags]
    /\ Call(Known[things[it.n].kind].pickup)
    /\ UNCHANGED <<scen, combat, run, saved, tally>>
\* relic.register: subscriptions, flags and resets.
register ==
    /\ Doing("register")
    /\ bus' = Append(bus, it.n)
    /\ things' = [things EXCEPT ![it.n] = Afresh(@)]
    /\ player' = [player EXCEPT !.flags = @ \cup Known[things[it.n].kind].flags]
    /\ Call(<<>>)
    /\ UNCHANGED <<scen, combat, run, saved, tally>>

\* _obtain_relic: pickup effects, then register(), then RELIC_OBTAINED.
obtain_relic ==
    /\ Doing("obtain")
    /\ LET id == Len(things) + 1
       IN  /\ things' = Append(things, Thing(it.of))
           /\ player' = [player EXCEPT !.relics = Append(@, id)]
           /\ Call(Known[it.of].pickup \o <<GoWith("register", id, ""), Emit("RELIC_OBTAINED", it.arg)>>)
    /\ UNCHANGED <<scen, bus, combat, run, saved, tally>>

\* The relics random_relic picks from: fresh ones of the rarity, then any.
RelicChoices(rarity) ==
    LET allowed == {r \in RarityPool(rarity) \cap scen.loot : relic_allowed(r, scen.character)}
    IN  IF allowed \ OwnedKinds = {} THEN allowed ELSE allowed \ OwnedKinds

random_relic ==
    /\ Doing("random_relic")
    /\ \E rarity \in IF it.of = "elite" THEN {"common", "uncommon", "rare"} ELSE {it.of} :
           \E r \in RelicChoices(rarity) : Call(<<[GoWith("obtain", 0, r) EXCEPT !.arg = it.arg]>>)
    /\ UNCHANGED <<scen, player, things, bus, combat, run, saved, tally>>

\* random_potion, n times, while there is room for a potion.
random_potion ==
    /\ Doing("potions")
    /\ \E kind \in scen.drops :
           IF Len(player.potions) < 3
           THEN /\ things' = Append(things, Thing(kind))
                /\ player' = [player EXCEPT !.potions = Append(@, Len(things) + 1)]
           ELSE UNCHANGED <<things, player>>
    /\ Call(IF it.n > 1 THEN <<Potions(it.n - 1)>> ELSE <<>>)
    /\ UNCHANGED <<scen, bus, combat, run, saved, tally>>

--------------------------------------------------------------------------------
(* Effects on the player alone. *)

\* Bug: healing does not stop at the maximum.
HealedTo_Uncapped(p, hp) == [p EXCEPT !.hp = hp]
HealedTo(p, hp) == [p EXCEPT !.hp = Smaller(p.maxHp, hp)]
WithMaxHp(p, n) == [p EXCEPT !.maxHp = @ + n, !.hp = @ + n]
Powered(p, power, n) == [p EXCEPT !.powers = Gain(@, power, n)]

\* The effects that change nothing but the player, and what they make of p.
Simple == {"energy", "drain", "power", "set_power", "unpower", "double_power", "double_block", "heal", "mend", "heal_pct", "max_hp",
           "lose_max_hp", "full_heal", "gold", "lose_gold", "lose_all_gold", "per_turn",
           "flag", "bleed_quarter_max", "bleed_half", "max_hp_per_cards", "max_hp_for_gold",
           "feather", "curse_strength", "cleanse", "lament", "offer", "add_card", "ward",
           "afflict", "piles", "upgrade", "bottle"}
Applied(p, i) ==
    CASE i.op = "energy" -> [p EXCEPT !.energy = @ + i.n]
      [] i.op = "power" -> Powered(p, i.of, i.n)
      [] i.op = "set_power" -> [p EXCEPT !.powers = With(@, i.of, i.n)]
      [] i.op = "drain" -> [p EXCEPT !.energy = Larger(0, @ - i.n)]
      [] i.op = "unpower" -> [p EXCEPT !.powers = Without(@, {i.of})]
      [] i.op = "double_power" -> Powered(p, i.of, Amount(p.powers, i.of))
      [] i.op = "double_block" -> [p EXCEPT !.block = 2 * @]
      [] i.op = "heal" -> HealedTo(p, p.hp + IF combat.open /\ "magic_flower" \in p.flags
                                             THEN (3 * i.n) \div 2 ELSE i.n)
      [] i.op = "mend" -> HealedTo(p, p.hp + i.n)
      [] i.op = "heal_pct" -> HealedTo(p, p.hp + (p.maxHp * i.n) \div 100)
      [] i.op = "max_hp" -> WithMaxHp(p, i.n)
      [] i.op = "lose_max_hp" -> HealedTo([p EXCEPT !.maxHp = @ - i.n], p.hp)
      [] i.op = "full_heal" -> [p EXCEPT !.hp = p.maxHp]
      [] i.op = "gold" -> [p EXCEPT !.gold = @ + i.n]
      [] i.op = "lose_gold" -> [p EXCEPT !.gold = @ - Smaller(i.n, @)]
      [] i.op = "lose_all_gold" -> [p EXCEPT !.gold = 0]
      [] i.op = "per_turn" -> [p EXCEPT !.perTurn = @ + i.n]
      [] i.op = "flag" -> [p EXCEPT !.flags = @ \cup {i.of}]
      [] i.op = "bleed_quarter_max" -> [p EXCEPT !.hp = Larger(1, @ - p.maxHp \div 4)]
      [] i.op = "bleed_half" -> [p EXCEPT !.hp = Larger(1, @ - @ \div 2)]
      [] i.op = "max_hp_per_cards" -> WithMaxHp(p, DeckSize \div i.n)
      [] i.op = "max_hp_for_gold" -> WithMaxHp([p EXCEPT !.gold = 0], p.gold \div i.n)
      [] i.op = "feather" -> HealedTo(p, p.hp + (DeckSize \div 5) * i.n)
      [] i.op = "curse_strength" -> Powered(p, "STRENGTH", p.deck["Curse"])
      [] i.op = "cleanse" -> [p EXCEPT !.deck["Curse"] = 0]
      [] i.op = "lament" -> [p EXCEPT !.lament = i.n]
      [] i.op = "offer" -> [p EXCEPT !.offer = TRUE]
      [] i.op = "add_card" -> [p EXCEPT !.deck[i.of] = @ + i.n]
      \* Omamori takes a curse out again; nothing emits CARD_ADDED for one.
      [] i.op = "ward" -> [p EXCEPT !.deck["Curse"] = Larger(0, @ - 1)]
      \* Enemies, the order and upgrades of cards are not part of the state.
      [] OTHER -> p

apply ==
    /\ todo # <<>> /\ it.op \in Simple
    /\ player' = Applied(player, it)
    /\ Call(<<>>)
    /\ UNCHANGED <<scen, things, bus, combat, run, saved, tally>>

\* _gain_block, and the flat block of relics.
gain_block ==
    /\ todo # <<>> /\ it.op \in {"block", "gain_block"}
    /\ LET raised == it.n + Amount(player.powers, "DEXTERITY")
           gained == CASE it.op = "block" -> it.n
                       [] it.op = "gain_block" /\ "FRAIL" \in DOMAIN player.powers -> (3 * raised) \div 4
                       [] OTHER -> raised
       IN  /\ player' = [player EXCEPT !.block = @ + Larger(0, gained)]
           /\ Call(<<Emit("BLOCK_GAINED", IF gained > 0 THEN "" ELSE "none")>>)
    /\ UNCHANGED <<scen, things, bus, combat, run, saved, tally>>

\* _apply_power on the player: immunities, Artifact, and the fresh debuffs.
debuff ==
    /\ Doing("debuff")
    /\ LET immune == \/ it.of = "WEAK" /\ Has("immune_weak")
                     \/ it.of = "FRAIL" /\ Has("immune_frail")
           warded == Amount(player.powers, "ARTIFACT") > 0
       IN  /\ player' = CASE immune -> player
                           [] ~immune /\ warded -> Powered(player, "ARTIFACT", -1)
                           [] OTHER -> Powered(player, it.of, it.n)
           /\ combat' = IF immune \/ warded \/ ~combat.ending THEN combat
                        ELSE [combat EXCEPT !.fresh = @ \cup {it.of}]
    /\ Call(<<>>)
    /\ UNCHANGED <<scen, things, bus, run, saved, tally>>

\* Effects on the master deck; every random choice is left open.
DeckOps == {"remove_card", "transform", "duplicate", "mirror", "loot_card", "lose_typed_card"}
Swap(p, old, new) ==
    LET left == [p.deck EXCEPT ![old] = @ - 1] IN [p EXCEPT !.deck = [left EXCEPT ![new] = @ + 1]]
Removed(p, k) == [p EXCEPT !.deck[k] = @ - 1, !.removed = @ + 1]
DeckOutcomes(p, op) ==
    CASE op = "remove_card" -> {Removed(p, k) : k \in InDeck}
      [] op = "transform" -> {Swap(p, k, new) : k \in InDeck, new \in scen.offers}
      [] op = "duplicate" -> {[p EXCEPT !.deck[k] = @ + 1] : k \in InDeck}
      \* Dolly's Mirror: a card that is neither basic nor a curse, if there is one.
      [] op = "mirror" ->
            LET better == InDeck \ {"Strike", "Defend", "Curse"}
            IN  {[p EXCEPT !.deck[k] = @ + 1] : k \in IF better = {} THEN InDeck ELSE better}
      [] op = "loot_card" -> {[p EXCEPT !.deck[k] = @ + 1] : k \in scen.offers}
      \* Falling: the type is rolled first, so there may be no card of it.
      [] OTHER -> {[p EXCEPT !.deck[k] = @ - 1] : k \in InDeck \ {"Curse"}}
                  \cup (IF \A t \in {"ATTACK", "SKILL", "POWER"} : \E k \in InDeck : TypeOf(k) = t
                        THEN {} ELSE {p})

change_deck ==
    /\ todo # <<>> /\ it.op \in DeckOps
    /\ LET outcomes == DeckOutcomes(player, it.op)
       IN  player' \in IF outcomes = {} THEN {player} ELSE outcomes
    /\ Call(<<>>)
    /\ UNCHANGED <<scen, things, bus, combat, run, saved, tally>>

\* Pandora's Box: a new card for every Strike and every Defend.
open_pandoras_box ==
    /\ Doing("pandora")
    /\ LET n == player.deck["Strike"] + player.deck["Defend"]
       IN  \E d \in [scen.offers -> 0..n] :
              /\ FoldFunction(+, 0, d) = n
              /\ player' = [player EXCEPT !.deck =
                               [k \in CardKinds |-> IF k \in {"Strike", "Defend"} THEN 0
                                   ELSE @[k] + IF k \in scen.offers THEN d[k] ELSE 0]]
    /\ Call(<<>>)
    /\ UNCHANGED <<scen, things, bus, combat, run, saved, tally>>

\* relics.pop(), n times: the relic goes, its handlers and flags stay.
pop_relics ==
    /\ Doing("pop_relics")
    /\ player' = [player EXCEPT !.relics = SubSeq(@, 1, Len(@) - it.n)]
    /\ Call(<<>>)
    /\ UNCHANGED <<scen, things, bus, combat, run, saved, tally>>

pop_potion ==
    /\ Doing("pop_potion")
    /\ player' = [player EXCEPT !.potions = Front(@)]
    /\ Call(<<>>)
    /\ UNCHANGED <<scen, things, bus, combat, run, saved, tally>>

--------------------------------------------------------------------------------
(* Losing HP, and dying. *)

\* _damage_player: what Intangible, Vulnerable, block, Torii and Tungsten Rod
\* leave of it.  Losing HP passes the first three, only an attack meets Torii.
Dealt ==
    LET capped == IF it.of # "hp_loss" /\ "INTANGIBLE" \in DOMAIN player.powers THEN 1 ELSE it.n
    IN  IF it.of = "attack" /\ "VULNERABLE" \in DOMAIN player.powers THEN (3 * capped) \div 2 ELSE capped
Blocked == IF it.of = "hp_loss" THEN 0 ELSE Smaller(player.block, Dealt)
Through ==
    LET left == Dealt - Blocked
        torii == IF it.of = "attack" /\ Has("torii") /\ left \in 1..5 THEN 1 ELSE left
    IN  IF torii > 0 /\ Has("tungsten_rod") THEN torii - 1 ELSE torii

\* Rupture answers a loss of HP after everything else has.
Felt == <<Emit("DAMAGE_TAKEN", "")>>
        \o (IF it.of = "hp_loss" /\ "RUPTURE" \in DOMAIN player.powers
            THEN <<Power("STRENGTH", player.powers["RUPTURE"])>> ELSE <<>>)

damage_stopped ==
    /\ Doing("hurt")
    /\ Through = 0 \/ Has("helix_ready")
    /\ player' = [player EXCEPT !.block = @ - Blocked,
                                !.flags = IF Through = 0 THEN @ ELSE @ \ {"helix_ready"}]
    /\ Call(<<>>)
    /\ UNCHANGED <<scen, things, bus, combat, run, saved, tally>>

damage_lethal ==
    /\ Doing("hurt")
    /\ Through > 0 /\ ~Has("helix_ready") /\ Through >= player.hp
    /\ player' = [player EXCEPT !.block = @ - Blocked]
    /\ saved' = FALSE
    /\ Call(<<Emit("DEATH_WOULD_OCCUR", ""), GoWith("fall", Through, it.of)>>)
    /\ UNCHANGED <<scen, things, bus, combat, run, tally>>

damage_taken ==
    /\ Doing("hurt")
    /\ Through > 0 /\ ~Has("helix_ready") /\ Through < player.hp
    /\ player' = [player EXCEPT !.block = @ - Blocked, !.hp = @ - Through]
    /\ Call(Felt)
    /\ UNCHANGED <<scen, things, bus, combat, run, saved, tally>>

\* After the DEATH_WOULD_OCCUR handlers: the player dies unless one answered True.
fall ==
    /\ Doing("fall")
    /\ player' = [player EXCEPT !.hp = IF saved THEN Larger(1, @) ELSE @ - it.n]
    /\ Call(IF saved THEN <<>> ELSE Felt)
    /\ UNCHANGED <<scen, things, bus, combat, run, saved, tally>>

\* Losses of HP in proportion to something: Shining Light, the Winged Statue,
\* and Regret, which counts the hand it is in.
bleed ==
    /\ todo # <<>> /\ it.op \in {"hurt_pct", "hurt_per_removed", "regret"}
    /\ \E n \in CASE it.op = "hurt_pct" -> {(player.maxHp * it.n) \div 100}
                  [] it.op = "hurt_per_removed" -> {player.removed * it.n}
                  [] OTHER -> 1..(scen.hand + 1) :
           Call(<<HpLoss(n)>>)
    /\ UNCHANGED <<scen, player, things, bus, combat, run, saved, tally>>

\* Lizard Tail: back to half of the maximum HP.
revive ==
    /\ Doing("revive")
    /\ player' = [player EXCEPT !.hp = Larger(1, (player.maxHp * it.n) \div 100)]
    /\ things' = [things EXCEPT ![it.who].saves = @ + 1]
    /\ saved' = TRUE
    /\ Call(<<>>)
    /\ UNCHANGED <<scen, bus, combat, run, tally>>

\* Fairy in a Bottle: back to 30%, twice that with Sacred Bark; the potion is
\* removed from the belt, which raises if it was traded away since.
fairy ==
    /\ Doing("fairy")
    /\ LET bark == IF Owns("SacredBark") THEN 2 ELSE 1
       IN  player' = [player EXCEPT !.hp = Larger(1, (player.maxHp * it.n * bark) \div 100),
                                   !.potions = RemoveFirst(@, it.who)]
    /\ things' = [things EXCEPT ![it.who].saves = @ + 1]
    /\ saved' = TRUE
    /\ IF it.who \in Range(player.potions) THEN Call(<<>>) /\ UNCHANGED run
       ELSE todo' = <<>> /\ run' = [run EXCEPT !.status = "raised"]
    /\ UNCHANGED <<scen, bus, combat, tally>>

--------------------------------------------------------------------------------
(* What relics and events keep and test. *)

Keep(thing) ==
    /\ things' = [things EXCEPT ![it.who] = thing]
    /\ UNCHANGED <<scen, player, bus, combat, run, saved, tally>>

\* A counter that fires and starts again at n.
every ==
    /\ Doing("every")
    /\ LET fires == things[it.who].count + 1 >= it.n
       IN  /\ Keep([things[it.who] EXCEPT !.count = IF fires THEN 0 ELSE @ + 1])
           /\ Call(IF fires THEN Guarded ELSE <<>>)

once ==
    /\ Doing("once")
    /\ Keep([things[it.who] EXCEPT !.mark = TRUE])
    /\ Call(IF things[it.who].mark THEN <<>> ELSE Guarded)

mark ==
    /\ todo # <<>> /\ it.op \in {"mark", "unmark"}
    /\ Keep([things[it.who] EXCEPT !.mark = (it.op = "mark")])
    /\ Call(<<>>)

restart ==
    /\ Doing("restart")
    /\ Keep([things[it.who] EXCEPT !.count = 0, !.seen = {}])
    /\ Call(<<>>)

\* Orange Pellets: all three types in a turn.
pellets ==
    /\ Doing("pellets")
    /\ LET seen == things[it.who].seen \cup ({it.arg} \cap {"ATTACK", "SKILL", "POWER"})
           all == Cardinality(seen) = 3
       IN  /\ things' = [things EXCEPT ![it.who].seen = IF all THEN {} ELSE seen]
           /\ player' = IF all THEN [player EXCEPT !.powers = Without(@, {"WEAK", "VULNERABLE", "FRAIL"})]
                        ELSE player
    /\ Call(<<>>)
    /\ UNCHANGED <<scen, bus, combat, run, saved, tally>>

Holds(condition, n) ==
    CASE condition = "bloodied" -> 2 * player.hp <= player.maxHp
      [] condition = "combat" -> combat.open
      [] condition = "bare" -> player.block = 0
      [] condition = "idle" -> combat.open /\ combat.plays <= n
      [] condition = "big_foe" -> combat.foe \in {"ELITE", "BOSS"}
      [] condition = "three_relics" -> Len(player.relics) >= 3
      [] condition = "a_relic" -> player.relics # <<>>
      [] condition = "a_potion" -> player.potions # <<>>
      [] condition = "if_marked" -> things[it.who].mark
      [] condition = "unless_marked" -> ~things[it.who].mark
      [] condition = "pay" -> player.gold >= n
      [] condition = "discarded" -> "discarded" \in combat.tags

\* The hand is not part of the state: it may or may not be empty.
test ==
    /\ todo # <<>> /\ it.op \in {"if", "if_marked", "unless_marked"}
    /\ LET condition == IF it.op = "if" THEN it.of ELSE it.op
       IN  \E holds \in IF condition = "empty_hand" THEN BOOLEAN ELSE {Holds(condition, it.n)} :
              Call(IF holds THEN Guarded ELSE <<>>)
    /\ UNCHANGED <<scen, player, things, bus, combat, run, saved, tally>>

pay ==
    /\ Doing("pay")
    /\ IF Holds("pay", it.n)
       THEN /\ player' = [player EXCEPT !.gold = @ - it.n]
            /\ Call(Guarded)
            /\ UNCHANGED <<scen, things, bus, combat, run, saved, tally>>
       ELSE Call(<<>>) /\ UNCHANGED <<scen, player, things, bus, combat, run, saved, tally>>

\* A roll that decides between two continuations.
roll ==
    /\ todo # <<>> /\ it.op \in {"maybe", "either"}
    /\ \E calls \in IF it.op = "maybe" THEN {it.then, <<>>} ELSE {it.then[1], it.then[2]} : Call(calls)
    /\ UNCHANGED <<scen, player, things, bus, combat, run, saved, tally>>
================================================================================
