------------------------------- MODULE Journey -------------------------------
(****************************************************************************)
(* A run through the acts of the game: the generated map and the walk over   *)
(* it, the rooms, and the relics, cards and potions across combats.  Two     *)
(* drivers play it: run_loop.run_act and the benchmark's RunEvaluator (whose *)
(* greedy baseline only replaces decisions).                                 *)
(****************************************************************************)
EXTENDS Fight

(* Rooms.  GOLD_GAINED, CARD_REMOVED, CARD_UPGRADED, BLOCK_GAINED and ACT_END *)
(* are emitted too; no relic listens to them.                                 *)

GoldOf(kind) == CASE kind = "ELITE" -> 25 [] kind = "BOSS" -> 95 [] OTHER -> 10

\* What a won fight brings: gold, an elite's relics, a card, perhaps a potion.
rewards ==
    /\ Doing("rewards")
    /\ Call(IF ~run.won THEN <<>>
            ELSE   (IF Has("no_gold") THEN <<>> ELSE <<Gold(GoldOf(it.of))>>)
                \o (IF it.of = "BOSS" THEN <<Emit("BOSS_DEFEATED", "")>> ELSE <<>>)
                \o (IF it.of # "ELITE" THEN <<>>
                    ELSE <<RandomRelic("elite")>> \o IF Has("black_star") THEN <<RandomRelic("elite")>> ELSE <<>>)
                \o <<Go("card_reward"), Go("potion_drop")>>)
    /\ UNCHANGED <<scen, player, things, bus, combat, run, saved, tally>>

card_reward ==
    /\ Doing("card_reward")
    /\ \/ \E k \in scen.offers : Call(<<AddCard(k), Emit("CARD_ADDED", TypeOf(k))>>)
       \/ Call(<<>>)
    /\ UNCHANGED <<scen, player, things, bus, combat, run, saved, tally>>

potion_drop ==
    /\ Doing("potion_drop")
    /\ \/ ~Has("no_potions") /\ Call(<<Potions(1)>>)
       \/ (Has("no_potions") \/ ~Has("potion_always")) /\ Call(<<>>)
    /\ UNCHANGED <<scen, player, things, bus, combat, run, saved, tally>>

\* The policy at a rest site; only RunEvaluator with routing may choose.
RestActions ==
    IF Has("peace_pipe") /\ player.deck["Curse"] > 0 THEN {"TOKE"}
    ELSE IF Has("no_rest_heal") /\ ~Has("no_smith") THEN {"SMITH"}
    ELSE {"REST"} \cup IF scen.routing /\ ~Has("no_smith") THEN {"SMITH"} ELSE {}

rest ==
    /\ Doing("rest")
    /\ \E action \in RestActions :
           Call(<<Emit("REST_SITE_ENTER", ""), GoWith("rest_action", 0, action)>>)
    /\ UNCHANGED <<scen, player, things, bus, combat, run, saved, tally>>

\* resolve_rest, and the Dream Catcher's offer: run_act forgets to drop it
\* when it smiths or tokes.
rest_action ==
    /\ Doing("rest_action")
    /\ LET pillow == IF Owns("RegalPillow") THEN 15 ELSE 0
           rested == IF Has("no_rest_heal") THEN player
                     ELSE HealedTo(player, player.hp + (player.maxHp * 30) \div 100 + pillow)
           done == CASE it.of = "REST" -> rested
                     [] it.of = "TOKE" -> Removed(player, "Curse")
                     [] OTHER -> player
       IN  player' = [done EXCEPT !.offer = @ /\ it.of # "REST" /\ scen.driver = "run_loop"]
    /\ Call(IF it.of = "REST" /\ player.offer THEN <<Go("card_reward")>> ELSE <<>>)
    /\ UNCHANGED <<scen, things, bus, combat, run, saved, tally>>

\* greedy_shop_visit: Meal Ticket, then pay to remove a curse or a basic card.
shop ==
    /\ Doing("shop")
    /\ LET fed == IF Has("meal_ticket") THEN HealedTo(player, player.hp + 15) ELSE player
           cost == IF Has("smiling_mask") THEN 50 ELSE 75
           worst == CASE "Curse" \in InDeck -> "Curse"
                      [] "Curse" \notin InDeck /\ "Strike" \in InDeck -> "Strike"
                      [] OTHER -> "Defend"
       IN  player' = IF worst \in InDeck /\ fed.gold >= cost
                     THEN [Removed(fed, worst) EXCEPT !.gold = @ - cost, !.flags = @ \ {"maw_bank"},
                                                      !.shopped = Owns("MawBank")]
                     ELSE fed
    /\ Call(<<>>)
    /\ UNCHANGED <<scen, things, bus, combat, run, saved, tally>>

\* resolve_treasure: a large chest or a small one.
treasure ==
    /\ Doing("treasure")
    /\ \E chest \in {<<"rare", 55>>, <<"common", 25>>} :
           Call(<<[RandomRelic(chest[1]) EXCEPT !.arg = "chest"], Gold(chest[2])>>)
    /\ UNCHANGED <<scen, player, things, bus, combat, run, saved, tally>>

Available(e) ==
    /\ scen.acts[run.act] \in Registry[e].acts
    /\ CASE Registry[e].when = "floor0" -> player.floor = 0
         [] Registry[e].when = "two_relics" -> Len(player.relics) >= 2
         [] Registry[e].when = "three_relics" -> Len(player.relics) >= 3
         [] OTHER -> TRUE

\* random_event and resolve_event; both drivers take the first choice.
event ==
    /\ Doing("event")
    /\ LET available == {e \in scen.events : Available(e)}
           pool == IF available \ run.seen # {} THEN available \ run.seen
                   ELSE IF available # {} THEN available ELSE scen.events
       IN  \E e \in pool :
              /\ run' = [run EXCEPT !.seen = @ \cup {e}]
              /\ \E choice \in IF scen.anyChoice THEN DOMAIN Registry[e].choices ELSE {1} :
                     Call(Registry[e].choices[choice])
    /\ UNCHANGED <<scen, player, things, bus, combat, saved, tally>>

--------------------------------------------------------------------------------
(* The acts and their maps. *)

Floors == 0..(scen.floors - 1)

\* generate_map: the columns of every floor first.
generate_map ==
    /\ Doing("act")
    /\ \E cols \in [Floors -> {c \in SUBSET scen.cols : Cardinality(c) \in 1..scen.active}] :
           run' = [run EXCEPT !.floor = -1, !.cols = cols, !.kind = << >>, !.edges = << >>]
    /\ Call([f \in 1..scen.floors |-> GoWith("build", f - 1, "")]
            \o <<Go("connect"), GoWith("ensure", MerchantFloor, "MERCHANT"),
                 GoWith("ensure", TreasureFloor, "TREASURE"), Go("first")>>)
    /\ UNCHANGED <<scen, player, things, bus, combat, saved, tally>>

\* One floor: a type for each room, and edges to the columns above.
build_floor ==
    /\ Doing("build")
    /\ LET f == it.n
           prev(c) == IF f = 0 THEN "none" ELSE PrevType(run.kind[f - 1], run.edges[f - 1], c)
           above == IF f + 1 \in Floors THEN run.cols[f + 1] ELSE {}
       IN  \E kinds \in [run.cols[f] -> scen.rooms] :
           \E edges \in IF above = {} THEN {[c \in run.cols[f] |-> {}]} ELSE Wirings(run.cols[f], above) :
              /\ \A c \in run.cols[f] : kinds[c] \in Rolls(f, prev(c))
              /\ run' = [run EXCEPT !.kind = With(@, f, kinds), !.edges = With(@, f, edges)]
    /\ Call(<<>>)
    /\ UNCHANGED <<scen, player, things, bus, combat, saved, tally>>

ensure_connectivity ==
    /\ Doing("connect")
    /\ run' = [run EXCEPT !.edges =
                  [f \in Floors |-> IF f + 1 \in Floors THEN Connected(@[f], run.cols[f], run.cols[f + 1])
                                    ELSE @[f]]]
    /\ Call(<<>>)
    /\ UNCHANGED <<scen, player, things, bus, combat, saved, tally>>

ensure_node_type ==
    /\ Doing("ensure")
    /\ LET rooms == Replaceable(run, it.of, it.n)
       IN  IF rooms = {} THEN UNCHANGED run
           ELSE \E r \in rooms : run' = [run EXCEPT !.kind[r[1]][r[2]] = it.of]
    /\ Call(<<>>)
    /\ UNCHANGED <<scen, player, things, bus, combat, saved, tally>>

\* Both drivers start on the leftmost room of the first floor.
first_room ==
    /\ Doing("first")
    /\ Call(<<GoWith("enter", CHOOSE c \in run.cols[0] : \A d \in run.cols[0] : c <= d, "")>>)
    /\ UNCHANGED <<scen, player, things, bus, combat, run, saved, tally>>

RoomAt(floor, col) == IF floor \in Floors THEN run.kind[floor][col] ELSE "BOSS"
RoomCalls(kind) ==
    CASE kind \in {"MONSTER", "ELITE", "BOSS"} -> <<GoWith("fight", 0, kind), GoWith("rewards", 0, kind)>>
      [] kind = "REST" -> <<Go("rest")>>
      [] kind = "MERCHANT" -> <<Go("shop")>>
      [] kind = "TREASURE" -> <<Go("treasure")>>
      [] OTHER -> <<Go("event")>>

\* RunState.move_to, Maw Bank's gold included, and resolve_node.
move_to ==
    /\ Doing("enter")
    /\ run' = [run EXCEPT !.floor = @ + 1, !.col = it.n, !.won = TRUE]
    /\ player' = [player EXCEPT !.floor = run.floor + 1,
                                !.gold = IF Has("maw_bank") /\ ~Has("no_gold") THEN @ + 12 ELSE @]
    /\ Call(RoomCalls(RoomAt(run.floor + 1, it.n)) \o <<Go("leave")>>)
    /\ UNCHANGED <<scen, things, bus, combat, saved, tally>>

\* A lost fight or no HP left ends the run.
run_lost ==
    /\ Doing("leave")
    /\ ~run.won \/ player.hp <= 0
    /\ run' = [run EXCEPT !.status = "lost"]
    /\ todo' = <<>>
    /\ UNCHANGED <<scen, player, things, bus, combat, saved, tally>>

Above == IF run.floor + 1 \in Floors THEN reachable_from(run, run.floor, run.col) ELSE {}

next_room ==
    /\ Doing("leave")
    /\ run.won /\ player.hp > 0 /\ run.floor \in Floors
    /\ \/ \E c \in Above : (scen.routing \/ \A d \in Above : c <= d) /\ Call(<<GoWith("enter", c, "")>>)
       \/ Above = {} /\ run' = [run EXCEPT !.floor = scen.floors - 1] /\ Call(<<GoWith("enter", 3, "")>>)
    /\ Above # {} => UNCHANGED run
    /\ UNCHANGED <<scen, player, things, bus, combat, saved, tally>>

\* The boss fell: RunEvaluator heals, gives a boss relic and goes on.
act_end ==
    /\ Doing("leave")
    /\ run.won /\ player.hp > 0 /\ run.floor \notin Floors
    /\ IF run.act = Len(scen.acts)
       THEN run' = [run EXCEPT !.status = "survived"] /\ todo' = <<>>
       ELSE LET offers == {r \in BossRelics \cap scen.loot : relic_allowed(r, scen.character)} \ OwnedKinds
            IN  /\ run' = [run EXCEPT !.act = @ + 1]
                /\ \E calls \in IF offers = {} THEN {<<>>} ELSE {<<GoWith("obtain", 0, r)>> : r \in offers} :
                       Call(<<FullHeal>> \o calls \o <<Go("act")>>)
    /\ UNCHANGED <<scen, player, things, bus, combat, saved, tally>>

--------------------------------------------------------------------------------
NewPlayer(s) ==
    [hp |-> s.hp, maxHp |-> 80, gold |-> 99, energy |-> 3, perTurn |-> 3, block |-> 0,
     powers |-> << >>, flags |-> {}, relics |-> <<>>, potions |-> <<>>, deck |-> s.deck,
     removed |-> 0, floor |-> 0, lament |-> 0, offer |-> FALSE, shopped |-> FALSE]

Init ==
    /\ scen \in Scenarios
    /\ tally = [e \in Counted |-> 0]
    /\ things = [i \in DOMAIN scen.potions |-> Thing(scen.potions[i])]
    /\ player = [NewPlayer(scen) EXCEPT !.potions = [i \in DOMAIN scen.potions |-> i]]
    /\ bus = <<>> /\ combat = NoCombat /\ saved = FALSE
    /\ run = [act |-> 1, floor |-> -1, col |-> 0, cols |-> << >>, kind |-> << >>, edges |-> << >>,
              seen |-> {}, won |-> TRUE, status |-> "playing"]
    /\ todo = [i \in DOMAIN scen.gifts |-> GoWith("obtain", 0, scen.gifts[i])] \o <<Go("act")>>

Over == todo = <<>> /\ UNCHANGED vars

Next ==
    \/ emit \/ register \/ obtain_relic \/ random_relic \/ random_potion
    \/ apply \/ change_deck \/ open_pandoras_box \/ pop_relics \/ pop_potion
    \/ damage_stopped \/ damage_lethal \/ damage_taken \/ fall \/ bleed \/ revive \/ fairy
    \/ gain_block \/ debuff \/ every \/ once \/ mark \/ restart \/ pellets \/ test \/ pay \/ roll
    \/ draw \/ attack \/ hit \/ tag \/ discard_from_hand \/ exhaust_card \/ each_in_hand \/ spend_x
    \/ havoc \/ pain \/ end_of_turn \/ check_enemy_deaths \/ start_combat \/ begin_player_turn
    \/ opening_hand \/ combat_over \/ next_turn \/ combat_drawn \/ play_card \/ resolve
    \/ judge_on \/ judge_now \/ end_player_turn \/ discard_hand \/ enemy_phase \/ enemies_left
    \/ round_end \/ close_combat
    \/ rewards \/ card_reward \/ potion_drop \/ rest \/ rest_action \/ shop \/ treasure \/ event
    \/ generate_map \/ build_floor \/ ensure_connectivity \/ ensure_node_type
    \/ first_room \/ move_to \/ run_lost \/ next_room \/ act_end \/ Over

Spec == Init /\ [][Next]_vars

--------------------------------------------------------------------------------
(* Properties. *)

\* No handler is pending: the driver is at a decision of its own.
Quiet == todo = <<>> \/ it.op \in {"turn", "loop", "enter", "leave", "rewards", "act"}

\* What reads or changes state.combat.
InCombat == {"draw", "hit_one", "hit_all", "attack_one", "attack_all", "afflict", "piles", "tag", "discard",
             "exhaust", "each", "havoc", "end_of_turn", "deaths"}

\* HP never exceed their maximum, gold is never owed, there are never more than
\* three potions, and a power that ran out is gone (only Strength and Dexterity
\* may be negative), whatever relics, cards, events and rewards did; and what
\* reaches for state.combat only runs in a combat, though events and rest sites
\* also take HP and emit events.
TypeOK ==
    /\ player.hp <= player.maxHp /\ player.maxHp > 0
    /\ player.gold >= 0 /\ player.energy >= 0 /\ player.block >= 0
    /\ Len(player.potions) <= 3
    /\ \A k \in CardKinds : player.deck[k] \in Nat
    /\ \A p \in DOMAIN player.powers : player.powers[p] > 0 \/ (p \in {"STRENGTH", "DEXTERITY"} /\ player.powers[p] < 0)
    /\ Range(player.relics) \cup Range(player.potions) \cup Range(bus) \subseteq DOMAIN things
    /\ combat.foes + combat.fallen <= scen.foes /\ combat.fresh \subseteq Debuffs
    /\ run.status \in {"playing", "lost", "survived", "raised"}
    /\ todo # <<>> /\ it.op \in InCombat => combat.open

\* In a combat every relic the player owns listens exactly once, and nothing
\* else does but Fairies: register() runs at every start_combat and once more
\* when a relic is obtained, and would stack without bus.clear().
ListenersAreOwned ==
    combat.open /\ Quiet =>
        /\ \A i, j \in DOMAIN bus : bus[i] = bus[j] => i = j
        /\ Range(player.relics) \subseteq Range(bus)
        /\ \A id \in Range(bus) \ Range(player.relics) : things[id].kind = "FairyInABottle"

\* What a relic of this kind gives of a power by the first decision.
Granted(kind, p) ==
    LET gives(e) == IF e \in DOMAIN Known[kind].hears THEN Known[kind].hears[e].do ELSE <<>>
        of(i) == IF i.op \in {"power", "set_power"} /\ i.of = p THEN i.n
                 ELSE IF i.op = "curse_strength" /\ p = "STRENGTH" THEN player.deck["Curse"] ELSE 0
        calls == gives("COMBAT_START") \o gives("TURN_START")
    IN  FoldFunction(+, 0, [c \in DOMAIN calls |-> of(calls[c])])

\* The powers the relics may give, but for those that are gone or counted.
Grants == {"STRENGTH", "DEXTERITY", "THORNS", "ARTIFACT", "VIGOR", "CONFUSED"}

\* At the first decision of a combat the player has the powers the relics give
\* and no others: nothing is left of the combats before (Demon Form, a Shuriken
\* that fired, Vigor that was not spent, Corruption), and nothing was given twice.
PowersEarned ==
    todo # <<>> /\ it.op = "turn" /\ combat.turn = 1 /\ combat.plays = 0 =>
        /\ \A p \in Grants \cup (DOMAIN player.powers \ {"ENERGIZED", "INTANGIBLE"}) :
              Amount(player.powers, p) =
                  FoldFunction(+, 0, [i \in DOMAIN player.relics |-> Granted(things[player.relics[i]].kind, p)])
        /\ player.flags \cap {"barricade", "berserk", "brutality", "corruption"} = {}

\* The energy of a turn is 3 and one for every energy relic that was ever picked
\* up, however many combats it registered for since, and also after N'loth or
\* the Golden Wing took the relic away.
PickupsOnce ==
    Quiet => player.perTurn = 3 + Cardinality({id \in DOMAIN things :
                                                 EnergyPerTurn \in Range(Known[things[id].kind].pickup)})

\* The counters that count over a whole run, and those that count over a turn.
RunCounters ==
    [PenNib |-> <<"ATTACK", 10>>, NunchakuRelic |-> <<"ATTACK", 10>>, Sundial |-> <<"SHUFFLE", 3>>,
     HappyFlower |-> <<"TURN_START", 3>>, IncensesBurner |-> <<"TURN_START", 6>>,
     TinyChest |-> <<"COMBAT_END", 4>>]
TurnCounters == [Shuriken |-> <<"ATTACK", 3>>, LetterOpener |-> <<"SKILL_PLAY", 3>>]

\* A counter never loses or doubles an event: over the run since the relic was
\* obtained, combats and registrations in between, or over the turn.
CountersKept ==
    Quiet => \A id \in Range(player.relics) :
        LET thing == things[id]
        IN  /\ thing.kind \in DOMAIN RunCounters =>
                  LET c == RunCounters[thing.kind] IN thing.count = (tally[c[1]] - thing.since[c[1]]) % c[2]
            /\ thing.kind \in DOMAIN TurnCounters /\ combat.open /\ combat.turn > 0 =>
                  LET c == TurnCounters[thing.kind] IN thing.count = (tally[c[1]] - combat.base[c[1]]) % c[2]

\* A Lizard Tail and a Fairy save their owner once in a run, not once in a combat.
RevivesOnce == \A id \in DOMAIN things : things[id].saves <= 1

\* On the finished map every room leads up to a room that exists and every room
\* above the first floor has one leading to it: no walk dead-ends below the boss.
MapClimbs ==
    todo # <<>> /\ it.op = "first" =>
        \A f \in Floors \ {0} :
            /\ \A c \in run.cols[f - 1] : run.edges[f - 1][c] # {} /\ run.edges[f - 1][c] \subseteq run.cols[f]
            /\ \A c \in run.cols[f] : \E d \in run.cols[f - 1] : c \in run.edges[f - 1][d]

\* "(until any shop purchase)": a purchase ends the Maw Bank's payments.
MawBankStaysOff == player.shopped => ~Has("maw_bank")
==============================================================================
