--------------------------------- MODULE Fight ---------------------------------
(****************************************************************************)
(* A combat of a run: its start and end, the turns, the cards that are       *)
(* played and what they do to the enemies and to the hand.  The piles and    *)
(* the enemies are coarse here (modules CombatPiles, CombatRound and         *)
(* EnemyMoves have them): a scenario names the cards that may be in hand and *)
(* what the enemies may do.                                                  *)
(****************************************************************************)
EXTENDS RunMachine

(* What cards do. *)

\* _draw_cards: the draw pile may have to be reshuffled, and a status may be
\* drawn; however many cards are drawn, at most one of the two happens here.
draw ==
    /\ Doing("draw")
    /\ \/ Call(<<>>)
       \/ scen.shuffles /\ Call(<<Emit("SHUFFLE", "")>>)
       \/ \E status \in scen.burdens \cap Statuses : Call(<<Emit("CARD_DRAW", status)>>)
    /\ UNCHANGED <<scen, player, things, bus, combat, run, saved, tally>>

Felled(k) == [combat EXCEPT !.foes = @ - k, !.fallen = @ + k]

\* _deal_damage: the attacks of a card on one enemy or on all that are left.
\* They use up Vigor and the Pen Nib's flag; Thorns strike back first, Envenom
\* poisons; then runs if the target fell.
attack ==
    /\ todo # <<>> /\ it.op \in {"attack_one", "attack_all"}
    /\ \E k \in 0..(IF it.op = "attack_one" THEN Smaller(1, combat.foes) ELSE combat.foes) :
          /\ combat' = [Felled(k) EXCEPT !.tags = IF "ENVENOM" \in DOMAIN player.powers THEN @ \cup {"poison"} ELSE @]
          /\ Call(   (IF scen.thorns > 0 /\ combat.foes > 0 THEN <<Damaged(scen.thorns)>> ELSE <<>>)
                  \o (IF k > 0 THEN it.then ELSE <<>>))
    /\ player' = IF combat.foes = 0 THEN player
                 ELSE [player EXCEPT !.flags = @ \ {"pen_nib_ready"}, !.powers = Without(@, {"VIGOR"})]
    /\ UNCHANGED <<scen, things, bus, run, saved, tally>>

\* Damage to enemies that is no attack, and poison.
hit ==
    /\ todo # <<>> /\ it.op \in {"hit_one", "hit_all"}
    /\ \E k \in 0..(IF it.op = "hit_one" THEN Smaller(1, combat.foes) ELSE combat.foes) : combat' = Felled(k)
    /\ Call(<<>>)
    /\ UNCHANGED <<scen, player, things, bus, run, saved, tally>>

tag ==
    /\ Doing("tag")
    /\ combat' = [combat EXCEPT !.tags = @ \cup {it.of}]
    /\ Call(<<>>)
    /\ UNCHANGED <<scen, player, things, bus, run, saved, tally>>

\* _discard_from_hand, if there is a card: what it does, then CARD_DISCARD.
discard_from_hand ==
    /\ Doing("discard")
    /\ \/ Call(<<>>) /\ UNCHANGED combat
       \/ /\ combat' = [combat EXCEPT !.tags = @ \cup {"discarded"}]
          /\ \/ Call(<<Discard>>)
             \/ \E c \in scen.cards \cap DOMAIN OnDiscard : Call(OnDiscard[c] \o <<Discard>>)
    /\ UNCHANGED <<scen, player, things, bus, run, saved, tally>>

\* The CARD_EXHAUST of a card; on_exhaust looks for a Sentinel.
Exhausted(c) == Emit("CARD_EXHAUST", IF c = "Sentinel" THEN c ELSE "")

exhaust_card ==
    /\ Doing("exhaust")
    /\ \/ Call(<<>>)
       \/ \E c \in {"Strike"} \cup (scen.cards \cap {"Sentinel"}) : Call(<<Exhausted(c)>>)
    /\ UNCHANGED <<scen, player, things, bus, combat, run, saved, tally>>

Times(n, calls) == FlattenSeq([i \in 1..n |-> calls])

each_in_hand ==
    /\ Doing("each")
    /\ \E n \in 0..scen.hand : Call(Times(n, it.then))
    /\ UNCHANGED <<scen, player, things, bus, combat, run, saved, tally>>

\* _x_value, and all the energy is gone.
spend_x ==
    /\ Doing("spend_x")
    /\ Call(Times(Smaller(it.n, player.energy + IF Has("chemical_x") THEN 2 ELSE 0), it.then))
    /\ player' = [player EXCEPT !.energy = 0]
    /\ UNCHANGED <<scen, things, bus, combat, run, saved, tally>>

\* Havoc plays the top card of the draw pile, any but a second Havoc, for
\* nothing and exhausts it; play_card is not involved.
havoc ==
    /\ Doing("havoc")
    /\ \/ Call(<<>>)
       \/ \E c \in scen.cards \ {"Havoc"} : Call(Book[c].does \o <<Exhausted(c)>>)
    /\ UNCHANGED <<scen, player, things, bus, combat, run, saved, tally>>

\* A Pain in hand bites at every card played.
pain ==
    /\ Doing("pain")
    /\ \/ Call(<<>>)
       \/ "Pain" \in scen.burdens /\ Call(<<HpLoss(1)>>)
    /\ UNCHANGED <<scen, player, things, bus, combat, run, saved, tally>>

\* The cards left in hand at TURN_END, one of each burden at most, in any order.
end_of_turn ==
    /\ Doing("end_of_turn")
    /\ \E left \in SUBSET (scen.burdens \cap DOMAIN EndOfTurn) : \E hand \in SetToSeqs(left) :
           Call(FlattenSeq([i \in DOMAIN hand |-> EndOfTurn[hand[i]]]))
    /\ UNCHANGED <<scen, player, things, bus, combat, run, saved, tally>>

\* _check_enemy_deaths: each fallen enemy is announced once.
check_enemy_deaths ==
    /\ Doing("deaths")
    /\ combat' = [combat EXCEPT !.fallen = 0]
    /\ Call([i \in 1..combat.fallen |-> Emit("ENEMY_DEATH", "")])
    /\ UNCHANGED <<scen, player, things, bus, run, saved, tally>>

--------------------------------------------------------------------------------
(* The course of a combat. *)

Fairies == FlattenSeq([i \in DOMAIN player.potions |->
                          IF things[player.potions[i]].kind = "FairyInABottle" THEN <<player.potions[i]>> ELSE <<>>])

\* Bug: the listeners of the combats before stay.
Listeners_Stacked == bus \o player.relics \o Fairies
\* bus.clear(), then every relic and every Fairy registers.
Listeners == player.relics \o Fairies

\* Bug: what the last combat left is kept.
CombatPowers_Carried(powers) == powers
\* state.player.powers = {}.
CombatPowers(powers) == << >>

start_combat ==
    /\ Doing("fight")
    /\ combat' = [NoCombat EXCEPT !.open = TRUE, !.foe = it.of, !.foes = scen.foes]
    /\ bus' = Listeners
    /\ things' = [id \in DOMAIN things |->
                     IF id \in Range(player.relics) THEN Afresh(things[id]) ELSE things[id]]
    /\ player' = [player EXCEPT
                     !.powers = CombatPowers(@), !.lament = IF @ > 0 THEN @ - 1 ELSE 0,
                     !.flags = (@ \ {"brutality"}) \cup UNION {Known[things[id].kind].flags : id \in Range(player.relics)}]
    /\ Call(<<Emit("COMBAT_START", ""), Go("begin_turn"), Go("loop")>>)
    /\ UNCHANGED <<scen, run, saved, tally>>

\* _begin_player_turn up to TURN_START; ENERGIZED is the first listener of it.
begin_player_turn ==
    /\ Doing("begin_turn")
    /\ combat' = [combat EXCEPT !.turn = @ + 1, !.plays = 0, !.base = tally, !.tags = @ \ {"discarded"}]
    /\ LET p == player.powers
           blurred == ~Has("barricade") /\ "BLUR" \in DOMAIN p
           kept == IF Has("barricade") \/ blurred THEN player.block
                   ELSE IF Has("calipers") THEN Smaller(player.block, 15) ELSE 0
           now == Gain(Without(p, {"NEXT_TURN_BLOCK", "PHANTASMAL"}), "DOUBLE_DAMAGE", Amount(p, "PHANTASMAL"))
       IN  /\ player' = [player EXCEPT
                            !.block = kept, !.powers = IF blurred THEN Gain(now, "BLUR", -1) ELSE now,
                            !.energy = (IF Has("ice_cream") THEN @ ELSE 0) + player.perTurn]
           /\ Call(   (IF "NEXT_TURN_BLOCK" \in DOMAIN p THEN <<GainBlock(p["NEXT_TURN_BLOCK"])>> ELSE <<>>)
                   \o <<Emit("TURN_START", ""), Go("opening_hand")>>)
    /\ UNCHANGED <<scen, things, bus, run, saved, tally>>

\* The draws of a turn, unless NO_DRAW; Gambling Chip replaces basic cards of
\* the first hand.
opening_hand ==
    /\ Doing("opening_hand")
    /\ player' = [player EXCEPT !.powers = Without(@, {"NEXT_TURN_DRAW", "NO_DRAW"})]
    /\ LET p == player.powers
           draws == IF "NO_DRAW" \in DOMAIN p THEN <<>>
                    ELSE <<Draw(5)>> \o IF "NEXT_TURN_DRAW" \in DOMAIN p THEN <<Draw(p["NEXT_TURN_DRAW"])>> ELSE <<>>
       IN  \E basics \in IF combat.turn = 1 /\ Has("gambling_chip") THEN 0..2 ELSE {0} :
              Call(draws \o Times(basics, <<Tag("discarded"), Discard>>)
                         \o (IF basics > 0 THEN <<Draw(basics)>> ELSE <<>>))
    /\ UNCHANGED <<scen, things, bus, combat, run, saved, tally>>

\* is_combat_over.
Outcome == CASE player.hp <= 0 -> "loss" [] player.hp > 0 /\ combat.foes = 0 -> "win" [] OTHER -> "none"

\* The driver leaves the combat: a win is finalised by end_combat.
Verdict(won, ends) ==
    /\ run' = [run EXCEPT !.won = won]
    /\ Call(IF ends THEN <<Emit("COMBAT_END", ""), Go("close_combat")>> ELSE <<>>)

combat_over ==
    /\ Doing("loop")
    /\ combat.loops < scen.turns /\ Outcome # "none"
    /\ Verdict(Outcome = "win", Outcome = "win")
    /\ UNCHANGED <<scen, player, things, bus, combat, saved, tally>>

next_turn ==
    /\ Doing("loop")
    /\ combat.loops < scen.turns /\ Outcome = "none"
    /\ combat' = [combat EXCEPT !.loops = @ + 1]
    /\ Call(<<Go("turn"), Go("loop")>>)
    /\ UNCHANGED <<scen, player, things, bus, run, saved, tally>>

\* Out of turns, even if the last card of the last turn won (RunEvaluator):
\* a loss.  run_act drops the combat, RunEvaluator finalises it.
combat_drawn ==
    /\ Doing("loop")
    /\ combat.loops = scen.turns
    /\ combat' = IF scen.driver = "run_loop" THEN NoCombat ELSE combat
    /\ Verdict(FALSE, scen.driver = "llm")
    /\ UNCHANGED <<scen, player, things, bus, saved, tally>>

\* Card.can_play, but for the energy; only Blue Candle plays the unplayable.
CanPlay(card) ==
    /\ card.cost = -1 => card.type = "CURSE" /\ Has("blue_candle")
    /\ card.type = "ATTACK" => "ENTANGLED" \notin DOMAIN player.powers
    /\ combat.plays < IF Has("velvet_choker") THEN Smaller(6, scen.plays) ELSE scen.plays
\* What it may cost: Confused cards anything up to 3, cards freed nothing.
Costs(card) ==
    IF card.cost < 0 \/ (Has("corruption") /\ card.type = "SKILL") THEN {0}
    ELSE {card.cost} \cup (IF "free" \in combat.tags THEN {0} ELSE {})
                     \cup (IF "CONFUSED" \in DOMAIN player.powers THEN 0..3 ELSE {})

\* play_card: pay, announce, play, and look for deaths.
play_card ==
    /\ Doing("turn")
    /\ \E name \in scen.cards : LET card == Book[name] IN
          /\ CanPlay(card)
          /\ \E cost \in Costs(card) : cost <= player.energy /\ player' = [player EXCEPT !.energy = @ - cost]
          /\ Call(   <<Emit("CARD_PLAY", card.type)>>
                  \o (IF card.type \in {"ATTACK", "SKILL"} THEN <<Emit(card.type \o "_PLAY", "")>> ELSE <<>>)
                  \o <<GoWith("resolve", 0, name), Go("deaths"), Go("judge")>>)
    /\ UNCHANGED <<scen, things, bus, combat, run, saved, tally>>

\* The rest of play_card after the handlers: the play is counted, a stack of
\* Double Tap or Burst plays the card again, and it is exhausted if it must
\* be and has not done so itself.
resolve ==
    /\ Doing("resolve")
    /\ combat' = [combat EXCEPT !.plays = @ + 1]
    /\ LET card == Book[it.of]
           copier == CASE card.type = "ATTACK" -> "DOUBLE_TAP" [] card.type = "SKILL" -> "BURST" [] OTHER -> "none"
           again == copier \in DOMAIN player.powers
           exhausts == ~card.spent /\ (card.exhaust \/ (Has("corruption") /\ card.type = "SKILL"))
       IN  /\ player' = IF again THEN Powered(player, copier, -1) ELSE player
           /\ Call(Times(IF again THEN 2 ELSE 1, card.does) \o (IF exhausts THEN <<Exhausted(it.of)>> ELSE <<>>))
    /\ UNCHANGED <<scen, things, bus, run, saved, tally>>

\* After a card: run_act takes the verdict at once, RunEvaluator goes back to
\* the head of its turn loop.
judge_on ==
    /\ Doing("judge")
    /\ Outcome = "none" \/ scen.driver = "llm"
    /\ Call(IF Outcome = "none" THEN <<Go("turn")>> ELSE <<>>)
    /\ UNCHANGED <<scen, player, things, bus, combat, run, saved, tally>>

judge_now ==
    /\ Doing("judge")
    /\ Outcome # "none" /\ scen.driver = "run_loop"
    /\ run' = [run EXCEPT !.won = (Outcome = "win")]
    /\ todo' = (IF Outcome = "win" THEN <<Emit("COMBAT_END", ""), Go("close_combat")>> ELSE <<>>)
               \o SubSeq(todo, 3, Len(todo))
    /\ UNCHANGED <<scen, player, things, bus, combat, saved, tally>>

\* end_player_turn: TURN_END, the hand, the enemies' turns, the end of the round.
end_player_turn ==
    /\ Doing("turn")
    /\ combat' = [combat EXCEPT !.ending = TRUE]
    /\ Call(<<Emit("TURN_END", ""), Go("discard_hand")>>)
    /\ UNCHANGED <<scen, player, things, bus, run, saved, tally>>

\* Choked and free end with the turn; ethereal cards that are left exhaust.
discard_hand ==
    /\ Doing("discard_hand")
    /\ combat' = [combat EXCEPT !.tags = @ \ {"choked", "free"}]
    /\ \E left \in SUBSET ((scen.cards \cup scen.burdens) \cap Ethereal) :
           Call(Times(Cardinality(left), <<Exhaust>>) \o <<GoWith("enemy_phase", combat.foes, "")>>)
    /\ UNCHANGED <<scen, player, things, bus, run, saved, tally>>

\* The turn of one enemy, n of them are left to act: it hits, and meets a Flame
\* Barrier, or it applies a debuff.
enemy_phase ==
    /\ Doing("enemy_phase")
    /\ LET left == Smaller(it.n, combat.foes)
           barrier == IF "FLAME_BARRIER" \in DOMAIN player.powers THEN <<HitOne>> ELSE <<>>
           moves == {<<Attacked(n)>> \o barrier : n \in scen.hits} \cup {<<Debuff(d, 1)>> : d \in scen.debuffs}
       IN  \E move \in IF left = 0 \/ moves = {} THEN {<<>>} ELSE moves :
              Call(move \o <<Go("deaths"), GoWith("enemies_left", IF left = 0 THEN 0 ELSE left - 1, "")>>)
    /\ UNCHANGED <<scen, player, things, bus, combat, run, saved, tally>>

\* After an enemy: a dead player ends it all; after the last one poison works.
enemies_left ==
    /\ Doing("enemies_left")
    /\ Call(IF player.hp <= 0 THEN <<>>
            ELSE IF Smaller(it.n, combat.foes) > 0 THEN <<GoWith("enemy_phase", it.n, "")>>
            ELSE (IF "poison" \in combat.tags THEN <<HitAll>> ELSE <<>>) \o <<Go("deaths"), Go("round_end")>>)
    /\ UNCHANGED <<scen, player, things, bus, combat, run, saved, tally>>

\* _tick_player_debuffs: what is fresh lasts one round more.
round_end ==
    /\ Doing("round_end")
    /\ LET ticking == {"WEAK", "VULNERABLE", "FRAIL", "INTANGIBLE", "DOUBLE_DAMAGE", "ENTANGLED"} \ combat.fresh
           ticked == [p \in DOMAIN player.powers |-> player.powers[p] - IF p \in ticking THEN 1 ELSE 0]
       IN  player' = [player EXCEPT !.powers = Without(ticked, {p \in ticking \cap DOMAIN ticked : ticked[p] <= 0})]
    /\ combat' = [combat EXCEPT !.ending = FALSE, !.fresh = {}]
    /\ Call(<<Go("begin_turn")>>)
    /\ UNCHANGED <<scen, things, bus, run, saved, tally>>

\* end_combat after COMBAT_END.
close_combat ==
    /\ Doing("close_combat")
    /\ player' = [player EXCEPT
                     !.powers = Without(@, {"FLEX", "VIGOR", "DOUBLE_TAP", "ENERGIZED", "RAGE", "ENTANGLED", "FLAME_BARRIER"}),
                     !.block = 0, !.flags = @ \ {"barricade", "berserk", "brutality", "corruption"}]
    /\ combat' = NoCombat
    /\ Call(<<>>)
    /\ UNCHANGED <<scen, things, bus, run, saved, tally>>
================================================================================
