------------------------------ MODULE EventPool ------------------------------
(****************************************************************************)
(* The event catalogue of events_pool.py: one operator for each event it     *)
(* registers, with the acts it belongs to, the condition it has and what     *)
(* each of its choices does, and one for each effect helper.  A choice that  *)
(* only returns a text does nothing.                                         *)
(****************************************************************************)
EXTENDS Effects

Leave == <<>>
Event(acts, choices) == [acts |-> acts, when |-> "always", choices |-> choices]
EventWhen(acts, when, choices) == [acts |-> acts, when |-> when, choices |-> choices]

\* ---- effect helpers ------------------------------------------------------
heal_pct(n) == <<HealPct(n)>>
max_hp(n) == <<MaxHp(n)>>
give_gold(n) == <<Gold(n)>>
lose_gold(n) == <<Do("lose_gold", n, "", <<>>)>>
damage_event(n) == <<HpLoss(n)>>
upgrade_random == <<Upgrade>>
remove_random_card == <<RemoveRandom>>
remove_starter == remove_random_card
transform_card == <<Transform>>
duplicate_card == <<Duplicate>>
obtain_relic_event(rarity) == <<RandomRelic(rarity)>>
add_curse == <<AddCard("Curse")>>
neow_1hp == <<Do("lament", 3, "", <<>>)>>
neow_rare_relic == <<Do("lose_max_hp", 10, "", <<>>)>> \o obtain_relic_event("rare")
big_fish_box == add_curse \o obtain_relic_event("common")
wall_punch == <<HpLoss(7)>> \o upgrade_random
golden_idol_take == <<Gold(250)>> \o add_curse
\* Six rolls in ten find a relic; the fight of the others is a text.
dead_adventurer_search == <<Maybe(obtain_relic_event("common"))>>
altar_blood == <<Do("bleed_quarter_max", 0, "", <<>>)>> \o obtain_relic_event("common")
altar_gold == <<Pay(75, obtain_relic_event("common"))>>
beggar_remove == <<Pay(75, remove_random_card)>>
\* Each try costs more HP; the fourth one always finds the relic.
scrap_ooze ==
    LET reach == obtain_relic_event("common")
        try4 == <<HpLoss(13)>> \o reach
        try3 == <<HpLoss(8), Do("either", 0, "", <<reach, try4>>)>>
        try2 == <<HpLoss(5), Do("either", 0, "", <<reach, try3>>)>>
    IN  <<HpLoss(3), Do("either", 0, "", <<reach, try2>>)>>
shining_light == <<Do("hurt_pct", 30, "", <<>>), Upgrade, Upgrade>>
nloths_trade == <<If("three_relics", 0, <<Do("pop_relics", 2, "", <<>>)>> \o obtain_relic_event("rare"))>>
falling_lose_card == <<Do("lose_typed_card", 0, "", <<>>)>>
mind_bloom_war == Leave
mind_bloom_awake == <<Do("max_hp_per_cards", 5, "", <<>>)>>
mind_bloom_rich == <<Gold(999)>> \o add_curse \o add_curse \o add_curse
council_ghosts ==
    <<Do("bleed_half", 0, "", <<>>)>> \o [i \in 1..5 |-> AddCard("Skill")]
cursed_tome == <<HpLoss(1 + 2 + 3)>> \o obtain_relic_event("rare")
drug_dealer == <<Potions(2)>> \o add_curse
cleanse_curses == <<Do("cleanse", 0, "", <<>>)>>
golden_wing == <<If("a_relic", 0, <<Do("pop_relics", 1, "", <<>>)>> \o obtain_relic_event("rare"))>>
moai_head == <<Do("max_hp_for_gold", 3, "", <<>>)>>
vagrant_relic == <<Pay(85, obtain_relic_event("common"))>>
vagrant_rob == <<Gold(150)>> \o add_curse
winged_statue_destroy == <<Do("hurt_per_removed", 3, "", <<>>)>>
trade_potion == <<If("a_potion", 0, <<Do("pop_potion", 0, "", <<>>)>> \o obtain_relic_event("common"))>>
trade_gold == <<Pay(50, obtain_relic_event("common"))>>
trade_card == remove_random_card \o obtain_relic_event("common")
pay_bandits == <<Do("lose_all_gold", 0, "", <<>>)>>

\* ---- the events ----------------------------------------------------------
Neow == EventWhen({1}, "floor0", <<neow_1hp, give_gold(100), remove_starter, neow_rare_relic>>)
BigFish == Event({1}, <<heal_pct(33), max_hp(5), big_fish_box>>)
TheWall == Event({1}, <<wall_punch, Leave>>)
GoldenIdol == Event({1, 2, 3}, <<golden_idol_take, Leave>>)
DeadAdventurer == Event({1, 2}, <<dead_adventurer_search, Leave>>)
ForgottenAltar == Event({1, 2}, <<altar_blood, altar_gold, Leave>>)
OldBeggar == Event({1, 2, 3}, <<beggar_remove, Leave>>)
UpgradeShrine == Event({1, 2, 3}, <<upgrade_random>>)
Transmogrifier == Event({1, 2, 3}, <<transform_card, Leave>>)
WorldOfGoop == Event({1}, <<damage_event(11), lose_gold(30)>>)
WeMeetAgain == Event({1, 2, 3}, <<trade_potion, trade_gold, trade_card, Leave>>)
MaskedBandits == Event({1, 2, 3}, <<pay_bandits, Leave>>)
ShiningLight == Event({1, 2, 3}, <<shining_light, Leave>>)
ScrapOoze == Event({1, 2}, <<scrap_ooze, Leave>>)
NlothsGift == EventWhen({2, 3}, "three_relics", <<nloths_trade, Leave>>)
Falling == Event({2}, <<falling_lose_card>>)
MindBloom == Event({3}, <<mind_bloom_war, mind_bloom_awake, mind_bloom_rich>>)
CouncilOfGhosts == Event({3}, <<council_ghosts, Leave>>)
CursedTome == Event({2, 3}, <<cursed_tome, Leave>>)
DrugDealer == Event({1, 2, 3}, <<drug_dealer, Leave>>)
FountainOfCurseRemoval == Event({1, 2, 3}, <<cleanse_curses>>)
GoldenWing == EventWhen({1, 2, 3}, "two_relics", <<golden_wing, Leave>>)
LivingWall == Event({3}, <<remove_random_card, max_hp(3), upgrade_random>>)
TheMoaiHead == Event({2, 3}, <<moai_head, Leave>>)
PleadingVagrant == Event({2, 3}, <<vagrant_relic, vagrant_rob, Leave>>)
Colosseum == Event({2}, <<Leave>>)
TrialOfFire == Event({2}, <<Leave, Leave>>)
Duplicator == Event({1, 2, 3}, <<duplicate_card, Leave>>)
MysteriousSphere == Event({1, 2, 3}, <<Leave, Leave>>)
WingedStatue == Event({1, 2, 3}, <<remove_random_card, winged_statue_destroy>>)

Registry ==
    [Neow |-> Neow, BigFish |-> BigFish, TheWall |-> TheWall, GoldenIdol |-> GoldenIdol,
     DeadAdventurer |-> DeadAdventurer, ForgottenAltar |-> ForgottenAltar,
     OldBeggar |-> OldBeggar, UpgradeShrine |-> UpgradeShrine,
     Transmogrifier |-> Transmogrifier, WorldOfGoop |-> WorldOfGoop,
     WeMeetAgain |-> WeMeetAgain, MaskedBandits |-> MaskedBandits,
     ShiningLight |-> ShiningLight, ScrapOoze |-> ScrapOoze, NlothsGift |-> NlothsGift,
     Falling |-> Falling, MindBloom |-> MindBloom, CouncilOfGhosts |-> CouncilOfGhosts,
     CursedTome |-> CursedTome, DrugDealer |-> DrugDealer,
     FountainOfCurseRemoval |-> FountainOfCurseRemoval, GoldenWing |-> GoldenWing,
     LivingWall |-> LivingWall, TheMoaiHead |-> TheMoaiHead,
     PleadingVagrant |-> PleadingVagrant, Colosseum |-> Colosseum,
     TrialOfFire |-> TrialOfFire, Duplicator |-> Duplicator,
     MysteriousSphere |-> MysteriousSphere, WingedStatue |-> WingedStatue]
==============================================================================
