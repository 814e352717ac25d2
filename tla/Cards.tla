--------------------------------- MODULE Cards ---------------------------------
(****************************************************************************)
(* The Ironclad's cards, statuses and curses: one operator for each class of *)
(* cards.py, with the type, the base cost (-1 unplayable, -2 all the energy) *)
(* and what play() does.  An upgrade changes amounts and costs only.  What a *)
(* card does to enemies and to the piles is Afflict, Tag and Piles here.     *)
(****************************************************************************)
EXTENDS Effects

Card(type, cost, does) ==
    [type |-> type, cost |-> cost, does |-> does, exhaust |-> FALSE, spent |-> FALSE]
Attack(cost, does) == Card("ATTACK", cost, does)
Skill(cost, does) == Card("SKILL", cost, does)
PowerCard(cost, does) == Card("POWER", cost, does)
Unplayable(type) == Card(type, -1, <<>>)

\* card.exhaust: play_card exhausts the card unless play() has done so itself.
Exhausting(card) == [card EXCEPT !.exhaust = TRUE]
Spent(card) == [card EXCEPT !.exhaust = TRUE, !.spent = TRUE, !.does = @ \o <<Exhaust>>]

\* ---- statuses and curses -------------------------------------------------
Burn == Unplayable("STATUS")
Dazed == Unplayable("STATUS")
Slimed == Spent(Card("STATUS", 1, <<>>))
Wound == Unplayable("STATUS")
VoidCard == Unplayable("STATUS")
Apparition == Exhausting(Skill(1, <<Power("INTANGIBLE", 1)>>))
Clumsy == Unplayable("CURSE")
Decay == Unplayable("CURSE")
Doubt == Unplayable("CURSE")
Injury == Unplayable("CURSE")
Normality == Unplayable("CURSE")
Pain == Unplayable("CURSE")
Parasite == Unplayable("CURSE")
Pride == Spent(Card("CURSE", 1, <<>>))
Regret == Unplayable("CURSE")
Shame == Unplayable("CURSE")
Writhe == Unplayable("CURSE")
AscendersBane == Unplayable("CURSE")

\* end_of_turn_effect of a card that is still in hand.
EndOfTurn ==
       "Burn" :> <<Damaged(2)>> @@ "Decay" :> <<Damaged(2)>>
    @@ "Doubt" :> <<Debuff("WEAK", 1)>> @@ "Shame" :> <<Debuff("FRAIL", 1)>>
    @@ "Pride" :> <<Piles>> @@ "Regret" :> <<Do("regret", 0, "", <<>>)>>

\* card.ethereal: exhausted if it is in hand at the end of a turn.
Ethereal == {"Dazed", "VoidCard", "Apparition", "Clumsy", "AscendersBane", "Carnage", "GhostlyArmor"}

\* ---- basic and common ----------------------------------------------------
Strike == Attack(1, <<AttackOne>>)
Defend == Skill(1, <<GainBlock(5)>>)
Bash == Attack(2, <<AttackOne, Afflict>>)
Anger == Attack(0, <<AttackOne, Piles>>)
Armaments == Skill(1, <<GainBlock(5), Piles>>)
BodySlam == Attack(1, <<AttackOne>>)
\* Clash needs a hand of attacks only, which the state does not tell.
Clash == Attack(0, <<AttackOne>>)
Cleave == Attack(1, <<AttackAll>>)
Clothesline == Attack(2, <<AttackOne, Afflict>>)
Flex == Skill(0, <<Power("STRENGTH", 2), Power("FLEX", 2)>>)
Havoc == Skill(1, <<Do("havoc", 0, "", <<>>)>>)
Headbutt == Attack(1, <<AttackOne, Piles>>)
HeavyBlade == Attack(2, <<AttackOne>>)
IronWave == Attack(1, <<GainBlock(5), AttackOne>>)
PerfectedStrike == Attack(2, <<AttackOne>>)
PommelStrike == Attack(1, <<AttackOne, Draw(1)>>)
ShrugItOff == Skill(1, <<GainBlock(8), Draw(1)>>)
SwordBoomerang == Attack(1, <<AttackOne, AttackOne, AttackOne>>)
Thunderclap == Attack(1, <<AttackAll, Afflict>>)
TrueGrit == Skill(1, <<GainBlock(7), ExhaustOne>>)
TwinStrike == Attack(1, <<AttackOne>>)
Warcry == Spent(Skill(0, <<Draw(1), Piles>>))
WildStrike == Attack(1, <<AttackOne, Piles>>)

\* ---- uncommon ------------------------------------------------------------
BattleTrance == Skill(0, <<Draw(3), Debuff("NO_DRAW", 1)>>)
BloodForBlood == Attack(4, <<AttackOne>>)
Bloodletting == Skill(0, <<HpLoss(3), Energy(2)>>)
BurningPact == Skill(1, <<ExhaustOne, Draw(2)>>)
Carnage == Attack(2, <<AttackOne>>)
Combust == PowerCard(1, <<Power("COMBUST", 5), Power("_combust_plays", 1)>>)
DarkEmbrace == PowerCard(2, <<Power("DARK_EMBRACE", 1)>>)
Disarm == Spent(Skill(1, <<Afflict>>))
Dropkick == Attack(1, <<AttackOne, Maybe(<<Energy(1), Draw(1)>>)>>)
DualWield == Skill(1, <<Piles>>)
Entrench == Skill(2, <<DoubleBlock>>)
Evolve == PowerCard(1, <<Power("EVOLVE", 1)>>)
FeelNoPain == PowerCard(1, <<Power("FEEL_NO_PAIN", 3)>>)
FireBreathing == PowerCard(1, <<Power("FIRE_BREATHING", 6)>>)
FlameBarrier == Skill(2, <<GainBlock(8), Power("FLAME_BARRIER", 4)>>)
GhostlyArmor == Skill(1, <<GainBlock(10)>>)
Hemokinesis == Attack(1, <<HpLoss(2), AttackOne>>)
InfernalBlade == Spent(Skill(1, <<Piles>>))
Inflame == PowerCard(1, <<Power("STRENGTH", 2)>>)
Intimidate == Spent(Skill(0, <<Afflict>>))
Metallicize == PowerCard(1, <<Power("METALLICIZE", 3)>>)
PowerThrough == Skill(1, <<GainBlock(15), Piles>>)
Pummel == Spent(Attack(1, <<AttackOne>>))
Rage == Skill(0, <<Power("RAGE", 3)>>)
Rampage == Attack(1, <<AttackOne>>)
RecklessCharge == Attack(0, <<AttackOne, Piles>>)
Rupture == PowerCard(1, <<Power("RUPTURE", 1)>>)
SearingBlow == Attack(2, <<AttackOne>>)
SecondWind == Skill(1, <<EachInHand(<<ExhaustOne, GainBlock(5)>>)>>)
SeeingRed == Spent(Skill(1, <<Energy(2)>>))
Sentinel == Skill(1, <<GainBlock(5)>>)
SeverSoul == Attack(2, <<EachInHand(<<ExhaustOne>>), AttackOne>>)
Shockwave == Spent(Skill(2, <<Afflict>>))
SpotWeakness == Skill(1, <<Maybe(<<Power("STRENGTH", 3)>>)>>)
Uppercut == Attack(2, <<AttackOne, Afflict>>)
Whirlwind == Attack(-2, <<SpendX(99, <<AttackAll>>)>>)

\* ---- rare ----------------------------------------------------------------
Barricade == PowerCard(2, <<Flag("barricade")>>)
Berserk == PowerCard(0, <<Debuff("VULNERABLE", 2), Flag("berserk")>>)
Bludgeon == Attack(3, <<AttackOne>>)
Brutality == PowerCard(0, <<Flag("brutality")>>)
Corruption == PowerCard(3, <<Flag("corruption")>>)
DemonForm == PowerCard(3, <<Power("DEMON_FORM", 2)>>)
DoubleTap == Skill(1, <<Power("DOUBLE_TAP", 1)>>)
Exhume == Spent(Skill(1, <<Piles>>))
Feed == Spent(Attack(1, <<AttackFor(<<MaxHp(3)>>)>>))
FiendFire == Spent(Attack(2, <<EachInHand(<<ExhaustOne, AttackOne>>)>>))
Immolate == Attack(2, <<AttackAll, Piles>>)
Impervious == Spent(Skill(2, <<GainBlock(30)>>))
Juggernaut == PowerCard(2, <<Power("JUGGERNAUT", 5)>>)
LimitBreak == Spent(Skill(1, <<DoublePower("STRENGTH")>>))
Offering == Spent(Skill(0, <<HpLoss(6), Energy(2), Draw(3)>>))
\* The HP a Reaper gives back are those it took: none, or an enemy's worth.
Reaper == Spent(Attack(2, <<AttackAll, Maybe(<<Heal(4)>>)>>))

IRONCLAD_CARD_CLASSES ==
    [Strike |-> Strike, Defend |-> Defend, Bash |-> Bash, AscendersBane |-> AscendersBane,
     Burn |-> Burn, Dazed |-> Dazed, Slimed |-> Slimed, Wound |-> Wound, VoidCard |-> VoidCard,
     Apparition |-> Apparition, Clumsy |-> Clumsy, Decay |-> Decay, Doubt |-> Doubt,
     Injury |-> Injury, Normality |-> Normality, Pain |-> Pain, Parasite |-> Parasite,
     Pride |-> Pride, Regret |-> Regret, Shame |-> Shame, Writhe |-> Writhe, Anger |-> Anger,
     Armaments |-> Armaments, BodySlam |-> BodySlam, Clash |-> Clash, Cleave |-> Cleave,
     Clothesline |-> Clothesline, Flex |-> Flex, Havoc |-> Havoc, Headbutt |-> Headbutt,
     HeavyBlade |-> HeavyBlade, IronWave |-> IronWave, PerfectedStrike |-> PerfectedStrike,
     PommelStrike |-> PommelStrike, ShrugItOff |-> ShrugItOff, SwordBoomerang |-> SwordBoomerang,
     Thunderclap |-> Thunderclap, TrueGrit |-> TrueGrit, TwinStrike |-> TwinStrike,
     Warcry |-> Warcry, WildStrike |-> WildStrike, BattleTrance |-> BattleTrance,
     BloodForBlood |-> BloodForBlood, Bloodletting |-> Bloodletting, BurningPact |-> BurningPact,
     Carnage |-> Carnage, Combust |-> Combust, DarkEmbrace |-> DarkEmbrace, Disarm |-> Disarm,
     Dropkick |-> Dropkick, DualWield |-> DualWield, Entrench |-> Entrench, Evolve |-> Evolve,
     FeelNoPain |-> FeelNoPain, FireBreathing |-> FireBreathing, FlameBarrier |-> FlameBarrier,
     GhostlyArmor |-> GhostlyArmor, Hemokinesis |-> Hemokinesis, InfernalBlade |-> InfernalBlade,
     Inflame |-> Inflame, Intimidate |-> Intimidate, Metallicize |-> Metallicize,
     PowerThrough |-> PowerThrough, Pummel |-> Pummel, Rage |-> Rage, Rampage |-> Rampage,
     RecklessCharge |-> RecklessCharge, Rupture |-> Rupture, SearingBlow |-> SearingBlow,
     SecondWind |-> SecondWind, SeeingRed |-> SeeingRed, Sentinel |-> Sentinel,
     SeverSoul |-> SeverSoul, Shockwave |-> Shockwave, SpotWeakness |-> SpotWeakness,
     Uppercut |-> Uppercut, Whirlwind |-> Whirlwind, Barricade |-> Barricade, Berserk |-> Berserk,
     Bludgeon |-> Bludgeon, Brutality |-> Brutality, Corruption |-> Corruption,
     DemonForm |-> DemonForm, DoubleTap |-> DoubleTap, Exhume |-> Exhume, Feed |-> Feed,
     FiendFire |-> FiendFire, Immolate |-> Immolate, Impervious |-> Impervious,
     Juggernaut |-> Juggernaut, LimitBreak |-> LimitBreak, Offering |-> Offering, Reaper |-> Reaper]
================================================================================
