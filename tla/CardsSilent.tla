------------------------------ MODULE CardsSilent ------------------------------
(****************************************************************************)
(* The Silent's cards: one operator for each class of cards_silent.py, in    *)
(* the terms of module Cards.                                                *)
(****************************************************************************)
EXTENDS Cards

\* ---- special, basic and common -------------------------------------------
Shiv == Exhausting(Attack(0, <<AttackOne>>))
StrikeG == Attack(1, <<AttackOne>>)
DefendG == Skill(1, <<GainBlock(5)>>)
Neutralize == Attack(0, <<AttackOne, Afflict>>)
Survivor == Skill(1, <<GainBlock(8), DiscardOne>>)
Acrobatics == Skill(1, <<Draw(3), DiscardOne>>)
Backflip == Skill(1, <<GainBlock(5), Draw(2)>>)
Bane == Attack(1, <<AttackOne>>)
BladeDance == Skill(1, <<Piles>>)
CloakAndDagger == Skill(1, <<GainBlock(6), Piles>>)
DaggerSpray == Attack(1, <<AttackAll, AttackAll>>)
DaggerThrow == Attack(1, <<AttackOne, Draw(1), DiscardOne>>)
DeadlyPoison == Skill(1, <<Tag("poison")>>)
Deflect == Skill(0, <<GainBlock(4)>>)
DodgeAndRoll == Skill(1, <<GainBlock(4), Power("NEXT_TURN_BLOCK", 4)>>)
FlyingKnee == Attack(1, <<AttackOne, Power("ENERGIZED", 1)>>)
Outmaneuver == Skill(1, <<Power("ENERGIZED", 2)>>)
PiercingWail == Spent(Skill(1, <<Afflict>>))
PoisonedStab == Attack(1, <<AttackOne, Tag("poison")>>)
Prepared == Skill(0, <<Draw(1), DiscardOne>>)
QuickSlash == Attack(1, <<AttackOne, Draw(1)>>)
Slice == Attack(0, <<AttackOne>>)
SneakyStrike == Attack(2, <<AttackOne, If("discarded", 0, <<Energy(2)>>)>>)
SuckerPunch == Attack(1, <<AttackOne, Afflict>>)

\* ---- uncommon ------------------------------------------------------------
Accuracy == PowerCard(1, <<Power("ACCURACY", 4)>>)
AllOutAttack == Attack(1, <<AttackAll, DiscardOne>>)
Backstab == Spent(Attack(0, <<AttackOne>>))
Blur == Skill(1, <<GainBlock(5), Power("BLUR", 1)>>)
BouncingFlask == Skill(2, <<Tag("poison")>>)
CalculatedGamble == Spent(Skill(0, <<EachInHand(<<DiscardOne>>), Maybe(<<Draw(1)>>)>>))
Caltrops == PowerCard(1, <<Power("THORNS", 3)>>)
Catalyst == Spent(Skill(1, <<Afflict>>))
Choke == Attack(2, <<AttackOne, Tag("choked")>>)
Concentrate == Skill(0, <<DiscardOne, DiscardOne, DiscardOne, Energy(2)>>)
CripplingCloud == Spent(Skill(2, <<Tag("poison"), Afflict>>))
Dash == Attack(2, <<GainBlock(10), AttackOne>>)
Distraction == Spent(Skill(1, <<Piles>>))
EndlessAgony == Spent(Attack(0, <<AttackOne>>))
EscapePlan == Skill(0, <<Draw(1), Maybe(<<GainBlock(3)>>)>>)
\* One cheaper for each card discarded in this turn.
Eviscerate == Attack(3, <<AttackOne>>)
Expertise == Skill(1, <<Maybe(<<Draw(1)>>)>>)
Finisher == Attack(1, <<Maybe(<<AttackOne>>)>>)
Flechettes == Attack(1, <<Maybe(<<AttackOne>>)>>)
Footwork == PowerCard(1, <<Power("DEXTERITY", 2)>>)
HeelHook == Attack(1, <<AttackOne, Maybe(<<Energy(1), Draw(1)>>)>>)
InfiniteBlades == PowerCard(1, <<Power("INFINITE_BLADES", 1)>>)
LegSweep == Skill(2, <<GainBlock(11), Afflict>>)
MasterfulStab == Attack(2, <<AttackOne>>)
NoxiousFumes == PowerCard(1, <<Power("NOXIOUS_FUMES", 2)>>)
Predator == Attack(2, <<AttackOne, Power("NEXT_TURN_DRAW", 2)>>)
Reflex == Unplayable("SKILL")
RiddleWithHoles == Attack(2, <<AttackOne>>)
Setup == Skill(1, <<Piles>>)
Skewer == Attack(-2, <<SpendX(1, <<AttackOne>>)>>)
Tactician == Unplayable("SKILL")
Terror == Spent(Skill(1, <<Afflict>>))
WellLaidPlans == PowerCard(1, <<Power("WELL_LAID_PLANS", 1)>>)

\* on_manual_discard.
OnDiscard == "Reflex" :> <<Draw(2)>> @@ "Tactician" :> <<Energy(1)>>

\* ---- rare ----------------------------------------------------------------
AThousandCuts == PowerCard(2, <<Power("THOUSAND_CUTS", 1)>>)
Adrenaline == Spent(Skill(0, <<Energy(1), Draw(2)>>))
AfterImage == PowerCard(1, <<Power("AFTER_IMAGE", 1)>>)
Alchemize == Spent(Skill(1, <<Potions(1)>>))
BulletTime == Skill(3, <<Tag("free")>>)
Burst == Skill(1, <<Power("BURST", 1)>>)
CorpseExplosion == Skill(2, <<Tag("poison"), Tag("corpse")>>)
DieDieDie == Spent(Attack(1, <<AttackAll>>))
Doppelganger == Spent(Skill(-2, <<SpendX(99, <<Power("NEXT_TURN_DRAW", 1), Power("ENERGIZED", 1)>>)>>))
Envenom == PowerCard(2, <<Power("ENVENOM", 1)>>)
GlassKnife == Attack(1, <<AttackOne>>)
\* Grand Finale needs an empty draw pile, which the state does not tell.
GrandFinale == Attack(0, <<AttackAll>>)
Malaise == Spent(Skill(-2, <<SpendX(1, <<Afflict>>)>>))
Nightmare == Spent(Skill(3, <<Piles>>))
PhantasmalKiller == Skill(1, <<Power("PHANTASMAL", 1)>>)
StormOfSteel == Skill(1, <<EachInHand(<<DiscardOne>>), Piles>>)
ToolsOfTheTrade == PowerCard(1, <<Power("TOOLS_OF_THE_TRADE", 1)>>)
Unload == Attack(1, <<AttackOne, EachInHand(<<DiscardOne>>)>>)
WraithForm == PowerCard(3, <<Power("INTANGIBLE", 2), Power("WRAITH_FORM", 1)>>)

SILENT_CARD_CLASSES ==
    [StrikeG |-> StrikeG, DefendG |-> DefendG, Neutralize |-> Neutralize, Survivor |-> Survivor,
     Shiv |-> Shiv, Acrobatics |-> Acrobatics, Backflip |-> Backflip, Bane |-> Bane,
     BladeDance |-> BladeDance, CloakAndDagger |-> CloakAndDagger, DaggerSpray |-> DaggerSpray,
     DaggerThrow |-> DaggerThrow, DeadlyPoison |-> DeadlyPoison, Deflect |-> Deflect,
     DodgeAndRoll |-> DodgeAndRoll, FlyingKnee |-> FlyingKnee, Outmaneuver |-> Outmaneuver,
     PiercingWail |-> PiercingWail, PoisonedStab |-> PoisonedStab, Prepared |-> Prepared,
     QuickSlash |-> QuickSlash, Slice |-> Slice, SneakyStrike |-> SneakyStrike,
     SuckerPunch |-> SuckerPunch, Accuracy |-> Accuracy, AllOutAttack |-> AllOutAttack,
     Backstab |-> Backstab, Blur |-> Blur, BouncingFlask |-> BouncingFlask,
     CalculatedGamble |-> CalculatedGamble, Caltrops |-> Caltrops, Catalyst |-> Catalyst,
     Choke |-> Choke, Concentrate |-> Concentrate, CripplingCloud |-> CripplingCloud,
     Dash |-> Dash, Distraction |-> Distraction, EndlessAgony |-> EndlessAgony,
     EscapePlan |-> EscapePlan, Eviscerate |-> Eviscerate, Expertise |-> Expertise,
     Finisher |-> Finisher, Flechettes |-> Flechettes, Footwork |-> Footwork,
     HeelHook |-> HeelHook, InfiniteBlades |-> InfiniteBlades, LegSweep |-> LegSweep,
     MasterfulStab |-> MasterfulStab, NoxiousFumes |-> NoxiousFumes, Predator |-> Predator,
     Reflex |-> Reflex, RiddleWithHoles |-> RiddleWithHoles, Setup |-> Setup, Skewer |-> Skewer,
     Tactician |-> Tactician, Terror |-> Terror, WellLaidPlans |-> WellLaidPlans,
     AThousandCuts |-> AThousandCuts, Adrenaline |-> Adrenaline, AfterImage |-> AfterImage,
     Alchemize |-> Alchemize, BulletTime |-> BulletTime, Burst |-> Burst,
     CorpseExplosion |-> CorpseExplosion, DieDieDie |-> DieDieDie, Doppelganger |-> Doppelganger,
     Envenom |-> Envenom, GlassKnife |-> GlassKnife, GrandFinale |-> GrandFinale,
     Malaise |-> Malaise, Nightmare |-> Nightmare, PhantasmalKiller |-> PhantasmalKiller,
     StormOfSteel |-> StormOfSteel, ToolsOfTheTrade |-> ToolsOfTheTrade, Unload |-> Unload,
     WraithForm |-> WraithForm]
================================================================================
