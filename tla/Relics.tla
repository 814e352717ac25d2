-------------------------------- MODULE Relics --------------------------------
(****************************************************************************)
(* The relic catalogue: one operator for each class of relics.py and         *)
(* relics_full.py.  pickup is what on_pickup does, once; flags are the       *)
(* player flags register() raises; hears maps the events register()          *)
(* subscribes to to what the handler does; fresh says that register() resets *)
(* the relic's own counter or mark.  register() runs when the relic is       *)
(* obtained and again at the start of every combat.                          *)
(****************************************************************************)
EXTENDS Effects

\* ---- relics.py -----------------------------------------------------------
BurningBlood == Hears(On("COMBAT_END", <<Heal(6)>>))
RingOfTheSnake == Hears(On("COMBAT_START", <<Draw(2)>>))
Akabeko == Hears(On("COMBAT_START", <<Power("VIGOR", 8)>>))
Anchor == Hears(On("COMBAT_START", <<Block(10)>>))
AncientTeaSet ==
    Hears(   On("REST_SITE_ENTER", <<Mark>>)
          @@ On("COMBAT_START", <<IfMarked(<<Unmark, Power("ENERGIZED", 2)>>)>>))
\* The mark says that an attack was played since the last TURN_END.
ArtOfWar ==
    HearsAfresh(   On("ATTACK_PLAY", <<Mark>>)
                @@ On("TURN_END", <<Unless(<<Power("ENERGIZED", 1)>>), Unmark>>))
BagOfPreparation == Hears(On("COMBAT_START", <<Draw(2)>>))
BronzeScales == Hears(On("COMBAT_START", <<Power("THORNS", 3)>>))
NunchakuRelic == Hears(OnArg("CARD_PLAY", {"ATTACK"}, <<Every(10, <<Energy(1)>>)>>))
OddlySmoothStone == Hears(On("COMBAT_START", <<Power("DEXTERITY", 1)>>))
PenNib == Hears(OnArg("CARD_PLAY", {"ATTACK"}, <<Every(10, <<Flag("pen_nib_ready")>>)>>))
Vajra == Hears(On("COMBAT_START", <<Power("STRENGTH", 1)>>))
IceCream == Raises("ice_cream")
MeatOnTheBone == Hears(On("COMBAT_END", <<If("bloodied", 0, <<Heal(12)>>)>>))
\* Bug: the attacks of the turn before count too.
Shuriken_NoRestart ==
    HearsAfresh(OnArg("CARD_PLAY", {"ATTACK"}, <<Every(3, <<Power("STRENGTH", 1)>>)>>))
Shuriken ==
    HearsAfresh(   On("TURN_START", <<Restart>>)
                @@ OnArg("CARD_PLAY", {"ATTACK"}, <<Every(3, <<Power("STRENGTH", 1)>>)>>))
Sundial == Hears(On("SHUFFLE", <<Every(3, <<Energy(2)>>)>>))
DeadBranch == Hears(On("CARD_EXHAUST", <<Piles>>))
LizardTail == Hears(On("DEATH_WOULD_OCCUR", <<Once(<<Do("revive", 50, "", <<>>)>>)>>))
MarkOfPain ==
    [Hears(On("COMBAT_START", <<Piles>>)) EXCEPT !.pickup = <<EnergyPerTurn>>]
RunicDome == [Raises("runic_dome") EXCEPT !.pickup = <<EnergyPerTurn>>]
SneckoEye == Hears(On("COMBAT_START", <<Draw(2), Do("set_power", 1, "CONFUSED", <<>>)>>))
BlackBlood == Hears(On("COMBAT_END", <<Heal(12)>>))

\* ---- relics_full.py: common ----------------------------------------------
BagOfMarbles == Hears(On("COMBAT_START", <<Afflict>>))
BloodVial == Hears(On("COMBAT_START", <<Heal(2)>>))
CentennialPuzzle ==
    HearsAfresh(On("DAMAGE_TAKEN", <<If("combat", 0, <<Once(<<Draw(3)>>)>>)>>))
CeramicFish == Hears(On("CARD_ADDED", <<Gold(9)>>))
DreamCatcher == Hears(On("REST_SITE_ENTER", <<Do("offer", 0, "", <<>>)>>))
HappyFlower == Hears(On("TURN_START", <<Every(3, <<Energy(1)>>)>>))
JuzuBracelet == Inert
Lantern == Hears(On("COMBAT_START", <<Power("ENERGIZED", 1)>>))
MawBank == Raises("maw_bank")
MealTicket == Raises("meal_ticket")
Omamori == Hears(OnArg("CARD_ADDED", {"CURSE"}, <<Do("ward", 2, "", <<>>)>>))
Orichalcum == Hears(On("TURN_END", <<If("bare", 0, <<Block(6)>>)>>))
PaperKrane == Raises("paper_krane")
PaperPhrog == Raises("paper_phrog")
PreservedInsect == Hears(On("COMBAT_START", <<Afflict>>))
RegalPillow == Inert
SmilingMask == Raises("smiling_mask")
SneckoSkull == Raises("snecko_skull")
Strawberry == Gives(<<MaxHp(7)>>)
TinyChest == Hears(On("COMBAT_END", <<Every(4, <<Do("treasure", 0, "", <<>>)>>)>>))

\* ---- relics_full.py: uncommon --------------------------------------------
\* Only an unplayable curse is handled here; the model's curses all are.
BlueCandle ==
    [Hears(OnArg("CARD_PLAY", {"CURSE"}, <<HpLoss(1), Exhaust>>))
        EXCEPT !.flags = {"blue_candle"}]
BottledFlame == Gives(<<Do("bottle", 0, "", <<>>)>>)
DarkstonePeriapt == Hears(OnArg("CARD_ADDED", {"CURSE"}, <<MaxHp(6)>>))
EternalFeather == Hears(On("REST_SITE_ENTER", <<Do("feather", 3, "", <<>>)>>))
FrozenEgg == Raises("frozen_egg")
GamblingChip == Raises("gambling_chip")
Ginger == Raises("immune_weak")
GoldenBell == Hears(On("COMBAT_END", <<Gold(25)>>))
GremlinHorn == Hears(On("ENEMY_DEATH", <<Energy(1), Draw(1)>>))
HandDrill == Hears(On("CARD_EXHAUST", <<Afflict>>))
IncensesBurner == Hears(On("TURN_START", <<Every(6, <<Power("INTANGIBLE", 1)>>)>>))
LetterOpener ==
    HearsAfresh(   On("TURN_START", <<Restart>>)
                @@ On("SKILL_PLAY", <<Every(3, <<HitAll>>)>>))
MercuryHourglass == Hears(On("TURN_START", <<HitAll>>))
MoltenEgg == Raises("molten_egg")
MummifiedHand == Hears(OnArg("CARD_PLAY", {"POWER"}, <<Piles>>))
OrangelPellets ==
    HearsAfresh(   On("TURN_START", <<Restart>>)
                @@ "CARD_PLAY" :> [arg |-> Anything, do |-> <<Do("pellets", 0, "", <<>>)>>])
Pantograph == Hears(On("BOSS_DEFEATED", <<Mend(25)>>))
Pear == Gives(<<MaxHp(10)>>)
StrikeDummy == Raises("strike_dummy")
ToxicEgg == Raises("toxic_egg")
WhiteBeastStatue == Raises("potion_always")

\* ---- relics_full.py: rare ------------------------------------------------
Astrolabe == Gives(<<Transform, Transform, Transform>>)
BlackStar == Gives(<<Flag("black_star")>>)
BustedCrown == Gives(<<EnergyPerTurn, Flag("busted_crown")>>)
Calipers == Raises("calipers")
CrystalBall == Raises("crystal_ball")
DuVuDoll == Hears(On("COMBAT_START", <<Do("curse_strength", 0, "", <<>>)>>))
EmptyCage == Gives(<<RemoveRandom, RemoveRandom>>)
FossilizedHelix == Hears(On("COMBAT_START", <<Flag("helix_ready")>>))
HoveringKite ==
    HearsAfresh(   On("TURN_START", <<Unmark>>)
                @@ On("CARD_DISCARD", <<Once(<<Energy(1)>>)>>))
LeesWaffle == Gives(<<MaxHp(7), FullHeal>>)
MagicFlower == Raises("magic_flower")
Mango == Gives(<<MaxHp(14)>>)
OldCoin == Gives(<<Gold(300)>>)
PeacePipe == Raises("peace_pipe")
Pocketwatch == Hears(On("TURN_END", <<If("idle", 3, <<Power("NEXT_TURN_DRAW", 3)>>)>>))
PrayerWheel == Raises("prayer_wheel")
RunicCube == Hears(On("DAMAGE_TAKEN", <<If("combat", 0, <<Draw(1)>>)>>))
SacredBark == Inert
SelfFormingClay == Hears(On("DAMAGE_TAKEN", <<Power("NEXT_TURN_BLOCK", 3)>>))
SlaverCollar == Hears(On("TURN_START", <<If("big_foe", 0, <<Energy(1)>>)>>))
Sozu == Gives(<<EnergyPerTurn, Flag("no_potions")>>)
TheAbacus == Hears(On("SHUFFLE", <<Block(6)>>))
TheBoot == Raises("the_boot")
TinghSha == Hears(On("CARD_DISCARD", <<HitAll>>))
Torii == Raises("torii")
ToughBandages == Hears(On("CARD_DISCARD", <<Block(3)>>))
ToyOrnithopter == Hears(On("POTION_USED", <<Mend(5)>>))
TungstenRod == Raises("tungsten_rod")
Turnip == Raises("immune_frail")
UnceasingTop == Hears(On("CARD_PLAY", <<If("empty_hand", 0, <<Draw(1)>>)>>))
VelvetChoker == Gives(<<EnergyPerTurn, Flag("velvet_choker")>>)

\* ---- relics_full.py: shop ------------------------------------------------
Cauldron == Gives(<<Potions(5)>>)
ChemicalX == Raises("chemical_x")
ClockworkSouvenir == Hears(On("COMBAT_START", <<Power("ARTIFACT", 1)>>))
DollysMirror == Gives(<<Do("mirror", 0, "", <<>>)>>)
FrozenEye == Raises("frozen_eye")
MembershipCard == Inert
TinyHouse ==
    Gives(<<Gold(50), MaxHp(5), Do("loot_card", 0, "", <<>>), Potions(1), Upgrade>>)

\* ---- relics_full.py: boss ------------------------------------------------
Brimstone == Hears(On("TURN_START", <<Power("STRENGTH", 2), Afflict>>))
CallingBell ==
    Gives(<<RandomRelic("common"), RandomRelic("uncommon"), RandomRelic("rare"), AddCard("Curse")>>)
CoffeeDripper == Gives(<<EnergyPerTurn, Flag("no_rest_heal")>>)
CursedKey ==
    [Hears(OnArg("RELIC_OBTAINED", {"chest"}, <<AddCard("Curse")>>)) EXCEPT !.pickup = <<EnergyPerTurn>>]
Ectoplasm == Gives(<<EnergyPerTurn, Flag("no_gold")>>)
FusionHammer == Gives(<<EnergyPerTurn, Flag("no_smith")>>)
PandorasBox == Gives(<<Do("pandora", 0, "", <<>>)>>)
PhilosophersStone ==
    [Hears(On("COMBAT_START", <<Afflict>>)) EXCEPT !.pickup = <<EnergyPerTurn>>]
RunicPyramid == Raises("runic_pyramid")

\* ---- the registry and the pools ------------------------------------------
Catalogue ==
    [BurningBlood |-> BurningBlood, RingOfTheSnake |-> RingOfTheSnake, Akabeko |-> Akabeko,
     Anchor |-> Anchor, AncientTeaSet |-> AncientTeaSet, ArtOfWar |-> ArtOfWar,
     BagOfPreparation |-> BagOfPreparation, BronzeScales |-> BronzeScales,
     NunchakuRelic |-> NunchakuRelic, OddlySmoothStone |-> OddlySmoothStone, PenNib |-> PenNib,
     Vajra |-> Vajra, IceCream |-> IceCream, MeatOnTheBone |-> MeatOnTheBone,
     Shuriken |-> Shuriken, Sundial |-> Sundial, DeadBranch |-> DeadBranch,
     LizardTail |-> LizardTail, MarkOfPain |-> MarkOfPain, RunicDome |-> RunicDome,
     SneckoEye |-> SneckoEye, BlackBlood |-> BlackBlood, BagOfMarbles |-> BagOfMarbles,
     BloodVial |-> BloodVial, CentennialPuzzle |-> CentennialPuzzle,
     CeramicFish |-> CeramicFish, DreamCatcher |-> DreamCatcher, HappyFlower |-> HappyFlower,
     JuzuBracelet |-> JuzuBracelet, Lantern |-> Lantern, MawBank |-> MawBank,
     MealTicket |-> MealTicket, Omamori |-> Omamori, Orichalcum |-> Orichalcum,
     PaperKrane |-> PaperKrane, PaperPhrog |-> PaperPhrog, PreservedInsect |-> PreservedInsect,
     RegalPillow |-> RegalPillow, SmilingMask |-> SmilingMask, SneckoSkull |-> SneckoSkull,
     Strawberry |-> Strawberry, TinyChest |-> TinyChest, BlueCandle |-> BlueCandle,
     BottledFlame |-> BottledFlame, DarkstonePeriapt |-> DarkstonePeriapt,
     EternalFeather |-> EternalFeather, FrozenEgg |-> FrozenEgg, GamblingChip |-> GamblingChip,
     Ginger |-> Ginger, GoldenBell |-> GoldenBell, GremlinHorn |-> GremlinHorn,
     HandDrill |-> HandDrill, IncensesBurner |-> IncensesBurner, LetterOpener |-> LetterOpener,
     MercuryHourglass |-> MercuryHourglass, MoltenEgg |-> MoltenEgg,
     MummifiedHand |-> MummifiedHand, OrangelPellets |-> OrangelPellets,
     Pantograph |-> Pantograph, Pear |-> Pear, StrikeDummy |-> StrikeDummy,
     ToxicEgg |-> ToxicEgg, WhiteBeastStatue |-> WhiteBeastStatue, Astrolabe |-> Astrolabe,
     BlackStar |-> BlackStar, BustedCrown |-> BustedCrown, Calipers |-> Calipers,
     CrystalBall |-> CrystalBall, DuVuDoll |-> DuVuDoll, EmptyCage |-> EmptyCage,
     FossilizedHelix |-> FossilizedHelix, HoveringKite |-> HoveringKite,
     LeesWaffle |-> LeesWaffle, MagicFlower |-> MagicFlower, Mango |-> Mango,
     OldCoin |-> OldCoin, PeacePipe |-> PeacePipe, Pocketwatch |-> Pocketwatch,
     PrayerWheel |-> PrayerWheel, RunicCube |-> RunicCube, SacredBark |-> SacredBark,
     SelfFormingClay |-> SelfFormingClay, SlaverCollar |-> SlaverCollar, Sozu |-> Sozu,
     TheAbacus |-> TheAbacus, TheBoot |-> TheBoot, TinghSha |-> TinghSha, Torii |-> Torii,
     ToughBandages |-> ToughBandages, ToyOrnithopter |-> ToyOrnithopter,
     TungstenRod |-> TungstenRod, Turnip |-> Turnip, UnceasingTop |-> UnceasingTop,
     VelvetChoker |-> VelvetChoker, Cauldron |-> Cauldron, ChemicalX |-> ChemicalX,
     ClockworkSouvenir |-> ClockworkSouvenir, DollysMirror |-> DollysMirror,
     FrozenEye |-> FrozenEye, MembershipCard |-> MembershipCard, TinyHouse |-> TinyHouse,
     Brimstone |-> Brimstone, CallingBell |-> CallingBell, CoffeeDripper |-> CoffeeDripper,
     CursedKey |-> CursedKey, Ectoplasm |-> Ectoplasm, FusionHammer |-> FusionHammer,
     PandorasBox |-> PandorasBox, PhilosophersStone |-> PhilosophersStone,
     RunicPyramid |-> RunicPyramid]

CommonRelics ==
    {"BagOfMarbles", "BloodVial", "CentennialPuzzle", "CeramicFish", "DreamCatcher",
     "HappyFlower", "JuzuBracelet", "Lantern", "MawBank", "MealTicket", "Omamori", "Orichalcum",
     "PaperKrane", "PaperPhrog", "PreservedInsect", "RegalPillow", "SmilingMask", "SneckoSkull",
     "Strawberry", "TinyChest"}
UncommonRelics ==
    {"BlueCandle", "BottledFlame", "DarkstonePeriapt", "EternalFeather", "FrozenEgg",
     "GamblingChip", "Ginger", "GoldenBell", "GremlinHorn", "HandDrill", "IncensesBurner",
     "LetterOpener", "MercuryHourglass", "MoltenEgg", "MummifiedHand", "OrangelPellets",
     "Pantograph", "Pear", "StrikeDummy", "ToxicEgg", "WhiteBeastStatue"}
RareRelics ==
    {"Astrolabe", "BlackStar", "Calipers", "CrystalBall", "DuVuDoll", "FossilizedHelix",
     "HoveringKite", "LeesWaffle", "MagicFlower", "Mango", "OldCoin", "PeacePipe",
     "Pocketwatch", "PrayerWheel", "RunicCube", "SelfFormingClay", "SlaverCollar", "TheAbacus",
     "TheBoot", "TinghSha", "Torii", "ToughBandages", "ToyOrnithopter", "TungstenRod", "Turnip",
     "UnceasingTop"}
ShopRelics ==
    {"HandDrill", "Cauldron", "ChemicalX", "ClockworkSouvenir", "DollysMirror", "FrozenEye",
     "MembershipCard", "TinyHouse"}
\* The boss pool of an act transition, which drops Black Blood.
BossRelics ==
    {"MarkOfPain", "RunicDome", "Brimstone", "BustedCrown", "CallingBell", "CoffeeDripper",
     "CursedKey", "Ectoplasm", "EmptyCage", "FusionHammer", "PandorasBox", "PhilosophersStone",
     "RunicPyramid", "SacredBark", "SlaverCollar", "SneckoEye", "Sozu", "VelvetChoker"}

\* _RARITY_POOLS: a rarity without a pool of its own falls back to common.
RarityPool(rarity) ==
    CASE rarity = "uncommon" -> UncommonRelics
      [] rarity = "rare" -> RareRelics
      [] rarity = "shop" -> ShopRelics
      [] OTHER -> CommonRelics

IroncladOnly == {"PaperPhrog", "Brimstone", "BlackBlood", "MarkOfPain", "MagicFlower", "SelfFormingClay"}
SilentOnly == {"PaperKrane", "SneckoSkull", "ToughBandages", "TinghSha", "HoveringKite", "RingOfTheSnake"}
relic_allowed(r, character) ==
    r \notin (IF character = "silent" THEN IroncladOnly ELSE SilentOnly)
==============================================================================
