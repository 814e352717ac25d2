------------------------------- MODULE MCJourney -------------------------------
(****************************************************************************)
(* Journey for TLC: many short runs, each of a monster and the boss of an    *)
(* act unless it says otherwise.  Every relic is owned, every card played    *)
(* and every event met in a run of its own; the other runs bring together    *)
(* those that touch the same state, and the rooms, the ways to die and to    *)
(* be saved, the maps, and a second act.                                     *)
(****************************************************************************)
EXTENDS JourneyTables

Deck(n, curses) ==
    [k \in CardKinds |-> CASE k \in {"Strike", "Defend"} -> n [] k = "Attack" -> 1 [] k = "Curse" -> curses [] OTHER -> 0]

Base ==
    [driver |-> "run_loop", routing |-> FALSE, acts |-> <<1>>, character |-> "ironclad",
     gifts |-> <<>>, potions |-> <<"Potion", "Potion">>, hp |-> 60, deck |-> Deck(1, 0),
     cols |-> {3}, active |-> 1, floors |-> 1, rooms |-> {"MONSTER"}, events |-> {"MysteriousSphere"},
     anyChoice |-> FALSE, loot |-> {"PaperPhrog", "Ginger", "TheBoot"}, drops |-> {"Potion"}, offers |-> {},
     cards |-> {"Strike"}, burdens |-> {}, hand |-> 1, plays |-> 1, foes |-> 1, hits |-> {6}, thorns |-> 0,
     debuffs |-> {}, shuffles |-> FALSE, turns |-> 2]

\* Every relic and every card alone.
EachRelic == {[Base EXCEPT !.gifts = <<r>>, !.offers = {"Attack"}, !.turns = 1] : r \in DOMAIN Catalogue}
EachCard == {[Base EXCEPT !.cards = {c}, !.turns = 1] : c \in DOMAIN Book}

\* Relics that touch the same state.
Powers ==
    [Base EXCEPT !.gifts = <<"Akabeko", "Anchor", "BronzeScales", "OddlySmoothStone", "Vajra", "DuVuDoll",
                             "ClockworkSouvenir", "SneckoEye", "Lantern", "Shuriken">>,
                 !.deck = Deck(1, 2), !.cards = {"Slice"}, !.plays = 3]
Counting ==
    [Base EXCEPT !.gifts = <<"PenNib", "NunchakuRelic", "Shuriken", "LetterOpener">>,
                 !.cards = {"Slice"}, !.plays = 4, !.turns = 3, !.hits = {}]
Turns ==
    [Base EXCEPT !.gifts = <<"HappyFlower", "IncensesBurner", "ArtOfWar", "Pocketwatch", "Orichalcum", "Brimstone",
                             "MercuryHourglass">>, !.turns = 4, !.hits = {6}]
Piling ==
    [Base EXCEPT !.gifts = <<"Sundial", "TheAbacus", "RunicCube", "CentennialPuzzle", "SelfFormingClay">>,
                 !.shuffles = TRUE, !.turns = 2, !.cards = {"ShrugItOff"}]
Discarding ==
    [Base EXCEPT !.character = "silent", !.gifts = <<"GamblingChip", "TinghSha", "ToughBandages", "HoveringKite">>,
                 !.cards = {"Survivor", "Tactician", "SneakyStrike"}]
Exhaustion ==
    [Base EXCEPT !.gifts = <<"DeadBranch", "HandDrill">>, !.cards = {"Corruption", "Sentinel", "FeelNoPain", "DarkEmbrace"},
                 !.plays = 3]
Triples ==
    [Base EXCEPT !.gifts = <<"OrangelPellets", "MummifiedHand", "UnceasingTop">>, !.debuffs = {"WEAK"}, !.hits = {},
                 !.cards = {"Anger", "Deflect", "Berserk"}, !.plays = 3, !.turns = 1]
EnergyRelics ==
    [Base EXCEPT !.gifts = <<"MarkOfPain", "RunicDome", "BustedCrown", "CoffeeDripper", "Sozu", "VelvetChoker",
                             "CursedKey", "Ectoplasm", "FusionHammer", "PhilosophersStone">>,
                 !.rooms = {"MONSTER", "REST", "TREASURE"}]
Candle ==
    [Base EXCEPT !.gifts = <<"BlueCandle", "VelvetChoker">>, !.cards = {"Clumsy", "Strike"}, !.burdens = {"Pain"},
                 !.plays = 7, !.turns = 1, !.hits = {}]
Corpses ==
    [Base EXCEPT !.character = "silent", !.gifts = <<"GremlinHorn">>, !.foes = 2, !.hits = {6},
                 !.cards = {"CorpseExplosion", "DaggerSpray"}, !.plays = 2]

\* Cards that touch the same state.
Hands ==
    {{"DemonForm", "Metallicize", "LimitBreak"}, {"Combust", "Rupture", "Flex"}, {"Barricade", "Brutality", "Berserk"},
     {"DoubleTap", "Feed"}, {"Burst", "Warcry"}, {"Juggernaut", "AfterImage"}, {"FlameBarrier", "Rage", "Anger"},
     {"Havoc", "Offering", "Sentinel"}, {"BattleTrance", "Predator"}, {"DodgeAndRoll", "Blur"}, {"SecondWind", "FeelNoPain"},
     {"FiendFire", "DarkEmbrace"}, {"Whirlwind", "Doppelganger"}, {"Choke", "BulletTime", "AThousandCuts"},
     {"Envenom", "NoxiousFumes"}, {"PhantasmalKiller", "Neutralize"}, {"ToolsOfTheTrade", "WellLaidPlans", "Tactician"},
     {"WraithForm", "Footwork", "Adrenaline"}, {"Concentrate", "CalculatedGamble", "Reflex"},
     {"Alchemize", "Apparition", "GhostlyArmor"}}
EachHand == {[Base EXCEPT !.cards = h, !.plays = 2] : h \in Hands}
ChemicalHand == [Base EXCEPT !.gifts = <<"ChemicalX", "IceCream">>, !.cards = {"Skewer", "Malaise"}]
Burdened ==
    {[Base EXCEPT !.cards = {"Evolve", "FireBreathing"}, !.burdens = {"Wound"}],
     [Base EXCEPT !.cards = {"FireBreathing", "Strike"}, !.burdens = {"VoidCard"}],
     [Base EXCEPT !.burdens = {"Doubt", "Shame", "Burn"}, !.gifts = <<"Turnip">>],
     [Base EXCEPT !.burdens = {"Regret", "Decay", "Pride"}, !.hand = 2, !.hits = {}],
     [Base EXCEPT !.thorns = 3, !.hits = {}, !.gifts = <<"Torii", "TungstenRod">>]}
Debuffed ==
    {[Base EXCEPT !.debuffs = ds, !.cards = {"Strike", "Defend"}, !.hits = {4}] :
        ds \in {{"WEAK", "FRAIL"}, {"VULNERABLE", "ENTANGLED"}, {"CONSTRICTED", "NO_DRAW"}, {"POISON", "HEX"}, {"CONFUSED"}}}
    \cup {[Base EXCEPT !.debuffs = {"WEAK", "VULNERABLE"}, !.gifts = <<"Ginger", "ClockworkSouvenir">>]}

\* Dying and being saved.
Lethal ==
    {[Base EXCEPT !.gifts = <<"LizardTail", "MagicFlower", "SacredBark">>, !.potions = <<"FairyInABottle">>, !.hp = 8,
                  !.hits = {60}, !.turns = 4],
     [Base EXCEPT !.driver = "llm", !.gifts = <<"FossilizedHelix", "MeatOnTheBone">>, !.hp = 8, !.hits = {8},
                  !.cards = {"Offering"}],
     [Base EXCEPT !.potions = <<"FairyInABottle">>, !.rooms = {"EVENT", "MONSTER"}, !.hp = 5, !.hits = {6},
                  !.events = {"WeMeetAgain", "WorldOfGoop"}, !.anyChoice = TRUE, !.floors = 3],
     [Base EXCEPT !.gifts = <<"RunicCube", "SelfFormingClay">>, !.rooms = {"EVENT"}, !.hp = 5, !.anyChoice = TRUE,
                  !.events = {"WorldOfGoop", "CursedTome", "ShiningLight", "ScrapOoze", "BigFish"}]}

\* Rooms.
Short == [Base EXCEPT !.turns = 1, !.rooms = {"EVENT"}, !.anyChoice = TRUE, !.offers = {"Attack", "Skill"},
                      !.deck = Deck(2, 1), !.hits = {}]
Events ==
    {[Short EXCEPT !.acts = <<a>>, !.events = {e}, !.gifts = <<"PeacePipe", "Vajra", "MawBank">>] :
        a \in 1..3, e \in DOMAIN Registry}
Rests ==
    {[Base EXCEPT !.driver = d, !.routing = (d = "llm"), !.deck = Deck(1, 1), !.rooms = {"REST", "MONSTER"}, !.floors = 2,
                  !.turns = 2, !.offers = {"Attack"},
                  !.gifts = <<"RegalPillow", "DreamCatcher", "EternalFeather", "AncientTeaSet", last>>] :
        d \in {"run_loop", "llm"}, last \in {"PeacePipe", "CeramicFish", "FusionHammer", "CoffeeDripper"}}
Shops ==
    {[Base EXCEPT !.rooms = {"MERCHANT", "MONSTER"}, !.floors = 2, !.turns = 1, !.deck = Deck(1, 1), !.gifts = g] :
        g \in {<<"MawBank", "MealTicket", "SmilingMask">>, <<"MembershipCard", "Ectoplasm">>}}
Chests ==
    {[Base EXCEPT !.rooms = {"TREASURE", "ELITE", "MONSTER"}, !.floors = 2, !.turns = 1, !.gifts = <<"CursedKey", "BlackStar">>],
     [Base EXCEPT !.floors = 4, !.turns = 1, !.hits = {}, !.gifts = <<"TinyChest", "BurningBlood", "BlackBlood", "GoldenBell">>]}

\* The map, and more than one act.
Maps ==
    {[Base EXCEPT !.cols = {0, 1, 2}, !.active = 2, !.floors = 3, !.turns = 0],
     [Base EXCEPT !.cols = {0, 1}, !.active = 2, !.floors = 2, !.turns = 0, !.driver = "llm", !.routing = TRUE,
                  !.rooms = {"MONSTER", "ELITE", "REST", "EVENT"}]}
Acts ==
    {[Base EXCEPT !.driver = "llm", !.acts = <<1, 2>>, !.turns = 2, !.gifts = <<"Pantograph">>, !.offers = {"Attack"},
                  !.hits = {}, !.loot = {"PaperPhrog", "Ginger", "TheBoot", "Sozu", "EmptyCage", "PandorasBox"}]}

MCScenarios ==
    EachRelic \cup EachCard \cup EachHand \cup Burdened \cup Debuffed \cup Lethal \cup Events \cup Rests \cup Shops
    \cup Chests \cup Maps \cup Acts
    \cup {Powers, Counting, Turns, Piling, Discarding, Exhaustion, Triples, EnergyRelics, Candle, Corpses, ChemicalHand}
================================================================================
