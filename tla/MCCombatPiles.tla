---------------------------- MODULE MCCombatPiles ----------------------------
(***************************************************************************)
(* CombatPiles with small decks, each after one way cards move.  The       *)
(* combats that pass hold no card that exhausts itself in play() together  *)
(* with one that plays or replays it: those are the combats of the other   *)
(* configuration.                                                          *)
(***************************************************************************)
EXTENDS CombatPiles

Kinds == [warcry |-> "warcry", pact |-> "burningPact", exhume |-> "exhume",
          embrace |-> "darkEmbrace", strike |-> "strike", defend |-> "defend",
          tap |-> "doubleTap", burst |-> "burst", pommel |-> "pommelStrike",
          headbutt |-> "headbutt", havoc |-> "havoc", apparition |-> "apparition",
          survivor |-> "survivor", gamble |-> "calculatedGamble", reflex |-> "reflex",
          evolve |-> "evolve", plans |-> "wellLaidPlans",
          fire |-> "fiendFire", wind |-> "secondWind", corruption |-> "corruption",
          seeingRed |-> "seeingRed", dazed |-> "dazed"]
AllCards == DOMAIN Kinds

SeparateDecks ==
    {{"warcry", "exhume", "embrace", "headbutt"},       \* retrievals, and exhausts that draw
     {"fire", "wind", "embrace", "apparition"},         \* whole hands exhausted
     {"pact", "corruption", "havoc", "embrace"},        \* the top card played and exhausted
     {"tap", "pommel", "headbutt", "havoc"},            \* replayed cards that draw or retrieve
     {"burst", "pact", "survivor", "strike"},           \* replayed discards
     {"survivor", "gamble", "reflex", "plans"},         \* discards that draw
     {"gamble", "reflex", "evolve", "embrace"}}         \* and draws that draw

\* A card that exhausts itself, on top of the draw pile of a Havoc.
MixedDecks == {{"havoc", "seeingRed", "strike", "defend"}}

FirstInHand == {"apparition"}
NoCards == {}

=============================================================================
