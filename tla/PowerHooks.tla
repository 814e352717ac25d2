------------------------------ MODULE PowerHooks -------------------------------
(****************************************************************************)
(* What the player's powers do on the event bus: register_power_hooks, one   *)
(* operator for each handler.  p is player.powers, flags the player's flags, *)
(* tags what the enemies bear.  The handlers are the first listeners of a    *)
(* combat, so what they do is settled when the event is emitted.             *)
(****************************************************************************)
EXTENDS CardsSilent

AtLeast1(n) == IF n < 1 THEN 1 ELSE n

on_turn_start(p, flags) ==
    LET has(power) == power \in DOMAIN p
    IN     (IF has("DEMON_FORM") THEN <<Power("STRENGTH", p["DEMON_FORM"])>> ELSE <<>>)
        \o (IF has("METALLICIZE") THEN <<GainBlock(p["METALLICIZE"])>> ELSE <<>>)
        \o (IF "brutality" \in flags THEN <<HpLoss(1), Draw(1)>> ELSE <<>>)
        \o (IF "berserk" \in flags THEN <<Energy(1)>> ELSE <<>>)
        \o (IF has("ENERGIZED") THEN <<Energy(p["ENERGIZED"]), Unpower("ENERGIZED")>> ELSE <<>>)
        \o (IF has("NOXIOUS_FUMES") THEN <<Tag("poison")>> ELSE <<>>)
        \o (IF has("INFINITE_BLADES") THEN <<Piles>> ELSE <<>>)
        \o (IF has("TOOLS_OF_THE_TRADE")
            THEN <<Draw(p["TOOLS_OF_THE_TRADE"])>> \o [i \in 1..p["TOOLS_OF_THE_TRADE"] |-> DiscardOne]
            ELSE <<>>)

\* Last of all, the cards that are still in hand have their say.
on_turn_end(p) ==
    LET has(power) == power \in DOMAIN p
    IN     (IF has("COMBUST") THEN <<HpLoss(AtLeast1(p["_combust_plays"])), HitAll>> ELSE <<>>)
        \o (IF has("FLEX") THEN <<Unpower("FLEX"), Power("STRENGTH", 0 - p["FLEX"])>> ELSE <<>>)
        \o (IF has("CONSTRICTED") THEN <<HpLoss(p["CONSTRICTED"])>> ELSE <<>>)
        \o (IF has("POISON") THEN <<HpLoss(p["POISON"]), Power("POISON", -1)>> ELSE <<>>)
        \o (IF has("WRAITH_FORM") THEN <<Power("DEXTERITY", -1)>> ELSE <<>>)
        \o (IF has("WELL_LAID_PLANS") THEN <<Piles>> ELSE <<>>)
        \o <<Do("end_of_turn", 0, "", <<>>)>>

on_card_play(p, tags, type) ==
    LET has(power) == power \in DOMAIN p
    IN     (IF has("RAGE") /\ type = "ATTACK" THEN <<GainBlock(p["RAGE"])>> ELSE <<>>)
        \o (IF has("THOUSAND_CUTS") THEN <<HitAll>> ELSE <<>>)
        \o (IF has("AFTER_IMAGE") THEN <<GainBlock(p["AFTER_IMAGE"])>> ELSE <<>>)
        \o (IF "choked" \in tags THEN <<HitOne>> ELSE <<>>)
        \o <<Do("pain", 0, "", <<>>)>>
        \o (IF has("HEX") /\ type # "ATTACK" THEN <<Piles>> ELSE <<>>)

on_exhaust(p, card) ==
       (IF "DARK_EMBRACE" \in DOMAIN p THEN <<Draw(p["DARK_EMBRACE"])>> ELSE <<>>)
    \o (IF "FEEL_NO_PAIN" \in DOMAIN p THEN <<GainBlock(p["FEEL_NO_PAIN"])>> ELSE <<>>)
    \o (IF card = "Sentinel" THEN <<Energy(2)>> ELSE <<>>)

\* A status is drawn; the Void also takes a point of energy.
on_draw(p, card) ==
       (IF "FIRE_BREATHING" \in DOMAIN p THEN <<HitAll>> ELSE <<>>)
    \o (IF "EVOLVE" \in DOMAIN p THEN <<Draw(p["EVOLVE"])>> ELSE <<>>)
    \o (IF card = "VoidCard" THEN <<Do("drain", 1, "", <<>>)>> ELSE <<>>)

on_block_gained(p, none) == IF "JUGGERNAUT" \in DOMAIN p /\ ~none THEN <<HitOne>> ELSE <<>>

\* Corpse Explosion: the loop over the enemies still comes to those that stand
\* after the dead one, not to those before it.  What an enemy itself does when it dies is in EnemyMoves.
on_enemy_death(tags) ==
    IF "corpse" \in tags THEN <<Maybe(<<HitAll, Maybe(<<Do("deaths", 0, "", <<>>)>>)>>)>> ELSE <<>>

PowerHooks(event, arg, p, flags, tags) ==
    CASE event = "TURN_START" -> on_turn_start(p, flags)
      [] event = "TURN_END" -> on_turn_end(p)
      [] event = "CARD_PLAY" -> on_card_play(p, tags, arg)
      [] event = "CARD_EXHAUST" -> on_exhaust(p, arg)
      [] event = "CARD_DRAW" -> on_draw(p, arg)
      [] event = "BLOCK_GAINED" -> on_block_gained(p, arg = "none")
      [] event = "ENEMY_DEATH" -> on_enemy_death(tags)
      [] OTHER -> <<>>
================================================================================
