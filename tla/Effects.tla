------------------------------- MODULE Effects -------------------------------
(****************************************************************************)
(* The vocabulary the relic, event and card catalogues are written in.  A    *)
(* handler, a pickup or the choice of an event is the sequence of the        *)
(* effects its code applies, in the order it applies them; RunMachine, Fight *)
(* and Journey have an action for each of them.  An effect names what it     *)
(* does (op), an amount (n), what it is about (of) and the effects it guards *)
(* (then); once it runs, also the relic or potion it runs for (who) and what *)
(* the event it answers carries (arg).                                       *)
(****************************************************************************)
EXTENDS Integers, Sequences, TLC

Do(op, n, of, then) ==
    [op |-> op, n |-> n, of |-> of, then |-> then, who |-> 0, arg |-> ""]
Emit(e, arg) == [Do("emit", 0, e, <<>>) EXCEPT !.arg = arg]

\* What happens to the player.
Energy(n) == Do("energy", n, "", <<>>)
Power(p, n) == Do("power", n, p, <<>>)
Unpower(p) == Do("unpower", 0, p, <<>>)
Debuff(p, n) == Do("debuff", n, p, <<>>)
DoublePower(p) == Do("double_power", 0, p, <<>>)
\* Block is flat, GainBlock is raised by Dexterity and lowered by Frail.
Block(n) == Do("block", n, "", <<>>)
GainBlock(n) == Do("gain_block", n, "", <<>>)
DoubleBlock == Do("double_block", 0, "", <<>>)
Heal(n) == Do("heal", n, "", <<>>)
Mend(n) == Do("mend", n, "", <<>>)
HealPct(n) == Do("heal_pct", n, "", <<>>)
MaxHp(n) == Do("max_hp", n, "", <<>>)
FullHeal == Do("full_heal", 0, "", <<>>)
Gold(n) == Do("gold", n, "", <<>>)
HpLoss(n) == Do("hurt", n, "hp_loss", <<>>)
Attacked(n) == Do("hurt", n, "attack", <<>>)
Damaged(n) == Do("hurt", n, "damage", <<>>)
EnergyPerTurn == Do("per_turn", 1, "", <<>>)
Flag(f) == Do("flag", 0, f, <<>>)

\* What happens in a combat only.
Draw(n) == Do("draw", n, "", <<>>)
\* Any number of hits on one target is one of these; then runs if it falls.
HitAll == Do("hit_all", 0, "", <<>>)
HitOne == Do("hit_one", 0, "", <<>>)
AttackAll == Do("attack_all", 0, "", <<>>)
AttackOne == Do("attack_one", 0, "", <<>>)
AttackFor(then) == Do("attack_one", 0, "", then)
\* Afflict changes nothing but enemies, Piles nothing but cards in the piles;
\* Tag is kept: an enemy bears it, or the hand costs nothing.
Afflict == Do("afflict", 0, "", <<>>)
Piles == Do("piles", 0, "", <<>>)
Tag(t) == Do("tag", 0, t, <<>>)
Discard == Emit("CARD_DISCARD", "")
Exhaust == Emit("CARD_EXHAUST", "")
\* A card of the hand is discarded or exhausted: any card that is there.
DiscardOne == Do("discard", 0, "", <<>>)
ExhaustOne == Do("exhaust", 0, "", <<>>)

\* What happens to the master deck, the relics and the potions.
AddCard(k) == Do("add_card", 1, k, <<>>)
RemoveRandom == Do("remove_card", 0, "", <<>>)
Transform == Do("transform", 0, "", <<>>)
Duplicate == Do("duplicate", 0, "", <<>>)
Upgrade == Do("upgrade", 0, "", <<>>)
Potions(n) == Do("potions", n, "", <<>>)
RandomRelic(rarity) == Do("random_relic", 0, rarity, <<>>)

\* Repetitions: for each of some cards of the hand, for the X energy that is
\* spent (but at most n times); Maybe leaves a condition open that the state
\* does not decide.
EachInHand(then) == Do("each", 0, "", then)
SpendX(n, then) == Do("spend_x", n, "", then)
Maybe(then) == Do("maybe", 0, "", then)

\* Guards: the effects in then run only if the condition holds.
Every(n, then) == Do("every", n, "", then)
Once(then) == Do("once", 0, "", then)
IfMarked(then) == Do("if_marked", 0, "", then)
Unless(then) == Do("unless_marked", 0, "", then)
Mark == Do("mark", 0, "", <<>>)
Unmark == Do("unmark", 0, "", <<>>)
Restart == Do("restart", 0, "", <<>>)
If(condition, n, then) == Do("if", n, condition, then)
Pay(n, then) == Do("pay", n, "", then)

\* A relic that only the rest of the code looks at.
Inert == [pickup |-> <<>>, flags |-> {}, hears |-> << >>, fresh |-> FALSE]

\* The arguments an event carries: the type of a card, the source of a relic,
\* and which card is exhausted if that matters.
CardTypes == {"ATTACK", "SKILL", "POWER", "CURSE", "STATUS"}
Anything == CardTypes \cup {"", "chest", "Sentinel"}

On(e, do) == e :> [arg |-> Anything, do |-> do]
OnArg(e, arg, do) == e :> [arg |-> arg, do |-> do]

Hears(hears) == [Inert EXCEPT !.hears = hears]
HearsAfresh(hears) == [Inert EXCEPT !.hears = hears, !.fresh = TRUE]
Gives(pickup) == [Inert EXCEPT !.pickup = pickup]
Raises(f) == [Inert EXCEPT !.flags = {f}]
==============================================================================
