------------------------------ MODULE CombatPiles ------------------------------
(***************************************************************************)
(* The card piles of a combat: slay_bench/combat.py (start_combat,         *)
(* play_card, end_player_turn, _begin_player_turn), the pile helpers of    *)
(* cards.py, the hooks of powers.py that move cards, and the cards whose   *)
(* play() moves other cards.                                               *)
(*                                                                         *)
(* A card is an object: two Strikes are two cards.  Piles are the code's   *)
(* lists, the top of the draw pile last.  A hook or a play() calls back    *)
(* into the helpers in the middle of a list of effects, so the rest of the *)
(* call stack is kept in `todo`, its next effect first.                    *)
(*                                                                         *)
(* Energy, damage and block, which move no card, are left out: any card    *)
(* that is not unplayable may be played, in any order.                     *)
(***************************************************************************)
EXTENDS Integers, FiniteSets, SequencesExt

CONSTANTS
    Cards,          \* every card object, those the enemies may create included
    Decks,          \* the values of player.deck
    Kind,           \* the class of each card
    Innate,         \* the cards whose `innate` is set
    HandLimit,      \* _HAND_LIMIT: 10
    TurnDraw,       \* the 5 of _begin_player_turn
    MaxStacks,      \* bound: the stacks a power is counted to
    MaxCreated      \* bound: the cards the enemies create in a combat

Attacks == {"strike", "pommelStrike", "headbutt", "fiendFire"}
Skills == {"defend", "warcry", "havoc", "burningPact", "secondWind", "exhume", "seeingRed",
           "apparition", "survivor", "calculatedGamble", "reflex", "doubleTap", "burst"}
Powers == {"darkEmbrace", "evolve", "corruption", "wellLaidPlans"}
Statuses == {"slimed", "dazed"}
Stacking == {"doubleTap", "burst", "darkEmbrace", "evolve", "corruption", "wellLaidPlans"}

\* card.exhaust; most of these also exhaust themselves in play().
Exhausting == {"fiendFire", "warcry", "exhume", "seeingRed", "apparition", "calculatedGamble", "slimed"}
Ethereal == {"dazed", "apparition"}
Unplayable == {"dazed", "reflex"}

ASSUME ConstantsAssumption ==
    /\ Decks \subseteq SUBSET Cards /\ Innate \subseteq UNION Decks
    /\ \A deck \in Decks : IsFiniteSet(deck)
    /\ Kind \in [Cards -> Attacks \cup Skills \cup Powers \cup Statuses]
    /\ \A c \in UNION Decks : Kind[c] \notin Statuses
    /\ HandLimit \in Nat \ {0} /\ TurnDraw \in Nat
    /\ MaxStacks \in Nat \ {0} /\ MaxCreated \in Nat

VARIABLES draw, hand, discard, exhaust,     \* the four piles
          todo,                             \* the effects still to run
          powers,                           \* player.powers, those that move cards
          cards                             \* history: the card objects there are

piles == <<draw, hand, discard, exhaust>>
vars == <<piles, todo, powers, cards>>

Is(c, kinds) == Kind[c] \in kinds
\* The cards enemies put into the piles.
Created == {c \in Cards : Is(c, Statuses)}

\* The orders a list can be shuffled into: its elements, put in one by one.
Inserted(orders, x, n) == {InsertAt(order, k, x) : order \in orders, k \in 1 .. n}
Orders(s) ==
    LET shuffled[i \in 0 .. Len(s)] ==
            IF i = 0 THEN {<<>>} ELSE Inserted(shuffled[i - 1], s[i], i)
    IN  shuffled[Len(s)]

\* The elements of s that are in S, in the order of s.
Among(s, S) ==
    LET selected[i \in 0 .. Len(s)] ==
            IF i = 0 THEN <<>>
            ELSE IF s[i] \in S THEN Append(selected[i - 1], s[i]) ELSE selected[i - 1]
    IN  selected[Len(s)]

-----------------------------------------------------------------------------
(* The call stack: an effect is its name and its argument, if it has one *)

Each(name, cs) == [i \in DOMAIN cs |-> <<name, cs[i]>>]
Draws(n) == <<<<"draw", n>>>>

Running(name) == todo # <<>> /\ Head(todo)[1] = name
Arg == Head(todo)[2]
\* The effect is done, and has called for `more`.
Then(more) == todo' = more \o Tail(todo)

-----------------------------------------------------------------------------
(* cards.py: the pile helpers *)

\* The events a card's arrival emits, as far as their hooks move cards.
OnExhaust == IF powers["darkEmbrace"] > 0 THEN Draws(powers["darkEmbrace"]) ELSE <<>>
OnDraw(c) == IF powers["evolve"] > 0 /\ Is(c, Statuses) THEN Draws(powers["evolve"]) ELSE <<>>

\* Bug: a full hand takes one card more.
DrawIsOver_OffByOne == Arg = 0 \/ Len(hand) > HandLimit \/ (draw = <<>> /\ discard = <<>>)

DrawIsOver == Arg = 0 \/ Len(hand) >= HandLimit \/ (draw = <<>> /\ discard = <<>>)

\* Bug: a full hand makes the loop go round, not end.
DrawEnds_NotWhenFull ==
    /\ Running("draw") /\ (Arg = 0 \/ (draw = <<>> /\ discard = <<>>))
    /\ Then(<<>>)
    /\ UNCHANGED <<piles, powers, cards>>

DrawEnds ==
    /\ Running("draw") /\ DrawIsOver
    /\ Then(<<>>)
    /\ UNCHANGED <<piles, powers, cards>>

\* Bug: the discard pile is shuffled into the draw pile, and kept.
DrawOne_KeepsDiscard ==
    /\ Running("draw") /\ ~DrawIsOver
    /\ \E pile \in IF draw # <<>> THEN {draw} ELSE Orders(discard) :
          /\ draw' = Front(pile)
          /\ hand' = Append(hand, Last(pile))
          /\ Then(OnDraw(Last(pile)) \o Draws(Arg - 1))
    /\ UNCHANGED <<discard, exhaust, powers, cards>>

\* _draw_cards, one round: an empty draw pile is refilled with the shuffled discards.
DrawOne ==
    /\ Running("draw") /\ ~DrawIsOver
    /\ \E pile \in IF draw # <<>> THEN {draw} ELSE Orders(discard) :
          /\ draw' = Front(pile)
          /\ hand' = Append(hand, Last(pile))
          /\ Then(OnDraw(Last(pile)) \o Draws(Arg - 1))
    /\ discard' = IF draw # <<>> THEN discard ELSE <<>>
    /\ UNCHANGED <<exhaust, powers, cards>>

\* _exhaust_card
ExhaustCard ==
    /\ Running("exhaust")
    /\ hand' = RemoveFirst(hand, Arg)
    /\ exhaust' = Append(exhaust, Arg)
    /\ Then(OnExhaust)
    /\ UNCHANGED <<draw, discard, powers, cards>>

\* _discard_from_hand; Reflex draws when it is discarded.
DiscardFromHand ==
    /\ Running("discard")
    /\ IF Contains(hand, Arg)
       THEN /\ hand' = RemoveFirst(hand, Arg)
            /\ discard' = Append(discard, Arg)
            /\ Then(IF Is(Arg, {"reflex"}) THEN Draws(2) ELSE <<>>)
       ELSE Then(<<>>) /\ UNCHANGED <<hand, discard>>
    /\ UNCHANGED <<draw, exhaust, powers, cards>>

\* _auto_discard_choice: a status, a Strike, a Defend, or the first card.
Of(kinds, s) == Among(s, {c \in Cards : Is(c, kinds)})
DiscardChoice == Of(Statuses, hand) \o Of({"strike"}, hand) \o Of({"defend"}, hand) \o hand

-----------------------------------------------------------------------------
(* The cards: what play() does to the piles *)

Others(c) == Among(hand, Cards \ {c})
NonAttacks(c) == Among(Others(c), {d \in Cards : ~Is(d, Attacks)})
First(s) == SubSeq(s, 1, IF s = <<>> THEN 0 ELSE 1)

Exhausted(c) == <<<<"exhaust", c>>>>
Called(c) == <<<<Kind[c]>>>>

BurningPact(c) == Each("exhaust", First(Others(c))) \o Draws(2)
SecondWind(c) == Each("exhaust", NonAttacks(c))
FiendFire(c) == Each("exhaust", Others(c)) \o Exhausted(c)
Survivor == Each("discard", First(DiscardChoice))
CalculatedGamble(c) == Each("discard", hand) \o Draws(Len(hand)) \o Exhausted(c)

EffectsOf(c) ==
    CASE Is(c, {"seeingRed", "slimed"})                       -> Exhausted(c)
      [] Is(c, {"pommelStrike"})                              -> Draws(1)
      [] Is(c, {"warcry"})                                    -> Draws(1) \o Called(c) \o Exhausted(c)
      [] Is(c, {"exhume"})                                    -> Called(c) \o Exhausted(c)
      [] Is(c, {"burningPact"})                               -> BurningPact(c)
      [] Is(c, {"secondWind"})                                -> SecondWind(c)
      [] Is(c, {"fiendFire"})                                 -> FiendFire(c)
      [] Is(c, {"survivor"})                                  -> Survivor
      [] Is(c, {"calculatedGamble"})                          -> CalculatedGamble(c)
      [] Is(c, {"havoc", "headbutt"} \cup Stacking)           -> Called(c)
      [] OTHER                                                -> <<>>

Play ==
    /\ Running("play")
    /\ Then(EffectsOf(Arg))
    /\ UNCHANGED <<piles, powers, cards>>

\* A power, or a counted skill; `corruption` is a flag, and counts as one.
GainPower == \E p \in Stacking :
    /\ Running(p)
    /\ powers' = [powers EXCEPT ![p] = IF @ < MaxStacks THEN @ + 1 ELSE @]
    /\ Then(<<>>)
    /\ UNCHANGED <<piles, cards>>

\* The top card of the draw pile is taken, played and exhausted.
Havoc ==
    /\ Running("havoc")
    /\ IF draw = <<>>
       THEN Then(<<>>) /\ UNCHANGED draw
       ELSE /\ draw' = Front(draw)
            /\ Then(<<<<"play", Last(draw)>>, <<"exhaust", Last(draw)>>>>)
    /\ UNCHANGED <<hand, discard, exhaust, powers, cards>>

\* The last discard goes on top of the draw pile.
Headbutt ==
    /\ Running("headbutt")
    /\ IF discard = <<>>
       THEN UNCHANGED <<draw, discard>>
       ELSE draw' = Append(draw, Last(discard)) /\ discard' = Front(discard)
    /\ Then(<<>>)
    /\ UNCHANGED <<hand, exhaust, powers, cards>>

\* The last card of the hand goes on top of the draw pile.
Warcry ==
    /\ Running("warcry")
    /\ IF hand = <<>>
       THEN UNCHANGED <<draw, hand>>
       ELSE draw' = Append(draw, Last(hand)) /\ hand' = RemoveFirst(hand, Last(hand))
    /\ Then(<<>>)
    /\ UNCHANGED <<discard, exhaust, powers, cards>>

\* The last exhausted card that is no Exhume comes to hand (_add_card_to_hand:
\* to the discard pile when the hand is full).
Exhume ==
    LET i == SelectLastInSeq(exhaust, LAMBDA d : ~Is(d, {"exhume"})) IN
    /\ Running("exhume")
    /\ IF i = 0
       THEN UNCHANGED <<hand, discard, exhaust>>
       ELSE /\ exhaust' = RemoveAt(exhaust, i)
            /\ IF Len(hand) < HandLimit
               THEN hand' = Append(hand, exhaust[i]) /\ UNCHANGED discard
               ELSE discard' = Append(discard, exhaust[i]) /\ UNCHANGED hand
    /\ Then(<<>>)
    /\ UNCHANGED <<draw, powers, cards>>

-----------------------------------------------------------------------------
(* combat.py *)

Init ==
    /\ cards \in Decks
    /\ draw \in SetToSeqs(cards \ Innate)
    /\ hand \in SetToSeqs(cards \cap Innate)
    /\ discard = <<>> /\ exhaust = <<>>
    /\ todo = Draws(TurnDraw)
    /\ powers = [p \in Stacking |-> 0]

\* Bug: a stack is spent whether or not there is one.
Replays_Unchecked(c) == IF Is(c, Attacks) THEN {"doubleTap"} ELSE IF Is(c, Skills) THEN {"burst"} ELSE {}

\* Double Tap replays an attack, Burst a skill, at one stack each.
Replays(c) == IF Is(c, Attacks) /\ powers["doubleTap"] > 0 THEN {"doubleTap"}
              ELSE IF Is(c, Skills) /\ powers["burst"] > 0 THEN {"burst"} ELSE {}

\* play_card, up to the card's effects.
PlayCard(c) ==
    LET once == <<<<"play", c>>>> IN
    /\ todo = <<>> /\ Contains(hand, c) /\ ~Is(c, Unplayable)
    /\ hand' = RemoveFirst(hand, c)
    /\ powers' = [p \in Stacking |-> IF p \in Replays(c) THEN powers[p] - 1 ELSE powers[p]]
    /\ todo' = once \o (IF Replays(c) = {} THEN <<>> ELSE once) \o <<<<"settle", c>>>>
    /\ UNCHANGED <<draw, discard, exhaust, cards>>

\* Bug: a card that Corruption should exhaust is only kept from the discard pile.
Settle_Forgets ==
    /\ Running("settle")
    /\ discard' = IF powers["corruption"] > 0 \/ Contains(hand \o exhaust \o discard, Arg)
                  THEN discard ELSE Append(discard, Arg)
    /\ Then(<<>>)
    /\ UNCHANGED <<draw, hand, exhaust, powers, cards>>

\* play_card, after them: the card is exhausted or discarded, unless its effects
\* have put it somewhere.
Settle ==
    LET exhausts == Is(Arg, Exhausting) \/ (powers["corruption"] > 0 /\ Is(Arg, Skills))
        placed == Contains(hand, Arg) \/ Contains(exhaust, Arg) \/ (~exhausts /\ Contains(discard, Arg))
    IN
    /\ Running("settle")
    /\ IF exhausts /\ ~placed
       THEN exhaust' = Append(exhaust, Arg) /\ Then(OnExhaust)
       ELSE Then(<<>>) /\ UNCHANGED exhaust
    /\ discard' = IF ~exhausts /\ ~placed THEN Append(discard, Arg) ELSE discard
    /\ UNCHANGED <<draw, hand, powers, cards>>

\* end_player_turn: Well-Laid Plans holds back the first cards; the rest of the
\* hand, as it is now, leaves it.
EndTurn ==
    LET kept == powers["wellLaidPlans"]
        held == SubSeq(hand, 1, IF kept < Len(hand) THEN kept ELSE Len(hand))
        leaving == Among(hand, {c \in Cards : Is(c, Ethereal) \/ ~Contains(held, c)})
    IN
    /\ todo = <<>>
    /\ todo' = Each("leave", leaving) \o <<<<"enemies">>>> \o Draws(TurnDraw)
    /\ UNCHANGED <<piles, powers, cards>>

Leave ==
    /\ Running("leave")
    /\ hand' = RemoveFirst(hand, Arg)
    /\ IF Is(Arg, Ethereal)
       THEN exhaust' = Append(exhaust, Arg) /\ Then(OnExhaust) /\ UNCHANGED discard
       ELSE discard' = Append(discard, Arg) /\ Then(<<>>) /\ UNCHANGED exhaust
    /\ UNCHANGED <<draw, powers, cards>>

\* The enemies act: one of them may create a status card, at the bottom of the
\* draw pile or on the discard pile.
EnemiesAct ==
    /\ Running("enemies")
    /\ Then(<<>>)
    /\ \/ UNCHANGED <<draw, discard, cards>>
       \/ \E c \in Created \ cards :
             /\ Cardinality(cards \cap Created) < MaxCreated
             /\ cards' = cards \cup {c}
             /\ \/ Is(c, {"dazed"}) /\ draw' = <<c>> \o draw /\ UNCHANGED discard
                \/ discard' = Append(discard, c) /\ UNCHANGED draw
    /\ UNCHANGED <<hand, exhaust, powers>>

-----------------------------------------------------------------------------
Step == \/ DrawEnds \/ DrawOne \/ ExhaustCard \/ DiscardFromHand \/ Play \/ GainPower
        \/ Havoc \/ Headbutt \/ Warcry \/ Exhume \/ Settle \/ Leave \/ EnemiesAct

Next == Step \/ EndTurn \/ \E c \in Cards : PlayCard(c)

Spec == Init /\ [][Next]_vars

\* The program runs to its next decision.
FairSpec == Spec /\ WF_vars(Step)

-----------------------------------------------------------------------------
(* Properties *)

AllPiles == draw \o hand \o discard \o exhaust

\* Every variable holds a value of its kind.
TypeOK ==
    /\ \A pile \in {draw, hand, discard, exhaust} : ToSet(pile) \subseteq Cards
    /\ powers \in [Stacking -> 0 .. MaxStacks]
    /\ \E deck \in Decks : cards \ deck \subseteq Created
    /\ \A i \in DOMAIN todo :
          IF todo[i][1] \in {"play", "settle", "exhaust", "discard", "leave"}
          THEN todo[i][2] \in Cards
          ELSE IF todo[i][1] = "draw" THEN todo[i][2] \in Nat
          ELSE todo[i][1] \in {"enemies", "havoc", "headbutt", "warcry", "exhume"} \cup Stacking

\* "Pile membership is by IDENTITY": a card object is in one place of one pile.
OnePlace == IsInjective(AllPiles)

\* A card is never lost: it is in a pile, or about to be put there by the play
\* or the Havoc that holds it.
NothingLost ==
    \A c \in cards :
        \/ Contains(AllPiles, c)
        \/ \E i \in DOMAIN todo : todo[i][1] \in {"settle", "exhaust"} /\ todo[i][2] = c

\* No order of draws, retrievals and nested effects makes the hand exceed its limit.
HandWithinLimit == Len(hand) <= HandLimit

\* Draws that call for exhausts that call for draws come to an end.
EffectsEnd == todo # <<>> ~> todo = <<>>

=============================================================================
