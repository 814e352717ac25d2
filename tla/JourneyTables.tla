---------------------------- MODULE JourneyTables ----------------------------
(****************************************************************************)
(* What the tables of a run hold: the cards, the relics and potions, the     *)
(* events and what stays in hand.  The tables are constants without          *)
(* parameters, so what is said of them here is a matter of evaluation: TLC   *)
(* evaluates the assumptions whenever it checks Journey, and the proofs      *)
(* about Journey use the tables through them alone.                          *)
(****************************************************************************)
EXTENDS Journey

Fields == {"op", "n", "of", "then", "who", "arg"}

\* What the generator of the map, the turn loop, a pickup, register() and the
\* handlers of one-time relics do, and no card, event or other handler.
Restricted ==
    {"build", "connect", "ensure", "first", "turn", "judge", "per_turn", "register", "revive", "fairy", "unmark"}
\* The effects whose amount is added to something, or counted to.
Amounts == {"power", "set_power", "debuff", "add_card", "energy", "drain", "spend_x"}

Proper(x) ==
    /\ DOMAIN x = Fields
    /\ x.op \notin Restricted
    /\ x.op \in Amounts => x.n \in Int
    /\ x.op = "pop_relics" => x.n \in Nat
    /\ x.op = "obtain" => x.of \in DOMAIN Catalogue
    /\ x.op = "resolve" => x.of \in DOMAIN Book

\* The lists of effects an effect may go on with.
Branches(x) == IF x.op = "either" THEN {x.then[1], x.then[2]} ELSE {x.then}

\* Relics and potions that save their owner from death, once.
Savers == {"LizardTail", "FairyInABottle"}
Saves(x) == x.op = "once" /\ \E y \in ToSet(x.then) : y.op \in {"revive", "fairy"}
\* Effects that clear a relic's mark.
Forgets(x) == x.op = "unmark" \/ (x.op = "if_marked" /\ \E y \in ToSet(x.then) : y.op = "unmark")

Handlers(kind) == {Known[kind].hears[e].do : e \in DOMAIN Known[kind].hears}

\* Every effect of the tables and every effect it may lead to, but for those
\* that only relics and potions have.
Listed ==
    UNION {ToSet(p) : p \in {Book[c].does : c \in DOMAIN Book}
                            \cup {OnDiscard[c] : c \in DOMAIN OnDiscard}
                            \cup {EndOfTurn[c] : c \in DOMAIN EndOfTurn}
                            \cup UNION {ToSet(Registry[e].choices) : e \in DOMAIN Registry}
                            \cup UNION {Handlers(kind) \cup {Known[kind].pickup} : kind \in DOMAIN Known}}
Further(E) == E \cup UNION {UNION {ToSet(b) : b \in Branches(x)} : x \in E}
Vocabulary ==
    {x \in Further(Further(Further(Further(Listed)))) :
        x.op \notin Restricted /\ ~Saves(x) /\ ~Forgets(x)}

\* No effect of E is more than cards, events and handlers may do, nor leads out of E.
Closed(E) == \A x \in E : Proper(x) /\ \A b \in Branches(x) : b \in Seq(E)

ASSUME VocabularyAssumption == Closed(Vocabulary)

\* Cards and events are written in it.
ASSUME CardsAssumption ==
    /\ \A c \in DOMAIN Book : Book[c].does \in Seq(Vocabulary) /\ Book[c].cost \in Int
    /\ \A c \in DOMAIN OnDiscard : OnDiscard[c] \in Seq(Vocabulary)
    /\ IsFiniteSet(DOMAIN EndOfTurn) /\ \A c \in DOMAIN EndOfTurn : EndOfTurn[c] \in Seq(Vocabulary)
    /\ \A e \in DOMAIN Registry : \A i \in DOMAIN Registry[e].choices \cup {1} :
          Registry[e].choices[i] \in Seq(Vocabulary)

\* What a relic or potion of the kind may answer: a Lizard Tail and a Fairy
\* may save, once, and never forget that they did; the others may.
Reply(x, kind) ==
    \/ x \in Vocabulary
    \/ /\ kind \notin Savers /\ DOMAIN x = Fields
       /\ \/ x.op = "unmark"
          \/ /\ x.op = "if_marked" /\ x.then \in Seq(ToSet(x.then))
             /\ \A y \in ToSet(x.then) : y \in Vocabulary \/ (DOMAIN y = Fields /\ y.op = "unmark")
    \/ /\ kind \in Savers /\ DOMAIN x = Fields /\ x.op = "once"
       /\ x.then = <<x.then[1]>> /\ DOMAIN x.then[1] = Fields /\ x.then[1].op \in {"revive", "fairy"}

\* A relic that gives the energy of a turn gives it first, and once, when it is
\* picked up; register() does not let a Lizard Tail or a Fairy start again.
ASSUME RelicsAssumption ==
    /\ DOMAIN Catalogue \cup {"FairyInABottle", "Potion"} \subseteq DOMAIN Known
    /\ \A kind \in DOMAIN Known :
          /\ LET pickup == Known[kind].pickup
             IN  \/ pickup \in Seq(Vocabulary)
                 \/ pickup = <<EnergyPerTurn>> \o Tail(pickup) /\ Tail(pickup) \in Seq(Vocabulary)
          /\ \A p \in Handlers(kind) : p \in Seq(ToSet(p)) /\ \A x \in ToSet(p) : Reply(x, kind)
    /\ \A kind \in Savers : ~Known[kind].fresh
    /\ \A kind \in {"FairyInABottle", "Potion"} : Known[kind].pickup = <<>>
--------------------------------------------------------------------------------
(* Where an effect may stand: "abroad" is outside of combats, "fight" inside  *)
(* of one, and "soft" where a relic is obtained inside of one (the Tiny Chest *)
(* opens at COMBAT_END, when the combat is still there).                      *)

Modes == {"abroad", "fight", "soft"}

\* The decisions of the drivers, and what they leave to be done.
Drives == {"loop", "turn", "judge", "close_combat", "fight", "rewards", "leave", "enter", "act", "first"}
\* The course of a combat.
Courses == {"begin_turn", "opening_hand", "resolve", "discard_hand", "enemy_phase", "enemies_left", "round_end"}
\* What may end in a death.
Harms == {"hurt", "fall", "revive", "fairy", "hurt_pct", "hurt_per_removed", "regret", "pain"}
\* What emits events, but for relics that are obtained.
Announces == {"block", "gain_block", "card_reward", "rest", "rest_action"}
Barred(m) ==
    Drives \cup CASE m = "abroad" -> InCombat \cup Courses
                  [] m = "fight" -> {"obtain", "random_relic", "register", "pop_relics", "event"}
                  [] OTHER -> InCombat \cup Courses \cup Harms \cup Announces
                              \cup {"register", "pop_relics", "event", "treasure"}

\* The events that are emitted there.
Abroad == {"BLOCK_GAINED", "REST_SITE_ENTER", "DEATH_WOULD_OCCUR", "DAMAGE_TAKEN", "CARD_ADDED",
           "BOSS_DEFEATED", "RELIC_OBTAINED"}
Audible(e, m) ==
    CASE m = "abroad" -> e \in Abroad
      [] m = "fight" -> TRUE
      [] OTHER -> e = "RELIC_OBTAINED"

Fit(x, m) ==
    /\ DOMAIN x = Fields
    /\ x.op \notin Barred(m)
    /\ x.op = "emit" => Audible(x.of, m)

\* Where an effect leads: a handler that asks for a combat stops outside of one.
Asks(x) == x.op = "if" /\ x.of \in {"combat", "idle"}
Leads(x, m) == IF m = "abroad" /\ Asks(x) THEN {} ELSE Branches(x)
Shut(E, m) == \A x \in E : Fit(x, m) /\ \A b \in Leads(x, m) : b \in Seq(E)

Onward(E, m) == E \cup UNION {UNION {ToSet(b) : b \in Leads(x, m)} : x \in E}
Further4(E, m) == Onward(Onward(Onward(Onward(E, m), m), m), m)

CardLists == {Book[c].does : c \in DOMAIN Book} \cup {OnDiscard[c] : c \in DOMAIN OnDiscard}
             \cup {EndOfTurn[c] : c \in DOMAIN EndOfTurn}
Pickups == {Known[kind].pickup : kind \in DOMAIN Known}
Replies(events) ==
    {Known[p[1]].hears[p[2]].do : p \in {q \in (DOMAIN Known) \X events : q[2] \in DOMAIN Known[q[1]].hears}}
Lists(ps) == UNION {ToSet(p) : p \in ps}

FightWords == Further4(Lists(CardLists \cup UNION {Handlers(kind) : kind \in DOMAIN Known}), "fight")
AbroadWords ==
    Further4(Lists(Pickups \cup Replies(Abroad) \cup UNION {ToSet(Registry[e].choices) : e \in DOMAIN Registry}),
             "abroad")
SoftWords == Further4(Lists(Pickups \cup Replies({"RELIC_OBTAINED"})), "soft")

\* Cards and handlers stay within a combat, events, pickups and what answers
\* outside of a combat do not reach for one, and nothing that obtaining a relic
\* brings about hurts.
ASSUME WordsAssumption ==
    /\ Shut(FightWords, "fight") /\ Shut(AbroadWords, "abroad") /\ Shut(SoftWords, "soft")
    /\ \A c \in DOMAIN Book : Book[c].does \in Seq(FightWords)
    /\ \A c \in DOMAIN OnDiscard : OnDiscard[c] \in Seq(FightWords)
    /\ \A c \in DOMAIN EndOfTurn : EndOfTurn[c] \in Seq(FightWords)
    /\ \A e \in DOMAIN Registry : \A i \in DOMAIN Registry[e].choices \cup {1} :
          Registry[e].choices[i] \in Seq(AbroadWords)
    /\ \A kind \in DOMAIN Known :
          /\ Known[kind].pickup \in Seq(AbroadWords) /\ Known[kind].pickup \in Seq(SoftWords)
          /\ \A e \in DOMAIN Known[kind].hears :
                LET do == Known[kind].hears[e].do
                IN  /\ do \in Seq(FightWords)
                    /\ e \in Abroad => do \in Seq(AbroadWords)
                    /\ e = "RELIC_OBTAINED" => do \in Seq(SoftWords)
==============================================================================
