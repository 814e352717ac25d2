---------------------------- MODULE CombatRound -----------------------------
(***************************************************************************)
(* The round of slay_bench/combat.py: the player's turn, the enemy phase,  *)
(* the end-of-round ticks, the selection of the next moves and the start   *)
(* of the next turn, with the deaths, splits, rebirths and spawns that     *)
(* happen on the way.  One action is one handler or one iteration of one   *)
(* of end_player_turn's loops over combat.enemies, which is a live list:   *)
(* enemies appended during a loop are reached by it.                       *)
(*                                                                         *)
(* Hit points are a few units and a blow takes some of them, so block,     *)
(* strength and the multipliers of a debuff are the choice of the amount.  *)
(* A debuff an enemy's Artifact absorbs is a play with no effect.  Cards   *)
(* and piles are CombatPiles; revival (DEATH_WOULD_OCCUR) is left out.     *)
(***************************************************************************)
EXTENDS EnemyMoves, FiniteSets, SequencesExt

CONSTANTS
  Encounters,    \* the combats fought: [foes: kinds in order, cards: names in the deck,
                 \*   hourglass: the relic is carried, turns: bound on the turns played]
  StartHp,       \* hit points of a fresh enemy of each kind, in units
  PlayerHp,      \* the player's hit points, in units
  MaxBlow,       \* bound: the most units one blow takes from an enemy
  MaxPlays,      \* bound: the cards played in one turn
  MaxPoison      \* bound: the poison stacked on one enemy

ASSUME Bounds ==
  /\ \A enc \in Encounters : enc.turns \in Nat \ {0} /\ enc.foes \in EncounterTable
  /\ \A enc \in Encounters : \A i \in DOMAIN enc.foes : enc.foes[i] \in DOMAIN StartHp
  /\ {"TorchHead", "OrbWalker", "JawWorm", "SnakeDagger"} \subseteq DOMAIN StartHp
  /\ \A k \in DOMAIN StartHp : StartHp[k] \in Nat \ {0}
  /\ \A k \in Reborn \cap DOMAIN StartHp : StartHp[k] >= 2
  /\ {PlayerHp, MaxBlow, MaxPlays, MaxPoison} \subseteq Nat \ {0}

Debuffs == {"WEAK", "VULNERABLE", "FRAIL", "ENTANGLED"}

VARIABLES
  pc,          \* "select", "player", "enemies", "over"
  at,          \* the index the current loop over combat.enemies has reached
  turn, plays, \* combat.turn, and the cards played this turn
  encounter,
  hp,          \* player.hp
  powers,      \* the player's lasting powers: "Combust", "Flame Barrier"
  combat       \* enemies, held (player debuffs), artifact, window, justApplied, owed

vars == <<pc, at, turn, plays, encounter, hp, powers, combat>>

Enemy(kind, hits) ==
  [kind |-> kind, hp |-> hits, max |-> hits, alive |-> TRUE, turned |-> FALSE, poison |-> 0,
   corpse |-> FALSE, intangible |-> kind = "Nemesis", fresh |-> FALSE, picks |-> 0, made |-> 0,
   last |-> << >>, move |-> NoMove, deaths |-> 0]
Fresh(kind) == Enemy(kind, StartHp[kind])

Lowered(n, d) == IF d >= n THEN 0 ELSE n - d
Living(c) == {i \in DOMAIN c.enemies : c.enemies[i].hp > 0}
LivingOf(c, kind) == {i \in Living(c) : c.enemies[i].kind = kind}

(* How far a loop over the live list may come.  It appends the halves of   *)
(* slimes and nothing else: the Slime Boss becomes two large slimes, each  *)
(* of which becomes two medium ones, so an enemy is followed by six others *)
(* at most.                                                                *)
Reach(c) == 7 * Len(c.enemies)
(* for e in combat.enemies: F(e). *)
ForEach(F(_, _), c) ==
  LET done[i \in 0..Reach(c)] == IF i = 0 THEN c ELSE F(done[i - 1], i)
  IN done[Reach(c)]
ForLiving(F(_, _), c) == ForEach(LAMBDA x, i : IF i \in Living(x) THEN F(x, i) ELSE x, c)

-----------------------------------------------------------------------------
(* _apply_power on the player: Artifact first, then the stacks and the     *)
(* justApplied mark.  owed is a history variable: the debuffs that landed  *)
(* inside the window since the player last ended a turn.                   *)
Afflict(c, debuff) ==
  IF c.artifact > 0 THEN [c EXCEPT !.artifact = @ - 1]
  ELSE [c EXCEPT !.held[debuff[1]] = @ + debuff[2],
                 !.justApplied = IF c.window THEN @ \cup {debuff[1]} ELSE @,
                 !.owed = IF c.window THEN @ \cup {debuff[1]} ELSE @]
AfflictAll(c, debuffs) ==
  LET done[k \in 0..Len(debuffs)] == IF k = 0 THEN c ELSE Afflict(done[k - 1], debuffs[k])
  IN done[Len(debuffs)]

(* _apply_damage_to_enemy, with the split of on_hp_threshold. *)
Struck(c, i, blow) ==
  LET e == c.enemies[i]
      left == Lowered(e.hp, IF e.intangible /\ blow > 1 THEN 1 ELSE blow)
  IN IF e.kind \in Splitters /\ ~e.turned /\ blow > 0 /\ left > 0 /\ left <= e.max \div 2
     THEN [c EXCEPT !.enemies = [@ EXCEPT ![i].hp = 0, ![i].turned = TRUE]
                                \o [j \in 1..2 |-> Enemy(Halves[e.kind][j], left)]]
     ELSE [c EXCEPT !.enemies[i].hp = left]
StruckAll(c, blow) == ForLiving(LAMBDA x, i : Struck(x, i, blow), c)

(* The ENEMY_DEATH handlers: on_death, then Corpse Explosion on the others. *)
OnDeath(c, i) ==
  LET e == c.enemies[i]
  IN CASE e.kind = "FungalBeast" -> Afflict(c, <<"VULNERABLE", 2>>)
       [] e.kind \in Reborn /\ ~e.turned ->
            [c EXCEPT !.enemies[i] = [e EXCEPT !.turned = TRUE, !.alive = TRUE, !.hp = e.max \div 2]]
       [] OTHER -> c
Burst(c, i, blow) == ForLiving(LAMBDA x, j : IF j = i THEN x ELSE Struck(x, j, blow), c)
Announce(c, i) ==
  LET e == c.enemies[i]
      marked == [c EXCEPT !.enemies[i] = [e EXCEPT !.alive = FALSE, !.hp = 0, !.deaths = @ + 1]]
      after == OnDeath(marked, i)
  IN IF e.corpse THEN Burst(after, i, e.max) ELSE after
\* Bug: the alive flag is not consulted, the dead are announced at every check.
CheckEnemyDeaths_Again(c) ==
  ForEach(LAMBDA x, i : IF i \in DOMAIN x.enemies \ Living(x) THEN Announce(x, i) ELSE x, c)
CheckEnemyDeaths(c) ==
  ForEach(LAMBDA x, i : IF i \in DOMAIN x.enemies \ Living(x) /\ x.enemies[i].alive
                        THEN Announce(x, i) ELSE x, c)

(* is_combat_over *)
Outcome == IF hp <= 0 THEN "loss" ELSE IF Living(combat) = {} THEN "win" ELSE "none"

-----------------------------------------------------------------------------
(* start_combat, up to the selection of the first moves. *)
Init ==
  /\ encounter \in Encounters
  /\ pc = "select" /\ at = 1 /\ turn = 0 /\ plays = 0
  /\ hp = PlayerHp
  /\ powers = {}
  /\ \E artifact \in 0..1 :
       combat = [enemies |-> [i \in DOMAIN encounter.foes |-> Fresh(encounter.foes[i])],
                 held |-> [d \in Debuffs |-> 0], artifact |-> artifact,
                 window |-> FALSE, justApplied |-> {}, owed |-> {}]

(* select_move's own effects besides the move. *)
Selected(e, m) ==
  [e EXCEPT !.move = m, !.picks = @ + 1,
            !.turned = @ \/ (e.kind = "Lagavulin" /\ LagavulinWakes(e, hp < PlayerHp))
                         \/ (e.kind = "TheChamp" /\ ChampTurns(e)),
            !.intangible = IF e.kind = "Nemesis" THEN e.picks < 3 ELSE @]

SelectMove ==
  /\ pc = "select" /\ at <= Len(combat.enemies)
  /\ LET e == combat.enemies[at]
     IN IF e.hp > 0
        THEN \E m \in MovesOf(e, hp < PlayerHp, Cardinality(LivingOf(combat, "SnakeDagger"))) :
               combat' = [combat EXCEPT !.enemies[at] = Selected(e, m)]
        ELSE UNCHANGED combat
  /\ at' = at + 1
  /\ UNCHANGED <<pc, turn, plays, encounter, hp, powers>>

(* _begin_player_turn; TURN_START runs Mercury Hourglass.  No death check follows. *)
BeginPlayerTurn ==
  /\ pc = "select" /\ at > Len(combat.enemies)
  /\ turn < encounter.turns
  /\ turn' = turn + 1
  /\ plays' = 0
  /\ combat' = IF encounter.hourglass THEN StruckAll(combat, 1) ELSE combat
  /\ pc' = "player"
  /\ UNCHANGED <<at, encounter, hp, powers>>

-----------------------------------------------------------------------------
(* play_card.  Callers ask is_combat_over before every card and aim at a   *)
(* living enemy.  The piles, the cost and the legality are CombatPiles'.   *)
PlayCard(card) ==
  /\ pc = "player" /\ Outcome = "none"
  /\ card \in encounter.cards /\ plays < MaxPlays
  /\ plays' = plays + 1
  /\ UNCHANGED <<pc, at, turn, encounter, hp>>

PlayAttack ==
  /\ PlayCard("Strike")
  /\ \E i \in Living(combat), blow \in 0..MaxBlow : combat' = CheckEnemyDeaths(Struck(combat, i, blow))
  /\ UNCHANGED powers

PlaySweep ==
  /\ PlayCard("Cleave")
  /\ \E blow \in 1..MaxBlow : combat' = CheckEnemyDeaths(StruckAll(combat, blow))
  /\ UNCHANGED powers

PlayDeadlyPoison ==
  /\ PlayCard("Deadly Poison")
  /\ \E i \in Living(combat) :
       /\ combat.enemies[i].poison < MaxPoison
       /\ combat' = CheckEnemyDeaths([combat EXCEPT !.enemies[i].poison = @ + 1])
  /\ UNCHANGED powers

PlayCorpseExplosion ==
  /\ PlayCard("Corpse Explosion")
  /\ \E i \in Living(combat) :
       /\ combat.enemies[i].poison < MaxPoison
       /\ combat' = CheckEnemyDeaths([combat EXCEPT !.enemies[i].poison = @ + 1,
                                                    !.enemies[i].corpse = TRUE])
  /\ UNCHANGED powers

PlayBerserk ==
  /\ PlayCard("Berserk")
  /\ combat' = CheckEnemyDeaths(Afflict(combat, <<"VULNERABLE", 2>>))
  /\ UNCHANGED powers

PlayPower ==
  \E card \in {"Combust", "Flame Barrier"} :
    /\ PlayCard(card)
    /\ powers' = powers \cup {card}
    /\ combat' = CheckEnemyDeaths(combat)

(* end_player_turn up to the enemy phase: the TURN_END handler, inside the *)
(* window in which a debuff is marked; then the phase opens the window.    *)
CurseDebuff == [Doubt |-> <<"WEAK", 1>>, Shame |-> <<"FRAIL", 1>>]
HeldCurses == {<<curse>> : curse \in encounter.cards \cap DOMAIN CurseDebuff}
EndPlayerTurn ==
  /\ pc = "player" /\ Outcome = "none"
  /\ \E hand \in {<< >>} \cup HeldCurses :
       LET opened == [combat EXCEPT !.window = TRUE, !.owed = {}]
           burnt == IF "Combust" \in powers THEN StruckAll(opened, 1) ELSE opened
       IN combat' = AfflictAll(burnt, [k \in DOMAIN hand |-> CurseDebuff[hand[k]]])
  /\ hp' = IF "Combust" \in powers THEN hp - 1 ELSE hp
  /\ pc' = "enemies" /\ at' = 1
  /\ UNCHANGED <<turn, plays, encounter, powers>>

-----------------------------------------------------------------------------
(* What a move does besides hitting and afflicting the player: the enemies *)
(* it appends (Spawned), and what changes in the enemy itself (Acted).      *)
\* Bug: the Collector's gate counts every enemy of the list, itself and the dead included.
Spawned_CountsAll(e, c) ==
  CASE e.move.name = "Spawn!" -> IF Len(c.enemies) < 4 THEN <<"TorchHead", "TorchHead">> ELSE << >>
    [] e.move.name = "Spawn Orbs" -> <<"OrbWalker", "OrbWalker">>
    [] OTHER -> << >>
Spawned(e, c) ==
  CASE e.move.name = "Spawn!" -> [k \in 1..Lowered(2, Cardinality(LivingOf(c, "TorchHead"))) |-> "TorchHead"]
    [] e.move.name = "Spawn Orbs" -> <<"OrbWalker", "OrbWalker">>
    [] e.move.name = "Rally!" -> [k \in 1..(IF Len(c.enemies) <= 3 THEN 2
                                            ELSE Lowered(5, Len(c.enemies))) |-> "JawWorm"]
    [] e.move.name = "Summon" -> <<"SnakeDagger">>
    [] OTHER -> << >>
Acted(e) ==
  [e EXCEPT !.made = @ + 1,
            !.last = IF e.kind \notin Remembers THEN @
                     ELSE IF e.kind = "JawWorm" /\ @ # << >> THEN <<e.move.name, Head(@)>>
                     ELSE <<e.move.name>>,
            !.turned = @ \/ e.move.name = "Spawn Orbs",
            !.intangible = @ \/ e.move.name = "Rebirth",
            !.fresh = @ \/ e.move.name = "Rebirth",
            !.hp = IF e.kind = "Transient" /\ e.picks >= 5 THEN 0 ELSE @]

(* execute_move: the blow, Flame Barrier's answer, the debuffs, the rest. *)
Performed(c, i, answer) ==
  LET m == c.enemies[i].move
      answered == Struck(c, i, answer)
      afflicted == AfflictAll(answered, m.inflicts)
      e == afflicted.enemies[i]
  IN [afflicted EXCEPT !.enemies = [@ EXCEPT ![i] = Acted(e)]
                                   \o [k \in DOMAIN Spawned(e, afflicted) |-> Fresh(Spawned(e, afflicted)[k])]]

(* One iteration of the enemy phase: an enemy born in it has no move yet.  A *)
(* dead player ends the phase at once, with the debuffs still marked.        *)
EnemyTurn ==
  /\ pc = "enemies" /\ at <= Len(combat.enemies)
  /\ LET e == combat.enemies[at]
         acts == e.hp > 0 /\ e.move # NoMove
     IN \E lost \in (IF acts /\ e.move.hits THEN 0..1 ELSE {0}),
           answer \in (IF acts /\ e.move.hits /\ "Flame Barrier" \in powers THEN 1..MaxBlow ELSE {0}) :
          LET done == IF acts THEN Performed(combat, at, answer) ELSE combat
              checked == IF e.hp > 0 THEN CheckEnemyDeaths(done) ELSE done
              fallen == hp - lost <= 0
          IN /\ hp' = hp - lost
             /\ combat' = [checked EXCEPT !.window = ~fallen]
             /\ pc' = (IF fallen THEN "player" ELSE "enemies")
             /\ at' = (IF fallen THEN at ELSE at + 1)
  /\ UNCHANGED <<turn, plays, encounter, powers>>

(* _tick_enemy_powers: Regenerate, Intangible, Poison. *)
\* Bug: Regenerate heals past max_hp.
Ticked_Overheals(e) ==
  [e EXCEPT !.intangible = @ /\ e.fresh, !.fresh = FALSE,
            !.hp = Lowered(IF e.kind = "AwakenedOne" THEN @ + 1 ELSE @, e.poison), !.poison = Lowered(@, 1)]
\* Bug: Intangible granted during the enemy phase ticks in the same round.
Ticked_NotFresh(e) ==
  [e EXCEPT !.intangible = FALSE, !.fresh = FALSE,
            !.hp = Lowered(IF e.kind = "AwakenedOne" /\ @ < e.max THEN @ + 1 ELSE @, e.poison),
            !.poison = Lowered(@, 1)]
Ticked(e) ==
  LET healed == IF e.kind = "AwakenedOne" /\ e.hp < e.max THEN e.hp + 1 ELSE e.hp
      covered == e.intangible /\ e.fresh
      dose == IF covered /\ e.poison > 1 THEN 1 ELSE e.poison
  IN [e EXCEPT !.intangible = covered, !.fresh = FALSE,
               !.hp = Lowered(healed, dose), !.poison = Lowered(@, 1)]

EnemiesTicked(c) == ForLiving(LAMBDA x, i : [x EXCEPT !.enemies[i] = Ticked(@)], c)

(* _tick_player_debuffs *)
\* Bug: every debuff ticks, the ones just applied too.
DebuffsTicked_All(c) ==
  [c EXCEPT !.held = [d \in Debuffs |-> Lowered(@[d], 1)], !.justApplied = {}]
DebuffsTicked(c) ==
  [c EXCEPT !.held = [d \in Debuffs |-> IF d \in c.justApplied THEN @[d] ELSE Lowered(@[d], 1)],
            !.justApplied = {}]

EndRound ==
  /\ pc = "enemies" /\ at > Len(combat.enemies)
  /\ LET closed == [combat EXCEPT !.window = FALSE]
     IN combat' = DebuffsTicked(CheckEnemyDeaths(EnemiesTicked(closed)))
  /\ pc' = "select" /\ at' = 1
  /\ UNCHANGED <<turn, plays, encounter, hp, powers>>

(* The caller finds is_combat_over and, on a win, runs end_combat. *)
Finish ==
  /\ pc = "player" /\ Outcome # "none"
  /\ pc' = "over"
  /\ UNCHANGED <<at, turn, plays, encounter, hp, powers, combat>>

Next ==
  \/ SelectMove \/ BeginPlayerTurn
  \/ PlayAttack \/ PlaySweep \/ PlayDeadlyPoison \/ PlayCorpseExplosion \/ PlayBerserk \/ PlayPower
  \/ EndPlayerTurn \/ EnemyTurn \/ EndRound \/ Finish

Spec == Init /\ [][Next]_vars
-----------------------------------------------------------------------------
TypeOK ==
  /\ pc \in {"select", "player", "enemies", "over"}
  /\ encounter \in Encounters
  /\ turn \in 0..encounter.turns /\ plays \in 0..MaxPlays
  /\ hp \in -1..PlayerHp /\ powers \subseteq {"Combust", "Flame Barrier"}
  /\ at \in 1..(Len(combat.enemies) + 1)
  /\ \A i \in DOMAIN combat.enemies :
       LET e == combat.enemies[i]
       IN e.hp \in 0..e.max /\ e.poison \in 0..MaxPoison /\ e.deaths \in Nat
  /\ combat.held \in [Debuffs -> Nat] /\ combat.artifact \in 0..1
  /\ combat.justApplied \subseteq Debuffs /\ combat.owed \subseteq Debuffs

(* The justApplied rule: a debuff that landed on the player during the end  *)
(* of the turn or the enemy phase is still in force throughout the player's *)
(* next turn, whatever else ticked, died or was spawned in between.         *)
DebuffsCover ==
  pc = "player" /\ hp > 0 => \A d \in combat.owed : combat.held[d] > 0

(* The caps on reinforcements hold at every moment, although the move is    *)
(* chosen a whole player's turn before it is performed: two living torches  *)
(* at most, one pair of orbs per combat, four living daggers, and a gremlin *)
(* band that never outgrows five.                                           *)
OfKind(kind) == {i \in DOMAIN combat.enemies : combat.enemies[i].kind = kind}
SpawnCaps ==
  /\ Cardinality(LivingOf(combat, "TorchHead")) <= 2
  /\ Cardinality(OfKind("OrbWalker")) <= 2
  /\ Cardinality(LivingOf(combat, "SnakeDagger")) <= MaxDaggers
  /\ OfKind("GremlinLeader") # {} => Len(combat.enemies) <= 5

(* ENEMY_DEATH is announced once for each life an enemy has (relics pay and *)
(* Corpse Explosion bursts on each announcement), and an enemy announced    *)
(* dead and not reborn has no hit points again, through every chain of      *)
(* explosions, splits and heals.                                            *)
DeathsOnce ==
  \A i \in DOMAIN combat.enemies :
    LET e == combat.enemies[i]
    IN /\ e.deaths <= (IF e.kind \in Reborn THEN 2 ELSE 1)
       /\ ~e.alive => e.hp = 0 /\ (e.kind \in Reborn => e.turned)

(* Intangible covers exactly the player's turns it is meant for: the first  *)
(* three of a Nemesis, and the one that follows an Awakened One's Rebirth.  *)
IntangibleTurns ==
  pc = "player" =>
    \A i \in Living(combat) :
      LET e == combat.enemies[i]
      IN /\ e.kind = "Nemesis" /\ hp > 0 => (e.intangible <=> turn <= 3)
         /\ e.kind = "AwakenedOne" /\ hp > 0 => (e.intangible <=> LastIs(e, "Rebirth"))

(* A combat that is declared won has announced every death: the docstring   *)
(* of _check_enemy_deaths, and the on_death wiring the audit calls clean.   *)
WinAnnounced ==
  pc = "over" /\ Outcome = "win" => \A i \in DOMAIN combat.enemies : ~combat.enemies[i].alive
=============================================================================
