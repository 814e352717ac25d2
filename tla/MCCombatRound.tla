---------------------------- MODULE MCCombatRound ---------------------------
(* Small instances of CombatRound.  Each combat has the foes one hazard    *)
(* needs, the cards that provoke it, and turns enough for it to happen:    *)
(* units of hit points are two for an enemy and one for a minion, four for *)
(* the Slime Boss, whose halves split again.                               *)
EXTENDS CombatRound

Fight(turns, foes, cards) == [foes |-> foes, cards |-> cards, hourglass |-> FALSE, turns |-> turns]
Timed(fight) == [fight EXCEPT !.hourglass = TRUE]

Provoked == {
  Fight(1, <<"SlimeBoss">>, {"Strike", "Cleave", "Corpse Explosion", "Combust"}),
  Fight(2, <<"SlimeBoss">>, {"Strike", "Flame Barrier"}),
  Fight(3, <<"FungalBeast">>, {"Strike", "Deadly Poison", "Flame Barrier"}),
  Timed(Fight(2, <<"Darkling", "Darkling", "Darkling">>, {"Cleave", "Corpse Explosion"})),
  Fight(3, <<"Chosen">>, {"Strike", "Berserk", "Doubt", "Shame"}),
  Fight(3, <<"RedSlaver", "BlueSlaver", "Taskmaster">>, {"Cleave", "Shame"}),
  Fight(5, <<"Nemesis">>, {"Strike", "Deadly Poison"}),
  Timed(Fight(6, <<"AwakenedOne">>, {"Strike", "Deadly Poison", "Flame Barrier"})),
  Fight(6, <<"TheCollector">>, {"Strike", "Cleave"}),
  Fight(6, <<"GremlinLeader">>, {"Cleave"}),
  Fight(7, <<"BronzeAutomaton">>, {"Cleave"}),
  Fight(11, <<"Reptomancer">>, {"Cleave"}) }

(* Every group of the tables against a player who only ends turns. *)
Parade == {Fight(4, foes, {}) : foes \in EncounterTable}
MCEncounters == Provoked \cup Parade

Minions == {"TorchHead", "OrbWalker", "SnakeDagger"}
Named ==
  UNION {{enc.foes[i] : i \in DOMAIN enc.foes} : enc \in MCEncounters}
MCStartHp == [k \in Named \cup Minions |->
                IF k = "SlimeBoss" THEN 4 ELSE IF k \in Minions THEN 1 ELSE 2]
=============================================================================
