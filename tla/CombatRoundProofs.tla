--------------------------- MODULE CombatRoundProofs ---------------------------
(***************************************************************************)
(* TLAPS proofs about CombatRound, for any encounters of the tables, any   *)
(* hit points and any bounds.                                              *)
(*                                                                         *)
(* One set, Combats(marked), says of a combat what the operators of a      *)
(* round keep: the lives of each enemy are accounted for, and every debuff *)
(* that is owed the player is held and, while the end of the round is      *)
(* still to come (`marked`), is one the tick will pass over.  Each         *)
(* operator maps the set to itself; the loops over combat.enemies, which   *)
(* are functions of the index, by induction over it.  After and Frame say  *)
(* what blows and deaths leave alone.                                      *)
(*                                                                         *)
(* Three invariants follow, each resting on the ones before it: RoundInv   *)
(* (debuffs and deaths), BandInv (who stands with whom, and the caps on    *)
(* reinforcements) and LonerInv (the cover of the enemies that fight       *)
(* alone).                                                                 *)
(***************************************************************************)
EXTENDS CombatRound, ListLemmas

-----------------------------------------------------------------------------
(* The moves *)

Inflictions == Debuffs \X (Nat \ {0})
\* The moves of a few classes that do more than hit and afflict: they add
\* enemies or make their owner Intangible.
SpecialNames == {"Spawn!", "Spawn Orbs", "Rally!", "Summon", "Rebirth"}
PlainNames ==
    {"Incantation", "Dark Strike", "Chomp", "Thrash", "Bellow", "Bite", "Grow", "Spit Web",
     "Tackle", "Lick", "Corrosive Spit", "Flame Tackle", "Lunge", "Rush", "Skull Bash", "Sleep",
     "Siphon Soul", "Attack", "Beam", "Bolt", "Goop Spray", "Preparing", "Slam", "Activate", "Divider",
     "Inferno", "Inflame", "Sear", "Poke", "Zap", "Debilitate", "Suck", "Fell", "Stunned", "Peck",
     "Swoop", "Headbutt", "Stab", "Multi-Stab", "Flail", "Strong Strike", "Implant", "Wither",
     "Encourage", "Rake", "Entangle", "Scouring Whip", "Buff", "Mega Slash", "Boost", "Hyper Beam",
     "Laser", "Claw", "Gloat", "Execute", "Flex", "Smash", "Heavy Slash", "Defensive Stance", "Taunt",
     "Nip", "Count", "It Is Time", "Roar", "Drool", "Nom", "Scythe", "Debuff", "Slash", "Big Slash",
     "Circle of Power", "Square of Protection", "Dark Echo", "Soul Strike", "Sludge", "Ripple",
     "Reverberate", "Head Slam"}
MoveNames == {"none"} \cup PlainNames \cup SpecialNames
Plain == [name : PlainNames, hits : BOOLEAN, inflicts : Seq(Inflictions)]
MoveSet == [name : MoveNames, hits : BOOLEAN, inflicts : Seq(Inflictions)]

LEMMA MoveKinds ==
    /\ \A name \in PlainNames : Attack(name) \in Plain /\ Quiet(name) \in Plain
    /\ \A name \in PlainNames, inflicts \in Seq(Inflictions) :
          AttackAnd(name, inflicts) \in Plain /\ Hex(name, inflicts) \in Plain
    /\ \A name \in SpecialNames : Quiet(name) \in MoveSet /\ Quiet(name).name = name
    /\ Plain \subseteq MoveSet /\ NoMove \in MoveSet /\ NoMove.name = "none"
<1>. HIDE DEF PlainNames, SpecialNames, Inflictions
<1>. QED
  BY EmptySeq DEF Attack, Quiet, AttackAnd, Hex, NoMove, Move, Plain, MoveSet, MoveNames

LEMMA PlainMove ==
    ASSUME NEW m \in Plain
    PROVE  m.name \notin SpecialNames /\ m.name # "none"
<1>1. m.name \in PlainNames
  BY DEF Plain
<1>2. "Spawn!" \notin PlainNames
  BY DEF PlainNames
<1>3. "Spawn Orbs" \notin PlainNames
  BY DEF PlainNames
<1>4. "Rally!" \notin PlainNames
  BY DEF PlainNames
<1>5. "Summon" \notin PlainNames
  BY DEF PlainNames
<1>6. "Rebirth" \notin PlainNames
  BY DEF PlainNames
<1>7. "none" \notin PlainNames
  BY DEF PlainNames
<1>. QED
  BY <1>1, <1>2, <1>3, <1>4, <1>5, <1>6, <1>7 DEF SpecialNames

LEMMA InflictLists ==
    ASSUME NEW d \in Debuffs, NEW n \in Nat \ {0}
    PROVE  /\ <<<<d, n>>>> \in Seq(Inflictions)
           /\ \A e \in Debuffs, m \in Nat \ {0} : <<<<d, n>>, <<e, m>>>> \in Seq(Inflictions)
<1>1. \A e \in Debuffs, m \in Nat \ {0} : <<e, m>> \in Inflictions
  BY DEF Inflictions
<1>. HIDE DEF Inflictions
<1>2. <<<<d, n>>>> \in Seq(Inflictions)
  BY <1>1
<1>3. ASSUME NEW e \in Debuffs, NEW m \in Nat \ {0} PROVE <<<<d, n>>, <<e, m>>>> \in Seq(Inflictions)
  <2>1. <<d, n>> \in Inflictions /\ <<e, m>> \in Inflictions
    BY <1>1
  <2>. QED
    BY <2>1
<1>. QED
  BY <1>2, <1>3

LEMMA AtCycle ==
    ASSUME NEW S, NEW cycle \in Seq(S), cycle # <<>>, NEW n \in Nat
    PROVE  At(cycle, n) \in S
<1>1. Len(cycle) \in Nat /\ Len(cycle) > 0
  BY EmptySeq, LenProperties
<1>2. n % Len(cycle) \in 0 .. Len(cycle) - 1
  BY <1>1
<1>3. (n % Len(cycle)) + 1 \in 1 .. Len(cycle)
  BY <1>1, <1>2
<1>. QED
  BY <1>3, ElementOfSeq DEF At

LEMMA ListOf2 ==
    ASSUME NEW S, NEW a \in S, NEW b \in S
    PROVE  <<a, b>> \in Seq(S)
OBVIOUS

LEMMA ListOf3 ==
    ASSUME NEW S, NEW a \in S, NEW b \in S, NEW c \in S
    PROVE  <<a, b, c>> \in Seq(S)
OBVIOUS

LEMMA ListOf4 ==
    ASSUME NEW S, NEW a \in S, NEW b \in S, NEW c \in S, NEW d \in S
    PROVE  <<a, b, c, d>> \in Seq(S)
OBVIOUS

LEMMA ListOf5 ==
    ASSUME NEW S, NEW a \in S, NEW b \in S, NEW c \in S, NEW d \in S, NEW e \in S
    PROVE  <<a, b, c, d, e>> \in Seq(S)
OBVIOUS

LEMMA ListOf6 ==
    ASSUME NEW S, NEW a \in S, NEW b \in S, NEW c \in S, NEW d \in S, NEW e \in S, NEW f \in S
    PROVE  <<a, b, c, d, e, f>> \in Seq(S)
OBVIOUS

LEMMA ListOf7 ==
    ASSUME NEW S, NEW a \in S, NEW b \in S, NEW c \in S, NEW d \in S, NEW e \in S, NEW f \in S, NEW g \in S
    PROVE  <<a, b, c, d, e, f, g>> \in Seq(S)
OBVIOUS

LEMMA InflictTable ==
    /\ <<<<"WEAK", 1>>>> \in Seq(Inflictions) /\ <<<<"WEAK", 2>>>> \in Seq(Inflictions)
    /\ <<<<"VULNERABLE", 2>>>> \in Seq(Inflictions) /\ <<<<"FRAIL", 1>>>> \in Seq(Inflictions)
    /\ <<<<"ENTANGLED", 1>>>> \in Seq(Inflictions)
    /\ <<<<"VULNERABLE", 2>>, <<"WEAK", 2>>>> \in Seq(Inflictions)
    /\ <<<<"WEAK", 2>>, <<"VULNERABLE", 2>>>> \in Seq(Inflictions)
    /\ <<<<"VULNERABLE", 3>>, <<"WEAK", 3>>>> \in Seq(Inflictions)
<1>1. "WEAK" \in Debuffs /\ "VULNERABLE" \in Debuffs /\ "FRAIL" \in Debuffs /\ "ENTANGLED" \in Debuffs
  BY DEF Debuffs
<1>. QED
  BY <1>1, InflictLists

LEMMA Act1Moves ==
    ASSUME NEW e, e.picks \in Nat, e.made \in Nat, NEW hurt
    PROVE  /\ Cultist(e) \subseteq Plain /\ JawWorm(e) \subseteq Plain /\ RedLouse(e) \subseteq Plain
           /\ GreenLouse(e) \subseteq Plain /\ AcidSlimeS(e) \subseteq Plain
           /\ AcidSlimeM(e) \subseteq Plain /\ AcidSlimeL(e) \subseteq Plain
           /\ SpikeSlimeS(e) \subseteq Plain /\ SpikeSlimeM(e) \subseteq Plain
           /\ SpikeSlimeL(e) \subseteq Plain /\ FungalBeast(e) \subseteq Plain
           /\ GremlinNob(e) \subseteq Plain /\ Lagavulin(e, hurt) \subseteq Plain
           /\ Sentry(e) \subseteq Plain /\ SlimeBoss(e) \subseteq Plain
           /\ Hexaghost(e) \subseteq Plain
<1>1. /\ "Incantation" \in PlainNames /\ "Dark Strike" \in PlainNames /\ "Chomp" \in PlainNames
      /\ "Thrash" \in PlainNames /\ "Bellow" \in PlainNames /\ "Bite" \in PlainNames /\ "Grow" \in PlainNames
      /\ "Spit Web" \in PlainNames /\ "Tackle" \in PlainNames /\ "Lick" \in PlainNames
      /\ "Corrosive Spit" \in PlainNames /\ "Flame Tackle" \in PlainNames /\ "Lunge" \in PlainNames
      /\ "Rush" \in PlainNames /\ "Skull Bash" \in PlainNames /\ "Sleep" \in PlainNames
      /\ "Siphon Soul" \in PlainNames /\ "Attack" \in PlainNames /\ "Beam" \in PlainNames
      /\ "Bolt" \in PlainNames /\ "Goop Spray" \in PlainNames /\ "Preparing" \in PlainNames
      /\ "Slam" \in PlainNames /\ "Activate" \in PlainNames /\ "Divider" \in PlainNames
      /\ "Inferno" \in PlainNames /\ "Inflame" \in PlainNames /\ "Sear" \in PlainNames
  BY DEF PlainNames
<1>2. /\ Quiet("Incantation") \in Plain /\ Attack("Dark Strike") \in Plain
      /\ Attack("Chomp") \in Plain /\ Attack("Thrash") \in Plain /\ Quiet("Bellow") \in Plain
      /\ Attack("Bite") \in Plain /\ Quiet("Grow") \in Plain
      /\ Hex("Spit Web", <<<<"WEAK", 2>>>>) \in Plain /\ Attack("Tackle") \in Plain
      /\ Hex("Lick", <<<<"WEAK", 1>>>>) \in Plain /\ Attack("Corrosive Spit") \in Plain
      /\ Hex("Lick", <<<<"WEAK", 2>>>>) \in Plain /\ Attack("Flame Tackle") \in Plain
      /\ Attack("Lunge") \in Plain /\ Attack("Rush") \in Plain
      /\ AttackAnd("Skull Bash", <<<<"VULNERABLE", 2>>>>) \in Plain /\ Quiet("Sleep") \in Plain
      /\ Quiet("Siphon Soul") \in Plain /\ Attack("Attack") \in Plain /\ Attack("Beam") \in Plain
      /\ Quiet("Bolt") \in Plain /\ Quiet("Goop Spray") \in Plain /\ Quiet("Preparing") \in Plain
      /\ Attack("Slam") \in Plain /\ Quiet("Activate") \in Plain /\ Attack("Divider") \in Plain
      /\ Attack("Inferno") \in Plain /\ Quiet("Inflame") \in Plain /\ Attack("Sear") \in Plain
  BY <1>1, InflictTable, MoveKinds
<1>. HIDE DEF Plain, PlainNames, MoveSet, SpecialNames
<1>3. Cultist(e) \subseteq Plain
  BY <1>2 DEF Cultist
<1>4. JawWorm(e) \subseteq Plain
  BY <1>2 DEF JawWorm, AnyBut
<1>5. RedLouse(e) \subseteq Plain
  BY <1>2 DEF RedLouse
<1>6. GreenLouse(e) \subseteq Plain
  BY <1>2 DEF GreenLouse
<1>7. AcidSlimeS(e) \subseteq Plain
  BY <1>2 DEF AcidSlimeS
<1>8. AcidSlimeM(e) \subseteq Plain
  BY <1>2 DEF AcidSlimeM, AnyBut
<1>9. AcidSlimeL(e) \subseteq Plain
  BY <1>2 DEF AcidSlimeL, AnyBut
<1>10. SpikeSlimeS(e) \subseteq Plain
  BY <1>2 DEF SpikeSlimeS
<1>11. SpikeSlimeM(e) \subseteq Plain
  BY <1>2 DEF SpikeSlimeM, AnyBut
<1>12. SpikeSlimeL(e) \subseteq Plain
  BY <1>2 DEF SpikeSlimeL, AnyBut
<1>13. FungalBeast(e) \subseteq Plain
  BY <1>2 DEF FungalBeast, AnyBut
<1>14. GremlinNob(e) \subseteq Plain
  BY <1>2 DEF GremlinNob, AnyBut
<1>15. Lagavulin(e, hurt) \subseteq Plain
  BY <1>2 DEF Lagavulin
<1>16. Sentry(e) \subseteq Plain
  <2>1. <<Attack("Beam"), Quiet("Bolt")>> \in Seq(Plain)
    BY <1>2, ListOf2
  <2>. QED
    BY <1>2, <2>1, AtCycle DEF Sentry
<1>17. SlimeBoss(e) \subseteq Plain
  <2>1. <<Quiet("Goop Spray"), Quiet("Preparing"), Attack("Slam"), Quiet("Preparing"),
          Attack("Slam")>> \in Seq(Plain)
    BY <1>2, ListOf5
  <2>. QED
    BY <1>2, <2>1, AtCycle DEF SlimeBoss
<1>18. Hexaghost(e) \subseteq Plain
  <2>1. <<Attack("Divider"), Attack("Inferno"), Quiet("Inflame"), Attack("Inferno"), Attack("Sear"),
          Attack("Inferno")>> \in Seq(Plain)
    BY <1>2, ListOf6
  <2>2. e.picks # 0 => e.picks - 1 \in Nat
    OBVIOUS
  <2>. DEFINE n == e.picks - 1
  <2>3. ASSUME e.picks # 0 
      PROVE  At(<<Attack("Divider"), Attack("Inferno"), Quiet("Inflame"), Attack("Inferno"), Attack("Sear"),
          Attack("Inferno")>>, n) \in Plain
    <3>1. n \in Nat
      BY <2>2, <2>3
    <3>. HIDE DEF n
    <3>. QED
      BY <2>1, <3>1, AtCycle
  <2>. QED
    BY <1>2, <2>3 DEF Hexaghost
<1>. QED
  BY <1>3, <1>4, <1>5, <1>6, <1>7, <1>8, <1>9, <1>10, <1>11, <1>12, <1>13, <1>14, <1>15, <1>16, <1>17,
     <1>18

LEMMA Act2Moves ==
    ASSUME NEW e, e.picks \in Nat, e.made \in Nat
    PROVE  /\ Chosen(e) \subseteq Plain /\ ShellParasite(e) \subseteq Plain /\ Byrd(e) \subseteq Plain
           /\ TorchHead(e) \subseteq Plain /\ Transient(e) \subseteq Plain
           /\ BookOfStabbing(e) \subseteq Plain /\ WrithingMass(e) \subseteq Plain
           /\ GremlinLeader(e) \subseteq Plain \cup {Quiet("Rally!")} /\ RedSlaver(e) \subseteq Plain
           /\ BlueSlaver(e) \subseteq Plain /\ Taskmaster(e) \subseteq Plain
           /\ TheCollector(e) \subseteq Plain \cup {Quiet("Spawn!")}
           /\ BronzeAutomaton(e) \subseteq Plain \cup (IF e.turned THEN {} ELSE {Quiet("Spawn Orbs")})
           /\ OrbWalker(e) \subseteq Plain /\ TheChamp(e) \subseteq Plain
<1>1. /\ "Poke" \in PlainNames /\ "Zap" \in PlainNames /\ "Debilitate" \in PlainNames /\ "Suck" \in PlainNames
      /\ "Fell" \in PlainNames /\ "Stunned" \in PlainNames /\ "Peck" \in PlainNames /\ "Swoop" \in PlainNames
      /\ "Headbutt" \in PlainNames /\ "Flame Tackle" \in PlainNames /\ "Attack" \in PlainNames
      /\ "Stab" \in PlainNames /\ "Multi-Stab" \in PlainNames /\ "Flail" \in PlainNames
      /\ "Strong Strike" \in PlainNames /\ "Implant" \in PlainNames /\ "Wither" \in PlainNames
      /\ "Encourage" \in PlainNames /\ "Rake" \in PlainNames
      /\ "Entangle" \in PlainNames /\ "Scouring Whip" \in PlainNames
      /\ "Buff" \in PlainNames /\ "Mega Slash" \in PlainNames /\ "Boost" \in PlainNames
      /\ "Hyper Beam" \in PlainNames /\ "Laser" \in PlainNames
      /\ "Claw" \in PlainNames /\ "Gloat" \in PlainNames /\ "Execute" \in PlainNames /\ "Flex" \in PlainNames
      /\ "Smash" \in PlainNames /\ "Heavy Slash" \in PlainNames /\ "Defensive Stance" \in PlainNames
      /\ "Taunt" \in PlainNames
  BY DEF PlainNames
<1>2. /\ Attack("Poke") \in Plain /\ Attack("Zap") \in Plain
      /\ Hex("Debilitate", <<<<"VULNERABLE", 2>>, <<"WEAK", 2>>>>) \in Plain
      /\ AttackAnd("Suck", <<<<"FRAIL", 1>>>>) \in Plain /\ Attack("Fell") \in Plain
      /\ Quiet("Stunned") \in Plain /\ Attack("Peck") \in Plain /\ Attack("Swoop") \in Plain
      /\ Attack("Headbutt") \in Plain /\ Attack("Flame Tackle") \in Plain
      /\ Attack("Attack") \in Plain /\ Attack("Stab") \in Plain /\ Attack("Multi-Stab") \in Plain
      /\ Attack("Flail") \in Plain /\ Attack("Strong Strike") \in Plain /\ Quiet("Implant") \in Plain
      /\ AttackAnd("Wither", <<<<"WEAK", 2>>, <<"VULNERABLE", 2>>>>) \in Plain
      /\ Quiet("Encourage") \in Plain
      /\ AttackAnd("Rake", <<<<"WEAK", 1>>>>) \in Plain
      /\ Hex("Entangle", <<<<"ENTANGLED", 1>>>>) \in Plain /\ Attack("Scouring Whip") \in Plain
      /\ Quiet("Buff") \in Plain /\ Attack("Mega Slash") \in Plain
      /\ Quiet("Boost") \in Plain /\ Attack("Hyper Beam") \in Plain
      /\ Attack("Laser") \in Plain /\ Attack("Claw") \in Plain /\ Quiet("Gloat") \in Plain
      /\ Attack("Execute") \in Plain /\ Quiet("Flex") \in Plain /\ Attack("Smash") \in Plain
      /\ Attack("Heavy Slash") \in Plain /\ Quiet("Defensive Stance") \in Plain
      /\ Hex("Taunt", <<<<"WEAK", 2>>, <<"VULNERABLE", 2>>>>) \in Plain
  BY <1>1, InflictTable, MoveKinds
<1>. HIDE DEF Plain, PlainNames, MoveSet, SpecialNames
<1>3. Chosen(e) \subseteq Plain
  BY <1>2 DEF Chosen, AnyBut
<1>4. ShellParasite(e) \subseteq Plain
  <2>1. <<AttackAnd("Suck", <<<<"FRAIL", 1>>>>), Attack("Fell"), AttackAnd("Suck", <<<<"FRAIL", 1>>>>),
          Quiet("Stunned"), AttackAnd("Suck", <<<<"FRAIL", 1>>>>)>> \in Seq(Plain)
    BY <1>2, ListOf5
  <2>. QED
    BY <1>2, <2>1, AtCycle DEF ShellParasite
<1>5. Byrd(e) \subseteq Plain
  <2>1. <<Attack("Peck"), Attack("Peck"), Attack("Peck"), Attack("Swoop"), Attack("Peck"),
          Attack("Peck"), Attack("Headbutt")>> \in Seq(Plain)
    BY <1>2, ListOf7
  <2>. QED
    BY <1>2, <2>1, AtCycle DEF Byrd
<1>6. TorchHead(e) \subseteq Plain
  BY <1>2 DEF TorchHead
<1>7. Transient(e) \subseteq Plain
  BY <1>2 DEF Transient
<1>8. BookOfStabbing(e) \subseteq Plain
  <2>1. <<Attack("Stab"), Attack("Stab"), Attack("Multi-Stab")>> \in Seq(Plain)
    BY <1>2, ListOf3
  <2>. QED
    BY <1>2, <2>1, AtCycle DEF BookOfStabbing
<1>9. WrithingMass(e) \subseteq Plain
  BY <1>2 DEF WrithingMass
<1>10. GremlinLeader(e) \subseteq Plain \cup {Quiet("Rally!")}
  <2>. DEFINE S == Plain \cup {Quiet("Rally!")}
  <2>1. /\ Quiet("Rally!") \in S /\ Quiet("Encourage") \in S /\ Attack("Stab") \in S
    BY <1>2
  <2>. HIDE DEF S
  <2>2. <<Quiet("Rally!"), Quiet("Encourage"), Attack("Stab"), Attack("Stab"),
          Quiet("Encourage")>> \in Seq(S)
    BY <2>1, ListOf5
  <2>3. GremlinLeader(e) \subseteq S
    BY <2>1, <2>2, AtCycle DEF GremlinLeader
  <2>. QED
    BY <2>3 DEF S
<1>11. RedSlaver(e) \subseteq Plain
  <2>1. <<Attack("Stab"), Rake, Attack("Stab"), Hex("Entangle", <<<<"ENTANGLED",
          1>>>>)>> \in Seq(Plain)
    BY <1>2, ListOf4 DEF Rake
  <2>. QED
    BY <1>2, <2>1, AtCycle DEF RedSlaver, Rake
<1>12. BlueSlaver(e) \subseteq Plain
  BY <1>2 DEF BlueSlaver, Rake
<1>13. Taskmaster(e) \subseteq Plain
  BY <1>2 DEF Taskmaster
<1>14. TheCollector(e) \subseteq Plain \cup {Quiet("Spawn!")}
  <2>. DEFINE S == Plain \cup {Quiet("Spawn!")}
  <2>1. /\ Quiet("Spawn!") \in S /\ Quiet("Buff") \in S /\ Attack("Mega Slash") \in S
    BY <1>2
  <2>. HIDE DEF S
  <2>2. <<Quiet("Spawn!"), Quiet("Buff"), Attack("Mega Slash"), Quiet("Buff"),
          Attack("Mega Slash")>> \in Seq(S)
    BY <2>1, ListOf5
  <2>3. TheCollector(e) \subseteq S
    BY <2>1, <2>2, AtCycle DEF TheCollector
  <2>. QED
    BY <2>3 DEF S
<1>15. BronzeAutomaton(e) \subseteq Plain \cup (IF e.turned THEN {} ELSE {Quiet("Spawn Orbs")})
  <2>. DEFINE S == Plain \cup (IF e.turned THEN {} ELSE {Quiet("Spawn Orbs")})
  <2>1. /\ (IF e.turned THEN Quiet("Boost") ELSE Quiet("Spawn Orbs")) \in S /\ Attack("Flail") \in S
        /\ Attack("Hyper Beam") \in S /\ Quiet("Stunned") \in S
    BY <1>2
  <2>. HIDE DEF S
  <2>2. <<IF e.turned THEN Quiet("Boost") ELSE Quiet("Spawn Orbs"), Attack("Flail"), Attack("Flail"),
          Attack("Hyper Beam"), Quiet("Stunned"), Quiet("Stunned")>> \in Seq(S)
    BY <2>1, ListOf6
  <2>3. BronzeAutomaton(e) \subseteq S
    BY <2>1, <2>2, AtCycle DEF BronzeAutomaton
  <2>. QED
    BY <2>3 DEF S
<1>16. OrbWalker(e) \subseteq Plain
  BY <1>2 DEF OrbWalker
<1>17. TheChamp(e) \subseteq Plain
  <2>1. <<Quiet("Gloat"), Attack("Execute"), Attack("Execute"), Quiet("Flex"),
          Attack("Smash")>> \in Seq(Plain)
    BY <1>2, ListOf5
  <2>2. <<Quiet("Defensive Stance"), Attack("Execute"), Attack("Heavy Slash"), Hex("Taunt", <<<<"WEAK",
          2>>, <<"VULNERABLE", 2>>>>)>> \in Seq(Plain)
    BY <1>2, ListOf4
  <2>. QED
    BY <1>2, <2>1, <2>2, AtCycle DEF TheChamp
<1>. QED
  BY <1>3, <1>4, <1>5, <1>6, <1>7, <1>8, <1>9, <1>10, <1>11, <1>12, <1>13, <1>14, <1>15, <1>16, <1>17

LEMMA Act3Moves ==
    ASSUME NEW e, e.picks \in Nat, e.made \in Nat, NEW daggers
    PROVE  /\ Darkling(e) \subseteq Plain /\ GiantHead(e) \subseteq Plain /\ Maw(e) \subseteq Plain
           /\ Nemesis(e) \subseteq Plain
           /\ Reptomancer(e, daggers) \subseteq Plain \cup (IF daggers >= MaxDaggers THEN {} ELSE {Quiet("Summon")})
           /\ SnakeDagger(e) \subseteq Plain /\ Donu(e) \subseteq Plain /\ Deca(e) \subseteq Plain
           /\ AwakenedOne(e) \subseteq Plain \cup {Quiet("Rebirth")} /\ TimeEater(e) \subseteq Plain
<1>1. /\ "Chomp" \in PlainNames /\ "Nip" \in PlainNames /\ "Count" \in PlainNames /\ "It Is Time" \in PlainNames
      /\ "Roar" \in PlainNames /\ "Drool" \in PlainNames /\ "Nom" \in PlainNames /\ "Scythe" \in PlainNames
      /\ "Debuff" \in PlainNames /\ "Slash" \in PlainNames
      /\ "Big Slash" \in PlainNames /\ "Stab" \in PlainNames /\ "Circle of Power" \in PlainNames
      /\ "Beam" \in PlainNames /\ "Square of Protection" \in PlainNames /\ "Dark Echo" \in PlainNames
      /\ "Soul Strike" \in PlainNames /\ "Sludge" \in PlainNames
      /\ "Ripple" \in PlainNames /\ "Reverberate" \in PlainNames /\ "Head Slam" \in PlainNames
  BY DEF PlainNames
<1>2. /\ Attack("Chomp") \in Plain /\ AttackAnd("Nip", <<<<"FRAIL", 1>>>>) \in Plain
      /\ Attack("Count") \in Plain /\ Attack("It Is Time") \in Plain
      /\ Hex("Roar", <<<<"VULNERABLE", 3>>, <<"WEAK", 3>>>>) \in Plain /\ Quiet("Drool") \in Plain
      /\ Attack("Nom") \in Plain /\ Attack("Scythe") \in Plain /\ Quiet("Debuff") \in Plain
      /\ Attack("Slash") \in Plain /\ Attack("Big Slash") \in Plain
      /\ Attack("Stab") \in Plain /\ Quiet("Circle of Power") \in Plain /\ Attack("Beam") \in Plain
      /\ Quiet("Square of Protection") \in Plain /\ Hex("Dark Echo", <<<<"VULNERABLE",
        2>>>>) \in Plain
      /\ Attack("Soul Strike") \in Plain /\ Attack("Sludge") \in Plain
      /\ Quiet("Ripple") \in Plain /\ Attack("Reverberate") \in Plain
      /\ AttackAnd("Head Slam", <<<<"VULNERABLE", 2>>>>) \in Plain
  BY <1>1, InflictTable, MoveKinds
<1>. HIDE DEF Plain, PlainNames, MoveSet, SpecialNames
<1>3. Darkling(e) \subseteq Plain
  BY <1>2 DEF Darkling
<1>4. GiantHead(e) \subseteq Plain
  BY <1>2 DEF GiantHead
<1>5. Maw(e) \subseteq Plain
  <2>1. <<Quiet("Drool"), Attack("Nom"), Attack("Nom")>> \in Seq(Plain)
    BY <1>2, ListOf3
  <2>2. e.made # 0 => e.made - 1 \in Nat
    OBVIOUS
  <2>. DEFINE n == e.made - 1
  <2>3. ASSUME e.made # 0 PROVE At(<<Quiet("Drool"), Attack("Nom"), Attack("Nom")>>, n) \in Plain
    <3>1. n \in Nat
      BY <2>2, <2>3
    <3>. HIDE DEF n
    <3>. QED
      BY <2>1, <3>1, AtCycle
  <2>. QED
    BY <1>2, <2>3 DEF Maw
<1>6. Nemesis(e) \subseteq Plain
  <2>1. <<Quiet("Debuff"), Attack("Scythe"), Attack("Scythe")>> \in Seq(Plain)
    BY <1>2, ListOf3
  <2>2. ~(e.picks < 3) => e.picks - 3 \in Nat
    OBVIOUS
  <2>. DEFINE n == e.picks - 3
  <2>3. ASSUME ~(e.picks < 3) PROVE At(<<Quiet("Debuff"), Attack("Scythe"), Attack("Scythe")>>, n) \in Plain
    <3>1. n \in Nat
      BY <2>2, <2>3
    <3>. HIDE DEF n
    <3>. QED
      BY <2>1, <3>1, AtCycle
  <2>. QED
    BY <1>2, <2>3 DEF Nemesis
<1>7. Reptomancer(e, daggers) \subseteq Plain \cup (IF daggers >= MaxDaggers THEN {} ELSE {Quiet("Summon")})
  <2>. DEFINE S == Plain \cup (IF daggers >= MaxDaggers THEN {} ELSE {Quiet("Summon")})
  <2>1. /\ (IF daggers >= MaxDaggers THEN Attack("Slash") ELSE Quiet("Summon")) \in S
        /\ Attack("Slash") \in S /\ Attack("Big Slash") \in S
    BY <1>2
  <2>. HIDE DEF S
  <2>2. <<IF daggers >= MaxDaggers THEN Attack("Slash") ELSE Quiet("Summon"), Attack("Slash"),
          Attack("Slash"), IF daggers >= MaxDaggers THEN Attack("Slash") ELSE Quiet("Summon"),
          Attack("Big Slash")>> \in Seq(S)
    BY <2>1, ListOf5
  <2>3. Reptomancer(e, daggers) \subseteq S
    BY <2>1, <2>2, AtCycle DEF Reptomancer
  <2>. QED
    BY <2>3 DEF S
<1>8. SnakeDagger(e) \subseteq Plain
  BY <1>2 DEF SnakeDagger
<1>9. Donu(e) \subseteq Plain
  <2>1. <<Quiet("Circle of Power"), Attack("Beam"), Attack("Beam")>> \in Seq(Plain)
    BY <1>2, ListOf3
  <2>. QED
    BY <1>2, <2>1, AtCycle DEF Donu
<1>10. Deca(e) \subseteq Plain
  <2>1. <<Quiet("Square of Protection"), Attack("Beam"), Attack("Beam"),
          Quiet("Square of Protection")>> \in Seq(Plain)
    BY <1>2, ListOf4
  <2>. QED
    BY <1>2, <2>1, AtCycle DEF Deca
<1>11. AwakenedOne(e) \subseteq Plain \cup {Quiet("Rebirth")}
  <2>. DEFINE S == Plain \cup {Quiet("Rebirth")}
  <2>1. /\ Attack("Slash") \in S /\ Attack("Soul Strike") \in S /\ Quiet("Rebirth") \in S
        /\ Hex("Dark Echo", <<<<"VULNERABLE", 2>>>>) \in S /\ Attack("Sludge") \in S
    BY <1>2
  <2>. HIDE DEF S
  <2>2. <<Attack("Slash"), Attack("Soul Strike"), Attack("Slash"), Quiet("Rebirth"), Hex("Dark Echo",
          <<<<"VULNERABLE", 2>>>>)>> \in Seq(S)
    BY <2>1, ListOf5
  <2>3. <<Attack("Slash"), Hex("Dark Echo", <<<<"VULNERABLE", 2>>>>), Attack("Sludge"),
          Attack("Slash")>> \in Seq(S)
    BY <2>1, ListOf4
  <2>4. AwakenedOne(e) \subseteq S
    BY <2>1, <2>2, <2>3, AtCycle DEF AwakenedOne
  <2>. QED
    BY <2>4 DEF S
<1>12. TimeEater(e) \subseteq Plain
  <2>1. <<Quiet("Ripple"), Attack("Reverberate"), AttackAnd("Head Slam", <<<<"VULNERABLE", 2>>>>),
          Attack("Reverberate")>> \in Seq(Plain)
    BY <1>2, ListOf4
  <2>. QED
    BY <1>2, <2>1, AtCycle DEF TimeEater
<1>. QED
  BY <1>3, <1>4, <1>5, <1>6, <1>7, <1>8, <1>9, <1>10, <1>11, <1>12

\* The classes MovesOf has a selector for.
Kinds ==
    {"Cultist", "JawWorm", "RedLouse", "GreenLouse", "AcidSlimeS", "AcidSlimeM", "AcidSlimeL", "SpikeSlimeS",
     "SpikeSlimeM", "SpikeSlimeL", "FungalBeast", "GremlinNob", "Lagavulin", "Sentry", "SlimeBoss", "Hexaghost",
     "Chosen", "ShellParasite", "Byrd", "TorchHead", "Transient", "BookOfStabbing", "WrithingMass",
     "GremlinLeader", "RedSlaver", "BlueSlaver", "Taskmaster", "TheCollector", "BronzeAutomaton", "OrbWalker",
     "TheChamp", "Darkling", "GiantHead", "Maw", "Nemesis", "SnakeDagger", "Reptomancer", "Donu", "Deca",
     "AwakenedOne", "TimeEater"}

\* The owners of the special moves.
Owner == [x \in SpecialNames |-> CASE x = "Spawn!" -> "TheCollector"
                                 [] x = "Spawn Orbs" -> "BronzeAutomaton"
                                 [] x = "Rally!" -> "GremlinLeader"
                                 [] x = "Summon" -> "Reptomancer"
                                 [] x = "Rebirth" -> "AwakenedOne"]
Signed(kind, m) == m.name \in SpecialNames => Owner[m.name] = kind
Usual(kind) == kind \notin {"TheCollector", "BronzeAutomaton", "GremlinLeader", "Reptomancer", "AwakenedOne"}

LEMMA UsualMoves ==
    ASSUME NEW e, e.kind \in Kinds, Usual(e.kind), e.picks \in Nat, e.made \in Nat, NEW hurt, NEW daggers
    PROVE  MovesOf(e, hurt, daggers) \subseteq Plain
<1>. HIDE DEF Plain
<1>1. CASE e.kind = "Cultist"
  BY <1>1, Act1Moves DEF MovesOf
<1>2. CASE e.kind = "JawWorm"
  BY <1>2, Act1Moves DEF MovesOf
<1>3. CASE e.kind = "RedLouse"
  BY <1>3, Act1Moves DEF MovesOf
<1>4. CASE e.kind = "GreenLouse"
  BY <1>4, Act1Moves DEF MovesOf
<1>5. CASE e.kind = "AcidSlimeS"
  BY <1>5, Act1Moves DEF MovesOf
<1>6. CASE e.kind = "AcidSlimeM"
  BY <1>6, Act1Moves DEF MovesOf
<1>7. CASE e.kind = "AcidSlimeL"
  BY <1>7, Act1Moves DEF MovesOf
<1>8. CASE e.kind = "SpikeSlimeS"
  BY <1>8, Act1Moves DEF MovesOf
<1>9. CASE e.kind = "SpikeSlimeM"
  BY <1>9, Act1Moves DEF MovesOf
<1>10. CASE e.kind = "SpikeSlimeL"
  BY <1>10, Act1Moves DEF MovesOf
<1>11. CASE e.kind = "FungalBeast"
  BY <1>11, Act1Moves DEF MovesOf
<1>12. CASE e.kind = "GremlinNob"
  BY <1>12, Act1Moves DEF MovesOf
<1>13. CASE e.kind = "Lagavulin"
  BY <1>13, Act1Moves DEF MovesOf
<1>14. CASE e.kind = "Sentry"
  BY <1>14, Act1Moves DEF MovesOf
<1>15. CASE e.kind = "SlimeBoss"
  BY <1>15, Act1Moves DEF MovesOf
<1>16. CASE e.kind = "Hexaghost"
  BY <1>16, Act1Moves DEF MovesOf
<1>17. CASE e.kind = "Chosen"
  BY <1>17, Act2Moves DEF MovesOf
<1>18. CASE e.kind = "ShellParasite"
  BY <1>18, Act2Moves DEF MovesOf
<1>19. CASE e.kind = "Byrd"
  BY <1>19, Act2Moves DEF MovesOf
<1>20. CASE e.kind = "TorchHead"
  BY <1>20, Act2Moves DEF MovesOf
<1>21. CASE e.kind = "Transient"
  BY <1>21, Act2Moves DEF MovesOf
<1>22. CASE e.kind = "BookOfStabbing"
  BY <1>22, Act2Moves DEF MovesOf
<1>23. CASE e.kind = "WrithingMass"
  BY <1>23, Act2Moves DEF MovesOf
<1>24. CASE e.kind = "RedSlaver"
  BY <1>24, Act2Moves DEF MovesOf
<1>25. CASE e.kind = "BlueSlaver"
  BY <1>25, Act2Moves DEF MovesOf
<1>26. CASE e.kind = "Taskmaster"
  BY <1>26, Act2Moves DEF MovesOf
<1>27. CASE e.kind = "OrbWalker"
  BY <1>27, Act2Moves DEF MovesOf
<1>28. CASE e.kind = "TheChamp"
  BY <1>28, Act2Moves DEF MovesOf
<1>29. CASE e.kind = "Darkling"
  BY <1>29, Act3Moves DEF MovesOf
<1>30. CASE e.kind = "GiantHead"
  BY <1>30, Act3Moves DEF MovesOf
<1>31. CASE e.kind = "Maw"
  BY <1>31, Act3Moves DEF MovesOf
<1>32. CASE e.kind = "Nemesis"
  BY <1>32, Act3Moves DEF MovesOf
<1>33. CASE e.kind = "SnakeDagger"
  BY <1>33, Act3Moves DEF MovesOf
<1>34. CASE e.kind = "Donu"
  BY <1>34, Act3Moves DEF MovesOf
<1>35. CASE e.kind = "Deca"
  BY <1>35, Act3Moves DEF MovesOf
<1>36. CASE e.kind = "TimeEater"
  BY <1>36, Act3Moves DEF MovesOf
<1>. QED
  BY <1>1, <1>2, <1>3, <1>4, <1>5, <1>6, <1>7, <1>8, <1>9, <1>10, <1>11, <1>12, <1>13, <1>14,
     <1>15, <1>16, <1>17, <1>18, <1>19, <1>20, <1>21, <1>22, <1>23, <1>24, <1>25, <1>26, <1>27, <1>28,
     <1>29, <1>30, <1>31, <1>32, <1>33, <1>34, <1>35, <1>36 DEF Kinds, Usual

\* Whatever an enemy's class and history, a move its selector may pick puts
\* only duration debuffs on the player, of one stack or more, and a special
\* move is picked by its owner alone: orbs once, daggers below the cap.
LEMMA MovesTyped ==
    ASSUME NEW e, e.kind \in Kinds, e.picks \in Nat, e.made \in Nat, NEW hurt, NEW daggers,
           NEW m \in MovesOf(e, hurt, daggers)
    PROVE  /\ m \in MoveSet /\ m # NoMove /\ Signed(e.kind, m)
           /\ m.name = "Spawn Orbs" => ~e.turned
           /\ m.name = "Summon" => ~(daggers >= MaxDaggers)
<1>1. CASE m \in Plain
  <2>1. m.name \notin SpecialNames /\ m.name # "none"
    BY <1>1, PlainMove
  <2>2. m.name # "Spawn Orbs" /\ m.name # "Summon"
    BY <2>1 DEF SpecialNames
  <2>. HIDE DEF Plain, MoveSet, SpecialNames
  <2>. QED
    BY <1>1, <2>1, <2>2, MoveKinds DEF Signed
<1>2. \A name \in SpecialNames : Quiet(name) \in MoveSet /\ Quiet(name).name = name /\ Quiet(name) # NoMove
  <2>1. "none" \notin SpecialNames
    BY DEF SpecialNames
  <2>. HIDE DEF MoveSet, Plain, SpecialNames
  <2>. QED
    BY <2>1, MoveKinds
<1>3. "Spawn!" \in SpecialNames /\ "Rally!" \in SpecialNames /\ "Rebirth" \in SpecialNames
      /\ "Spawn Orbs" \in SpecialNames /\ "Summon" \in SpecialNames
  BY DEF SpecialNames
<1>4. /\ Owner["Spawn!"] = "TheCollector" /\ Owner["Rally!"] = "GremlinLeader"
      /\ Owner["Rebirth"] = "AwakenedOne" /\ Owner["Spawn Orbs"] = "BronzeAutomaton"
      /\ Owner["Summon"] = "Reptomancer"
  BY <1>3 DEF Owner
<1>. HIDE DEF Plain, MoveSet, SpecialNames, Owner
<1>5. CASE e.kind = "TheCollector"
  <2>1. m \in Plain \/ m = Quiet("Spawn!")
    BY <1>5, Act2Moves DEF MovesOf
  <2>. QED
    BY <1>1, <1>2, <1>3, <1>4, <1>5, <2>1 DEF Signed
<1>6. CASE e.kind = "GremlinLeader"
  <2>1. m \in Plain \/ m = Quiet("Rally!")
    BY <1>6, Act2Moves DEF MovesOf
  <2>. QED
    BY <1>1, <1>2, <1>3, <1>4, <1>6, <2>1 DEF Signed
<1>7. CASE e.kind = "AwakenedOne"
  <2>1. m \in Plain \/ m = Quiet("Rebirth")
    BY <1>7, Act3Moves DEF MovesOf
  <2>. QED
    BY <1>1, <1>2, <1>3, <1>4, <1>7, <2>1 DEF Signed
<1>8. CASE e.kind = "BronzeAutomaton"
  <2>1. m \in Plain \/ (~(e.turned) /\ m = Quiet("Spawn Orbs"))
    BY <1>8, Act2Moves DEF MovesOf
  <2>. QED
    BY <1>1, <1>2, <1>3, <1>4, <1>8, <2>1 DEF Signed
<1>9. CASE e.kind = "Reptomancer"
  <2>1. m \in Plain \/ (~(daggers >= MaxDaggers) /\ m = Quiet("Summon"))
    BY <1>9, Act3Moves DEF MovesOf
  <2>. QED
    BY <1>1, <1>2, <1>3, <1>4, <1>9, <2>1 DEF Signed
<1>10. CASE Usual(e.kind)
  BY <1>1, <1>10, UsualMoves
<1>. QED
  BY <1>5, <1>6, <1>7, <1>8, <1>9, <1>10 DEF Usual

-----------------------------------------------------------------------------
(* Loops: a function of the index by recursion over it *)

Steps(C, n) == [1 .. n -> [C -> C]]
Runs(f, C, c, n, G) == f \in [0 .. n -> C] /\ f[0] = c /\ \A i \in 1 .. n : f[i] = G[i][f[i - 1]]
LEMMA LoopRuns ==
    ASSUME NEW C, NEW c \in C, NEW n \in Nat, NEW G \in Steps(C, n)
    PROVE  \E f : Runs(f, C, c, n, G)
<1>. USE DEF Steps
<1>. DEFINE Upto(f, m) == f[0] = c /\ \A i \in 1 .. m : f[i] = G[i][f[i - 1]]
            M == {m \in Nat : m <= n => \E f \in [0 .. m -> C] : Upto(f, m)}
<1>1. 0 \in M
  <2>. DEFINE f == [i \in 0 .. 0 |-> c]
  <2>1. f \in [0 .. 0 -> C] /\ f[0] = c /\ 1 .. 0 = {}
    OBVIOUS
  <2>2. Upto(f, 0)
    BY <2>1
  <2>. HIDE DEF Upto, f
  <2>. QED
    BY <2>1, <2>2
<1>2. ASSUME NEW m \in Nat, m \in M PROVE m + 1 \in M
  <2>. SUFFICES ASSUME m + 1 <= n PROVE \E f \in [0 .. m + 1 -> C] : Upto(f, m + 1)
    OBVIOUS
  <2>1. PICK f \in [0 .. m -> C] : Upto(f, m)
    BY <1>2
  <2>. DEFINE g == [i \in 0 .. m + 1 |-> IF i = m + 1 THEN G[m + 1][f[m]] ELSE f[i]]
  <2>2. m + 1 \in 1 .. n /\ m \in 0 .. m
    OBVIOUS
  <2>3. G[m + 1][f[m]] \in C
    BY <2>2
  <2>4. g \in [0 .. m + 1 -> C]
    <3>. SUFFICES ASSUME NEW i \in 0 .. m + 1 PROVE g[i] \in C
      OBVIOUS
    <3>1. i = m + 1 \/ i \in 0 .. m
      OBVIOUS
    <3>. QED
      BY <2>3, <3>1
  <2>5. g[m + 1] = G[m + 1][f[m]] /\ \A i \in 0 .. m : g[i] = f[i]
    OBVIOUS
  <2>6. \A i \in 1 .. m + 1 : i - 1 \in 0 .. m /\ (i = m + 1 \/ i \in 1 .. m)
    OBVIOUS
  <2>. HIDE DEF g
  <2>7. \A i \in 1 .. m + 1 : g[i] = G[i][g[i - 1]]
    <3>. SUFFICES ASSUME NEW i \in 1 .. m + 1 PROVE g[i] = G[i][g[i - 1]]
      OBVIOUS
    <3>1. g[i - 1] = f[i - 1]
      BY <2>5, <2>6
    <3>2. CASE i = m + 1
      <4>1. i - 1 = m
        BY <3>2
      <4>. QED
        BY <2>5, <3>1, <3>2, <4>1
    <3>3. CASE i \in 1 .. m
      <4>1. i \in 0 .. m
        BY <3>3
      <4>. QED
        BY <2>1, <2>5, <3>1, <3>3, <4>1
    <3>. QED
      BY <2>6, <3>2, <3>3
  <2>8. g[0] = c
    <3>1. 0 \in 0 .. m
      OBVIOUS
    <3>. QED
      BY <2>1, <2>5, <3>1
  <2>9. Upto(g, m + 1)
    BY <2>7, <2>8
  <2>. HIDE DEF Upto
  <2>. QED
    BY <2>4, <2>9
<1>3. n \in M
  <2>. HIDE DEF M
  <2>. QED
    BY <1>1, <1>2, Induction
<1>. QED
  BY <1>3 DEF Runs

\* A set that a loop starts in and whose steps keep is where it ends.
LEMMA LoopKeeps ==
    ASSUME NEW C, NEW n \in Nat, NEW done, done[0] \in C,
           \A i \in 1 .. n : done[i - 1] \in C => done[i] \in C
    PROVE  done[n] \in C
<1>. DEFINE M == {m \in Nat : m <= n => done[m] \in C}
<1>1. 0 \in M
  OBVIOUS
<1>2. ASSUME NEW m \in Nat, m \in M PROVE m + 1 \in M
  <2>. SUFFICES ASSUME m + 1 <= n PROVE done[m + 1] \in C
    OBVIOUS
  <2>1. m + 1 \in 1 .. n /\ (m + 1) - 1 = m /\ done[m] \in C
    BY <1>2
  <2>. QED
    BY <2>1
<1>3. n \in M
  <2>. HIDE DEF M
  <2>. QED
    BY <1>1, <1>2, Induction
<1>. QED
  BY <1>3

\* A set that a loop is in after its first step and that the others keep.
LEMMA LoopKeepsOn ==
    ASSUME NEW D, NEW n \in Nat, n >= 1, NEW done, done[1] \in D,
           \A i \in 2 .. n : done[i - 1] \in D => done[i] \in D
    PROVE  done[n] \in D
<1>. DEFINE M == {m \in Nat : m + 1 <= n => done[m + 1] \in D}
<1>1. 0 \in M
  OBVIOUS
<1>2. ASSUME NEW m \in Nat, m \in M PROVE m + 1 \in M
  <2>. SUFFICES ASSUME m + 1 + 1 <= n PROVE done[m + 1 + 1] \in D
    OBVIOUS
  <2>1. m + 1 + 1 \in 2 .. n /\ (m + 1 + 1) - 1 = m + 1 /\ done[m + 1] \in D
    BY <1>2
  <2>. QED
    BY <2>1
<1>3. n - 1 \in M
  <2>1. n - 1 \in Nat
    OBVIOUS
  <2>. HIDE DEF M
  <2>. QED
    BY <1>1, <1>2, <2>1, Induction
<1>4. (n - 1) + 1 = n
  OBVIOUS
<1>. QED
  BY <1>3, <1>4

\* _apply_power for each of a move's debuffs.
LEMMA AfflictAllLoop ==
    ASSUME NEW C, NEW c \in C, NEW debuffs, Len(debuffs) \in Nat,
           \A x \in C, k \in 1 .. Len(debuffs) : Afflict(x, debuffs[k]) \in C
    PROVE  AfflictAll(c, debuffs) \in C
<1>. DEFINE n == Len(debuffs)
            F(x, k) == Afflict(x, debuffs[k])
            Loop(f) == f = [k \in 0 .. n |-> IF k = 0 THEN c ELSE F(f[k - 1], k)]
            done == CHOOSE f : Loop(f)
            G == [k \in 1 .. n |-> [x \in C |-> F(x, k)]]
<1>0. n \in Nat
  OBVIOUS
<1>1. AfflictAll(c, debuffs) = done[n]
  BY DEF AfflictAll
<1>2. \A x \in C, k \in 1 .. n : F(x, k) \in C
  OBVIOUS
<1>. HIDE DEF F
<1>3. G \in Steps(C, n) /\ \A x \in C, k \in 1 .. n : G[k][x] = F(x, k)
  BY <1>2 DEF Steps
<1>4. \E f : Loop(f)
  <2>. HIDE DEF G, n
  <2>1. PICK f \in [0 .. n -> C] : f[0] = c /\ \A k \in 1 .. n : f[k] = G[k][f[k - 1]]
    <3>1. \E f : Runs(f, C, c, n, G)
      BY <1>0, <1>3, LoopRuns
    <3>. QED
      BY <3>1 DEF Runs
  <2>2. \A k \in 1 .. n : k - 1 \in 0 .. n
    BY <1>0
  <2>3. \A k \in 1 .. n : f[k] = F(f[k - 1], k)
    BY <1>3, <2>1, <2>2
  <2>4. \A k \in 0 .. n : k = 0 \/ k \in 1 .. n
    BY <1>0
  <2>5. Loop(f)
    BY <2>1, <2>3, <2>4
  <2>. QED
    BY <2>5
<1>5. Loop(done)
  <2>. HIDE DEF Loop
  <2>. QED
    BY <1>4
<1>6. done[0] = c /\ \A k \in 1 .. n : done[k] = F(done[k - 1], k)
  <2>1. 0 \in 0 .. n /\ \A k \in 1 .. n : k \in 0 .. n /\ k # 0
    BY <1>0
  <2>2. \A k \in 0 .. n : done[k] = IF k = 0 THEN c ELSE F(done[k - 1], k)
    <3>. HIDE DEF done
    <3>. QED
      BY <1>5, Zenon
  <2>. QED
    BY <2>1, <2>2
<1>7. done[n] \in C
  <2>. HIDE DEF done
  <2>1. \A k \in 1 .. n : done[k - 1] \in C => done[k] \in C
    BY <1>2, <1>6
  <2>. QED
    BY <1>0, <1>6, <2>1, LoopKeeps
<1>. QED
  BY <1>1, <1>7

\* A blow to every living enemy.
LEMMA StruckAllLoop ==
    ASSUME NEW C, NEW c \in C, Len(c.enemies) \in Nat, NEW blow,
           \A x \in C, k \in Nat \ {0} : (IF k \in Living(x) THEN Struck(x, k, blow) ELSE x) \in C
    PROVE  StruckAll(c, blow) \in C
<1>. DEFINE n == Reach(c)
            F(x, k) == (IF k \in Living(x) THEN Struck(x, k, blow) ELSE x)
            Loop(f) == f = [k \in 0 .. n |-> IF k = 0 THEN c ELSE F(f[k - 1], k)]
            done == CHOOSE f : Loop(f)
            G == [k \in 1 .. n |-> [x \in C |-> F(x, k)]]
<1>0. n \in Nat
  BY DEF Reach
<1>1. StruckAll(c, blow) = done[n]
  BY DEF StruckAll, ForLiving, ForEach
<1>2. \A x \in C, k \in 1 .. n : F(x, k) \in C
  BY <1>0
<1>. HIDE DEF F
<1>3. G \in Steps(C, n) /\ \A x \in C, k \in 1 .. n : G[k][x] = F(x, k)
  BY <1>2 DEF Steps
<1>4. \E f : Loop(f)
  <2>. HIDE DEF G, n
  <2>1. PICK f \in [0 .. n -> C] : f[0] = c /\ \A k \in 1 .. n : f[k] = G[k][f[k - 1]]
    <3>1. \E f : Runs(f, C, c, n, G)
      BY <1>0, <1>3, LoopRuns
    <3>. QED
      BY <3>1 DEF Runs
  <2>2. \A k \in 1 .. n : k - 1 \in 0 .. n
    BY <1>0
  <2>3. \A k \in 1 .. n : f[k] = F(f[k - 1], k)
    BY <1>3, <2>1, <2>2
  <2>4. \A k \in 0 .. n : k = 0 \/ k \in 1 .. n
    BY <1>0
  <2>5. Loop(f)
    BY <2>1, <2>3, <2>4
  <2>. QED
    BY <2>5
<1>5. Loop(done)
  <2>. HIDE DEF Loop
  <2>. QED
    BY <1>4
<1>6. done[0] = c /\ \A k \in 1 .. n : done[k] = F(done[k - 1], k)
  <2>1. 0 \in 0 .. n /\ \A k \in 1 .. n : k \in 0 .. n /\ k # 0
    BY <1>0
  <2>2. \A k \in 0 .. n : done[k] = IF k = 0 THEN c ELSE F(done[k - 1], k)
    <3>. HIDE DEF done
    <3>. QED
      BY <1>5, Zenon
  <2>. QED
    BY <2>1, <2>2
<1>7. done[n] \in C
  <2>. HIDE DEF done
  <2>1. \A k \in 1 .. n : done[k - 1] \in C => done[k] \in C
    BY <1>2, <1>6
  <2>. QED
    BY <1>0, <1>6, <2>1, LoopKeeps
<1>. QED
  BY <1>1, <1>7

\* Corpse Explosion: a blow to every living enemy but the dead one.
LEMMA BurstLoop ==
    ASSUME NEW C, NEW c \in C, Len(c.enemies) \in Nat, NEW i, NEW blow,
           \A x \in C, k \in Nat \ {0} :
             (IF k \in Living(x) THEN IF k = i THEN x ELSE Struck(x, k, blow) ELSE x) \in C
    PROVE  Burst(c, i, blow) \in C
<1>. DEFINE n == Reach(c)
            F(x, k) == (IF k \in Living(x) THEN IF k = i THEN x ELSE Struck(x, k, blow) ELSE x)
            Loop(f) == f = [k \in 0 .. n |-> IF k = 0 THEN c ELSE F(f[k - 1], k)]
            done == CHOOSE f : Loop(f)
            G == [k \in 1 .. n |-> [x \in C |-> F(x, k)]]
<1>0. n \in Nat
  BY DEF Reach
<1>1. Burst(c, i, blow) = done[n]
  BY DEF Burst, ForLiving, ForEach
<1>2. \A x \in C, k \in 1 .. n : F(x, k) \in C
  BY <1>0
<1>. HIDE DEF F
<1>3. G \in Steps(C, n) /\ \A x \in C, k \in 1 .. n : G[k][x] = F(x, k)
  BY <1>2 DEF Steps
<1>4. \E f : Loop(f)
  <2>. HIDE DEF G, n
  <2>1. PICK f \in [0 .. n -> C] : f[0] = c /\ \A k \in 1 .. n : f[k] = G[k][f[k - 1]]
    <3>1. \E f : Runs(f, C, c, n, G)
      BY <1>0, <1>3, LoopRuns
    <3>. QED
      BY <3>1 DEF Runs
  <2>2. \A k \in 1 .. n : k - 1 \in 0 .. n
    BY <1>0
  <2>3. \A k \in 1 .. n : f[k] = F(f[k - 1], k)
    BY <1>3, <2>1, <2>2
  <2>4. \A k \in 0 .. n : k = 0 \/ k \in 1 .. n
    BY <1>0
  <2>5. Loop(f)
    BY <2>1, <2>3, <2>4
  <2>. QED
    BY <2>5
<1>5. Loop(done)
  <2>. HIDE DEF Loop
  <2>. QED
    BY <1>4
<1>6. done[0] = c /\ \A k \in 1 .. n : done[k] = F(done[k - 1], k)
  <2>1. 0 \in 0 .. n /\ \A k \in 1 .. n : k \in 0 .. n /\ k # 0
    BY <1>0
  <2>2. \A k \in 0 .. n : done[k] = IF k = 0 THEN c ELSE F(done[k - 1], k)
    <3>. HIDE DEF done
    <3>. QED
      BY <1>5, Zenon
  <2>. QED
    BY <2>1, <2>2
<1>7. done[n] \in C
  <2>. HIDE DEF done
  <2>1. \A k \in 1 .. n : done[k - 1] \in C => done[k] \in C
    BY <1>2, <1>6
  <2>. QED
    BY <1>0, <1>6, <2>1, LoopKeeps
<1>. QED
  BY <1>1, <1>7

\* _check_enemy_deaths.
DeathStep(x, k) == IF k \in DOMAIN x.enemies \ Living(x) /\ x.enemies[k].alive THEN Announce(x, k) ELSE x
LEMMA DeathsRun ==
    ASSUME NEW C, NEW c \in C, Len(c.enemies) \in Nat,
           \A x \in C, k \in Nat \ {0} : DeathStep(x, k) \in C
    PROVE  \E done : /\ done[0] = c /\ done[Reach(c)] = CheckEnemyDeaths(c)
                     /\ \A k \in 1 .. Reach(c) :
                          done[k] = DeathStep(done[k - 1], k)
<1>. DEFINE n == Reach(c)
            F(x, k) == DeathStep(x, k)
            Loop(f) == f = [k \in 0 .. n |-> IF k = 0 THEN c ELSE F(f[k - 1], k)]
            done == CHOOSE f : Loop(f)
            G == [k \in 1 .. n |-> [x \in C |-> F(x, k)]]
<1>0. n \in Nat
  BY DEF Reach
<1>1. CheckEnemyDeaths(c) = done[n]
  BY DEF CheckEnemyDeaths, ForEach, DeathStep
<1>2. \A x \in C, k \in 1 .. n : F(x, k) \in C
  BY <1>0
<1>. HIDE DEF F
<1>3. G \in Steps(C, n) /\ \A x \in C, k \in 1 .. n : G[k][x] = F(x, k)
  BY <1>2 DEF Steps
<1>4. \E f : Loop(f)
  <2>. HIDE DEF G, n
  <2>1. PICK f \in [0 .. n -> C] : f[0] = c /\ \A k \in 1 .. n : f[k] = G[k][f[k - 1]]
    <3>1. \E f : Runs(f, C, c, n, G)
      BY <1>0, <1>3, LoopRuns
    <3>. QED
      BY <3>1 DEF Runs
  <2>2. \A k \in 1 .. n : k - 1 \in 0 .. n
    BY <1>0
  <2>3. \A k \in 1 .. n : f[k] = F(f[k - 1], k)
    BY <1>3, <2>1, <2>2
  <2>4. \A k \in 0 .. n : k = 0 \/ k \in 1 .. n
    BY <1>0
  <2>5. Loop(f)
    BY <2>1, <2>3, <2>4
  <2>. QED
    BY <2>5
<1>5. Loop(done)
  <2>. HIDE DEF Loop
  <2>. QED
    BY <1>4
<1>6. done[0] = c /\ \A k \in 1 .. n : done[k] = F(done[k - 1], k)
  <2>1. 0 \in 0 .. n /\ \A k \in 1 .. n : k \in 0 .. n /\ k # 0
    BY <1>0
  <2>2. \A k \in 0 .. n : done[k] = IF k = 0 THEN c ELSE F(done[k - 1], k)
    <3>. HIDE DEF done
    <3>. QED
      BY <1>5, Zenon
  <2>. QED
    BY <2>1, <2>2
<1>. HIDE DEF done
<1>. QED
  BY <1>1, <1>6 DEF F

LEMMA DeathsLoop ==
    ASSUME NEW C, NEW c \in C, Len(c.enemies) \in Nat,
           \A x \in C, k \in Nat \ {0} : DeathStep(x, k) \in C
    PROVE  CheckEnemyDeaths(c) \in C
<1>1. PICK done : /\ done[0] = c /\ done[Reach(c)] = CheckEnemyDeaths(c)
                  /\ \A k \in 1 .. Reach(c) :
                       done[k] = DeathStep(done[k - 1], k)
  BY DeathsRun
<1>2. Reach(c) \in Nat
  BY DEF Reach
<1>3. \A k \in 1 .. Reach(c) : done[k - 1] \in C => done[k] \in C
  BY <1>1, <1>2
<1>. QED
  BY <1>1, <1>2, <1>3, LoopKeeps

\* The same where the first enemy makes a difference that the others keep.
LEMMA DeathsFirst ==
    ASSUME NEW C, NEW c \in C, Len(c.enemies) \in Nat \ {0}, NEW D,
           \A x \in C, k \in Nat \ {0} : DeathStep(x, k) \in C,
           \A x \in D, k \in Nat \ {0, 1} : DeathStep(x, k) \in D,
           DeathStep(c, 1) \in D
    PROVE  CheckEnemyDeaths(c) \in D
<1>1. PICK done : /\ done[0] = c /\ done[Reach(c)] = CheckEnemyDeaths(c)
                  /\ \A k \in 1 .. Reach(c) :
                       done[k] = DeathStep(done[k - 1], k)
  BY DeathsRun
<1>2. Reach(c) \in Nat /\ Reach(c) >= 1 /\ 1 \in 1 .. Reach(c) /\ 1 - 1 = 0
  BY DEF Reach
<1>3. done[1] \in D
  BY <1>1, <1>2
<1>4. \A k \in 2 .. Reach(c) : k \in 1 .. Reach(c) /\ k \in Nat \ {0, 1}
  BY <1>2
<1>5. \A k \in 2 .. Reach(c) : done[k - 1] \in D => done[k] \in D
  BY <1>1, <1>4
<1>. QED
  BY <1>1, <1>2, <1>3, <1>5, LoopKeepsOn

\* _tick_enemy_powers for every living enemy.
TickStep(x, k) == IF k \in Living(x) THEN [x EXCEPT !.enemies[k] = Ticked(@)] ELSE x
LEMMA TickRun ==
    ASSUME NEW C, NEW c \in C, Len(c.enemies) \in Nat,
           \A x \in C, k \in Nat \ {0} : TickStep(x, k) \in C
    PROVE  \E done : /\ done[0] = c /\ done[Reach(c)] = EnemiesTicked(c)
                     /\ \A k \in 1 .. Reach(c) :
                          done[k] = TickStep(done[k - 1], k)
<1>. DEFINE n == Reach(c)
            F(x, k) == TickStep(x, k)
            Loop(f) == f = [k \in 0 .. n |-> IF k = 0 THEN c ELSE F(f[k - 1], k)]
            done == CHOOSE f : Loop(f)
            G == [k \in 1 .. n |-> [x \in C |-> F(x, k)]]
<1>0. n \in Nat
  BY DEF Reach
<1>1. EnemiesTicked(c) = done[n]
  BY DEF EnemiesTicked, ForLiving, ForEach, TickStep
<1>2. \A x \in C, k \in 1 .. n : F(x, k) \in C
  BY <1>0
<1>. HIDE DEF F
<1>3. G \in Steps(C, n) /\ \A x \in C, k \in 1 .. n : G[k][x] = F(x, k)
  BY <1>2 DEF Steps
<1>4. \E f : Loop(f)
  <2>. HIDE DEF G, n
  <2>1. PICK f \in [0 .. n -> C] : f[0] = c /\ \A k \in 1 .. n : f[k] = G[k][f[k - 1]]
    <3>1. \E f : Runs(f, C, c, n, G)
      BY <1>0, <1>3, LoopRuns
    <3>. QED
      BY <3>1 DEF Runs
  <2>2. \A k \in 1 .. n : k - 1 \in 0 .. n
    BY <1>0
  <2>3. \A k \in 1 .. n : f[k] = F(f[k - 1], k)
    BY <1>3, <2>1, <2>2
  <2>4. \A k \in 0 .. n : k = 0 \/ k \in 1 .. n
    BY <1>0
  <2>5. Loop(f)
    BY <2>1, <2>3, <2>4
  <2>. QED
    BY <2>5
<1>5. Loop(done)
  <2>. HIDE DEF Loop
  <2>. QED
    BY <1>4
<1>6. done[0] = c /\ \A k \in 1 .. n : done[k] = F(done[k - 1], k)
  <2>1. 0 \in 0 .. n /\ \A k \in 1 .. n : k \in 0 .. n /\ k # 0
    BY <1>0
  <2>2. \A k \in 0 .. n : done[k] = IF k = 0 THEN c ELSE F(done[k - 1], k)
    <3>. HIDE DEF done
    <3>. QED
      BY <1>5, Zenon
  <2>. QED
    BY <2>1, <2>2
<1>. HIDE DEF done
<1>. QED
  BY <1>1, <1>6 DEF F

LEMMA TickLoop ==
    ASSUME NEW C, NEW c \in C, Len(c.enemies) \in Nat,
           \A x \in C, k \in Nat \ {0} : TickStep(x, k) \in C
    PROVE  EnemiesTicked(c) \in C
<1>1. PICK done : /\ done[0] = c /\ done[Reach(c)] = EnemiesTicked(c)
                  /\ \A k \in 1 .. Reach(c) :
                       done[k] = TickStep(done[k - 1], k)
  BY TickRun
<1>2. Reach(c) \in Nat
  BY DEF Reach
<1>3. \A k \in 1 .. Reach(c) : done[k - 1] \in C => done[k] \in C
  BY <1>1, <1>2
<1>. QED
  BY <1>1, <1>2, <1>3, LoopKeeps

\* The same where the first enemy makes a difference that the others keep.
LEMMA TickFirst ==
    ASSUME NEW C, NEW c \in C, Len(c.enemies) \in Nat \ {0}, NEW D,
           \A x \in C, k \in Nat \ {0} : TickStep(x, k) \in C,
           \A x \in D, k \in Nat \ {0, 1} : TickStep(x, k) \in D,
           TickStep(c, 1) \in D
    PROVE  EnemiesTicked(c) \in D
<1>1. PICK done : /\ done[0] = c /\ done[Reach(c)] = EnemiesTicked(c)
                  /\ \A k \in 1 .. Reach(c) :
                       done[k] = TickStep(done[k - 1], k)
  BY TickRun
<1>2. Reach(c) \in Nat /\ Reach(c) >= 1 /\ 1 \in 1 .. Reach(c) /\ 1 - 1 = 0
  BY DEF Reach
<1>3. done[1] \in D
  BY <1>1, <1>2
<1>4. \A k \in 2 .. Reach(c) : k \in 1 .. Reach(c) /\ k \in Nat \ {0, 1}
  BY <1>2
<1>5. \A k \in 2 .. Reach(c) : done[k - 1] \in D => done[k] \in D
  BY <1>1, <1>4
<1>. QED
  BY <1>1, <1>2, <1>3, <1>5, LoopKeepsOn

-----------------------------------------------------------------------------
(* What a combat keeps *)

Lives(e) ==
    /\ ~e.alive => e.hp = 0 /\ (e.kind \in Reborn => e.turned)
    /\ e.deaths <= IF e.alive THEN (IF e.kind \in Reborn /\ e.turned THEN 1 ELSE 0)
                   ELSE IF e.kind \in Reborn THEN 2 ELSE 1
    /\ e.hp <= e.max /\ e.poison <= MaxPoison
EnemySet ==
    [kind : Kinds, hp : Nat, max : Nat, alive : BOOLEAN, turned : BOOLEAN, poison : Nat,
     corpse : BOOLEAN, intangible : BOOLEAN, fresh : BOOLEAN, picks : Nat, made : Nat,
     last : Seq(MoveNames), move : MoveSet, deaths : Nat]
Enemies == {e \in EnemySet : Lives(e)}

CombatSet ==
    [enemies : Seq(Enemies), held : [Debuffs -> Nat], artifact : 0 .. 1, window : BOOLEAN,
     justApplied : SUBSET Debuffs, owed : SUBSET Debuffs]
Covered(c) == \A d \in c.owed : c.held[d] > 0
Combats(marked) == {c \in CombatSet : Covered(c) /\ (marked => c.owed \subseteq c.justApplied)}

LEMMA NewEnemy ==
    ASSUME NEW kind \in Kinds, NEW hits \in Nat
    PROVE  Enemy(kind, hits) \in Enemies
<1>1. NoMove \in MoveSet
  <2>. HIDE DEF Plain, MoveSet, PlainNames, SpecialNames
  <2>. QED
    BY MoveKinds
<1>2. << >> \in Seq(MoveNames)
  BY EmptySeq
<1>3. MaxPoison \in Nat
  BY Bounds
<1>. HIDE DEF MoveSet, MoveNames, Kinds
<1>4. Enemy(kind, hits) \in EnemySet
  BY <1>1, <1>2 DEF Enemy, EnemySet
<1>5. Lives(Enemy(kind, hits))
  BY <1>3 DEF Enemy, Lives
<1>. QED
  BY <1>4, <1>5 DEF Enemies

LEMMA WithEnemies ==
    ASSUME NEW marked, NEW c \in Combats(marked), NEW es \in Seq(Enemies)
    PROVE  /\ [c EXCEPT !.enemies = es] \in Combats(marked)
           /\ [c EXCEPT !.enemies = es].enemies = es
BY DEF Combats, CombatSet, Covered

LEMMA WithEnemy ==
    ASSUME NEW marked, NEW c \in Combats(marked), NEW i \in DOMAIN c.enemies, NEW e \in Enemies
    PROVE  /\ i \in 1 .. Len(c.enemies) /\ Len(c.enemies) \in Nat
           /\ [c EXCEPT !.enemies[i] = e] \in Combats(marked)
           /\ Len([c EXCEPT !.enemies[i] = e].enemies) = Len(c.enemies)
           /\ [c EXCEPT !.enemies[i] = e].enemies[i] = e
<1>1. c.enemies \in Seq(Enemies)
  BY DEF Combats, CombatSet
<1>2. DOMAIN c.enemies = 1 .. Len(c.enemies) /\ Len(c.enemies) \in Nat
  BY <1>1, LenProperties
<1>. DEFINE es == [c.enemies EXCEPT ![i] = e]
<1>3. es \in Seq(Enemies) /\ Len(es) = Len(c.enemies) /\ es[i] = e
  BY <1>1, <1>2, ExceptSeq
<1>4. [c EXCEPT !.enemies[i] = e] = [c EXCEPT !.enemies = es]
  OBVIOUS
<1>. HIDE DEF es
<1>5. [c EXCEPT !.enemies = es] \in Combats(marked) /\ [c EXCEPT !.enemies = es].enemies = es
  BY <1>3, WithEnemies
<1>. QED
  BY <1>2, <1>3, <1>4, <1>5

LEMMA EnemyThere ==
    ASSUME NEW marked, NEW c \in Combats(marked), NEW i \in DOMAIN c.enemies
    PROVE  c.enemies[i] \in Enemies /\ c.enemies[i] \in EnemySet /\ Lives(c.enemies[i])
<1>1. c.enemies \in Seq(Enemies)
  BY DEF Combats, CombatSet
<1>2. i \in 1 .. Len(c.enemies)
  BY <1>1, LenProperties
<1>3. c.enemies[i] \in Enemies
  BY <1>1, <1>2, ElementOfSeq
<1>. QED
  BY <1>3 DEF Enemies

LEMMA LoweredNat ==
    ASSUME NEW n \in Nat, NEW d \in Nat
    PROVE  Lowered(n, d) \in Nat /\ Lowered(n, d) <= n
BY DEF Lowered

-----------------------------------------------------------------------------
(* What blows and deaths leave alone.  Same: an enemy's class, maximum,    *)
(* history and Intangible stay; its flag changes only by a split or a      *)
(* rebirth; what has fallen stays down unless it is Reborn and no check    *)
(* has come by.  Frame: the list only grows, by the halves of a slime.     *)

Same(e, f) ==
    /\ f.kind = e.kind /\ f.max = e.max /\ f.intangible = e.intangible /\ f.fresh = e.fresh
    /\ f.picks = e.picks /\ f.last = e.last /\ f.move = e.move
    /\ e.kind \notin Splitters \cup Reborn => f.turned = e.turned
    /\ e.kind \notin Reborn /\ e.hp = 0 => f.hp = 0
    /\ f.alive => e.alive
Half(e) == e.kind \in {"AcidSlimeM", "AcidSlimeL", "SpikeSlimeM", "SpikeSlimeL"} /\ e.move = NoMove
Frame(c, x) ==
    /\ Len(c.enemies) <= Len(x.enemies)
    /\ \A i \in DOMAIN c.enemies : Same(c.enemies[i], x.enemies[i])
    /\ \A i \in DOMAIN x.enemies \ DOMAIN c.enemies : Half(x.enemies[i])
    /\ Len(c.enemies) # Len(x.enemies) => \E i \in DOMAIN c.enemies : c.enemies[i].kind \in Splitters
After(marked, c) == {x \in Combats(marked) : Frame(c, x)}

LEMMA EnemyList ==
    ASSUME NEW marked, NEW c \in Combats(marked)
    PROVE  /\ c.enemies \in Seq(Enemies) /\ Len(c.enemies) \in Nat
           /\ DOMAIN c.enemies = 1 .. Len(c.enemies)
<1>1. c.enemies \in Seq(Enemies)
  BY DEF Combats, CombatSet
<1>. QED
  BY <1>1, LenProperties

LEMMA AfterItself ==
    ASSUME NEW marked, NEW c \in Combats(marked), NEW x \in Combats(marked), x.enemies = c.enemies
    PROVE  x \in After(marked, c)
<1>1. Len(c.enemies) \in Nat
  BY EnemyList
<1>2. \A e : Same(e, e)
  BY DEF Same
<1>. QED
  BY <1>1, <1>2 DEF After, Frame

LEMMA SameTransitive ==
    ASSUME NEW e, NEW f, NEW g, Same(e, f), Same(f, g)
    PROVE  Same(e, g)
BY DEF Same

LEMMA AfterAfter ==
    ASSUME NEW marked, NEW c \in Combats(marked), NEW x \in After(marked, c), NEW y \in After(marked, x)
    PROVE  y \in After(marked, c)
<1>1. x \in Combats(marked) /\ y \in Combats(marked) /\ Frame(c, x) /\ Frame(x, y)
  BY DEF After
<1>2. /\ Len(c.enemies) \in Nat /\ DOMAIN c.enemies = 1 .. Len(c.enemies)
      /\ Len(x.enemies) \in Nat /\ DOMAIN x.enemies = 1 .. Len(x.enemies)
      /\ Len(y.enemies) \in Nat /\ DOMAIN y.enemies = 1 .. Len(y.enemies)
  BY <1>1, EnemyList
<1>3. /\ Len(c.enemies) <= Len(x.enemies) /\ Len(x.enemies) <= Len(y.enemies)
      /\ DOMAIN c.enemies \subseteq DOMAIN x.enemies /\ DOMAIN x.enemies \subseteq DOMAIN y.enemies
  BY <1>1, <1>2 DEF Frame
<1>4. \A i \in DOMAIN c.enemies : Same(c.enemies[i], y.enemies[i])
  BY <1>1, <1>3, SameTransitive DEF Frame
<1>5. \A i \in DOMAIN y.enemies \ DOMAIN c.enemies : Half(y.enemies[i])
  <2>. SUFFICES ASSUME NEW i \in DOMAIN y.enemies \ DOMAIN c.enemies PROVE Half(y.enemies[i])
    OBVIOUS
  <2>1. CASE i \in DOMAIN x.enemies
    <3>1. Half(x.enemies[i]) /\ Same(x.enemies[i], y.enemies[i])
      BY <1>1, <2>1 DEF Frame
    <3>. QED
      BY <3>1 DEF Half, Same
  <2>2. CASE i \notin DOMAIN x.enemies
    BY <1>1, <2>2 DEF Frame
  <2>. QED
    BY <2>1, <2>2
<1>6. ASSUME Len(c.enemies) # Len(y.enemies)
      PROVE  \E i \in DOMAIN c.enemies : c.enemies[i].kind \in Splitters
  <2>1. CASE Len(c.enemies) # Len(x.enemies)
    BY <1>1, <2>1 DEF Frame
  <2>2. CASE Len(c.enemies) = Len(x.enemies)
    <3>1. PICK i \in DOMAIN x.enemies : x.enemies[i].kind \in Splitters
      BY <1>1, <1>6, <2>2 DEF Frame
    <3>2. i \in DOMAIN c.enemies
      BY <1>2, <2>2
    <3>3. c.enemies[i].kind = x.enemies[i].kind
      BY <1>1, <3>2 DEF Frame, Same
    <3>. QED
      BY <3>1, <3>2, <3>3
  <2>. QED
    BY <2>1, <2>2
<1>7. Len(c.enemies) <= Len(y.enemies)
  BY <1>2, <1>3
<1>. QED
  BY <1>1, <1>4, <1>5, <1>6, <1>7 DEF After, Frame

LEMMA AfterOne ==
    ASSUME NEW marked, NEW c \in Combats(marked), NEW i \in DOMAIN c.enemies,
           NEW f \in Enemies, Same(c.enemies[i], f)
    PROVE  [c EXCEPT !.enemies[i] = f] \in After(marked, c)
<1>. DEFINE es == [c.enemies EXCEPT ![i] = f]
<1>1. c.enemies \in Seq(Enemies) /\ Len(c.enemies) \in Nat /\ DOMAIN c.enemies = 1 .. Len(c.enemies)
  BY EnemyList
<1>2. es \in Seq(Enemies) /\ Len(es) = Len(c.enemies)
  BY <1>1, ExceptSeq
<1>3. \A j \in DOMAIN c.enemies : es[j] = IF j = i THEN f ELSE c.enemies[j]
  OBVIOUS
<1>4. [c EXCEPT !.enemies[i] = f] = [c EXCEPT !.enemies = es]
  OBVIOUS
<1>5. \A e : Same(e, e)
  BY DEF Same
<1>. HIDE DEF es
<1>6. DOMAIN es = 1 .. Len(es)
  BY <1>2, LenProperties
<1>7. [c EXCEPT !.enemies = es] \in Combats(marked) /\ [c EXCEPT !.enemies = es].enemies = es
  BY <1>2, WithEnemies
<1>8. \A j \in DOMAIN c.enemies : Same(c.enemies[j], es[j])
  BY <1>3, <1>5
<1>9. Frame(c, [c EXCEPT !.enemies = es])
  BY <1>1, <1>2, <1>6, <1>7, <1>8 DEF Frame
<1>. QED
  BY <1>4, <1>7, <1>9 DEF After

LEMMA AfterSplit ==
    ASSUME NEW marked, NEW c \in Combats(marked), NEW i \in DOMAIN c.enemies,
           NEW f \in Enemies, Same(c.enemies[i], f), c.enemies[i].kind \in Splitters,
           NEW halves \in Seq(Enemies), \A j \in DOMAIN halves : Half(halves[j])
    PROVE  [c EXCEPT !.enemies = [c.enemies EXCEPT ![i] = f] \o halves] \in After(marked, c)
<1>. DEFINE es == [c.enemies EXCEPT ![i] = f]  all == es \o halves  x == [c EXCEPT !.enemies = all]
<1>1. c.enemies \in Seq(Enemies) /\ Len(c.enemies) \in Nat /\ DOMAIN c.enemies = 1 .. Len(c.enemies)
  BY EnemyList
<1>2. es \in Seq(Enemies) /\ Len(es) = Len(c.enemies)
  BY <1>1, ExceptSeq
<1>3. \A j \in DOMAIN c.enemies : es[j] = IF j = i THEN f ELSE c.enemies[j]
  OBVIOUS
<1>4. \A e : Same(e, e)
  BY DEF Same
<1>. HIDE DEF es
<1>5. \A j \in DOMAIN c.enemies : Same(c.enemies[j], es[j])
  BY <1>3, <1>4
<1>6. Len(halves) \in Nat /\ DOMAIN halves = 1 .. Len(halves)
  BY LenProperties
<1>7. /\ all \in Seq(Enemies) /\ Len(all) = Len(es) + Len(halves)
      /\ \A j \in 1 .. Len(es) : all[j] = es[j]
      /\ \A j \in Len(es) + 1 .. Len(es) + Len(halves) : all[j] = halves[j - Len(es)]
  <2>. HIDE DEF Enemies
  <2>1. /\ all \in Seq(Enemies) /\ Len(all) = Len(es) + Len(halves)
        /\ \A j \in 1 .. Len(es) + Len(halves) : all[j] = IF j <= Len(es) THEN es[j] ELSE halves[j - Len(es)]
    BY <1>2, ConcatProperties
  <2>. HIDE DEF all
  <2>2. Len(es) \in Nat
    BY <1>1, <1>2
  <2>. QED
    BY <1>6, <2>1, <2>2
<1>. HIDE DEF all
<1>8. DOMAIN all = 1 .. Len(all) /\ Len(c.enemies) <= Len(all)
  BY <1>1, <1>2, <1>6, <1>7, LenProperties
<1>9. \A j \in DOMAIN c.enemies : Same(c.enemies[j], all[j])
  BY <1>1, <1>2, <1>5, <1>7
<1>10. \A j \in DOMAIN all \ DOMAIN c.enemies : Half(all[j])
  <2>. SUFFICES ASSUME NEW j \in DOMAIN all \ DOMAIN c.enemies PROVE Half(all[j])
    OBVIOUS
  <2>1. j \in Len(es) + 1 .. Len(es) + Len(halves) /\ j - Len(es) \in 1 .. Len(halves)
    BY <1>1, <1>2, <1>6, <1>7, <1>8
  <2>. QED
    BY <1>6, <1>7, <2>1
<1>11. x \in Combats(marked) /\ x.enemies = all
  BY <1>7, WithEnemies
<1>. HIDE DEF x
<1>12. Frame(c, x)
  BY <1>8, <1>9, <1>10, <1>11 DEF Frame
<1>13. x \in After(marked, c)
  BY <1>11, <1>12 DEF After
<1>. QED
  BY <1>13 DEF x, all, es

LEMMA AfterFacts ==
    ASSUME NEW marked, NEW c \in Combats(marked), NEW x \in After(marked, c)
    PROVE  /\ x \in Combats(marked) /\ Frame(c, x)
           /\ DOMAIN c.enemies \subseteq DOMAIN x.enemies
<1>1. x \in Combats(marked) /\ Frame(c, x)
  BY DEF After
<1>2. /\ Len(c.enemies) \in Nat /\ DOMAIN c.enemies = 1 .. Len(c.enemies)
      /\ Len(x.enemies) \in Nat /\ DOMAIN x.enemies = 1 .. Len(x.enemies)
  BY <1>1, EnemyList
<1>. QED
  BY <1>1, <1>2 DEF Frame

-----------------------------------------------------------------------------
(* What the operators of a round keep *)

LEMMA AfflictKeeps ==
    ASSUME NEW marked, NEW c \in Combats(marked), NEW debuff \in Inflictions
    PROVE  Afflict(c, debuff) \in Combats(marked) /\ Afflict(c, debuff).enemies = c.enemies
<1>1. debuff[1] \in Debuffs /\ debuff[2] \in Nat \ {0}
  BY DEF Inflictions
<1>. DEFINE d == debuff[1]  n == debuff[2]
<1>2. CASE c.artifact > 0
  <2>. DEFINE left == c.artifact - 1
  <2>1. c \in CombatSet /\ Covered(c) /\ (marked => c.owed \subseteq c.justApplied)
    BY DEF Combats
  <2>2. left \in 0 .. 1
    BY <1>2, <2>1 DEF CombatSet
  <2>3. Afflict(c, debuff) = [c EXCEPT !.artifact = left]
    BY <1>2 DEF Afflict
  <2>. HIDE DEF left
  <2>4. [c EXCEPT !.artifact = left] \in Combats(marked) /\ [c EXCEPT !.artifact = left].enemies = c.enemies
    BY <2>1, <2>2 DEF Combats, CombatSet, Covered
  <2>. QED
    BY <2>3, <2>4
<1>3. CASE ~(c.artifact > 0)
  <2>. DEFINE held == [c.held EXCEPT ![d] = @ + n]
              applied == IF c.window THEN c.justApplied \cup {d} ELSE c.justApplied
              owed == IF c.window THEN c.owed \cup {d} ELSE c.owed
  <2>1. c \in CombatSet /\ Covered(c) /\ (marked => c.owed \subseteq c.justApplied)
    BY DEF Combats
  <2>2. c.held \in [Debuffs -> Nat] /\ c.owed \subseteq Debuffs /\ c.justApplied \subseteq Debuffs
    BY <2>1 DEF CombatSet
  <2>3. /\ held \in [Debuffs -> Nat] /\ held[d] = c.held[d] + n /\ held[d] > 0
        /\ \A x \in Debuffs : x # d => held[x] = c.held[x]
    BY <1>1, <2>2
  <2>4. /\ owed \subseteq Debuffs /\ applied \subseteq Debuffs /\ owed \subseteq c.owed \cup {d}
        /\ marked => owed \subseteq applied
    BY <1>1, <2>1, <2>2
  <2>5. \A x \in owed : held[x] > 0
    BY <2>1, <2>2, <2>3, <2>4 DEF Covered
  <2>6. Afflict(c, debuff) = [c EXCEPT !.held = held, !.justApplied = applied, !.owed = owed]
    BY <1>3 DEF Afflict
  <2>. HIDE DEF held, applied, owed
  <2>7. [c EXCEPT !.held = held, !.justApplied = applied, !.owed = owed] \in Combats(marked)
    BY <2>1, <2>3, <2>4, <2>5 DEF Combats, CombatSet, Covered
  <2>8. [c EXCEPT !.held = held, !.justApplied = applied, !.owed = owed].enemies = c.enemies
    BY <2>1 DEF CombatSet
  <2>. QED
    BY <2>6, <2>7, <2>8
<1>. QED
  BY <1>2, <1>3

LEMMA AfflictAllKeeps ==
    ASSUME NEW marked, NEW c \in Combats(marked), NEW debuffs \in Seq(Inflictions)
    PROVE  AfflictAll(c, debuffs) \in Combats(marked) /\ AfflictAll(c, debuffs).enemies = c.enemies
<1>. DEFINE C == {x \in Combats(marked) : x.enemies = c.enemies}
<1>1. c \in C /\ Len(debuffs) \in Nat
  BY LenProperties
<1>2. \A x \in C, k \in 1 .. Len(debuffs) : Afflict(x, debuffs[k]) \in C
  BY ElementOfSeq, AfflictKeeps
<1>3. AfflictAll(c, debuffs) \in C
  <2>. HIDE DEF C
  <2>. QED
    BY <1>1, <1>2, AfflictAllLoop
<1>. QED
  BY <1>3

LEMMA StruckKeeps ==
    ASSUME NEW marked, NEW c \in Combats(marked), NEW i \in DOMAIN c.enemies, NEW blow \in Nat
    PROVE  Struck(c, i, blow) \in After(marked, c)
<1>. DEFINE e == c.enemies[i]
            left == Lowered(e.hp, IF e.intangible /\ blow > 1 THEN 1 ELSE blow)
            splits == e.kind \in Splitters /\ ~e.turned /\ blow > 0 /\ left > 0 /\ left <= e.max \div 2
            broken == [e EXCEPT !.hp = 0, !.turned = TRUE]
            hit == [e EXCEPT !.hp = left]
            halves == [j \in 1 .. 2 |-> Enemy(Halves[e.kind][j], left)]
<1>1. e \in EnemySet /\ Lives(e) /\ e.hp \in Nat
  BY EnemyThere DEF EnemySet
<1>2. left \in Nat /\ left <= e.hp
  BY <1>1, LoweredNat
<1>3. CASE splits
  <2>1. broken \in Enemies /\ Same(e, broken)
    <3>. HIDE DEF Kinds, MoveSet, MoveNames
    <3>1. e.kind \notin Reborn
      BY <1>3 DEF Splitters, Reborn
    <3>2. /\ broken \in EnemySet /\ broken.hp = 0 /\ broken.turned = TRUE /\ broken.alive = e.alive
          /\ broken.deaths = e.deaths /\ broken.kind = e.kind /\ broken.max = e.max
          /\ broken.intangible = e.intangible /\ broken.fresh = e.fresh /\ broken.picks = e.picks
          /\ broken.last = e.last /\ broken.move = e.move
          /\ broken.poison = e.poison /\ e.max \in Nat
      BY <1>1 DEF EnemySet
    <3>. HIDE DEF broken
    <3>3. Lives(broken)
      BY <1>1, <3>1, <3>2 DEF Lives
    <3>4. Same(e, broken)
      BY <1>3, <3>2 DEF Same
    <3>. QED
      BY <3>2, <3>3, <3>4 DEF Enemies
  <2>2. halves \in Seq(Enemies) /\ \A j \in DOMAIN halves : Half(halves[j])
    <3>1. /\ Halves[e.kind][1] \in Kinds /\ Halves[e.kind][2] \in Kinds
          /\ Halves[e.kind][1] \in {"AcidSlimeM", "AcidSlimeL", "SpikeSlimeM", "SpikeSlimeL"}
          /\ Halves[e.kind][2] \in {"AcidSlimeM", "AcidSlimeL", "SpikeSlimeM", "SpikeSlimeL"}
      <4>1. \A k \in Splitters :
              /\ Halves[k][1] \in {"AcidSlimeM", "AcidSlimeL", "SpikeSlimeM", "SpikeSlimeL"}
              /\ Halves[k][2] \in {"AcidSlimeM", "AcidSlimeL", "SpikeSlimeM", "SpikeSlimeL"}
        BY DEF Splitters, Halves
      <4>2. \A k \in {"AcidSlimeM", "AcidSlimeL", "SpikeSlimeM", "SpikeSlimeL"} : k \in Kinds
        BY DEF Kinds
      <4>. HIDE DEF Kinds, Halves, Splitters
      <4>. QED
        BY <1>3, <4>1, <4>2
    <3>. HIDE DEF Kinds, Halves
    <3>2. \A j \in 1 .. 2 : Enemy(Halves[e.kind][j], left) \in Enemies
      BY <1>2, <3>1, NewEnemy
    <3>3. \A j \in 1 .. 2 : Half(Enemy(Halves[e.kind][j], left))
      BY <3>1 DEF Half, Enemy
    <3>. HIDE DEF left
    <3>4. halves \in Seq(Enemies)
      BY <3>2, IsASeq
    <3>. QED
      BY <3>3, <3>4
  <2>3. Struck(c, i, blow) = [c EXCEPT !.enemies = [c.enemies EXCEPT ![i].hp = 0, ![i].turned = TRUE] \o halves]
    BY <1>3 DEF Struck
  <2>4. [c.enemies EXCEPT ![i].hp = 0, ![i].turned = TRUE] = [c.enemies EXCEPT ![i] = broken]
    OBVIOUS
  <2>5. e.kind \in Splitters
    BY <1>3
  <2>. HIDE DEF halves, broken
  <2>6. [c EXCEPT !.enemies = [c.enemies EXCEPT ![i] = broken] \o halves] \in After(marked, c)
    BY <2>1, <2>2, <2>5, AfterSplit
  <2>. QED
    BY <2>3, <2>4, <2>6
<1>4. CASE ~splits
  <2>1. hit \in Enemies /\ Same(e, hit)
    <3>. HIDE DEF Kinds, MoveSet, MoveNames, left
    <3>1. ~e.alive => left = 0
      BY <1>1, <1>2 DEF Lives
    <3>2. /\ hit \in EnemySet /\ hit.hp = left /\ hit.alive = e.alive /\ hit.kind = e.kind
          /\ hit.turned = e.turned /\ hit.deaths = e.deaths /\ hit.max = e.max
          /\ hit.intangible = e.intangible /\ hit.fresh = e.fresh /\ hit.picks = e.picks
          /\ hit.last = e.last /\ hit.move = e.move
          /\ hit.poison = e.poison /\ e.max \in Nat
      BY <1>1, <1>2 DEF EnemySet
    <3>. HIDE DEF hit
    <3>3. Lives(hit)
      BY <1>1, <1>2, <3>1, <3>2 DEF Lives
    <3>4. Same(e, hit)
      BY <1>1, <1>2, <3>2 DEF Same
    <3>. QED
      BY <3>2, <3>3, <3>4 DEF Enemies
  <2>2. Struck(c, i, blow) = [c EXCEPT !.enemies[i] = hit]
    BY <1>4 DEF Struck
  <2>. HIDE DEF hit
  <2>. QED
    BY <2>1, <2>2, AfterOne
<1>. QED
  BY <1>3, <1>4

LEMMA StruckAllKeeps ==
    ASSUME NEW marked, NEW c \in Combats(marked), NEW blow \in Nat
    PROVE  StruckAll(c, blow) \in After(marked, c)
<1>. DEFINE C == After(marked, c)
<1>1. ASSUME NEW x \in C, NEW k \in Nat \ {0}
      PROVE  (IF k \in Living(x) THEN Struck(x, k, blow) ELSE x) \in C
  <2>1. x \in Combats(marked)
    BY AfterFacts
  <2>2. k \in DOMAIN x.enemies => Struck(x, k, blow) \in After(marked, x)
    BY <2>1, StruckKeeps
  <2>3. k \in Living(x) => Struck(x, k, blow) \in C
    BY <2>2, AfterAfter DEF Living
  <2>. HIDE DEF C
  <2>. QED
    BY <2>3
<1>2. c \in C
  BY AfterItself
<1>. HIDE DEF C
<1>3. StruckAll(c, blow) \in C
  BY <1>1, <1>2, EnemyList, StruckAllLoop
<1>. QED
  BY <1>3 DEF C

LEMMA BurstKeeps ==
    ASSUME NEW marked, NEW c \in Combats(marked), NEW i, NEW blow \in Nat
    PROVE  Burst(c, i, blow) \in After(marked, c)
<1>. DEFINE C == After(marked, c)
<1>1. ASSUME NEW x \in C, NEW k \in Nat \ {0}
      PROVE  (IF k \in Living(x) THEN IF k = i THEN x ELSE Struck(x, k, blow) ELSE x) \in C
  <2>1. x \in Combats(marked)
    BY AfterFacts
  <2>2. k \in DOMAIN x.enemies => Struck(x, k, blow) \in After(marked, x)
    BY <2>1, StruckKeeps
  <2>3. k \in Living(x) => Struck(x, k, blow) \in C
    BY <2>2, AfterAfter DEF Living
  <2>. HIDE DEF C
  <2>. QED
    BY <2>3
<1>2. c \in C
  BY AfterItself
<1>. HIDE DEF C
<1>3. Burst(c, i, blow) \in C
  BY <1>1, <1>2, EnemyList, BurstLoop
<1>. QED
  BY <1>3 DEF C

\* An enemy that was alive is announced dead: it has one more death behind it,
\* or it is Reborn and stands again, for the only time.
LEMMA AnnounceKeeps ==
    ASSUME NEW marked, NEW c \in Combats(marked), NEW i \in DOMAIN c.enemies, c.enemies[i].alive
    PROVE  Announce(c, i) \in After(marked, c)
<1>. DEFINE e == c.enemies[i]
            dead == [e EXCEPT !.alive = FALSE, !.hp = 0, !.deaths = @ + 1]
            risen == [dead EXCEPT !.turned = TRUE, !.alive = TRUE, !.hp = dead.max \div 2]
            told == [c EXCEPT !.enemies[i] = dead]
            after == OnDeath(told, i)
<1>1. e \in EnemySet /\ Lives(e) /\ c.enemies \in Seq(Enemies) /\ c \in CombatSet
  BY EnemyThere DEF Combats, CombatSet
<1>2. told.enemies[i] = dead /\ i \in DOMAIN told.enemies
  BY <1>1 DEF CombatSet
<1>3. /\ dead \in EnemySet /\ dead.alive = FALSE /\ dead.hp = 0 /\ dead.deaths = e.deaths + 1
      /\ dead.kind = e.kind /\ dead.turned = e.turned /\ dead.max = e.max
      /\ dead.intangible = e.intangible /\ dead.fresh = e.fresh /\ dead.picks = e.picks
      /\ dead.last = e.last /\ dead.move = e.move /\ dead.poison = e.poison
  <2>. DEFINE n == e.deaths + 1
  <2>1. n \in Nat
    BY <1>1 DEF EnemySet
  <2>2. dead = [e EXCEPT !.alive = FALSE, !.hp = 0, !.deaths = n]
    BY <1>1 DEF EnemySet
  <2>. HIDE DEF Kinds, MoveSet, MoveNames, n, dead
  <2>3. /\ dead \in EnemySet /\ dead.alive = FALSE /\ dead.hp = 0 /\ dead.deaths = n
        /\ dead.kind = e.kind /\ dead.turned = e.turned /\ dead.max = e.max
        /\ dead.intangible = e.intangible /\ dead.fresh = e.fresh /\ dead.picks = e.picks
        /\ dead.last = e.last /\ dead.move = e.move /\ dead.poison = e.poison
    BY <1>1, <2>1, <2>2 DEF EnemySet
  <2>. QED
    BY <2>3 DEF n
<1>4. after \in After(marked, c)
  <2>1. CASE e.kind \in Reborn /\ ~e.turned
    <3>1. after = [told EXCEPT !.enemies[i] = risen]
      BY <1>2, <1>3, <2>1 DEF OnDeath, Reborn
    <3>. DEFINE half == dead.max \div 2
    <3>2. half \in Nat /\ half <= dead.max
      <4>1. dead.max \in Nat
        BY <1>3 DEF EnemySet
      <4>. HIDE DEF dead
      <4>. QED
        BY <4>1
    <3>. HIDE DEF Kinds, MoveSet, MoveNames, dead, half
    <3>3. risen = [dead EXCEPT !.turned = TRUE, !.alive = TRUE, !.hp = half]
      BY DEF half
    <3>4. /\ risen \in EnemySet /\ risen.alive = TRUE /\ risen.turned = TRUE
          /\ risen.deaths = dead.deaths /\ risen.kind = dead.kind /\ risen.max = dead.max
          /\ risen.intangible = dead.intangible /\ risen.fresh = dead.fresh /\ risen.picks = dead.picks
          /\ risen.last = dead.last /\ risen.move = dead.move
          /\ risen.hp = half /\ risen.poison = dead.poison
      <4>. HIDE DEF risen
      <4>. QED
        BY <1>3, <3>2, <3>3 DEF EnemySet
    <3>. HIDE DEF risen
    <3>5. [told EXCEPT !.enemies[i] = risen] = [c EXCEPT !.enemies[i] = risen]
      BY <1>1 DEF CombatSet
    <3>6. risen \in Enemies /\ Same(e, risen)
      <4>1. e.deaths \in Nat /\ e.deaths <= 0
        BY <1>1, <2>1 DEF Lives, EnemySet
      <4>2. Lives(risen)
        BY <1>1, <1>3, <2>1, <3>2, <3>4, <4>1 DEF Lives
      <4>3. Same(e, risen)
        BY <1>3, <2>1, <3>4 DEF Same
      <4>. QED
        BY <3>4, <4>2, <4>3 DEF Enemies
    <3>. QED
      BY <3>1, <3>5, <3>6, AfterOne
  <2>2. CASE ~(e.kind \in Reborn /\ ~e.turned)
    <3>. HIDE DEF dead
    <3>1. dead \in Enemies /\ Same(e, dead)
      <4>1. e.deaths \in Nat /\ e.alive /\ e.max \in Nat
        BY <1>1 DEF EnemySet
      <4>2. Lives(dead)
        BY <1>1, <1>3, <2>2, <4>1 DEF Lives
      <4>3. Same(e, dead)
        BY <1>3, <4>1 DEF Same
      <4>. QED
        BY <1>3, <4>2, <4>3 DEF Enemies
    <3>2. told \in After(marked, c) /\ told \in Combats(marked)
      <4>1. told \in After(marked, c)
        BY <3>1, AfterOne
      <4>. HIDE DEF told
      <4>. QED
        BY <4>1, AfterFacts
    <3>. HIDE DEF told
    <3>3. CASE e.kind = "FungalBeast"
      <4>1. after = Afflict(told, <<"VULNERABLE", 2>>)
        BY <1>2, <1>3, <3>3 DEF OnDeath, Reborn
      <4>2. <<"VULNERABLE", 2>> \in Inflictions
        BY DEF Inflictions, Debuffs
      <4>3. after \in Combats(marked) /\ after.enemies = told.enemies
        BY <3>2, <4>1, <4>2, AfflictKeeps
      <4>4. after \in After(marked, told)
        BY <3>2, <4>3, AfterItself
      <4>. QED
        BY <3>2, <4>4, AfterAfter
    <3>4. CASE e.kind # "FungalBeast"
      <4>1. after = told
        BY <1>2, <1>3, <2>2, <3>4 DEF OnDeath
      <4>. QED
        BY <3>2, <4>1
    <3>. QED
      BY <3>3, <3>4
  <2>. QED
    BY <2>1, <2>2
<1>5. CASE e.corpse
  <2>1. Announce(c, i) = Burst(after, i, e.max)
    BY <1>5 DEF Announce
  <2>2. e.max \in Nat
    BY <1>1 DEF EnemySet
  <2>. HIDE DEF after, e
  <2>3. after \in Combats(marked)
    BY <1>4, AfterFacts
  <2>4. Burst(after, i, e.max) \in After(marked, after)
    BY <2>2, <2>3, BurstKeeps
  <2>. QED
    BY <1>4, <2>1, <2>4, AfterAfter
<1>6. CASE ~e.corpse
  <2>1. Announce(c, i) = after
    BY <1>6 DEF Announce
  <2>. QED
    BY <1>4, <2>1
<1>. QED
  BY <1>5, <1>6

LEMMA CheckEnemyDeathsKeeps ==
    ASSUME NEW marked, NEW c \in Combats(marked)
    PROVE  CheckEnemyDeaths(c) \in After(marked, c)
<1>. DEFINE C == After(marked, c)
<1>1. ASSUME NEW x \in C, NEW k \in Nat \ {0}
      PROVE  DeathStep(x, k) \in C
  <2>1. x \in Combats(marked)
    BY AfterFacts
  <2>2. k \in DOMAIN x.enemies /\ x.enemies[k].alive => Announce(x, k) \in After(marked, x)
    BY <2>1, AnnounceKeeps
  <2>3. k \in DOMAIN x.enemies /\ x.enemies[k].alive => Announce(x, k) \in C
    BY <2>2, AfterAfter
  <2>. HIDE DEF C
  <2>. QED
    BY <2>3 DEF DeathStep
<1>2. c \in C
  BY AfterItself
<1>. HIDE DEF C
<1>3. CheckEnemyDeaths(c) \in C
  BY <1>1, <1>2, EnemyList, DeathsLoop
<1>. QED
  BY <1>3 DEF C

-----------------------------------------------------------------------------
(* What the moves and the ticks keep *)

Born == {"TorchHead", "OrbWalker", "JawWorm", "SnakeDagger"}

LEMMA FreshEnemy ==
    ASSUME NEW kind \in Kinds \cap DOMAIN StartHp
    PROVE  Fresh(kind) \in Enemies
<1>1. StartHp[kind] \in Nat
  BY Bounds
<1>. HIDE DEF Kinds
<1>. QED
  BY <1>1, NewEnemy DEF Fresh

LEMMA BornEnemy ==
    ASSUME NEW kind \in Born
    PROVE  Fresh(kind) \in Enemies
<1>1. kind \in Kinds
  BY DEF Born, Kinds
<1>2. kind \in DOMAIN StartHp
  BY Bounds DEF Born
<1>. HIDE DEF Kinds
<1>. QED
  BY <1>1, <1>2, FreshEnemy

LEMMA SpawnedList ==
    ASSUME NEW marked, NEW c \in Combats(marked), NEW e
    PROVE  Spawned(e, c) \in Seq(Born)
<1>1. c.enemies \in Seq(Enemies)
  BY DEF Combats, CombatSet
<1>2. Len(c.enemies) \in Nat /\ DOMAIN c.enemies = 1 .. Len(c.enemies)
  BY <1>1, LenProperties
<1>3. Cardinality(LivingOf(c, "TorchHead")) \in Nat
  <2>1. IsFiniteSet(1 .. Len(c.enemies))
    BY <1>2, FS_Interval
  <2>2. LivingOf(c, "TorchHead") \subseteq 1 .. Len(c.enemies)
    BY <1>2 DEF LivingOf, Living
  <2>. QED
    BY <2>1, <2>2, FS_Subset, FS_CardinalityType
<1>. DEFINE torches == Lowered(2, Cardinality(LivingOf(c, "TorchHead")))
            band == IF Len(c.enemies) <= 3 THEN 2 ELSE Lowered(5, Len(c.enemies))
<1>4. torches \in Nat /\ band \in Nat
  BY <1>2, <1>3 DEF Lowered
<1>5. /\ [k \in 1 .. torches |-> "TorchHead"] \in Seq(Born)
      /\ [k \in 1 .. band |-> "JawWorm"] \in Seq(Born)
      /\ <<"OrbWalker", "OrbWalker">> \in Seq(Born) /\ <<"SnakeDagger">> \in Seq(Born) /\ << >> \in Seq(Born)
  <2>1. "TorchHead" \in Born /\ "OrbWalker" \in Born /\ "JawWorm" \in Born /\ "SnakeDagger" \in Born
    BY DEF Born
  <2>. HIDE DEF torches, band, Born
  <2>2. [k \in 1 .. torches |-> "TorchHead"] \in Seq(Born)
    BY <1>4, <2>1, IsASeq
  <2>3. [k \in 1 .. band |-> "JawWorm"] \in Seq(Born)
    BY <1>4, <2>1, IsASeq
  <2>. QED
    BY <2>1, <2>2, <2>3, EmptySeq
<1>. HIDE DEF Born
<1>. QED
  BY <1>5 DEF Spawned

LEMMA ActedKeeps ==
    ASSUME NEW e \in Enemies
    PROVE  Acted(e) \in Enemies
<1>. DEFINE last == IF e.kind \notin Remembers THEN e.last
                    ELSE IF e.kind = "JawWorm" /\ e.last # << >> THEN <<e.move.name, Head(e.last)>>
                    ELSE <<e.move.name>>
            turned == e.turned \/ e.move.name = "Spawn Orbs"
            intangible == e.intangible \/ e.move.name = "Rebirth"
            fresh == e.fresh \/ e.move.name = "Rebirth"
            left == IF e.kind = "Transient" /\ e.picks >= 5 THEN 0 ELSE e.hp
            times == e.made + 1
<1>1. e \in EnemySet /\ Lives(e)
  BY DEF Enemies
<1>2. left \in Nat /\ left <= e.max /\ (~e.alive => left = 0) /\ times \in Nat
  BY <1>1 DEF EnemySet, Lives
<1>3. last \in Seq(MoveNames)
  <2>1. e.move.name \in MoveNames /\ e.last \in Seq(MoveNames)
    BY <1>1 DEF EnemySet, MoveSet
  <2>. HIDE DEF MoveNames
  <2>2. e.last # << >> => Head(e.last) \in MoveNames
    <3>1. e.last # << >> => Len(e.last) \in Nat \ {0}
      BY <2>1, EmptySeq
    <3>2. e.last # << >> => 1 \in 1 .. Len(e.last) /\ Head(e.last) = e.last[1]
      BY <2>1, <3>1
    <3>. QED
      BY <2>1, <3>2, ElementOfSeq
  <2>3. <<e.move.name>> \in Seq(MoveNames)
    BY <2>1
  <2>4. e.last # << >> => <<e.move.name, Head(e.last)>> \in Seq(MoveNames)
    BY <2>1, <2>2, ListOf2
  <2>. QED
    BY <2>1, <2>3, <2>4
<1>4. turned \in BOOLEAN /\ intangible \in BOOLEAN /\ fresh \in BOOLEAN /\ (e.turned => turned)
  OBVIOUS
<1>5. Acted(e) = [e EXCEPT !.made = times, !.last = last, !.turned = turned, !.intangible = intangible,
                           !.fresh = fresh, !.hp = left]
  BY DEF Acted
<1>. HIDE DEF Kinds, MoveSet, MoveNames, last, turned, intangible, fresh, left, times
<1>6. /\ Acted(e) \in EnemySet /\ Acted(e).hp = left /\ Acted(e).turned = turned
      /\ Acted(e).alive = e.alive /\ Acted(e).kind = e.kind /\ Acted(e).deaths = e.deaths
      /\ Acted(e).max = e.max /\ Acted(e).poison = e.poison
  <2>. DEFINE g == [e EXCEPT !.made = times, !.last = last, !.turned = turned]
              f == [g EXCEPT !.intangible = intangible, !.fresh = fresh, !.hp = left]
  <2>1. left \in Nat /\ times \in Nat
    BY <1>2
  <2>2. /\ g \in EnemySet /\ g.turned = turned
        /\ g.alive = e.alive /\ g.kind = e.kind /\ g.deaths = e.deaths
        /\ g.max = e.max /\ g.poison = e.poison
    BY <1>1, <1>3, <1>4, <2>1 DEF EnemySet
  <2>3. Acted(e) = f
    BY <1>5
  <2>. HIDE DEF g
  <2>4. /\ f \in EnemySet /\ f.hp = left /\ f.turned = g.turned
        /\ f.alive = g.alive /\ f.kind = g.kind /\ f.deaths = g.deaths
        /\ f.max = g.max /\ f.poison = g.poison
    BY <1>4, <2>1, <2>2 DEF EnemySet
  <2>. HIDE DEF f
  <2>. QED
    BY <2>2, <2>3, <2>4
<1>7. Lives(Acted(e))
  <2>1. e.deaths \in Nat
    BY <1>1 DEF EnemySet
  <2>. QED
    BY <1>1, <1>2, <1>4, <1>6, <2>1 DEF Lives
<1>. QED
  BY <1>6, <1>7 DEF Enemies

LEMMA PerformedKeeps ==
    ASSUME NEW marked, NEW c \in Combats(marked), NEW i \in DOMAIN c.enemies, NEW answer \in Nat
    PROVE  Performed(c, i, answer) \in Combats(marked)
<1>. DEFINE m == c.enemies[i].move
            answered == Struck(c, i, answer)
            afflicted == AfflictAll(answered, m.inflicts)
            e == afflicted.enemies[i]
            sp == Spawned(e, afflicted)
            born == [k \in DOMAIN sp |-> Fresh(sp[k])]
            es == [afflicted.enemies EXCEPT ![i] = Acted(e)]
<1>1. answered \in Combats(marked) /\ i \in DOMAIN answered.enemies
  BY StruckKeeps, AfterFacts
<1>2. m.inflicts \in Seq(Inflictions)
  <2>1. c.enemies[i] \in EnemySet
    BY EnemyThere
  <2>. QED
    BY <2>1 DEF EnemySet, MoveSet
<1>3. afflicted \in Combats(marked) /\ i \in DOMAIN afflicted.enemies
  <2>. HIDE DEF answered, m
  <2>. QED
    BY <1>1, <1>2, AfflictAllKeeps
<1>. HIDE DEF afflicted
<1>4. e \in Enemies
  BY <1>3, EnemyThere
<1>5. Acted(e) \in Enemies
  <2>. HIDE DEF e
  <2>. QED
    BY <1>4, ActedKeeps
<1>6. afflicted.enemies \in Seq(Enemies)
  BY <1>3 DEF Combats, CombatSet
<1>7. es \in Seq(Enemies)
  <2>1. i \in 1 .. Len(afflicted.enemies)
    BY <1>3, <1>6, LenProperties
  <2>. QED
    BY <1>5, <1>6, <2>1, ExceptSeq
<1>8. born \in Seq(Enemies)
  <2>1. sp \in Seq(Born)
    BY <1>3, SpawnedList
  <2>. HIDE DEF sp
  <2>2. Len(sp) \in Nat /\ DOMAIN sp = 1 .. Len(sp)
    BY <2>1, LenProperties
  <2>3. \A k \in 1 .. Len(sp) : Fresh(sp[k]) \in Enemies
    BY <2>1, ElementOfSeq, BornEnemy
  <2>4. [k \in 1 .. Len(sp) |-> Fresh(sp[k])] \in Seq(Enemies)
    BY <2>2, <2>3, IsASeq
  <2>. QED
    BY <2>2, <2>4
<1>9. Performed(c, i, answer) = [afflicted EXCEPT !.enemies = es \o born]
  BY DEF Performed, afflicted
<1>. HIDE DEF es, born
<1>10. es \o born \in Seq(Enemies)
  BY <1>7, <1>8, ConcatProperties
<1>11. [afflicted EXCEPT !.enemies = es \o born] \in Combats(marked)
  BY <1>3, <1>10, WithEnemies
<1>. QED
  BY <1>9, <1>11

LEMMA TickedKeeps ==
    ASSUME NEW e \in Enemies, e.hp > 0
    PROVE  Ticked(e) \in Enemies
<1>. DEFINE healed == IF e.kind = "AwakenedOne" /\ e.hp < e.max THEN e.hp + 1 ELSE e.hp
            covered == e.intangible /\ e.fresh
            dose == IF covered /\ e.poison > 1 THEN 1 ELSE e.poison
            left == Lowered(healed, dose)
            rest == Lowered(e.poison, 1)
<1>1. e \in EnemySet /\ Lives(e)
  BY DEF Enemies
<1>2. e.alive /\ e.hp \in Nat /\ e.max \in Nat /\ e.hp <= e.max /\ e.poison \in Nat /\ e.poison <= MaxPoison
  BY <1>1 DEF EnemySet, Lives
<1>3. /\ left \in Nat /\ left <= e.max /\ covered \in BOOLEAN
      /\ rest \in Nat /\ rest <= MaxPoison
  <2>1. healed \in Nat /\ healed <= e.max /\ dose \in Nat /\ MaxPoison \in Nat
    BY <1>2, Bounds
  <2>. HIDE DEF healed, dose
  <2>2. left \in Nat /\ left <= healed /\ rest \in Nat /\ rest <= e.poison
    BY <1>2, <2>1, LoweredNat
  <2>3. covered \in BOOLEAN
    OBVIOUS
  <2>. HIDE DEF left, rest, covered
  <2>. QED
    BY <1>2, <2>1, <2>2, <2>3
<1>4. Ticked(e) = [e EXCEPT !.intangible = covered, !.fresh = FALSE, !.hp = left, !.poison = rest]
  BY DEF Ticked
<1>. HIDE DEF Kinds, MoveSet, MoveNames, left, rest, covered
<1>5. /\ Ticked(e) \in EnemySet /\ Ticked(e).turned = e.turned
      /\ Ticked(e).alive = e.alive /\ Ticked(e).kind = e.kind /\ Ticked(e).deaths = e.deaths
      /\ Ticked(e).max = e.max /\ Ticked(e).hp = left /\ Ticked(e).poison = rest
  BY <1>1, <1>3, <1>4 DEF EnemySet
<1>6. Lives(Ticked(e))
  BY <1>1, <1>2, <1>3, <1>5 DEF Lives
<1>. QED
  BY <1>5, <1>6 DEF Enemies

LEMMA EnemiesTickedKeeps ==
    ASSUME NEW marked, NEW c \in Combats(marked)
    PROVE  EnemiesTicked(c) \in Combats(marked)
<1>. DEFINE C == Combats(marked)
<1>1. ASSUME NEW x \in C, NEW k \in Nat \ {0}
      PROVE  TickStep(x, k) \in C
  <2>. SUFFICES ASSUME k \in Living(x) PROVE [x EXCEPT !.enemies[k] = Ticked(@)] \in C
    BY DEF TickStep
  <2>1. k \in DOMAIN x.enemies /\ x.enemies[k].hp > 0
    BY DEF Living
  <2>2. Ticked(x.enemies[k]) \in Enemies
    BY <2>1, EnemyThere, TickedKeeps
  <2>. QED
    BY <2>1, <2>2, WithEnemy
<1>2. c \in C
  OBVIOUS
<1>. HIDE DEF C
<1>3. EnemiesTicked(c) \in C
  BY <1>1, <1>2, EnemyList, TickLoop
<1>. QED
  BY <1>3 DEF C

\* The debuffs still owed are not among those that tick.
LEMMA DebuffsTickedKeeps ==
    ASSUME NEW c \in Combats(TRUE)
    PROVE  DebuffsTicked(c) \in Combats(FALSE)
<1>. DEFINE held == [d \in Debuffs |-> IF d \in c.justApplied THEN c.held[d] ELSE Lowered(c.held[d], 1)]
<1>1. c \in CombatSet /\ Covered(c) /\ c.owed \subseteq c.justApplied
  BY DEF Combats
<1>2. c.held \in [Debuffs -> Nat] /\ c.justApplied \subseteq Debuffs
  BY <1>1 DEF CombatSet
<1>3. held \in [Debuffs -> Nat]
  <2>. SUFFICES ASSUME NEW d \in Debuffs PROVE held[d] \in Nat
    OBVIOUS
  <2>. QED
    BY <1>2, LoweredNat
<1>4. \A d \in c.owed : held[d] > 0
  BY <1>1, <1>2 DEF Covered
<1>5. DebuffsTicked(c) = [c EXCEPT !.held = held, !.justApplied = {}]
  BY DEF DebuffsTicked
<1>. HIDE DEF held
<1>6. [c EXCEPT !.held = held, !.justApplied = {}] \in Combats(FALSE)
  BY <1>1, <1>3, <1>4 DEF Combats, CombatSet, Covered
<1>. QED
  BY <1>5, <1>6

LEMMA SelectedKeeps ==
    ASSUME NEW e \in Enemies, NEW m \in MoveSet
    PROVE  Selected(e, m) \in Enemies
<1>. DEFINE turned == \/ e.turned
                      \/ e.kind = "Lagavulin" /\ LagavulinWakes(e, hp < PlayerHp)
                      \/ e.kind = "TheChamp" /\ ChampTurns(e)
            intangible == IF e.kind = "Nemesis" THEN e.picks < 3 ELSE e.intangible
            times == e.picks + 1
<1>1. e \in EnemySet /\ Lives(e)
  BY DEF Enemies
<1>2. turned \in BOOLEAN /\ intangible \in BOOLEAN /\ times \in Nat /\ (e.turned => turned)
  <2>1. turned \in BOOLEAN /\ (e.turned => turned)
    OBVIOUS
  <2>2. e.intangible \in BOOLEAN /\ e.picks \in Nat
    BY <1>1 DEF EnemySet
  <2>3. intangible \in BOOLEAN
    <3>1. CASE e.kind = "Nemesis"
      BY <3>1
    <3>2. CASE e.kind # "Nemesis"
      BY <2>2, <3>2
    <3>. QED
      BY <3>1, <3>2
  <2>4. times \in Nat
    BY <2>2
  <2>. QED
    BY <2>1, <2>3, <2>4
<1>3. Selected(e, m) = [e EXCEPT !.move = m, !.picks = times, !.turned = turned, !.intangible = intangible]
  BY DEF Selected
<1>. HIDE DEF Kinds, MoveSet, MoveNames, turned, intangible, times
<1>4. /\ Selected(e, m) \in EnemySet /\ Selected(e, m).hp = e.hp /\ Selected(e, m).turned = turned
      /\ Selected(e, m).alive = e.alive /\ Selected(e, m).kind = e.kind /\ Selected(e, m).deaths = e.deaths
      /\ Selected(e, m).max = e.max /\ Selected(e, m).poison = e.poison
  BY <1>1, <1>2, <1>3 DEF EnemySet
<1>5. Lives(Selected(e, m))
  <2>1. e.deaths \in Nat
    BY <1>1 DEF EnemySet
  <2>. QED
    BY <1>1, <1>2, <1>4, <2>1 DEF Lives
<1>. QED
  BY <1>4, <1>5 DEF Enemies

-----------------------------------------------------------------------------
(* The invariant *)

RoundInv ==
    /\ pc \in {"select", "player", "enemies", "over"}
    /\ at \in Nat \ {0}
    /\ encounter \in Encounters
    /\ hp \in Int
    /\ combat \in Combats(pc = "enemies")

LEMMA Unmarked ==
    ASSUME NEW marked \in BOOLEAN, NEW c \in Combats(marked)
    PROVE  c \in Combats(FALSE)
BY DEF Combats

LEMMA FoesTyped ==
    ASSUME NEW foes \in EncounterTable
    PROVE  foes \in Seq(Kinds)
<1>. DEFINE K == Kinds
<1>1. /\ "Cultist" \in K /\ "JawWorm" \in K /\ "RedLouse" \in K /\ "GreenLouse" \in K /\ "AcidSlimeS" \in K
      /\ "SpikeSlimeS" \in K /\ "AcidSlimeM" \in K /\ "SpikeSlimeM" \in K /\ "FungalBeast" \in K
      /\ "GremlinNob" \in K /\ "Lagavulin" \in K /\ "Sentry" \in K /\ "SlimeBoss" \in K /\ "Hexaghost" \in K
      /\ "Chosen" \in K /\ "ShellParasite" \in K /\ "Byrd" \in K /\ "TorchHead" \in K
      /\ "GremlinLeader" \in K /\ "RedSlaver" \in K /\ "BlueSlaver" \in K /\ "Taskmaster" \in K
      /\ "BookOfStabbing" \in K /\ "TheCollector" \in K /\ "BronzeAutomaton" \in K /\ "TheChamp" \in K
      /\ "Darkling" \in K /\ "Maw" \in K /\ "WrithingMass" \in K /\ "Transient" \in K /\ "GiantHead" \in K
      /\ "Nemesis" \in K /\ "Reptomancer" \in K /\ "Donu" \in K /\ "Deca" \in K /\ "AwakenedOne" \in K
      /\ "TimeEater" \in K
  BY DEF Kinds
<1>. HIDE DEF K
<1>2. \A a \in K : <<a>> \in Seq(K)
  OBVIOUS
<1>3. \A a, b \in K : <<a, b>> \in Seq(K)
  BY ListOf2
<1>4. \A a, b, c \in K : <<a, b, c>> \in Seq(K)
  BY ListOf3
<1>5. foes \in Act1Encounters => foes \in Seq(K)
  <2>1. /\ <<"Cultist">> \in Seq(K) /\ <<"JawWorm">> \in Seq(K)
        /\ <<"RedLouse", "GreenLouse">> \in Seq(K) /\ <<"RedLouse", "RedLouse">> \in Seq(K)
        /\ <<"GreenLouse", "GreenLouse">> \in Seq(K) /\ <<"AcidSlimeS", "SpikeSlimeS">> \in Seq(K)
        /\ <<"AcidSlimeM">> \in Seq(K) /\ <<"SpikeSlimeM">> \in Seq(K) /\ <<"FungalBeast">> \in Seq(K)
        /\ <<"GremlinNob">> \in Seq(K) /\ <<"Lagavulin">> \in Seq(K)
        /\ <<"Sentry", "Sentry", "Sentry">> \in Seq(K) /\ <<"SlimeBoss">> \in Seq(K)
        /\ <<"Hexaghost">> \in Seq(K)
    BY <1>1, <1>2, <1>3, <1>4
  <2>. QED
    BY <2>1, Zenon DEF Act1Encounters
<1>6. foes \in Act2Encounters => foes \in Seq(K)
  <2>1. /\ <<"Chosen">> \in Seq(K) /\ <<"ShellParasite">> \in Seq(K)
        /\ <<"Byrd", "Byrd", "Byrd">> \in Seq(K) /\ <<"Chosen", "Byrd">> \in Seq(K)
        /\ <<"ShellParasite", "Byrd">> \in Seq(K) /\ <<"TorchHead", "TorchHead">> \in Seq(K)
        /\ <<"GremlinLeader">> \in Seq(K) /\ <<"RedSlaver", "BlueSlaver", "Taskmaster">> \in Seq(K)
        /\ <<"BookOfStabbing">> \in Seq(K) /\ <<"TheCollector">> \in Seq(K)
        /\ <<"BronzeAutomaton">> \in Seq(K) /\ <<"TheChamp">> \in Seq(K)
    BY <1>1, <1>2, <1>3, <1>4
  <2>. QED
    BY <2>1, Zenon DEF Act2Encounters
<1>7. foes \in Act3Encounters => foes \in Seq(K)
  <2>1. /\ <<"Darkling", "Darkling", "Darkling">> \in Seq(K) /\ <<"Maw">> \in Seq(K)
        /\ <<"WrithingMass">> \in Seq(K) /\ <<"Transient">> \in Seq(K) /\ <<"GiantHead">> \in Seq(K)
        /\ <<"Nemesis">> \in Seq(K) /\ <<"Reptomancer">> \in Seq(K) /\ <<"Donu", "Deca">> \in Seq(K)
        /\ <<"AwakenedOne">> \in Seq(K) /\ <<"TimeEater">> \in Seq(K)
    BY <1>1, <1>2, <1>3, <1>4
  <2>. QED
    BY <2>1, Zenon DEF Act3Encounters
<1>. QED
  BY <1>5, <1>6, <1>7 DEF EncounterTable, K

LEMMA RoundInit == Init => RoundInv
<1>. SUFFICES ASSUME Init PROVE RoundInv
  OBVIOUS
<1>. DEFINE es == [i \in DOMAIN encounter.foes |-> Fresh(encounter.foes[i])]
<1>1. PICK artifact \in 0 .. 1 :
        combat = [enemies |-> es, held |-> [d \in Debuffs |-> 0], artifact |-> artifact,
                  window |-> FALSE, justApplied |-> {}, owed |-> {}]
  BY DEF Init
<1>2. es \in Seq(Enemies)
  <2>. DEFINE foes == encounter.foes
  <2>1. encounter \in Encounters
    BY DEF Init
  <2>2. foes \in Seq(Kinds)
    BY <2>1, Bounds, FoesTyped
  <2>3. \A i \in DOMAIN foes : foes[i] \in DOMAIN StartHp
    BY <2>1, Bounds
  <2>. HIDE DEF Kinds, foes
  <2>4. Len(foes) \in Nat /\ DOMAIN foes = 1 .. Len(foes)
    BY <2>2, LenProperties
  <2>5. \A i \in 1 .. Len(foes) : Fresh(foes[i]) \in Enemies
    BY <2>2, <2>3, <2>4, ElementOfSeq, FreshEnemy
  <2>6. [i \in 1 .. Len(foes) |-> Fresh(foes[i])] \in Seq(Enemies)
    BY <2>4, <2>5, IsASeq
  <2>. QED
    BY <2>4, <2>6 DEF foes
<1>. HIDE DEF es
<1>3. combat \in Combats(FALSE)
  BY <1>1, <1>2 DEF Combats, CombatSet, Covered
<1>4. hp \in Int
  BY Bounds DEF Init
<1>5. pc = "select" /\ at = 1 /\ encounter \in Encounters
  BY DEF Init
<1>6. combat \in Combats(pc = "enemies")
  <2>1. (pc = "enemies") = FALSE
    BY <1>5
  <2>. QED
    BY <1>3, <2>1, Zenon
<1>. QED
  BY <1>4, <1>5, <1>6 DEF RoundInv

LEMMA EnemyAt ==
    ASSUME RoundInv, at <= Len(combat.enemies)
    PROVE  at \in DOMAIN combat.enemies
<1>1. combat.enemies \in Seq(Enemies) /\ at \in Nat \ {0}
  BY DEF RoundInv, Combats, CombatSet
<1>2. DOMAIN combat.enemies = 1 .. Len(combat.enemies) /\ Len(combat.enemies) \in Nat
  BY <1>1, LenProperties
<1>. QED
  BY <1>1, <1>2

\* What a selection does: nothing to a fallen enemy, and to a living one a move
\* of its own, special only where its selector says so.
LEMMA SelectMoveEffect ==
    ASSUME RoundInv, SelectMove
    PROVE  /\ at \in DOMAIN combat.enemies
           /\ at' = at + 1 /\ pc = "select" /\ UNCHANGED <<pc, turn, encounter, hp>>
           /\ \/ ~(combat.enemies[at].hp > 0) /\ combat' = combat
              \/ /\ combat.enemies[at].hp > 0
                 /\ \E m \in MoveSet :
                      /\ m # NoMove
                      /\ combat' = [combat EXCEPT !.enemies[at] = Selected(combat.enemies[at], m)]
                      /\ Signed(combat.enemies[at].kind, m)
                      /\ m.name = "Spawn Orbs" => ~combat.enemies[at].turned
                      /\ m.name = "Summon" => ~(Cardinality(LivingOf(combat, "SnakeDagger")) >= MaxDaggers)
<1>. DEFINE e == combat.enemies[at]
            daggers == Cardinality(LivingOf(combat, "SnakeDagger"))
<1>1. at \in DOMAIN combat.enemies
  BY EnemyAt DEF SelectMove
<1>2. at' = at + 1 /\ pc = "select" /\ UNCHANGED <<pc, turn, encounter, hp>>
  BY DEF SelectMove
<1>3. CASE e.hp > 0
  <2>1. PICK m \in MovesOf(e, hp < PlayerHp, daggers) :
          combat' = [combat EXCEPT !.enemies[at] = Selected(e, m)]
    BY <1>3 DEF SelectMove
  <2>2. e \in EnemySet
    BY <1>1, EnemyThere DEF RoundInv
  <2>3. e.kind \in Kinds /\ e.picks \in Nat /\ e.made \in Nat
    BY <2>2 DEF EnemySet
  <2>. HIDE DEF e, daggers, MoveSet, Kinds
  <2>4. /\ m \in MoveSet /\ m # NoMove /\ Signed(e.kind, m) /\ (m.name = "Spawn Orbs" => ~e.turned)
        /\ m.name = "Summon" => ~(daggers >= MaxDaggers)
    BY <2>3, MovesTyped
  <2>. QED
    BY <1>1, <1>2, <1>3, <2>1, <2>4 DEF e, daggers
<1>4. CASE ~(e.hp > 0)
  BY <1>1, <1>2, <1>4 DEF SelectMove
<1>. QED
  BY <1>3, <1>4

LEMMA SelectMoveStep == RoundInv /\ SelectMove => RoundInv'
<1>. SUFFICES ASSUME RoundInv, SelectMove PROVE RoundInv'
  OBVIOUS
<1>1. combat \in Combats(FALSE) /\ at \in Nat \ {0} /\ pc = "select" /\ encounter \in Encounters /\ hp \in Int
  BY DEF RoundInv, SelectMove
<1>2. combat' \in Combats(FALSE)
  <2>. DEFINE e == combat.enemies[at]
  <2>1. at \in DOMAIN combat.enemies
    BY SelectMoveEffect
  <2>2. e \in Enemies
    BY <1>1, <2>1, EnemyThere
  <2>3. ASSUME NEW m \in MoveSet, combat' = [combat EXCEPT !.enemies[at] = Selected(e, m)]
        PROVE  combat' \in Combats(FALSE)
    <3>. HIDE DEF MoveSet, e
    <3>1. Selected(e, m) \in Enemies
      BY <2>2, SelectedKeeps
    <3>. QED
      BY <1>1, <2>1, <2>3, <3>1, WithEnemy
  <2>. HIDE DEF MoveSet
  <2>. QED
    BY <1>1, <2>3, SelectMoveEffect
<1>3. at' = at + 1 /\ UNCHANGED <<pc, encounter, hp>>
  BY DEF SelectMove
<1>4. at' \in Nat \ {0} /\ (pc' = "enemies") = FALSE
  BY <1>1, <1>3
<1>. QED
  BY <1>1, <1>2, <1>3, <1>4 DEF RoundInv

Play == PlayAttack \/ PlaySweep \/ PlayDeadlyPoison \/ PlayCorpseExplosion \/ PlayBerserk \/ PlayPower

\* Deadly Poison and Corpse Explosion add to an enemy's powers and leave the rest.
LEMMA DosedKeeps ==
    ASSUME NEW c \in Combats(FALSE), NEW i \in DOMAIN c.enemies, NEW corpse \in BOOLEAN,
           c.enemies[i].poison < MaxPoison
    PROVE  [c EXCEPT !.enemies[i] = [c.enemies[i] EXCEPT !.poison = c.enemies[i].poison + 1, !.corpse = corpse]]
             \in After(FALSE, c)
<1>. DEFINE e == c.enemies[i]
            n == e.poison + 1
            dosed == [e EXCEPT !.poison = n, !.corpse = corpse]
<1>1. e \in EnemySet /\ Lives(e)
  BY EnemyThere
<1>2. n \in Nat /\ n <= MaxPoison
  <2>1. e.poison \in Nat
    BY <1>1 DEF EnemySet
  <2>2. MaxPoison \in Nat
    BY Bounds
  <2>. QED
    BY <2>1, <2>2
<1>3. dosed \in Enemies /\ Same(e, dosed)
  <2>. HIDE DEF n, e, Kinds, MoveSet, MoveNames
  <2>1. /\ dosed \in EnemySet /\ dosed.hp = e.hp /\ dosed.turned = e.turned
        /\ dosed.alive = e.alive /\ dosed.kind = e.kind /\ dosed.deaths = e.deaths
        /\ dosed.max = e.max /\ dosed.intangible = e.intangible /\ dosed.fresh = e.fresh
        /\ dosed.picks = e.picks /\ dosed.last = e.last /\ dosed.move = e.move
        /\ dosed.poison = n
    BY <1>1, <1>2 DEF EnemySet
  <2>. HIDE DEF dosed
  <2>. QED
    BY <1>1, <1>2, <2>1 DEF Enemies, Lives, Same
<1>. HIDE DEF dosed
<1>4. [c EXCEPT !.enemies[i] = dosed] \in After(FALSE, c)
  BY <1>3, AfterOne
<1>. QED
  BY <1>4 DEF dosed

\* A card changes a combat only by blows, poison, debuffs and deaths.
LEMMA PlayEffect ==
    ASSUME RoundInv, Play
    PROVE  /\ pc = "player" /\ UNCHANGED <<pc, at, turn, encounter, hp>>
           /\ combat \in Combats(FALSE) /\ combat' \in After(FALSE, combat)
<1>. USE DEF Play
<1>1. pc = "player" /\ UNCHANGED <<pc, at, turn, encounter, hp>>
  BY DEF PlayAttack, PlaySweep, PlayDeadlyPoison, PlayCorpseExplosion, PlayBerserk, PlayPower, PlayCard
<1>2. combat \in Combats(FALSE)
  BY <1>1 DEF RoundInv
<1>3. \A i \in Living(combat) : i \in DOMAIN combat.enemies
  BY DEF Living
<1>4. \A blow \in 0 .. MaxBlow : blow \in Nat
  OBVIOUS
<1>5. ASSUME NEW c \in After(FALSE, combat), combat' = CheckEnemyDeaths(c)
      PROVE  combat' \in After(FALSE, combat)
  <2>1. c \in Combats(FALSE)
    BY <1>2, AfterFacts
  <2>2. combat' \in After(FALSE, c)
    BY <1>5, <2>1, CheckEnemyDeathsKeeps
  <2>. QED
    BY <1>2, <2>2, AfterAfter
<1>6. CASE PlayAttack
  <2>1. PICK i \in Living(combat), blow \in 0 .. MaxBlow : combat' = CheckEnemyDeaths(Struck(combat, i, blow))
    BY <1>6 DEF PlayAttack
  <2>2. Struck(combat, i, blow) \in After(FALSE, combat)
    BY <1>2, <1>3, <1>4, StruckKeeps
  <2>. QED
    BY <1>1, <1>2, <1>5, <2>1, <2>2
<1>7. CASE PlaySweep
  <2>1. PICK blow \in 1 .. MaxBlow : combat' = CheckEnemyDeaths(StruckAll(combat, blow))
    BY <1>7 DEF PlaySweep
  <2>2. blow \in Nat
    OBVIOUS
  <2>3. StruckAll(combat, blow) \in After(FALSE, combat)
    BY <1>2, <2>2, StruckAllKeeps
  <2>. QED
    BY <1>1, <1>2, <1>5, <2>1, <2>3
<1>8. CASE PlayDeadlyPoison
  <2>1. PICK i \in Living(combat) :
          /\ combat.enemies[i].poison < MaxPoison
          /\ combat' = CheckEnemyDeaths([combat EXCEPT !.enemies[i].poison = @ + 1])
    BY <1>8 DEF PlayDeadlyPoison
  <2>. DEFINE e == combat.enemies[i]
  <2>2. e \in EnemySet
    BY <1>2, <1>3, EnemyThere
  <2>3. [e EXCEPT !.poison = e.poison + 1] = [e EXCEPT !.poison = e.poison + 1, !.corpse = e.corpse]
    BY <2>2 DEF EnemySet
  <2>4. e.corpse \in BOOLEAN
    BY <2>2 DEF EnemySet
  <2>5. [combat EXCEPT !.enemies[i] = [e EXCEPT !.poison = e.poison + 1]] \in After(FALSE, combat)
    BY <1>2, <1>3, <2>1, <2>3, <2>4, DosedKeeps
  <2>6. [combat EXCEPT !.enemies[i].poison = @ + 1]
         = [combat EXCEPT !.enemies[i] = [e EXCEPT !.poison = e.poison + 1]]
    OBVIOUS
  <2>. QED
    BY <1>1, <1>2, <1>5, <2>1, <2>5, <2>6
<1>9. CASE PlayCorpseExplosion
  <2>1. PICK i \in Living(combat) :
          /\ combat.enemies[i].poison < MaxPoison
          /\ combat' = CheckEnemyDeaths([combat EXCEPT !.enemies[i].poison = @ + 1, !.enemies[i].corpse = TRUE])
    BY <1>9 DEF PlayCorpseExplosion
  <2>. DEFINE e == combat.enemies[i]
  <2>2. [combat EXCEPT !.enemies[i] = [e EXCEPT !.poison = e.poison + 1, !.corpse = TRUE]] \in After(FALSE, combat)
    BY <1>2, <1>3, <2>1, DosedKeeps
  <2>3. i \in DOMAIN combat.enemies /\ combat \in CombatSet
    BY <1>2, <1>3 DEF Combats
  <2>4. [combat EXCEPT !.enemies[i].poison = @ + 1, !.enemies[i].corpse = TRUE]
         = [combat EXCEPT !.enemies[i] = [e EXCEPT !.poison = e.poison + 1, !.corpse = TRUE]]
    BY <2>3 DEF CombatSet
  <2>. QED
    BY <1>1, <1>2, <1>5, <2>1, <2>2, <2>4
<1>10. CASE PlayBerserk
  <2>1. combat' = CheckEnemyDeaths(Afflict(combat, <<"VULNERABLE", 2>>))
    BY <1>10 DEF PlayBerserk
  <2>2. <<"VULNERABLE", 2>> \in Inflictions
    BY DEF Inflictions, Debuffs
  <2>3. Afflict(combat, <<"VULNERABLE", 2>>) \in After(FALSE, combat)
    BY <1>2, <2>2, AfflictKeeps, AfterItself
  <2>. QED
    BY <1>1, <1>2, <1>5, <2>1, <2>3
<1>11. CASE PlayPower
  <2>1. combat \in After(FALSE, combat)
    BY <1>2, AfterItself
  <2>. QED
    BY <1>1, <1>2, <1>5, <1>11, <2>1 DEF PlayPower
<1>. QED
  BY <1>6, <1>7, <1>8, <1>9, <1>10, <1>11

LEMMA PlayStep == RoundInv /\ Play => RoundInv'
<1>. SUFFICES ASSUME RoundInv, Play PROVE RoundInv'
  OBVIOUS
<1>1. pc = "player" /\ UNCHANGED <<pc, at, encounter, hp>>
  BY PlayEffect
<1>2. combat' \in Combats(FALSE)
  BY PlayEffect, AfterFacts
<1>. QED
  BY <1>1, <1>2 DEF RoundInv

LEMMA BeginPlayerTurnEffect ==
    ASSUME RoundInv, BeginPlayerTurn
    PROVE  /\ pc = "select" /\ at > Len(combat.enemies) /\ turn' = turn + 1
           /\ pc' = "player" /\ UNCHANGED <<at, encounter, hp>>
           /\ combat \in Combats(FALSE) /\ combat' \in After(FALSE, combat)
<1>1. combat \in Combats(FALSE)
  BY DEF RoundInv, BeginPlayerTurn
<1>2. StruckAll(combat, 1) \in After(FALSE, combat) /\ combat \in After(FALSE, combat)
  BY <1>1, StruckAllKeeps, AfterItself
<1>. QED
  BY <1>1, <1>2 DEF BeginPlayerTurn

LEMMA BeginPlayerTurnStep == RoundInv /\ BeginPlayerTurn => RoundInv'
<1>. SUFFICES ASSUME RoundInv, BeginPlayerTurn PROVE RoundInv'
  OBVIOUS
<1>1. pc' = "player" /\ UNCHANGED <<at, encounter, hp>>
  BY BeginPlayerTurnEffect
<1>2. combat' \in Combats(FALSE)
  BY BeginPlayerTurnEffect, AfterFacts
<1>3. combat' \in Combats(pc' = "enemies")
  <2>1. (pc' = "enemies") = FALSE
    BY <1>1
  <2>. QED
    BY <1>2, <2>1, Zenon
<1>. QED
  BY <1>1, <1>3 DEF RoundInv

LEMMA EndPlayerTurnEffect ==
    ASSUME RoundInv, EndPlayerTurn
    PROVE  /\ pc = "player" /\ hp > 0 /\ pc' = "enemies" /\ at' = 1 /\ UNCHANGED <<turn, encounter>>
           /\ hp' \in Int /\ combat' \in Combats(TRUE) /\ Frame(combat, combat')
<1>. DEFINE opened == [combat EXCEPT !.window = TRUE, !.owed = {}]
            burnt == IF "Combust" \in powers THEN StruckAll(opened, 1) ELSE opened
<1>1. PICK hand \in {<< >>} \cup HeldCurses :
        combat' = AfflictAll(burnt, [k \in DOMAIN hand |-> CurseDebuff[hand[k]]])
  BY DEF EndPlayerTurn
<1>. DEFINE debuffs == [k \in DOMAIN hand |-> CurseDebuff[hand[k]]]
<1>2. debuffs \in Seq(Inflictions)
  <2>1. CASE hand = << >>
    <3>1. debuffs = << >>
      BY <2>1
    <3>. QED
      BY <3>1, EmptySeq
  <2>2. CASE hand \in HeldCurses
    <3>1. PICK curse \in DOMAIN CurseDebuff : hand = <<curse>>
      BY <2>2 DEF HeldCurses
    <3>2. CurseDebuff[curse] \in Inflictions
      BY DEF CurseDebuff, Inflictions, Debuffs
    <3>. HIDE DEF CurseDebuff, Inflictions
    <3>3. debuffs = [k \in 1 .. 1 |-> CurseDebuff[curse]]
      BY <3>1
    <3>4. [k \in 1 .. 1 |-> CurseDebuff[curse]] \in Seq(Inflictions)
      BY <3>2, IsASeq
    <3>. QED
      BY <3>3, <3>4
  <2>. QED
    BY <2>1, <2>2
<1>3. opened \in Combats(TRUE) /\ opened.enemies = combat.enemies
  <2>1. combat \in CombatSet
    BY DEF RoundInv, Combats
  <2>. QED
    BY <2>1 DEF Combats, CombatSet, Covered
<1>4. burnt \in After(TRUE, opened)
  <2>. HIDE DEF opened
  <2>1. StruckAll(opened, 1) \in After(TRUE, opened) /\ opened \in After(TRUE, opened)
    BY <1>3, StruckAllKeeps, AfterItself
  <2>. QED
    BY <2>1
<1>. HIDE DEF burnt, debuffs, opened
<1>5. burnt \in Combats(TRUE) /\ Frame(opened, burnt)
  BY <1>3, <1>4, AfterFacts
<1>6. combat' \in Combats(TRUE) /\ combat'.enemies = burnt.enemies
  BY <1>1, <1>2, <1>5, AfflictAllKeeps DEF debuffs
<1>7. Frame(combat, combat')
  BY <1>3, <1>5, <1>6 DEF Frame
<1>8. pc = "player" /\ pc' = "enemies" /\ at' = 1 /\ UNCHANGED <<turn, encounter>>
  BY DEF EndPlayerTurn
<1>9. hp \in Int /\ ~(hp <= 0)
  BY DEF EndPlayerTurn, Outcome, RoundInv
<1>10. hp' \in Int /\ hp > 0
  BY <1>9 DEF EndPlayerTurn
<1>. QED
  BY <1>6, <1>7, <1>8, <1>10

LEMMA EndPlayerTurnStep == RoundInv /\ EndPlayerTurn => RoundInv'
<1>. SUFFICES ASSUME RoundInv, EndPlayerTurn PROVE RoundInv'
  OBVIOUS
<1>1. pc' = "enemies" /\ at' = 1 /\ UNCHANGED encounter /\ hp' \in Int /\ combat' \in Combats(TRUE)
  BY EndPlayerTurnEffect
<1>2. combat' \in Combats(pc' = "enemies")
  <2>1. (pc' = "enemies") = TRUE
    BY <1>1
  <2>. QED
    BY <1>1, <2>1, Zenon
<1>3. encounter \in Encounters
  BY DEF RoundInv
<1>. QED
  BY <1>1, <1>2, <1>3 DEF RoundInv

\* What one iteration of the enemy phase does: a living enemy with a move
\* performs it, a living one's turn ends with the check for deaths, and the
\* phase goes on unless the player has fallen.
TurnDone(answer) ==
    IF combat.enemies[at].hp > 0 /\ combat.enemies[at].move # NoMove
    THEN Performed(combat, at, answer) ELSE combat
TurnChecked(answer) ==
    IF combat.enemies[at].hp > 0 THEN CheckEnemyDeaths(TurnDone(answer)) ELSE TurnDone(answer)

LEMMA EnemyTurnEffect ==
    ASSUME RoundInv, EnemyTurn
    PROVE  /\ at \in DOMAIN combat.enemies
           /\ pc = "enemies" /\ UNCHANGED <<turn, encounter>>
           /\ \E lost \in Int, answer \in Nat, open \in BOOLEAN :
                /\ hp' = hp - lost
                /\ combat' = [TurnChecked(answer) EXCEPT !.window = open]
                /\ \/ pc' = "player" /\ at' = at /\ hp' <= 0
                   \/ pc' = "enemies" /\ at' = at + 1
<1>. DEFINE e == combat.enemies[at]
            acts == e.hp > 0 /\ e.move # NoMove
<1>1. at \in DOMAIN combat.enemies
  BY EnemyAt DEF EnemyTurn
<1>2. \A x : (x \in 0 .. 1 \/ x = 0) => x \in Int
  OBVIOUS
<1>3. \A x : (x \in 1 .. MaxBlow \/ x = 0) => x \in Nat
  OBVIOUS
<1>4. PICK lost \in (IF acts /\ e.move.hits THEN 0 .. 1 ELSE {0}),
           answer \in (IF acts /\ e.move.hits /\ "Flame Barrier" \in powers THEN 1 .. MaxBlow ELSE {0}) :
        LET done == IF acts THEN Performed(combat, at, answer) ELSE combat
            checked == IF e.hp > 0 THEN CheckEnemyDeaths(done) ELSE done
            fallen == hp - lost <= 0
        IN  /\ hp' = hp - lost
            /\ combat' = [checked EXCEPT !.window = ~fallen]
            /\ pc' = (IF fallen THEN "player" ELSE "enemies")
            /\ at' = (IF fallen THEN at ELSE at + 1)
  BY DEF EnemyTurn
<1>5. (lost \in 0 .. 1 \/ lost = 0) /\ (answer \in 1 .. MaxBlow \/ answer = 0)
  <2>. HIDE DEF acts, e
  <2>. QED
    BY Zenon
<1>6. lost \in Int /\ answer \in Nat
  BY <1>2, <1>3, <1>5, Zenon
<1>. DEFINE fallen == hp - lost <= 0
            open == ~fallen
<1>7. /\ hp' = hp - lost /\ combat' = [TurnChecked(answer) EXCEPT !.window = open]
      /\ pc' = (IF fallen THEN "player" ELSE "enemies") /\ at' = (IF fallen THEN at ELSE at + 1)
  BY <1>4, Zenon DEF TurnChecked, TurnDone
<1>8. hp' = hp - lost => (fallen <=> hp' <= 0)
  BY Zenon
<1>. HIDE DEF fallen
<1>9. open \in BOOLEAN /\ ((pc' = "player" /\ at' = at /\ hp' <= 0) \/ (pc' = "enemies" /\ at' = at + 1))
  BY <1>7, <1>8, Zenon
<1>. HIDE DEF open
<1>10. \E x \in Int, y \in Nat, z \in BOOLEAN :
         /\ hp' = hp - x
         /\ combat' = [TurnChecked(y) EXCEPT !.window = z]
         /\ \/ pc' = "player" /\ at' = at /\ hp' <= 0
            \/ pc' = "enemies" /\ at' = at + 1
  BY <1>6, <1>7, <1>9, Zenon
<1>11. pc = "enemies" /\ UNCHANGED <<turn, encounter>>
  BY DEF EnemyTurn
<1>. QED
  BY <1>1, <1>10, <1>11, Zenon

LEMMA EnemyTurnStep == RoundInv /\ EnemyTurn => RoundInv'
<1>. SUFFICES ASSUME RoundInv, EnemyTurn PROVE RoundInv'
  OBVIOUS
<1>1. combat \in Combats(TRUE) /\ at \in Nat \ {0} /\ hp \in Int /\ encounter \in Encounters
  <2>1. pc = "enemies" /\ combat \in Combats(pc = "enemies")
    BY DEF RoundInv, EnemyTurn
  <2>2. (pc = "enemies") = TRUE
    BY <2>1
  <2>3. combat \in Combats(TRUE)
    BY <2>1, <2>2, Zenon
  <2>. QED
    BY <2>3 DEF RoundInv
<1>2. at \in DOMAIN combat.enemies
  BY EnemyTurnEffect
<1>3. PICK lost \in Int, answer \in Nat, open \in BOOLEAN :
        /\ hp' = hp - lost
        /\ combat' = [TurnChecked(answer) EXCEPT !.window = open]
        /\ \/ pc' = "player" /\ at' = at /\ hp' <= 0
           \/ pc' = "enemies" /\ at' = at + 1
  BY EnemyTurnEffect
<1>4. TurnDone(answer) \in Combats(TRUE)
  BY <1>1, <1>2, PerformedKeeps DEF TurnDone
<1>5. TurnChecked(answer) \in Combats(TRUE)
  BY <1>4, CheckEnemyDeathsKeeps, AfterFacts DEF TurnChecked
<1>6. combat' \in Combats(TRUE)
  BY <1>3, <1>5 DEF Combats, CombatSet, Covered
<1>7. hp' \in Int /\ at' \in Nat \ {0} /\ pc' \in {"player", "enemies"}
  BY <1>1, <1>3
<1>8. combat' \in Combats(pc' = "enemies")
  <2>1. (pc' = "enemies") \in BOOLEAN
    OBVIOUS
  <2>2. combat' \in Combats(FALSE)
    BY <1>6, Unmarked
  <2>. QED
    BY <1>6, <2>1, <2>2, Zenon
<1>. QED
  BY <1>1, <1>7, <1>8 DEF RoundInv, EnemyTurn

LEMMA EndRoundStep == RoundInv /\ EndRound => RoundInv'
<1>. SUFFICES ASSUME RoundInv, EndRound PROVE RoundInv'
  OBVIOUS
<1>. DEFINE closed == [combat EXCEPT !.window = FALSE]
<1>1. closed \in Combats(TRUE)
  <2>1. pc = "enemies" /\ combat \in Combats(pc = "enemies")
    BY DEF RoundInv, EndRound
  <2>2. (pc = "enemies") = TRUE
    BY <2>1
  <2>3. combat \in Combats(TRUE)
    BY <2>1, <2>2, Zenon
  <2>. QED
    BY <2>3 DEF Combats, CombatSet, Covered
<1>2. combat' = DebuffsTicked(CheckEnemyDeaths(EnemiesTicked(closed)))
  BY DEF EndRound
<1>. HIDE DEF closed
<1>3. EnemiesTicked(closed) \in Combats(TRUE)
  BY <1>1, EnemiesTickedKeeps
<1>4. CheckEnemyDeaths(EnemiesTicked(closed)) \in Combats(TRUE)
  BY <1>3, CheckEnemyDeathsKeeps, AfterFacts
<1>5. combat' \in Combats(FALSE)
  BY <1>2, <1>4, DebuffsTickedKeeps
<1>6. pc' = "select" /\ at' = 1 /\ UNCHANGED <<encounter, hp>>
  BY DEF EndRound
<1>7. combat' \in Combats(pc' = "enemies")
  <2>1. (pc' = "enemies") = FALSE
    BY <1>6
  <2>. QED
    BY <1>5, <2>1, Zenon
<1>8. encounter \in Encounters /\ hp \in Int
  BY DEF RoundInv
<1>. QED
  BY <1>6, <1>7, <1>8 DEF RoundInv

LEMMA FinishStep == RoundInv /\ Finish => RoundInv'
<1>. SUFFICES ASSUME RoundInv, Finish PROVE RoundInv'
  OBVIOUS
<1>1. pc = "player" /\ pc' = "over" /\ UNCHANGED <<at, encounter, hp, combat>>
  BY DEF Finish
<1>2. (pc = "enemies") = FALSE /\ (pc' = "enemies") = FALSE
  BY <1>1
<1>3. combat' \in Combats(pc' = "enemies")
  <2>1. combat \in Combats(pc = "enemies")
    BY DEF RoundInv
  <2>. QED
    BY <1>1, <1>2, <2>1, Zenon
<1>. QED
  BY <1>1, <1>3 DEF RoundInv

LEMMA RoundStep == RoundInv /\ [Next]_vars => RoundInv'
<1>. SUFFICES ASSUME RoundInv, [Next]_vars PROVE RoundInv'
  OBVIOUS
<1>1. CASE UNCHANGED vars
  BY <1>1 DEF vars, RoundInv
<1>. QED
  BY <1>1, SelectMoveStep, BeginPlayerTurnStep, PlayStep, EndPlayerTurnStep, EnemyTurnStep, EndRoundStep,
     FinishStep DEF Next, Play

\* RoundInv holds throughout every combat.
THEOREM RoundHolds == Spec => []RoundInv
BY RoundInit, RoundStep, PTL DEF Spec

\* Every debuff that landed on the player during the end of a turn or the
\* enemy phase is still in force in the next player's turn.
THEOREM DebuffsStay == Spec => []DebuffsCover
<1>1. RoundInv => DebuffsCover
  BY DEF RoundInv, Combats, Covered, DebuffsCover
<1>. QED
  BY <1>1, RoundHolds, PTL

\* Each life of an enemy ends in one announcement, and an enemy announced dead
\* and not reborn has no hit points again.
THEOREM DeathsCounted == Spec => []DeathsOnce
<1>1. RoundInv => DeathsOnce
  <2>. SUFFICES ASSUME RoundInv, NEW i \in DOMAIN combat.enemies
                PROVE  LET e == combat.enemies[i]
                       IN /\ e.deaths <= (IF e.kind \in Reborn THEN 2 ELSE 1)
                          /\ ~e.alive => e.hp = 0 /\ (e.kind \in Reborn => e.turned)
    BY DEF DeathsOnce
  <2>. DEFINE e == combat.enemies[i]
  <2>1. e \in EnemySet /\ Lives(e)
    BY EnemyThere DEF RoundInv
  <2>2. e.deaths \in Nat
    BY <2>1 DEF EnemySet
  <2>. QED
    BY <2>1, <2>2 DEF Lives
<1>. QED
  BY <1>1, RoundHolds, PTL

-----------------------------------------------------------------------------
(* Reinforcements.  Who stands with whom: an enemy that calls others is    *)
(* the first of its combat, the rest are the kind it calls, and the other  *)
(* groups have none of either.  So the caps are about one caller, and what *)
(* its selector saw must still hold when the move is performed.            *)

Masters == {"TheCollector", "BronzeAutomaton", "GremlinLeader", "Reptomancer"}
Solitary == {"Nemesis", "AwakenedOne"}
Outsiders == Masters \cup Solitary \cup {"TorchHead", "OrbWalker", "SnakeDagger"}
Retainer(master, kind) ==
    \/ master \in {"TheCollector", "TorchHead"} /\ kind = "TorchHead"
    \/ master = "BronzeAutomaton" /\ kind = "OrbWalker"
    \/ master = "GremlinLeader" /\ kind = "JawWorm"
    \/ master = "Reptomancer" /\ kind = "SnakeDagger"

Chief(c) == c.enemies[1]
Party(c) ==
    LET n == Len(c.enemies)
        K == Chief(c).kind
    IN  /\ n >= 1
        /\ \/ K \in Masters \cup {"TorchHead"} /\ \A i \in 2 .. n : Retainer(K, c.enemies[i].kind)
           \/ K \in Solitary /\ n = 1
           \/ \A i \in 1 .. n : c.enemies[i].kind \notin Outsiders
        /\ K = "TorchHead" => n <= 2
        /\ K = "GremlinLeader" => n <= 5
        /\ K = "BronzeAutomaton" => n <= 3 /\ (~Chief(c).turned => n = 1)
Torches(c) == Cardinality(LivingOf(c, "TorchHead"))
Daggers(c) == Cardinality(LivingOf(c, "SnakeDagger"))
Caps(c) == Torches(c) <= 2 /\ Daggers(c) <= MaxDaggers
Signs(c) == \A i \in DOMAIN c.enemies : Signed(c.enemies[i].kind, c.enemies[i].move)
Band(c) == Party(c) /\ Caps(c) /\ Signs(c)

\* What the chief's selector saw when it chose to call others.
Bound(c) ==
    /\ Chief(c).move.name = "Spawn Orbs" => ~Chief(c).turned
    /\ Chief(c).move.name = "Summon" => Daggers(c) < MaxDaggers
Ready(c) == Chief(c).hp > 0 => Bound(c)
Upcoming == (pc = "player" /\ hp > 0) \/ (pc = "select" /\ at > 1) \/ (pc = "enemies" /\ at = 1)
BandInv == Band(combat) /\ (Upcoming => Ready(combat))

LEMMA Typed ==
    ASSUME NEW marked, NEW c \in Combats(marked)
    PROVE  c \in CombatSet
BY DEF Combats

LEMMA SlotList ==
    ASSUME NEW c \in CombatSet
    PROVE  /\ c.enemies \in Seq(Enemies) /\ Len(c.enemies) \in Nat
           /\ DOMAIN c.enemies = 1 .. Len(c.enemies)
<1>1. c.enemies \in Seq(Enemies)
  BY DEF CombatSet
<1>. QED
  BY <1>1, LenProperties

LEMMA SlotThere ==
    ASSUME NEW c \in CombatSet, NEW i \in DOMAIN c.enemies
    PROVE  c.enemies[i] \in Enemies /\ c.enemies[i] \in EnemySet /\ Lives(c.enemies[i])
<1>1. c.enemies[i] \in Enemies
  BY SlotList, ElementOfSeq
<1>. QED
  BY <1>1 DEF Enemies

\* Only the first of a combat calls others or fights alone.
LEMMA ChiefFirst ==
    ASSUME NEW c \in CombatSet, Party(c), NEW i \in DOMAIN c.enemies,
           c.enemies[i].kind \in Masters \cup Solitary
    PROVE  i = 1
<1>1. i \in 1 .. Len(c.enemies) /\ Len(c.enemies) \in Nat
  BY SlotList
<1>. SUFFICES ASSUME i # 1 PROVE FALSE
  OBVIOUS
<1>2. i \in 2 .. Len(c.enemies)
  BY <1>1
<1>. QED
  BY <1>1, <1>2 DEF Party, Masters, Solitary, Outsiders, Retainer

LEMMA SpecialOwner ==
    ASSUME NEW kind, NEW m, Signed(kind, m)
    PROVE  /\ m.name = "Spawn!" => kind = "TheCollector"
           /\ m.name = "Spawn Orbs" => kind = "BronzeAutomaton"
           /\ m.name = "Rally!" => kind = "GremlinLeader"
           /\ m.name = "Summon" => kind = "Reptomancer"
           /\ m.name = "Rebirth" => kind = "AwakenedOne"
BY DEF Signed, Owner, SpecialNames

LEMMA NoMoveSigned ==
    ASSUME NEW kind
    PROVE  Signed(kind, NoMove)
<1>1. NoMove.name = "none"
  <2>. HIDE DEF Plain, MoveSet, PlainNames, SpecialNames
  <2>. QED
    BY MoveKinds
<1>. QED
  BY <1>1 DEF Signed, SpecialNames

LEMMA LivingCount ==
    ASSUME NEW c \in CombatSet, NEW kind
    PROVE  /\ IsFiniteSet(LivingOf(c, kind)) /\ Cardinality(LivingOf(c, kind)) \in Nat
           /\ LivingOf(c, kind) \subseteq 1 .. Len(c.enemies)
<1>1. DOMAIN c.enemies = 1 .. Len(c.enemies) /\ Len(c.enemies) \in Nat
  BY SlotList
<1>2. IsFiniteSet(1 .. Len(c.enemies))
  BY <1>1, FS_Interval
<1>3. LivingOf(c, kind) \subseteq 1 .. Len(c.enemies)
  BY <1>1 DEF LivingOf, Living
<1>. QED
  BY <1>2, <1>3, FS_Subset, FS_CardinalityType

\* Blows and deaths leave a band what it is: it has no slime to split and none
\* but a Reborn rises.
LEMMA BandKept ==
    ASSUME NEW c \in CombatSet, NEW x \in CombatSet, Frame(c, x), Band(c)
    PROVE  Band(x) /\ (Bound(c) => Bound(x)) /\ (Ready(c) => Ready(x))
<1>1. /\ Len(c.enemies) \in Nat /\ DOMAIN c.enemies = 1 .. Len(c.enemies)
      /\ Len(x.enemies) \in Nat /\ DOMAIN x.enemies = 1 .. Len(x.enemies)
      /\ Len(c.enemies) <= Len(x.enemies) /\ DOMAIN c.enemies \subseteq DOMAIN x.enemies
  BY SlotList DEF Frame
<1>2. \A i \in DOMAIN c.enemies : Same(c.enemies[i], x.enemies[i])
  BY DEF Frame
<1>3. \A i \in DOMAIN x.enemies \ DOMAIN c.enemies : Half(x.enemies[i])
  BY DEF Frame
<1>4. 1 \in DOMAIN c.enemies
  BY <1>1 DEF Band, Party
<1>5. Chief(c).kind \in Outsiders => Len(x.enemies) = Len(c.enemies)
  <2>. SUFFICES ASSUME Chief(c).kind \in Outsiders, NEW i \in DOMAIN c.enemies, c.enemies[i].kind \in Splitters
                PROVE  FALSE
    BY DEF Frame
  <2>1. i \in 1 .. Len(c.enemies) /\ (i = 1 \/ i \in 2 .. Len(c.enemies))
    BY <1>1
  <2>. QED
    BY <1>1, <1>4, <2>1 DEF Band, Party, Chief, Retainer, Outsiders, Masters, Solitary, Splitters
<1>6. /\ Chief(x).kind = Chief(c).kind /\ Chief(x).move = Chief(c).move
      /\ Chief(c).kind \notin Splitters \cup Reborn => Chief(x).turned = Chief(c).turned
  BY <1>2, <1>4 DEF Chief, Same
<1>7. Party(x)
  <2>1. CASE Chief(c).kind \in Outsiders
    <3>1. \A i \in 1 .. Len(c.enemies) : x.enemies[i].kind = c.enemies[i].kind
      BY <1>1, <1>2 DEF Same
    <3>2. Chief(x).turned = Chief(c).turned \/ Chief(c).kind # "BronzeAutomaton"
      BY <1>6 DEF Splitters, Reborn
    <3>3. Len(x.enemies) = Len(c.enemies) /\ 1 \in 1 .. Len(c.enemies)
      BY <1>1, <1>4, <1>5, <2>1
    <3>. QED
      BY <1>1, <1>6, <2>1, <3>1, <3>2, <3>3 DEF Band, Party, Chief
  <2>2. CASE Chief(c).kind \notin Outsiders
    <3>1. \A i \in 1 .. Len(c.enemies) : c.enemies[i].kind \notin Outsiders
      BY <2>2 DEF Band, Party, Outsiders
    <3>2. ASSUME NEW i \in 1 .. Len(x.enemies) PROVE x.enemies[i].kind \notin Outsiders
      <4>1. CASE i \in DOMAIN c.enemies
        BY <1>1, <1>2, <3>1, <4>1 DEF Same
      <4>2. CASE i \notin DOMAIN c.enemies
        <5>1. Half(x.enemies[i])
          BY <1>1, <1>3, <4>2
        <5>. QED
          BY <5>1 DEF Half, Outsiders, Masters, Solitary
      <4>. QED
        BY <4>1, <4>2
    <3>3. Len(x.enemies) >= 1
      BY <1>1, <1>4
    <3>. QED
      BY <1>6, <2>2, <3>2, <3>3 DEF Party, Outsiders, Masters
  <2>. QED
    BY <2>1, <2>2
<1>8. \A kind \in {"TorchHead", "SnakeDagger"} : LivingOf(x, kind) \subseteq LivingOf(c, kind)
  <2>. SUFFICES ASSUME NEW kind \in {"TorchHead", "SnakeDagger"}, NEW i \in LivingOf(x, kind)
                PROVE  i \in LivingOf(c, kind)
    OBVIOUS
  <2>1. i \in DOMAIN x.enemies /\ x.enemies[i].hp > 0 /\ x.enemies[i].kind = kind
    BY DEF LivingOf, Living
  <2>2. i \in DOMAIN c.enemies
    BY <1>3, <2>1 DEF Half
  <2>3. Same(c.enemies[i], x.enemies[i]) /\ c.enemies[i].hp \in Nat
    BY <1>2, <2>2, SlotThere DEF EnemySet
  <2>4. c.enemies[i].kind = kind /\ c.enemies[i].hp # 0
    BY <2>1, <2>3 DEF Same, Reborn
  <2>5. c.enemies[i].hp > 0
    BY <2>3, <2>4
  <2>. QED
    BY <2>2, <2>4, <2>5 DEF LivingOf, Living
<1>9. Torches(x) <= Torches(c) /\ Daggers(x) <= Daggers(c)
  BY <1>8, LivingCount, FS_Subset DEF Torches, Daggers
<1>10. Torches(x) \in Nat /\ Daggers(x) \in Nat /\ Torches(c) \in Nat /\ Daggers(c) \in Nat
  BY LivingCount DEF Torches, Daggers
<1>11. Caps(x)
  BY <1>9, <1>10 DEF Band, Caps, MaxDaggers
<1>12. Signs(x)
  <2>. SUFFICES ASSUME NEW i \in DOMAIN x.enemies PROVE Signed(x.enemies[i].kind, x.enemies[i].move)
    BY DEF Signs
  <2>1. CASE i \in DOMAIN c.enemies
    BY <1>2, <2>1 DEF Band, Signs, Same
  <2>2. CASE i \notin DOMAIN c.enemies
    BY <1>3, <2>2, NoMoveSigned DEF Half
  <2>. QED
    BY <2>1, <2>2
<1>13. Signed(Chief(c).kind, Chief(c).move)
  BY <1>4 DEF Band, Signs, Chief
<1>14. Chief(c).move.name = "Spawn Orbs" => Chief(x).turned = Chief(c).turned
  BY <1>6, <1>13, SpecialOwner DEF Splitters, Reborn
<1>15. Bound(c) => Bound(x)
  <2>1. Daggers(c) < MaxDaggers => Daggers(x) < MaxDaggers
    BY <1>9, <1>10 DEF MaxDaggers
  <2>. QED
    BY <1>6, <1>14, <2>1, Zenon DEF Bound
<1>16. Ready(c) => Ready(x)
  <2>. SUFFICES ASSUME Ready(c), Chief(x).hp > 0 PROVE Bound(x)
    BY DEF Ready
  <2>1. CASE Chief(c).kind \in Reborn
    BY <1>6, <1>13, <2>1, SpecialOwner DEF Reborn, Bound
  <2>2. CASE Chief(c).kind \notin Reborn
    <3>1. Chief(c).hp \in Nat
      BY <1>4, SlotThere DEF EnemySet, Chief
    <3>2. Chief(c).hp # 0
      BY <1>2, <1>4, <2>2 DEF Same, Chief
    <3>. QED
      BY <1>15, <3>1, <3>2 DEF Ready
  <2>. QED
    BY <2>1, <2>2
<1>. QED
  BY <1>7, <1>11, <1>12, <1>15, <1>16 DEF Band

\* A list that keeps its enemies, moves and all, and gets k more of one kind.
Grown(c, x, k, kind) ==
    /\ Len(x.enemies) = Len(c.enemies) + k
    /\ \A i \in 1 .. Len(c.enemies) :
         LET e == c.enemies[i]
             f == x.enemies[i]
         IN  /\ f.kind = e.kind /\ f.move = e.move
             /\ f.hp > 0 => e.hp > 0
             /\ e.turned => f.turned
    /\ \A i \in Len(c.enemies) + 1 .. Len(c.enemies) + k :
         x.enemies[i].kind = kind /\ x.enemies[i].move = NoMove

LEMMA CountGrows ==
    ASSUME NEW c \in CombatSet, NEW x \in CombatSet, NEW k \in Nat, NEW kind,
           Grown(c, x, k, kind), NEW other
    PROVE  Cardinality(LivingOf(x, other)) <= Cardinality(LivingOf(c, other)) + (IF other = kind THEN k ELSE 0)
<1>. DEFINE n == Len(c.enemies)  A == LivingOf(c, other)  X == LivingOf(x, other)  B == n + 1 .. n + k
<1>1. n \in Nat /\ DOMAIN x.enemies = 1 .. n + k /\ DOMAIN c.enemies = 1 .. n
  BY SlotList DEF Grown
<1>2. \A i \in 1 .. n + k : i \in 1 .. n \/ i \in B
  BY <1>1
<1>3. \A i \in X : i \in A \/ (i \in B /\ other = kind)
  BY <1>1, <1>2 DEF Grown, LivingOf, Living
<1>4. IsFiniteSet(A) /\ Cardinality(A) \in Nat /\ IsFiniteSet(X) /\ Cardinality(X) \in Nat
  BY LivingCount
<1>5. IsFiniteSet(B) /\ Cardinality(B) = k
  <2>1. n + 1 \in Int /\ n + k \in Int
    BY <1>1
  <2>2. IsFiniteSet(B) /\ Cardinality(B) = IF n + 1 > n + k THEN 0 ELSE n + k - (n + 1) + 1
    BY <2>1, FS_Interval
  <2>. QED
    BY <1>1, <2>2
<1>. HIDE DEF A, X, B, n
<1>6. CASE other = kind
  <2>1. X \subseteq A \cup B
    BY <1>3
  <2>2. /\ IsFiniteSet(A \cup B)
        /\ Cardinality(A \cup B) = Cardinality(A) + Cardinality(B) - Cardinality(A \cap B)
    BY <1>4, <1>5, FS_Union
  <2>3. Cardinality(A \cap B) \in Nat
    <3>1. IsFiniteSet(A \cap B)
      BY <1>4, FS_Subset
    <3>. QED
      BY <3>1, FS_CardinalityType
  <2>4. Cardinality(X) <= Cardinality(A \cup B)
    BY <2>1, <2>2, FS_Subset
  <2>5. Cardinality(X) <= Cardinality(A) + k
    BY <1>4, <1>5, <2>2, <2>3, <2>4
  <2>. QED
    BY <1>6, <2>5 DEF A, X
<1>7. CASE other # kind
  <2>1. X \subseteq A
    BY <1>3, <1>7
  <2>2. Cardinality(X) <= Cardinality(A)
    BY <1>4, <2>1, FS_Subset
  <2>3. Cardinality(X) <= Cardinality(A) + 0
    BY <1>4, <2>2
  <2>. QED
    BY <1>7, <2>3 DEF A, X
<1>. QED
  BY <1>6, <1>7

\* A chief may call its own retainers, within its cap.
Within(c, x, k, kind) ==
    /\ Chief(c).kind \in Masters /\ Retainer(Chief(c).kind, kind)
    /\ kind = "TorchHead" => Torches(c) + k <= 2
    /\ kind = "SnakeDagger" => Daggers(c) + k <= MaxDaggers
    /\ kind = "OrbWalker" => Len(c.enemies) + k <= 3 /\ Chief(x).turned
    /\ kind = "JawWorm" => Len(c.enemies) + k <= 5

LEMMA BandGrows ==
    ASSUME NEW c \in CombatSet, NEW x \in CombatSet, NEW k \in Nat, NEW kind,
           Grown(c, x, k, kind), Band(c), k = 0 \/ Within(c, x, k, kind)
    PROVE  Band(x)
<1>. DEFINE n == Len(c.enemies)
<1>1. n \in Nat /\ Len(x.enemies) = n + k /\ DOMAIN c.enemies = 1 .. n /\ DOMAIN x.enemies = 1 .. n + k
  BY SlotList DEF Grown
<1>2. 1 \in 1 .. n /\ n >= 1
  BY <1>1 DEF Band, Party
<1>3. \A i \in 1 .. n : x.enemies[i].kind = c.enemies[i].kind /\ x.enemies[i].move = c.enemies[i].move
  BY DEF Grown
<1>4. \A i \in n + 1 .. n + k : x.enemies[i].kind = kind /\ x.enemies[i].move = NoMove
  BY DEF Grown
<1>5. \A i \in 1 .. n + k : i \in 1 .. n \/ (i \in n + 1 .. n + k /\ k # 0)
  BY <1>1
<1>6. Chief(x).kind = Chief(c).kind /\ (Chief(c).turned => Chief(x).turned)
  BY <1>2 DEF Chief, Grown
<1>7. Party(x)
  <2>1. \A i \in 2 .. n + k : i \in 2 .. n \/ (i \in n + 1 .. n + k /\ k # 0)
    BY <1>1
  <2>2. \A i \in 2 .. n : i \in 1 .. n
    BY <1>1
  <2>3. CASE k = 0
    <3>1. Len(x.enemies) = n
      BY <1>1, <2>3
    <3>. QED
      BY <1>3, <1>6, <2>2, <3>1 DEF Band, Party
  <2>4. CASE k # 0
    <3>1. Chief(c).kind \in Masters /\ Retainer(Chief(c).kind, kind)
      BY <2>4 DEF Within
    <3>2. \A i \in 2 .. n : Retainer(Chief(c).kind, c.enemies[i].kind)
      <4>1. Chief(c).kind \notin Solitary /\ Chief(c).kind \in Outsiders
        BY <3>1 DEF Masters, Solitary, Outsiders
      <4>. QED
        BY <1>2, <4>1 DEF Band, Party, Chief
    <3>3. \A i \in 2 .. n + k : Retainer(Chief(x).kind, x.enemies[i].kind)
      BY <1>3, <1>4, <1>6, <2>1, <2>2, <3>1, <3>2
    <3>4. /\ Chief(c).kind = "GremlinLeader" => kind = "JawWorm"
          /\ Chief(c).kind = "BronzeAutomaton" => kind = "OrbWalker"
          /\ Chief(c).kind # "TorchHead"
      BY <3>1 DEF Masters, Retainer
    <3>5. /\ Chief(c).kind = "GremlinLeader" => n + k <= 5
          /\ Chief(c).kind = "BronzeAutomaton" => n + k <= 3 /\ Chief(x).turned
      BY <2>4, <3>4 DEF Within
    <3>6. n + k >= 1
      BY <1>1, <1>2
    <3>. QED
      BY <1>1, <1>6, <3>1, <3>3, <3>4, <3>5, <3>6 DEF Party
  <2>. QED
    BY <2>3, <2>4
<1>8. Caps(x)
  <2>1. /\ Torches(x) \in Nat /\ Torches(c) \in Nat /\ Torches(c) <= 2
        /\ Daggers(x) \in Nat /\ Daggers(c) \in Nat /\ Daggers(c) <= MaxDaggers
    BY LivingCount DEF Torches, Daggers, Band, Caps
  <2>2. /\ Torches(x) <= Torches(c) + (IF "TorchHead" = kind THEN k ELSE 0)
        /\ Daggers(x) <= Daggers(c) + (IF "SnakeDagger" = kind THEN k ELSE 0)
    BY CountGrows DEF Torches, Daggers
  <2>3. /\ Torches(c) + (IF "TorchHead" = kind THEN k ELSE 0) <= 2
        /\ Daggers(c) + (IF "SnakeDagger" = kind THEN k ELSE 0) <= MaxDaggers
    BY <2>1 DEF Within, MaxDaggers
  <2>. QED
    BY <2>1, <2>2, <2>3 DEF Caps, MaxDaggers
<1>9. Signs(x)
  <2>. SUFFICES ASSUME NEW i \in 1 .. n + k PROVE Signed(x.enemies[i].kind, x.enemies[i].move)
    BY <1>1 DEF Signs
  <2>1. CASE i \in 1 .. n
    BY <1>1, <1>3, <2>1 DEF Band, Signs
  <2>2. CASE i \in n + 1 .. n + k
    BY <1>4, <2>2, NoMoveSigned
  <2>. QED
    BY <1>5, <2>1, <2>2
<1>. QED
  BY <1>7, <1>8, <1>9 DEF Band

\* What Acted changes.
LEMMA ActedFacts ==
    ASSUME NEW e \in Enemies
    PROVE  LET f == Acted(e)
               rises == e.move.name = "Rebirth"
           IN  /\ f.kind = e.kind /\ f.move = e.move /\ f.max = e.max /\ f.alive = e.alive /\ f.picks = e.picks
               /\ f.turned <=> e.turned \/ e.move.name = "Spawn Orbs"
               /\ (f.intangible <=> e.intangible \/ rises) /\ (f.fresh <=> e.fresh \/ rises)
               /\ f.hp > 0 => e.hp > 0
               /\ e.kind # "Transient" => f.hp = e.hp
               /\ e.kind = "AwakenedOne" => f.last = <<e.move.name>>
<1>1. e \in EnemySet
  BY DEF Enemies
<1>2. e.kind = "AwakenedOne" => e.kind \in Remembers /\ e.kind # "JawWorm"
  BY DEF Remembers
<1>. DEFINE left == IF e.kind = "Transient" /\ e.picks >= 5 THEN 0 ELSE e.hp
            last == IF e.kind \notin Remembers THEN e.last
                    ELSE IF e.kind = "JawWorm" /\ e.last # << >> THEN <<e.move.name, Head(e.last)>>
                    ELSE <<e.move.name>>
            times == e.made + 1
            turned == e.turned \/ e.move.name = "Spawn Orbs"
            intangible == e.intangible \/ e.move.name = "Rebirth"
            fresh == e.fresh \/ e.move.name = "Rebirth"
<1>3. (left > 0 => e.hp > 0) /\ (e.kind # "Transient" => left = e.hp)
  OBVIOUS
<1>4. e.kind = "AwakenedOne" => last = <<e.move.name>>
  BY <1>2
<1>5. Acted(e) = [e EXCEPT !.made = times, !.last = last, !.turned = turned, !.intangible = intangible,
                           !.fresh = fresh, !.hp = left]
  BY DEF Acted
<1>. HIDE DEF Kinds, MoveSet, MoveNames, left, last, times
<1>6. LET f == Acted(e)
      IN  /\ f.kind = e.kind /\ f.move = e.move /\ f.max = e.max /\ f.alive = e.alive /\ f.picks = e.picks
          /\ f.turned = turned /\ f.intangible = intangible /\ f.fresh = fresh /\ f.hp = left /\ f.last = last
  <2>. HIDE DEF turned, intangible, fresh
  <2>. QED
    BY <1>1, <1>5 DEF EnemySet
<1>. HIDE DEF turned, intangible, fresh
<1>. QED
  BY <1>3, <1>4, <1>6 DEF turned, intangible, fresh

\* What a move calls: so many of one kind.
Calls(name, c, k, kind) ==
    \/ name = "Spawn!" /\ kind = "TorchHead" /\ k = Lowered(2, Torches(c))
    \/ name = "Spawn Orbs" /\ kind = "OrbWalker" /\ k = 2
    \/ name = "Rally!" /\ kind = "JawWorm" /\ k = (IF Len(c.enemies) <= 3 THEN 2 ELSE Lowered(5, Len(c.enemies)))
    \/ name = "Summon" /\ kind = "SnakeDagger" /\ k = 1
SpawnedAs(s, k, kind) == Len(s) = k /\ DOMAIN s = 1 .. k /\ \A j \in 1 .. k : s[j] = kind

LEMMA SpawnedKind ==
    ASSUME NEW c \in CombatSet, NEW e
    PROVE  \E k \in Nat, kind \in Born :
             /\ SpawnedAs(Spawned(e, c), k, kind)
             /\ k = 0 \/ Calls(e.move.name, c, k, kind)
<1>1. Torches(c) \in Nat /\ Len(c.enemies) \in Nat
  BY LivingCount, SlotList DEF Torches
<1>. DEFINE name == e.move.name
            torches == Lowered(2, Torches(c))
            band == IF Len(c.enemies) <= 3 THEN 2 ELSE Lowered(5, Len(c.enemies))
<1>2. torches \in Nat /\ band \in Nat
  BY <1>1 DEF Lowered
<1>3. "TorchHead" \in Born /\ "OrbWalker" \in Born /\ "JawWorm" \in Born /\ "SnakeDagger" \in Born
  BY DEF Born
<1>4. /\ name = "Spawn!" => Spawned(e, c) = [j \in 1 .. torches |-> "TorchHead"]
      /\ name = "Spawn Orbs" => Spawned(e, c) = <<"OrbWalker", "OrbWalker">>
      /\ name = "Rally!" => Spawned(e, c) = [j \in 1 .. band |-> "JawWorm"]
      /\ name = "Summon" => Spawned(e, c) = <<"SnakeDagger">>
      /\ name \notin {"Spawn!", "Spawn Orbs", "Rally!", "Summon"} => Spawned(e, c) = << >>
  BY DEF Spawned, Torches
<1>5. \A k \in Nat, kind \in Born : SpawnedAs([j \in 1 .. k |-> kind], k, kind)
  <2>. SUFFICES ASSUME NEW k \in Nat, NEW kind \in Born PROVE SpawnedAs([j \in 1 .. k |-> kind], k, kind)
    OBVIOUS
  <2>1. [j \in 1 .. k |-> kind] \in Seq(Born)
    BY IsASeq
  <2>2. Len([j \in 1 .. k |-> kind]) = k
    BY <2>1
  <2>. QED
    BY <2>2 DEF SpawnedAs
<1>6. SpawnedAs(<<"OrbWalker", "OrbWalker">>, 2, "OrbWalker")
  BY DEF SpawnedAs
<1>7. SpawnedAs(<<"SnakeDagger">>, 1, "SnakeDagger")
  BY DEF SpawnedAs
<1>8. SpawnedAs(<< >>, 0, "JawWorm")
  BY DEF SpawnedAs
<1>. HIDE DEF torches, band, Born, SpawnedAs, name
<1>9. CASE name = "Spawn!"
  <2>1. SpawnedAs(Spawned(e, c), torches, "TorchHead")
    BY <1>2, <1>3, <1>4, <1>5, <1>9
  <2>2. Calls(name, c, torches, "TorchHead")
    BY <1>9 DEF Calls, torches
  <2>. QED
    BY <1>2, <1>3, <2>1, <2>2 DEF name
<1>10. CASE name = "Spawn Orbs"
  <2>1. SpawnedAs(Spawned(e, c), 2, "OrbWalker")
    BY <1>4, <1>6, <1>10
  <2>2. Calls(name, c, 2, "OrbWalker")
    BY <1>10 DEF Calls
  <2>. QED
    BY <1>3, <2>1, <2>2 DEF name
<1>11. CASE name = "Rally!"
  <2>1. SpawnedAs(Spawned(e, c), band, "JawWorm")
    BY <1>2, <1>3, <1>4, <1>5, <1>11
  <2>2. Calls(name, c, band, "JawWorm")
    BY <1>11 DEF Calls, band
  <2>. QED
    BY <1>2, <1>3, <2>1, <2>2 DEF name
<1>12. CASE name = "Summon"
  <2>1. SpawnedAs(Spawned(e, c), 1, "SnakeDagger")
    BY <1>4, <1>7, <1>12
  <2>2. Calls(name, c, 1, "SnakeDagger")
    BY <1>12 DEF Calls
  <2>. QED
    BY <1>3, <2>1, <2>2 DEF name
<1>13. CASE name \notin {"Spawn!", "Spawn Orbs", "Rally!", "Summon"}
  <2>1. SpawnedAs(Spawned(e, c), 0, "JawWorm")
    BY <1>4, <1>8, <1>13
  <2>. QED
    BY <1>3, <2>1
<1>. QED
  BY <1>9, <1>10, <1>11, <1>12, <1>13

\* What a move does to the list: a blow in answer, the enemy's own changes, and
\* the enemies it calls.
ListAfter(x, y, i, k, kind) ==
    LET e == y.enemies[i]
    IN  /\ i \in DOMAIN y.enemies
        /\ k = 0 \/ Calls(e.move.name, y, k, kind)
        /\ Len(x.enemies) = Len(y.enemies) + k
        /\ \A j \in 1 .. Len(y.enemies) : x.enemies[j] = IF j = i THEN Acted(e) ELSE y.enemies[j]
        /\ \A j \in Len(y.enemies) + 1 .. Len(y.enemies) + k :
             x.enemies[j].kind = kind /\ x.enemies[j].move = NoMove

LEMMA PerformedList ==
    ASSUME NEW marked, NEW c \in Combats(marked), NEW i \in DOMAIN c.enemies, NEW answer \in Nat
    PROVE  \E y \in After(marked, c), k \in Nat, kind \in Born :
             /\ ListAfter(Performed(c, i, answer), y, i, k, kind)
             /\ y.enemies = Struck(c, i, answer).enemies
<1>. DEFINE m == c.enemies[i].move
            answered == Struck(c, i, answer)
            y == AfflictAll(answered, m.inflicts)
            e == y.enemies[i]
            sp == Spawned(e, y)
            born == [j \in DOMAIN sp |-> Fresh(sp[j])]
            es == [y.enemies EXCEPT ![i] = Acted(e)]
            x == Performed(c, i, answer)
<1>1. answered \in After(marked, c) /\ answered \in Combats(marked) /\ i \in DOMAIN answered.enemies
  BY StruckKeeps, AfterFacts
<1>2. m.inflicts \in Seq(Inflictions)
  <2>1. c.enemies[i] \in EnemySet
    BY EnemyThere
  <2>. QED
    BY <2>1 DEF EnemySet, MoveSet
<1>3. y \in Combats(marked) /\ y.enemies = answered.enemies
  <2>. HIDE DEF answered, m
  <2>. QED
    BY <1>1, <1>2, AfflictAllKeeps
<1>4. x = [y EXCEPT !.enemies = es \o born]
  BY DEF Performed
<1>5. y \in After(marked, c)
  <2>. HIDE DEF y, answered
  <2>1. y \in After(marked, answered)
    BY <1>1, <1>3, AfterItself
  <2>. QED
    BY <1>1, <2>1, AfterAfter
<1>6. y.enemies \in Seq(Enemies) /\ Len(y.enemies) \in Nat /\ i \in 1 .. Len(y.enemies)
      /\ DOMAIN y.enemies = 1 .. Len(y.enemies)
  <2>. HIDE DEF y, answered
  <2>. QED
    BY <1>1, <1>3, EnemyList
<1>7. y.enemies = Struck(c, i, answer).enemies
  BY <1>3
<1>. HIDE DEF y, answered, m
<1>8. e \in Enemies /\ Acted(e) \in Enemies
  <2>1. e \in Enemies
    BY <1>3, <1>6, EnemyThere
  <2>. HIDE DEF e
  <2>. QED
    BY <2>1, ActedKeeps
<1>9. es \in Seq(Enemies) /\ Len(es) = Len(y.enemies)
      /\ \A j \in 1 .. Len(y.enemies) : es[j] = IF j = i THEN Acted(e) ELSE y.enemies[j]
  <2>1. es \in Seq(Enemies) /\ Len(es) = Len(y.enemies)
    BY <1>6, <1>8, ExceptSeq
  <2>. HIDE DEF e
  <2>. QED
    BY <1>6, <2>1
<1>10. PICK k \in Nat, kind \in Born : SpawnedAs(sp, k, kind) /\ (k = 0 \/ Calls(e.move.name, y, k, kind))
  BY <1>3, Typed, SpawnedKind
<1>11. DOMAIN sp = 1 .. k /\ \A j \in 1 .. k : sp[j] = kind
  BY <1>10 DEF SpawnedAs
<1>. HIDE DEF sp, e, es
<1>12. /\ born \in Seq(Enemies) /\ Len(born) = k
       /\ \A j \in 1 .. k : born[j] = Fresh(kind)
  <2>1. born = [j \in 1 .. k |-> Fresh(kind)]
    BY <1>11
  <2>2. Fresh(kind) \in Enemies
    BY BornEnemy
  <2>. HIDE DEF born
  <2>3. [j \in 1 .. k |-> Fresh(kind)] \in Seq(Enemies)
    BY <2>2, IsASeq
  <2>4. Len(born) = k
    BY <2>1, <2>3
  <2>. QED
    BY <2>1, <2>3, <2>4
<1>. HIDE DEF born
<1>13. Fresh(kind).kind = kind /\ Fresh(kind).move = NoMove
  BY DEF Fresh, Enemy
<1>. DEFINE all == es \o born
<1>14. /\ Len(all) = Len(es) + Len(born) /\ all \in Seq(Enemies)
       /\ \A j \in 1 .. Len(es) + Len(born) : all[j] = IF j <= Len(es) THEN es[j] ELSE born[j - Len(es)]
  <2>1. es \in Seq(Enemies) /\ born \in Seq(Enemies)
    BY <1>9, <1>12
  <2>. HIDE DEF Enemies
  <2>. QED
    BY <2>1, ConcatProperties
<1>15. x.enemies = all
  BY <1>3, <1>4, <1>14, WithEnemies
<1>. HIDE DEF x, all
<1>. DEFINE n == Len(y.enemies)
<1>16. Len(x.enemies) = n + k
  BY <1>9, <1>12, <1>14, <1>15
<1>17. \A j \in 1 .. n : x.enemies[j] = IF j = i THEN Acted(e) ELSE y.enemies[j]
  <2>1. \A j \in 1 .. n : j \in 1 .. n + k /\ j <= n
    BY <1>6
  <2>. QED
    BY <1>9, <1>12, <1>14, <1>15, <2>1
<1>18. \A j \in n + 1 .. n + k : x.enemies[j].kind = kind /\ x.enemies[j].move = NoMove
  <2>1. \A j \in n + 1 .. n + k : j \in 1 .. n + k /\ ~(j <= n) /\ j - n \in 1 .. k
    BY <1>6
  <2>. HIDE DEF n
  <2>2. Len(es) = n
    BY <1>9 DEF n
  <2>. QED
    BY <1>12, <1>13, <1>14, <1>15, <2>1, <2>2
<1>. QED
  BY <1>5, <1>6, <1>7, <1>10, <1>16, <1>17, <1>18 DEF x, e, ListAfter

\* A move calls within the caps, if its caller, being the chief, is bound.
LEMMA PerformedBand ==
    ASSUME NEW marked, NEW c \in Combats(marked), NEW i \in DOMAIN c.enemies, NEW answer \in Nat,
           Band(c), i = 1 => Bound(c)
    PROVE  Band(Performed(c, i, answer))
<1>. DEFINE x == Performed(c, i, answer)
<1>1. x \in Combats(marked) /\ x \in CombatSet /\ c \in CombatSet
  BY PerformedKeeps, Typed
<1>2. PICK y \in After(marked, c), k \in Nat, kind \in Born : ListAfter(x, y, i, k, kind)
  BY PerformedList
<1>. HIDE DEF x
<1>3. y \in Combats(marked) /\ y \in CombatSet /\ Frame(c, y)
  BY AfterFacts, Typed
<1>4. Band(y) /\ (i = 1 => Bound(y))
  BY <1>1, <1>3, BandKept
<1>. DEFINE e == y.enemies[i]
<1>5. e \in Enemies
  BY <1>2, <1>3, EnemyThere DEF ListAfter
<1>6. /\ Len(y.enemies) \in Nat /\ i \in 1 .. Len(y.enemies)
      /\ DOMAIN y.enemies = 1 .. Len(y.enemies)
  BY <1>2, <1>3, EnemyList DEF ListAfter
<1>7. Grown(y, x, k, kind)
  <2>. SUFFICES ASSUME NEW j \in 1 .. Len(y.enemies)
                PROVE  LET a == y.enemies[j]
                           b == x.enemies[j]
                       IN  /\ b.kind = a.kind /\ b.move = a.move
                           /\ b.hp > 0 => a.hp > 0
                           /\ a.turned => b.turned
    BY <1>2 DEF Grown, ListAfter
  <2>1. CASE j = i
    <3>1. x.enemies[j] = Acted(e)
      BY <1>2, <2>1 DEF ListAfter
    <3>. QED
      BY <1>5, <2>1, <3>1, ActedFacts
  <2>2. CASE j # i
    BY <1>2, <2>2 DEF ListAfter
  <2>. QED
    BY <2>1, <2>2
<1>8. k = 0 \/ Within(y, x, k, kind)
  <2>. SUFFICES ASSUME k # 0 PROVE Within(y, x, k, kind)
    OBVIOUS
  <2>1. Calls(e.move.name, y, k, kind)
    BY <1>2 DEF ListAfter
  <2>2. Signed(e.kind, e.move)
    BY <1>4, <1>6 DEF Band, Signs
  <2>3. e.kind \in Masters /\ Retainer(e.kind, kind)
    BY <2>1, <2>2, SpecialOwner DEF Calls, Masters, Retainer
  <2>4. i = 1
    BY <1>3, <1>4, <1>6, <2>3, ChiefFirst DEF Band
  <2>5. e = Chief(y) /\ Bound(y)
    BY <1>4, <2>4 DEF Chief
  <2>6. Chief(x) = Acted(e)
    BY <1>2, <1>6, <2>4 DEF Chief, ListAfter
  <2>7. Torches(y) \in Nat /\ Torches(y) <= 2 /\ Daggers(y) \in Nat
    BY <1>3, <1>4, LivingCount DEF Torches, Daggers, Band, Caps
  <2>8. kind = "TorchHead" => Torches(y) + k <= 2
    <3>1. kind = "TorchHead" => k = Lowered(2, Torches(y))
      BY <2>1 DEF Calls
    <3>. QED
      BY <2>7, <3>1 DEF Lowered
  <2>9. kind = "SnakeDagger" => Daggers(y) + k <= MaxDaggers
    <3>1. kind = "SnakeDagger" => k = 1 /\ e.move.name = "Summon"
      BY <2>1 DEF Calls
    <3>2. kind = "SnakeDagger" => Daggers(y) < MaxDaggers
      BY <2>5, <3>1, Zenon DEF Bound
    <3>. QED
      BY <2>7, <3>1, <3>2 DEF MaxDaggers
  <2>10. kind = "OrbWalker" => Len(y.enemies) + k <= 3 /\ Chief(x).turned
    <3>1. kind = "OrbWalker" => k = 2 /\ e.move.name = "Spawn Orbs" /\ e.kind = "BronzeAutomaton"
      BY <2>1, <2>2, SpecialOwner DEF Calls
    <3>2. kind = "OrbWalker" => Len(y.enemies) = 1
      BY <1>4, <2>5, <3>1 DEF Bound, Band, Party
    <3>3. e.move.name = "Spawn Orbs" => Acted(e).turned
      BY <1>5, ActedFacts
    <3>4. kind = "OrbWalker" => Chief(x).turned
      BY <2>6, <3>1, <3>3, Zenon
    <3>5. kind = "OrbWalker" => Len(y.enemies) + k <= 3
      <4>. SUFFICES ASSUME kind = "OrbWalker" PROVE Len(y.enemies) + k <= 3
        OBVIOUS
      <4>1. k = 2 /\ Len(y.enemies) = 1
        BY <3>1, <3>2, Zenon
      <4>. QED
        BY <4>1
    <3>. QED
      BY <3>4, <3>5, Zenon
  <2>11. kind = "JawWorm" => Len(y.enemies) + k <= 5
    <3>1. kind = "JawWorm" => /\ e.kind = "GremlinLeader"
                              /\ k = (IF Len(y.enemies) <= 3 THEN 2 ELSE Lowered(5, Len(y.enemies)))
      BY <2>1, <2>2, SpecialOwner DEF Calls
    <3>2. kind = "JawWorm" => Len(y.enemies) <= 5
      BY <1>4, <2>5, <3>1 DEF Band, Party
    <3>. QED
      BY <1>6, <3>1, <3>2 DEF Lowered
  <2>. QED
    BY <2>3, <2>5, <2>8, <2>9, <2>10, <2>11 DEF Within
<1>9. Band(x)
  BY <1>1, <1>3, <1>4, <1>7, <1>8, BandGrows DEF x
<1>. QED
  BY <1>9 DEF x

\* What Selected changes.
LEMMA SelectedFacts ==
    ASSUME NEW e \in Enemies, NEW m
    PROVE  LET f == Selected(e, m)
           IN  /\ f.kind = e.kind /\ f.move = m /\ f.hp = e.hp /\ f.max = e.max /\ f.alive = e.alive
               /\ f.fresh = e.fresh /\ f.last = e.last /\ f.picks = e.picks + 1
               /\ f.intangible = (IF e.kind = "Nemesis" THEN e.picks < 3 ELSE e.intangible)
               /\ e.turned => f.turned
               /\ e.kind \notin {"Lagavulin", "TheChamp"} => f.turned = e.turned
<1>1. e \in EnemySet
  BY DEF Enemies
<1>. DEFINE turned == \/ e.turned
                      \/ e.kind = "Lagavulin" /\ LagavulinWakes(e, hp < PlayerHp)
                      \/ e.kind = "TheChamp" /\ ChampTurns(e)
            intangible == IF e.kind = "Nemesis" THEN e.picks < 3 ELSE e.intangible
            times == e.picks + 1
<1>2. (e.turned => turned) /\ (e.kind \notin {"Lagavulin", "TheChamp"} => turned = e.turned)
  <2>1. e.turned \in BOOLEAN
    BY <1>1 DEF EnemySet
  <2>2. turned \in BOOLEAN /\ (e.turned => turned)
    BY <2>1
  <2>3. e.kind \notin {"Lagavulin", "TheChamp"} => turned = e.turned
    BY <2>1, Zenon
  <2>. QED
    BY <2>2, <2>3
<1>3. Selected(e, m) = [e EXCEPT !.move = m, !.picks = times, !.turned = turned, !.intangible = intangible]
  BY DEF Selected
<1>. HIDE DEF Kinds, MoveSet, MoveNames, turned, intangible
<1>4. LET f == Selected(e, m)
      IN  /\ f.kind = e.kind /\ f.move = m /\ f.hp = e.hp /\ f.max = e.max /\ f.alive = e.alive
          /\ f.fresh = e.fresh /\ f.last = e.last /\ f.picks = times
          /\ f.intangible = intangible /\ f.turned = turned
  BY <1>1, <1>3 DEF EnemySet
<1>5. LET f == Selected(e, m)
      IN  (e.turned => f.turned) /\ (e.kind \notin {"Lagavulin", "TheChamp"} => f.turned = e.turned)
  BY <1>2, <1>4, Zenon
<1>. QED
  BY <1>4, <1>5 DEF intangible

Put(c, i, f) == [c EXCEPT !.enemies[i] = f]

LEMMA EnemyPut ==
    ASSUME NEW c \in CombatSet, NEW i \in DOMAIN c.enemies, NEW f \in Enemies
    PROVE  LET x == Put(c, i, f)
           IN  /\ x \in CombatSet /\ x.enemies[i] = f
               /\ Len(x.enemies) = Len(c.enemies) /\ Len(c.enemies) \in Nat
               /\ DOMAIN c.enemies = 1 .. Len(c.enemies) /\ DOMAIN x.enemies = 1 .. Len(c.enemies)
               /\ \A j \in DOMAIN c.enemies : j # i => x.enemies[j] = c.enemies[j]
<1>. DEFINE es == [c.enemies EXCEPT ![i] = f]
            x == Put(c, i, f)
<1>1. c.enemies \in Seq(Enemies) /\ Len(c.enemies) \in Nat /\ DOMAIN c.enemies = 1 .. Len(c.enemies)
  BY SlotList
<1>2. /\ es \in Seq(Enemies) /\ Len(es) = Len(c.enemies) /\ es[i] = f
      /\ \A j \in DOMAIN c.enemies : j # i => es[j] = c.enemies[j]
  BY <1>1, ExceptSeq
<1>3. x = [c EXCEPT !.enemies = es]
  BY DEF Put
<1>. HIDE DEF es, x
<1>4. DOMAIN es = 1 .. Len(c.enemies)
  BY <1>2, LenProperties
<1>5. x \in CombatSet /\ x.enemies = es
  BY <1>2, <1>3 DEF CombatSet
<1>. QED
  BY <1>1, <1>2, <1>4, <1>5 DEF x

\* A selection gives one enemy a move: the counts and the company stay.
LEMMA SelectBand == RoundInv /\ BandInv /\ SelectMove => BandInv'
<1>. SUFFICES ASSUME RoundInv, BandInv, SelectMove PROVE BandInv'
  OBVIOUS
<1>1. /\ at \in DOMAIN combat.enemies /\ at' = at + 1 /\ pc = "select" /\ pc' = "select"
      /\ at \in Nat \ {0} /\ combat \in CombatSet
  BY SelectMoveEffect, Typed DEF RoundInv
<1>2. CASE combat' = combat /\ ~(combat.enemies[at].hp > 0)
  <2>1. at > 1 => Ready(combat)
    BY <1>1 DEF BandInv, Upcoming
  <2>2. at = 1 => Ready(combat)
    BY <1>2 DEF Ready, Chief
  <2>. QED
    BY <1>1, <1>2, <2>1, <2>2 DEF BandInv
<1>3. ASSUME NEW m \in MoveSet, Signed(combat.enemies[at].kind, m),
             combat' = [combat EXCEPT !.enemies[at] = Selected(combat.enemies[at], m)],
             m.name = "Spawn Orbs" => ~combat.enemies[at].turned,
             m.name = "Summon" => ~(Daggers(combat) >= MaxDaggers)
      PROVE  BandInv'
  <2>. DEFINE e == combat.enemies[at]
              picked == Selected(e, m)
  <2>. HIDE DEF MoveSet
  <2>1. e \in Enemies
    BY <1>1, SlotThere
  <2>2. picked \in Enemies
    BY <2>1, SelectedKeeps
  <2>3. /\ combat' \in CombatSet /\ Len(combat'.enemies) = Len(combat.enemies)
        /\ combat'.enemies[at] = picked /\ Len(combat.enemies) \in Nat
        /\ DOMAIN combat.enemies = 1 .. Len(combat.enemies)
        /\ DOMAIN combat'.enemies = 1 .. Len(combat.enemies)
        /\ \A j \in DOMAIN combat.enemies : j # at => combat'.enemies[j] = combat.enemies[j]
    <3>1. combat \in CombatSet /\ at \in DOMAIN combat.enemies
      BY <1>1
    <3>2. combat' = Put(combat, at, picked)
      BY <1>3 DEF Put
    <3>. HIDE DEF picked, e
    <3>. QED
      BY <2>2, <3>1, <3>2, EnemyPut
  <2>5. /\ picked.kind = e.kind /\ picked.move = m /\ picked.hp = e.hp
        /\ e.turned => picked.turned
        /\ e.kind \notin {"Lagavulin", "TheChamp"} => picked.turned = e.turned
    BY <2>1, SelectedFacts
  <2>. HIDE DEF picked
  <2>6. \A j \in 1 .. Len(combat.enemies) :
          /\ combat'.enemies[j].kind = combat.enemies[j].kind
          /\ combat'.enemies[j].hp = combat.enemies[j].hp
          /\ combat.enemies[j].turned => combat'.enemies[j].turned
    BY <2>3, <2>5
  <2>7. \A kind : LivingOf(combat', kind) = LivingOf(combat, kind)
    BY <2>3, <2>6 DEF LivingOf, Living
  <2>8. Party(combat')
    <3>1. 1 \in 1 .. Len(combat.enemies)
      BY <2>3 DEF BandInv, Band, Party
    <3>2. \A j \in 2 .. Len(combat.enemies) : j \in 1 .. Len(combat.enemies)
      BY <2>3
    <3>3. Chief(combat').kind = Chief(combat).kind /\ (Chief(combat).turned => Chief(combat').turned)
      BY <2>6, <3>1 DEF Chief
    <3>. QED
      BY <2>3, <2>6, <3>2, <3>3 DEF BandInv, Band, Party
  <2>9. Torches(combat') = Torches(combat) /\ Daggers(combat') = Daggers(combat)
    BY <2>7 DEF Torches, Daggers
  <2>10. Caps(combat')
    BY <2>9 DEF BandInv, Band, Caps
  <2>11. Signs(combat')
    <3>. SUFFICES ASSUME NEW j \in 1 .. Len(combat.enemies)
                  PROVE  Signed(combat'.enemies[j].kind, combat'.enemies[j].move)
      BY <2>3 DEF Signs
    <3>1. CASE j = at
      BY <1>3, <2>3, <2>5, <3>1
    <3>2. CASE j # at
      BY <2>3, <3>2 DEF BandInv, Band, Signs
    <3>. QED
      BY <3>1, <3>2
  <2>12. Ready(combat')
    <3>1. CASE at = 1
      <4>1. Chief(combat') = picked /\ Chief(combat) = e
        BY <2>3, <3>1 DEF Chief
      <4>2. m.name = "Spawn Orbs" => ~picked.turned
        <5>1. m.name = "Spawn Orbs" => e.kind = "BronzeAutomaton"
          BY <1>3, SpecialOwner
        <5>. QED
          BY <1>3, <2>5, <5>1
      <4>3. m.name = "Summon" => Daggers(combat') < MaxDaggers
        <5>1. Daggers(combat) \in Nat
          BY <1>1, LivingCount DEF Daggers
        <5>. QED
          BY <1>3, <2>9, <5>1 DEF MaxDaggers
      <4>. QED
        BY <2>5, <4>1, <4>2, <4>3 DEF Ready, Bound
    <3>2. CASE at # 1
      <4>1. Ready(combat)
        BY <1>1, <3>2 DEF BandInv, Upcoming
      <4>2. Chief(combat') = Chief(combat)
        <5>1. 1 \in DOMAIN combat.enemies
          BY <2>3 DEF BandInv, Band, Party
        <5>. QED
          BY <2>3, <3>2, <5>1 DEF Chief
      <4>. QED
        BY <2>9, <4>1, <4>2 DEF Ready, Bound
    <3>. QED
      BY <3>1, <3>2
  <2>. QED
    BY <2>8, <2>10, <2>11, <2>12 DEF BandInv, Band
<1>. HIDE DEF MoveSet
<1>. QED
  BY <1>2, <1>3, SelectMoveEffect DEF Daggers

\* What the ticks of a round leave alone: everything but hit points, poison and
\* Intangible, and nothing that has fallen rises.
Worn(e, f) ==
    /\ f.kind = e.kind /\ f.max = e.max /\ f.alive = e.alive /\ f.picks = e.picks
    /\ f.last = e.last /\ f.move = e.move /\ f.turned = e.turned
    /\ f.hp > 0 => e.hp > 0
Ticks(c, x) ==
    /\ Len(x.enemies) = Len(c.enemies)
    /\ \A i \in 1 .. Len(c.enemies) : Worn(c.enemies[i], x.enemies[i])

LEMMA TickedFacts ==
    ASSUME NEW e \in Enemies, e.hp > 0
    PROVE  /\ Worn(e, Ticked(e))
           /\ ~Ticked(e).fresh /\ (Ticked(e).intangible <=> e.intangible /\ e.fresh)
<1>1. e \in EnemySet
  BY DEF Enemies
<1>. DEFINE healed == IF e.kind = "AwakenedOne" /\ e.hp < e.max THEN e.hp + 1 ELSE e.hp
            covered == e.intangible /\ e.fresh
            dose == IF covered /\ e.poison > 1 THEN 1 ELSE e.poison
            left == Lowered(healed, dose)
            rest == Lowered(e.poison, 1)
<1>2. Ticked(e) = [e EXCEPT !.intangible = covered, !.fresh = FALSE, !.hp = left, !.poison = rest]
  BY DEF Ticked
<1>. HIDE DEF Kinds, MoveSet, MoveNames, left, rest, covered
<1>3. LET f == Ticked(e)
      IN  /\ f.kind = e.kind /\ f.max = e.max /\ f.alive = e.alive /\ f.picks = e.picks
          /\ f.last = e.last /\ f.move = e.move /\ f.turned = e.turned
          /\ f.fresh = FALSE /\ f.intangible = covered
  BY <1>1, <1>2 DEF EnemySet
<1>. QED
  BY <1>3 DEF Worn, covered

LEMMA EnemiesTickedList ==
    ASSUME NEW marked, NEW c \in Combats(marked)
    PROVE  Ticks(c, EnemiesTicked(c))
<1>. DEFINE C == {x \in Combats(marked) : Ticks(c, x)}
<1>1. Len(c.enemies) \in Nat /\ c \in CombatSet
  BY Typed, EnemyList
<1>2. c \in C
  BY DEF Ticks, Worn
<1>3. ASSUME NEW x \in C, NEW k \in Nat \ {0}
      PROVE  TickStep(x, k) \in C
  <2>. SUFFICES ASSUME k \in Living(x) PROVE [x EXCEPT !.enemies[k] = Ticked(@)] \in C
    BY DEF TickStep
  <2>. DEFINE e == x.enemies[k]
              t == Ticked(e)
              y == Put(x, k, t)
  <2>1. k \in DOMAIN x.enemies /\ e.hp > 0 /\ x \in CombatSet
    BY Typed DEF Living
  <2>2. e \in Enemies /\ t \in Enemies
    BY <2>1, EnemyThere, TickedKeeps
  <2>3. Worn(e, t)
    <3>. HIDE DEF e
    <3>. QED
      BY <2>1, <2>2, TickedFacts
  <2>4. y = [x EXCEPT !.enemies[k] = Ticked(@)]
    BY DEF Put
  <2>5. y \in Combats(marked)
    <3>. HIDE DEF t
    <3>. QED
      BY <2>1, <2>2, WithEnemy DEF Put
  <2>. HIDE DEF t
  <2>6. /\ y.enemies[k] = t /\ Len(y.enemies) = Len(x.enemies)
        /\ DOMAIN x.enemies = 1 .. Len(x.enemies)
        /\ \A j \in DOMAIN x.enemies : j # k => y.enemies[j] = x.enemies[j]
    BY <2>1, <2>2, EnemyPut
  <2>. HIDE DEF y
  <2>7. Ticks(c, y)
    <3>1. Len(y.enemies) = Len(c.enemies)
      BY <2>6 DEF Ticks
    <3>2. ASSUME NEW j \in 1 .. Len(c.enemies) PROVE Worn(c.enemies[j], y.enemies[j])
      <4>1. Worn(c.enemies[j], x.enemies[j]) /\ j \in DOMAIN x.enemies
        BY <2>6 DEF Ticks
      <4>2. CASE j = k
        <5>1. Worn(x.enemies[j], y.enemies[j])
          BY <2>3, <2>6, <4>2
        <5>. QED
          BY <4>1, <5>1 DEF Worn
      <4>3. CASE j # k
        BY <2>6, <4>1, <4>3
      <4>. QED
        BY <4>2, <4>3
    <3>. QED
      BY <3>1, <3>2 DEF Ticks
  <2>. QED
    BY <2>4, <2>5, <2>7
<1>. HIDE DEF C
<1>4. EnemiesTicked(c) \in C
  BY <1>2, <1>3, EnemyList, TickLoop
<1>. QED
  BY <1>4 DEF C

\* The end of a round: the ticks, then the deaths; the debuffs are the player's.
Closed == [combat EXCEPT !.window = FALSE]
LEMMA EndRoundEffect ==
    ASSUME RoundInv, EndRound
    PROVE  /\ pc = "enemies" /\ at > Len(combat.enemies)
           /\ pc' = "select" /\ at' = 1 /\ UNCHANGED <<turn, encounter, hp>>
           /\ Closed \in Combats(TRUE) /\ Closed.enemies = combat.enemies
           /\ EnemiesTicked(Closed) \in Combats(TRUE)
           /\ Ticks(combat, EnemiesTicked(Closed))
           /\ CheckEnemyDeaths(EnemiesTicked(Closed)) \in Combats(TRUE)
           /\ Frame(EnemiesTicked(Closed), combat')
           /\ combat'.enemies = CheckEnemyDeaths(EnemiesTicked(Closed)).enemies
<1>1. pc = "enemies" /\ combat \in Combats(pc = "enemies")
  BY DEF RoundInv, EndRound
<1>2. Closed \in Combats(TRUE) /\ Closed.enemies = combat.enemies
  <2>1. (pc = "enemies") = TRUE
    BY <1>1
  <2>2. combat \in Combats(TRUE)
    BY <1>1, <2>1, Zenon
  <2>. QED
    BY <2>2 DEF Closed, Combats, CombatSet, Covered
<1>. DEFINE ticked == EnemiesTicked(Closed)
            checked == CheckEnemyDeaths(ticked)
<1>3. ticked \in Combats(TRUE) /\ Ticks(Closed, ticked)
  <2>1. ticked \in Combats(TRUE)
    BY <1>2, EnemiesTickedKeeps
  <2>2. Ticks(Closed, ticked)
    BY <1>2, EnemiesTickedList
  <2>. QED
    BY <2>1, <2>2
<1>4. Ticks(combat, ticked)
  BY <1>2, <1>3 DEF Ticks
<1>. HIDE DEF ticked
<1>5. checked \in Combats(TRUE) /\ Frame(ticked, checked)
  BY <1>3, CheckEnemyDeathsKeeps, AfterFacts
<1>6. combat'.enemies = checked.enemies
  <2>1. combat' = DebuffsTicked(checked)
    BY DEF EndRound, Closed, ticked
  <2>2. checked \in CombatSet
    BY <1>5 DEF Combats
  <2>. HIDE DEF checked
  <2>. QED
    BY <2>1, <2>2 DEF DebuffsTicked, CombatSet
<1>7. Frame(ticked, combat')
  BY <1>5, <1>6 DEF Frame
<1>8. pc' = "select" /\ at' = 1 /\ UNCHANGED <<turn, encounter, hp>> /\ at > Len(combat.enemies)
  BY DEF EndRound
<1>. QED
  BY <1>1, <1>2, <1>3, <1>4, <1>5, <1>6, <1>7, <1>8 DEF ticked

LEMMA EndRoundBand == RoundInv /\ RoundInv' /\ BandInv /\ EndRound => BandInv'
<1>. SUFFICES ASSUME RoundInv, RoundInv', BandInv, EndRound PROVE BandInv'
  OBVIOUS
<1>. DEFINE y == EnemiesTicked(Closed)
<1>1. /\ combat \in CombatSet /\ combat' \in CombatSet /\ y \in CombatSet
      /\ Ticks(combat, y) /\ Frame(y, combat') /\ pc' = "select" /\ at' = 1
  BY EndRoundEffect DEF RoundInv, Combats
<1>. HIDE DEF y
<1>2. Grown(combat, y, 0, "none")
  <2>1. Len(combat.enemies) \in Nat
    BY <1>1, SlotList
  <2>2. Len(combat.enemies) + 1 .. Len(combat.enemies) + 0 = {}
    BY <2>1
  <2>. QED
    BY <1>1, <2>1, <2>2 DEF Grown, Ticks, Worn
<1>3. Band(y)
  BY <1>1, <1>2, BandGrows DEF BandInv
<1>4. Band(combat')
  BY <1>1, <1>3, BandKept
<1>5. ~Upcoming'
  BY <1>1 DEF Upcoming
<1>. QED
  BY <1>4, <1>5 DEF BandInv

\* The enemy phase: the chief, bound at its start, acts first.
LEMMA EnemyTurnBand == RoundInv /\ RoundInv' /\ BandInv /\ EnemyTurn => BandInv'
<1>. SUFFICES ASSUME RoundInv, RoundInv', BandInv, EnemyTurn PROVE BandInv'
  OBVIOUS
<1>1. /\ at \in DOMAIN combat.enemies /\ pc = "enemies" /\ at \in Nat \ {0}
      /\ combat \in Combats(pc = "enemies") /\ combat \in CombatSet /\ combat' \in CombatSet
  BY EnemyTurnEffect DEF RoundInv, Combats
<1>2. PICK lost \in Int, answer \in Nat, open \in BOOLEAN :
        /\ hp' = hp - lost
        /\ combat' = [TurnChecked(answer) EXCEPT !.window = open]
        /\ \/ pc' = "player" /\ at' = at /\ hp' <= 0
           \/ pc' = "enemies" /\ at' = at + 1
  BY EnemyTurnEffect
<1>. DEFINE e == combat.enemies[at]  acts == e.hp > 0 /\ e.move # NoMove
            done == TurnDone(answer)  checked == TurnChecked(answer)
<1>3. Band(done) /\ done \in Combats(pc = "enemies")
  <2>1. CASE acts
    <3>1. at = 1 => Bound(combat)
      BY <1>1, <2>1 DEF BandInv, Upcoming, Ready, Chief
    <3>2. done = Performed(combat, at, answer)
      BY <2>1 DEF TurnDone
    <3>. HIDE DEF done
    <3>3. Band(Performed(combat, at, answer))
      BY <1>1, <3>1, PerformedBand DEF BandInv
    <3>4. Performed(combat, at, answer) \in Combats(pc = "enemies")
      BY <1>1, PerformedKeeps
    <3>. QED
      BY <3>2, <3>3, <3>4
  <2>2. CASE ~acts
    <3>1. done = combat
      BY <2>2 DEF TurnDone
    <3>. QED
      BY <1>1, <3>1 DEF BandInv
  <2>. QED
    BY <2>1, <2>2
<1>4. Band(checked) /\ checked \in CombatSet
  <2>1. CASE e.hp > 0
    <3>1. checked = CheckEnemyDeaths(done)
      BY <2>1 DEF TurnChecked
    <3>. HIDE DEF done, checked
    <3>2. CheckEnemyDeaths(done) \in After(pc = "enemies", done)
      BY <1>3, CheckEnemyDeathsKeeps
    <3>3. CheckEnemyDeaths(done) \in Combats(pc = "enemies") /\ Frame(done, CheckEnemyDeaths(done))
      BY <1>3, <3>2, AfterFacts
    <3>4. done \in CombatSet /\ CheckEnemyDeaths(done) \in CombatSet
      BY <1>3, <3>3 DEF Combats
    <3>. QED
      BY <1>3, <3>1, <3>3, <3>4, BandKept
  <2>2. CASE ~(e.hp > 0)
    <3>1. checked = done
      BY <2>2 DEF TurnChecked
    <3>. HIDE DEF done, checked
    <3>. QED
      BY <1>3, <3>1 DEF Combats
  <2>. QED
    BY <2>1, <2>2
<1>. HIDE DEF checked
<1>5. Band(combat')
  <2>1. combat'.enemies = checked.enemies
    BY <1>2, <1>4 DEF CombatSet, checked
  <2>2. Frame(checked, combat')
    <3>1. Len(checked.enemies) \in Nat
      BY <1>4, SlotList
    <3>. QED
      BY <2>1, <3>1 DEF Frame, Same
  <2>. QED
    BY <1>1, <1>4, <2>2, BandKept
<1>6. ~Upcoming'
  <2>1. CASE pc' = "player" /\ hp' <= 0
    <3>1. hp' \in Int
      BY DEF RoundInv
    <3>2. ~(hp' > 0)
      BY <2>1, <3>1
    <3>. QED
      BY <2>1, <3>2 DEF Upcoming
  <2>2. CASE pc' = "enemies" /\ at' = at + 1
    <3>1. at' # 1
      BY <1>1, <2>2
    <3>. QED
      BY <2>2, <3>1 DEF Upcoming
  <2>. QED
    BY <1>2, <2>1, <2>2
<1>. QED
  BY <1>5, <1>6 DEF BandInv


\* How the encounters of the tables muster: a caller or a loner by itself, the
\* pair of torches, or a group with none of either.
LEMMA FoesMustered ==
    ASSUME NEW foes \in EncounterTable
    PROVE  \/ \E k \in Masters \cup Solitary : foes = <<k>>
           \/ foes = <<"TorchHead", "TorchHead">>
           \/ foes \in Seq(Kinds \ Outsiders) /\ foes # << >>
<1>. DEFINE K == Kinds \ Outsiders
            Mustered(f) == \/ \E k \in Masters \cup Solitary : f = <<k>>
                           \/ f = <<"TorchHead", "TorchHead">>
                           \/ f \in Seq(K) /\ f # << >>
<1>1. /\ "Cultist" \in K /\ "JawWorm" \in K /\ "RedLouse" \in K /\ "GreenLouse" \in K /\ "AcidSlimeS" \in K
      /\ "SpikeSlimeS" \in K /\ "AcidSlimeM" \in K /\ "SpikeSlimeM" \in K /\ "FungalBeast" \in K
      /\ "GremlinNob" \in K /\ "Lagavulin" \in K /\ "Sentry" \in K /\ "SlimeBoss" \in K /\ "Hexaghost" \in K
      /\ "Chosen" \in K /\ "ShellParasite" \in K /\ "Byrd" \in K
      /\ "RedSlaver" \in K /\ "BlueSlaver" \in K /\ "Taskmaster" \in K
      /\ "BookOfStabbing" \in K /\ "TheChamp" \in K
      /\ "Darkling" \in K /\ "Maw" \in K /\ "WrithingMass" \in K /\ "Transient" \in K /\ "GiantHead" \in K
      /\ "Donu" \in K /\ "Deca" \in K /\ "TimeEater" \in K
  BY DEF Kinds, Outsiders, Masters, Solitary
<1>2. \A k \in Masters \cup Solitary : Mustered(<<k>>)
  OBVIOUS
<1>3. "TheCollector" \in Masters \cup Solitary /\ "BronzeAutomaton" \in Masters \cup Solitary
      /\ "GremlinLeader" \in Masters \cup Solitary /\ "Reptomancer" \in Masters \cup Solitary
      /\ "Nemesis" \in Masters \cup Solitary /\ "AwakenedOne" \in Masters \cup Solitary
  BY DEF Masters, Solitary
<1>4. Mustered(<<"TorchHead", "TorchHead">>)
  OBVIOUS
<1>. HIDE DEF K
<1>5. \A a \in K : <<a>> \in Seq(K) /\ <<a>> # << >>
  OBVIOUS
<1>6. \A a, b \in K : <<a, b>> \in Seq(K) /\ <<a, b>> # << >>
  BY ListOf2
<1>7. \A a, b, c \in K : <<a, b, c>> \in Seq(K) /\ <<a, b, c>> # << >>
  BY ListOf3
<1>8. /\ \A a \in K : Mustered(<<a>>)
      /\ \A a, b \in K : Mustered(<<a, b>>)
      /\ \A a, b, c \in K : Mustered(<<a, b, c>>)
  BY <1>5, <1>6, <1>7
<1>. HIDE DEF Mustered
<1>9. foes \in Act1Encounters => Mustered(foes)
  <2>1. /\ Mustered(<<"Cultist">>) /\ Mustered(<<"JawWorm">>)
        /\ Mustered(<<"RedLouse", "GreenLouse">>) /\ Mustered(<<"RedLouse", "RedLouse">>)
        /\ Mustered(<<"GreenLouse", "GreenLouse">>) /\ Mustered(<<"AcidSlimeS", "SpikeSlimeS">>)
        /\ Mustered(<<"AcidSlimeM">>) /\ Mustered(<<"SpikeSlimeM">>) /\ Mustered(<<"FungalBeast">>)
        /\ Mustered(<<"GremlinNob">>) /\ Mustered(<<"Lagavulin">>)
        /\ Mustered(<<"Sentry", "Sentry", "Sentry">>) /\ Mustered(<<"SlimeBoss">>)
        /\ Mustered(<<"Hexaghost">>)
    BY <1>1, <1>8
  <2>. QED
    BY <2>1, Zenon DEF Act1Encounters
<1>10. foes \in Act2Encounters => Mustered(foes)
  <2>1. /\ Mustered(<<"Chosen">>) /\ Mustered(<<"ShellParasite">>)
        /\ Mustered(<<"Byrd", "Byrd", "Byrd">>) /\ Mustered(<<"Chosen", "Byrd">>)
        /\ Mustered(<<"ShellParasite", "Byrd">>) /\ Mustered(<<"TorchHead", "TorchHead">>)
        /\ Mustered(<<"GremlinLeader">>) /\ Mustered(<<"RedSlaver", "BlueSlaver", "Taskmaster">>)
        /\ Mustered(<<"BookOfStabbing">>) /\ Mustered(<<"TheCollector">>)
        /\ Mustered(<<"BronzeAutomaton">>) /\ Mustered(<<"TheChamp">>)
    BY <1>1, <1>2, <1>3, <1>4, <1>8
  <2>. QED
    BY <2>1, Zenon DEF Act2Encounters
<1>11. foes \in Act3Encounters => Mustered(foes)
  <2>1. /\ Mustered(<<"Darkling", "Darkling", "Darkling">>) /\ Mustered(<<"Maw">>)
        /\ Mustered(<<"WrithingMass">>) /\ Mustered(<<"Transient">>) /\ Mustered(<<"GiantHead">>)
        /\ Mustered(<<"Nemesis">>) /\ Mustered(<<"Reptomancer">>) /\ Mustered(<<"Donu", "Deca">>)
        /\ Mustered(<<"AwakenedOne">>) /\ Mustered(<<"TimeEater">>)
    BY <1>1, <1>2, <1>3, <1>8
  <2>. QED
    BY <2>1, Zenon DEF Act3Encounters
<1>12. Mustered(foes)
  BY <1>9, <1>10, <1>11 DEF EncounterTable
<1>. QED
  BY <1>12 DEF Mustered, K

LEMMA BandInit == Init => BandInv
<1>. SUFFICES ASSUME Init PROVE BandInv
  OBVIOUS
<1>. DEFINE foes == encounter.foes
            es == [i \in DOMAIN foes |-> Fresh(foes[i])]
            n == Len(foes)
<1>1. encounter \in Encounters /\ pc = "select" /\ at = 1 /\ combat.enemies = es
  BY DEF Init
<1>2. combat \in CombatSet
  BY RoundInit DEF RoundInv, Combats
<1>3. foes \in EncounterTable
  BY <1>1, Bounds
<1>4. \/ \E k \in Masters \cup Solitary : foes = <<k>>
      \/ foes = <<"TorchHead", "TorchHead">>
      \/ foes \in Seq(Kinds \ Outsiders) /\ foes # << >>
  BY <1>3, FoesMustered
<1>5. foes \in Seq(Kinds)
  BY <1>3, FoesTyped
<1>6. n \in Nat /\ DOMAIN foes = 1 .. n
  <2>. HIDE DEF Kinds, foes
  <2>. QED
    BY <1>5, LenProperties
<1>7. \A i \in 1 .. n : /\ combat.enemies[i].kind = foes[i] /\ combat.enemies[i].move = NoMove
                        /\ combat.enemies[i].turned = FALSE
  BY <1>1, <1>6 DEF Fresh, Enemy
<1>8. DOMAIN combat.enemies = 1 .. n /\ Len(combat.enemies) = n
  <2>1. DOMAIN combat.enemies = 1 .. n
    BY <1>1, <1>6
  <2>2. DOMAIN combat.enemies = 1 .. Len(combat.enemies) /\ Len(combat.enemies) \in Nat
    BY <1>2, SlotList
  <2>. QED
    BY <1>6, <2>1, <2>2
<1>. HIDE DEF es, n
<1>9. /\ n >= 1
      /\ \/ foes[1] \in Masters \cup Solitary /\ n = 1
         \/ foes[1] = "TorchHead" /\ n = 2 /\ foes[2] = "TorchHead"
         \/ \A i \in 1 .. n : foes[i] \notin Outsiders
  <2>1. CASE \E k \in Masters \cup Solitary : foes = <<k>>
    BY <2>1 DEF n
  <2>2. CASE foes = <<"TorchHead", "TorchHead">>
    BY <2>2 DEF n
  <2>3. CASE foes \in Seq(Kinds \ Outsiders) /\ foes # << >>
    <3>. DEFINE K == Kinds \ Outsiders
    <3>1. foes \in Seq(K)
      BY <2>3
    <3>2. \A k \in K : k \notin Outsiders
      OBVIOUS
    <3>. HIDE DEF K, foes
    <3>3. \A i \in 1 .. n : foes[i] \in K
      BY <3>1, <1>6, ElementOfSeq
    <3>4. n # 0
      BY <2>3, <3>1, EmptySeq DEF n
    <3>. QED
      BY <1>6, <3>2, <3>3, <3>4
  <2>. QED
    BY <1>4, <2>1, <2>2, <2>3
<1>. HIDE DEF foes
<1>10. Party(combat)
  <2>1. Chief(combat).kind = foes[1] /\ Chief(combat).turned = FALSE
    BY <1>6, <1>7, <1>9 DEF Chief
  <2>2. CASE foes[1] \in Masters \cup Solitary /\ n = 1
    BY <1>8, <2>1, <2>2 DEF Party, Masters, Solitary
  <2>3. CASE foes[1] = "TorchHead" /\ n = 2 /\ foes[2] = "TorchHead"
    BY <1>7, <1>8, <2>1, <2>3 DEF Party, Retainer
  <2>4. CASE \A i \in 1 .. n : foes[i] \notin Outsiders
    BY <1>6, <1>7, <1>8, <1>9, <2>1, <2>4 DEF Party, Outsiders, Masters, Solitary
  <2>. QED
    BY <1>9, <2>2, <2>3, <2>4
<1>11. Caps(combat)
  <2>1. ASSUME NEW kind PROVE LivingOf(combat, kind) \subseteq 1 .. n
    BY <1>2, <1>8, LivingCount
  <2>2. IsFiniteSet(1 .. n) /\ Cardinality(1 .. n) = n
    BY <1>6, <1>9, FS_Interval
  <2>3. CASE n <= 2
    BY <1>6, <2>1, <2>2, <2>3, <1>2, LivingCount, FS_Subset DEF Caps, Torches, Daggers, MaxDaggers
  <2>4. CASE \A i \in 1 .. n : foes[i] \notin Outsiders
    <3>1. LivingOf(combat, "TorchHead") = {} /\ LivingOf(combat, "SnakeDagger") = {}
      BY <1>7, <1>8, <2>4 DEF LivingOf, Living, Outsiders
    <3>. QED
      BY <3>1, FS_EmptySet DEF Caps, Torches, Daggers, MaxDaggers
  <2>. QED
    BY <1>6, <1>9, <2>3, <2>4
<1>12. Signs(combat)
  BY <1>7, <1>8, NoMoveSigned DEF Signs
<1>13. ~Upcoming
  BY <1>1 DEF Upcoming
<1>. QED
  BY <1>10, <1>11, <1>12, <1>13 DEF BandInv, Band

\* The steps that perform no move and choose none.
LEMMA FrameBand ==
    ASSUME RoundInv, RoundInv', BandInv, Frame(combat, combat'), Upcoming' => Upcoming
    PROVE  BandInv'
<1>1. combat \in CombatSet /\ combat' \in CombatSet
  BY DEF RoundInv, Combats
<1>. QED
  BY <1>1, BandKept DEF BandInv

LEMMA BandStep == RoundInv /\ RoundInv' /\ BandInv /\ [Next]_vars => BandInv'
<1>. SUFFICES ASSUME RoundInv, RoundInv', BandInv, [Next]_vars PROVE BandInv'
  OBVIOUS
<1>1. ASSUME BeginPlayerTurn PROVE BandInv'
  <2>1. pc = "select" /\ at > Len(combat.enemies) /\ Frame(combat, combat')
    BY <1>1, BeginPlayerTurnEffect, AfterFacts
  <2>2. Len(combat.enemies) \in Nat /\ Len(combat.enemies) >= 1 /\ at \in Nat
    BY SlotList DEF RoundInv, Combats, BandInv, Band, Party
  <2>3. Upcoming
    <3>1. at > 1
      BY <2>1, <2>2
    <3>. QED
      BY <2>1, <3>1 DEF Upcoming
  <2>. QED
    BY <2>1, <2>3, FrameBand
<1>2. ASSUME Play PROVE BandInv'
  <2>1. UNCHANGED <<pc, at, hp>> /\ Frame(combat, combat')
    BY <1>2, PlayEffect, AfterFacts
  <2>2. Upcoming' => Upcoming
    BY <2>1 DEF Upcoming
  <2>. QED
    BY <2>1, <2>2, FrameBand
<1>3. ASSUME EndPlayerTurn PROVE BandInv'
  <2>1. pc = "player" /\ hp > 0 /\ Frame(combat, combat')
    BY <1>3, EndPlayerTurnEffect
  <2>2. Upcoming
    BY <2>1 DEF Upcoming
  <2>. QED
    BY <2>1, <2>2, FrameBand
<1>4. ASSUME Finish PROVE BandInv'
  <2>1. pc' = "over" /\ combat' = combat
    BY <1>4 DEF Finish
  <2>2. ~Upcoming'
    BY <2>1 DEF Upcoming
  <2>. QED
    BY <2>1, <2>2 DEF BandInv
<1>5. CASE UNCHANGED vars
  BY <1>5 DEF vars, BandInv, Upcoming
<1>. QED
  BY <1>1, <1>2, <1>3, <1>4, <1>5, SelectBand, EnemyTurnBand, EndRoundBand DEF Next, Play

\* Whoever calls others stands first and alone with those it called, and what
\* its selector saw is still so when it acts.
THEOREM BandHolds == Spec => []BandInv
<1>1. Init => RoundInv /\ BandInv
  BY RoundInit, BandInit
<1>2. (RoundInv /\ BandInv) /\ [Next]_vars => (RoundInv /\ BandInv)'
  BY RoundStep, BandStep
<1>. QED
  BY <1>1, <1>2, PTL DEF Spec

\* Two living torches at most, one pair of orbs in a combat, four living
\* daggers, and a gremlin band that never outgrows five, although every spawn
\* is decided a player's turn before it happens.
THEOREM SpawnsCapped == Spec => []SpawnCaps
<1>1. ASSUME RoundInv, BandInv PROVE SpawnCaps
  <2>. DEFINE n == Len(combat.enemies)
  <2>1. combat \in CombatSet
    BY <1>1 DEF RoundInv, Combats
  <2>2. n \in Nat /\ DOMAIN combat.enemies = 1 .. n
    BY <2>1, SlotList
  <2>3. Party(combat) /\ Caps(combat)
    BY <1>1 DEF BandInv, Band
  <2>4. Cardinality(OfKind("OrbWalker")) <= 2
    <3>1. CASE Chief(combat).kind = "BronzeAutomaton"
      <4>1. OfKind("OrbWalker") \subseteq 2 .. n /\ n <= 3
        <5>1. 1 \notin OfKind("OrbWalker")
          BY <3>1 DEF OfKind, Chief
        <5>2. n <= 3
          BY <2>3, <3>1 DEF Party
        <5>. QED
          BY <2>2, <5>1, <5>2 DEF OfKind
      <4>2. OfKind("OrbWalker") \subseteq {2, 3}
        BY <2>2, <4>1
      <4>3. IsFiniteSet({2, 3}) /\ Cardinality({2, 3}) <= 2
        <5>1. IsFiniteSet({2}) /\ Cardinality({2}) = 1
          BY FS_Singleton
        <5>2. /\ IsFiniteSet({2} \cup {3})
              /\ Cardinality({2} \cup {3}) = IF 3 \in {2} THEN Cardinality({2}) ELSE Cardinality({2}) + 1
          BY <5>1, FS_AddElement
        <5>3. {2, 3} = {2} \cup {3}
          OBVIOUS
        <5>. QED
          BY <5>1, <5>2, <5>3
      <4>4. Cardinality(OfKind("OrbWalker")) \in Nat /\ Cardinality({2, 3}) \in Nat
            /\ Cardinality(OfKind("OrbWalker")) <= Cardinality({2, 3})
        BY <4>2, <4>3, FS_Subset, FS_CardinalityType
      <4>. QED
        BY <4>3, <4>4
    <3>2. CASE Chief(combat).kind # "BronzeAutomaton"
      <4>1. ASSUME NEW i \in DOMAIN combat.enemies, combat.enemies[i].kind = "OrbWalker" PROVE FALSE
        <5>1. i \in 1 .. n /\ (i = 1 \/ i \in 2 .. n)
          BY <2>2
        <5>. QED
          BY <2>3, <3>2, <4>1, <5>1 DEF Party, Chief, Retainer, Masters, Solitary, Outsiders
      <4>2. OfKind("OrbWalker") = {}
        BY <4>1 DEF OfKind
      <4>. QED
        BY <4>2, FS_EmptySet
    <3>. QED
      BY <3>1, <3>2
  <2>5. OfKind("GremlinLeader") # {} => n <= 5
    <3>. SUFFICES ASSUME NEW i \in DOMAIN combat.enemies, combat.enemies[i].kind = "GremlinLeader"
                  PROVE  n <= 5
      BY DEF OfKind
    <3>1. i = 1
      BY <2>1, <2>3, ChiefFirst DEF Masters
    <3>2. Chief(combat).kind = "GremlinLeader"
      BY <3>1 DEF Chief
    <3>. QED
      BY <2>3, <3>2 DEF Party
  <2>. QED
    BY <2>3, <2>4, <2>5 DEF SpawnCaps, Caps, Torches, Daggers
<1>. QED
  BY <1>1, RoundHolds, BandHolds, PTL

-----------------------------------------------------------------------------
(* Intangible.  A Nemesis and an Awakened One fight alone, so what the     *)
(* phases do to the list is what they do to its first place: the selection *)
(* gives a Nemesis its cover, the tick takes it unless it is fresh, and a  *)
(* check leaves no enemy that is alive without hit points.                 *)

LEMMA AfterLoner ==
    ASSUME NEW marked, NEW c \in Combats(marked), NEW x \in After(marked, c),
           Len(c.enemies) = 1, c.enemies[1].kind \notin Splitters
    PROVE  /\ x \in Combats(marked) /\ Len(x.enemies) = 1 /\ DOMAIN x.enemies = 1 .. 1
           /\ Same(c.enemies[1], x.enemies[1])
<1>1. x \in Combats(marked) /\ Frame(c, x)
  BY AfterFacts
<1>2. /\ DOMAIN c.enemies = 1 .. Len(c.enemies)
      /\ DOMAIN x.enemies = 1 .. Len(x.enemies)
  BY <1>1, EnemyList
<1>3. 1 \in DOMAIN c.enemies /\ \A i \in DOMAIN c.enemies : i = 1
  BY <1>2
<1>4. Len(x.enemies) = 1
  BY <1>1, <1>3 DEF Frame
<1>. QED
  BY <1>1, <1>2, <1>3, <1>4 DEF Frame

LEMMA PutInPlace ==
    ASSUME NEW S, NEW s \in Seq(S), NEW i \in 1 .. Len(s), NEW v
    PROVE  Len([s EXCEPT ![i] = v]) = Len(s)
<1>. DEFINE T == S \cup {v}
<1>1. s \in Seq(T) /\ v \in T
  OBVIOUS
<1>. HIDE DEF T
<1>. QED
  BY <1>1, ExceptSeq

\* The announcement of a loner bursts on nobody: it is dead, or it is Reborn
\* and stands again.
LEMMA AnnounceLoner ==
    ASSUME NEW marked, NEW c \in Combats(marked), Len(c.enemies) = 1,
           c.enemies[1].alive, c.enemies[1].max >= 2
    PROVE  Announce(c, 1).enemies[1].alive => Announce(c, 1).enemies[1].hp > 0
<1>. DEFINE e == c.enemies[1]
            dead == [e EXCEPT !.alive = FALSE, !.hp = 0, !.deaths = @ + 1]
            risen == [dead EXCEPT !.turned = TRUE, !.alive = TRUE, !.hp = dead.max \div 2]
            told == [c EXCEPT !.enemies[1] = dead]
            after == OnDeath(told, 1)
<1>1. /\ c \in CombatSet /\ c.enemies \in Seq(Enemies) /\ DOMAIN c.enemies = 1 .. 1
      /\ 1 \in DOMAIN c.enemies /\ e \in EnemySet
  <2>1. DOMAIN c.enemies = 1 .. Len(c.enemies) /\ c.enemies \in Seq(Enemies)
    BY EnemyList
  <2>2. 1 \in DOMAIN c.enemies
    BY <2>1
  <2>. QED
    BY <2>1, <2>2, EnemyThere DEF Combats
<1>2. /\ told.enemies[1] = dead /\ DOMAIN told.enemies = 1 .. 1
      /\ told.enemies = [c.enemies EXCEPT ![1] = dead] /\ Len(told.enemies) = 1
  <2>1. /\ told.enemies[1] = dead /\ DOMAIN told.enemies = 1 .. 1
        /\ told.enemies = [c.enemies EXCEPT ![1] = dead]
    BY <1>1 DEF CombatSet
  <2>. HIDE DEF told, dead
  <2>. QED
    BY <1>1, <2>1, PutInPlace
<1>3. dead.alive = FALSE /\ dead.max = e.max /\ dead.kind = e.kind /\ dead.turned = e.turned
  <2>. HIDE DEF Kinds, MoveSet, MoveNames, e
  <2>. QED
    BY <1>1 DEF EnemySet
<1>4. /\ DOMAIN after.enemies = 1 .. 1 /\ Len(after.enemies) = 1
      /\ after.enemies[1].alive => after.enemies[1].hp > 0
  <2>1. CASE e.kind \in Reborn /\ ~e.turned
    <3>1. after = [told EXCEPT !.enemies[1] = risen]
      BY <1>2, <1>3, <2>1 DEF OnDeath, Reborn
    <3>2. after.enemies[1] = risen /\ DOMAIN after.enemies = 1 .. 1 /\ Len(after.enemies) = 1
      <4>. HIDE DEF risen, dead, OnDeath
      <4>1. [told EXCEPT !.enemies[1] = risen] = [c EXCEPT !.enemies[1] = risen]
        BY <1>1 DEF CombatSet
      <4>2. [c EXCEPT !.enemies[1] = risen].enemies = [c.enemies EXCEPT ![1] = risen]
        BY <1>1 DEF CombatSet
      <4>. HIDE DEF told, after
      <4>3. after.enemies = [c.enemies EXCEPT ![1] = risen]
        BY <3>1, <4>1, <4>2
      <4>. QED
        BY <1>1, <4>3, PutInPlace
    <3>3. risen.hp > 0
      <4>1. e.max \in Nat /\ e.max >= 2
        BY <1>1 DEF EnemySet
      <4>2. e.max \div 2 > 0
        <5>. HIDE DEF e
        <5>. QED
          BY <4>1
      <4>3. risen.hp = e.max \div 2
        <5>. DEFINE n == e.max \div 2
        <5>1. risen = [dead EXCEPT !.turned = TRUE, !.alive = TRUE, !.hp = n]
          BY <1>3
        <5>2. "hp" \in DOMAIN dead
          BY <1>1 DEF EnemySet
        <5>. HIDE DEF n, dead, risen
        <5>3. risen.hp = n
          BY <5>1, <5>2
        <5>. QED
          BY <5>3 DEF n
      <4>. QED
        BY <4>2, <4>3
    <3>. QED
      BY <3>2, <3>3
  <2>2. CASE ~(e.kind \in Reborn /\ ~e.turned)
    <3>1. after = told \/ after = Afflict(told, <<"VULNERABLE", 2>>)
      BY <1>2, <1>3, <2>2 DEF OnDeath
    <3>2. Afflict(told, <<"VULNERABLE", 2>>).enemies = told.enemies
      <4>. HIDE DEF dead
      <4>. QED
        BY <1>1 DEF Afflict, CombatSet
    <3>3. after.enemies = told.enemies
      <4>. HIDE DEF after, told
      <4>. QED
        BY <3>1, <3>2
    <3>. HIDE DEF after, told, dead
    <3>. QED
      BY <1>2, <1>3, <3>3
  <2>. QED
    BY <2>1, <2>2
<1>. HIDE DEF after
<1>5. \A x \in {after}, k \in Nat \ {0} :
        (IF k \in Living(x) THEN IF k = 1 THEN x ELSE Struck(x, k, e.max) ELSE x) \in {after}
  BY <1>4 DEF Living
<1>6. Burst(after, 1, e.max) = after
  <2>. HIDE DEF e
  <2>1. Burst(after, 1, e.max) \in {after}
    <3>1. after \in {after} /\ Len(after.enemies) \in Nat
      BY <1>4
    <3>. QED
      BY <1>5, <3>1, BurstLoop
  <2>. QED
    BY <2>1
<1>7. Announce(c, 1) = after
  BY <1>6 DEF Announce, after
<1>. QED
  BY <1>4, <1>7

LEMMA CheckedLoner ==
    ASSUME NEW marked, NEW c \in Combats(marked), Len(c.enemies) = 1, c.enemies[1].kind \notin Splitters,
           c.enemies[1].max >= 2
    PROVE  LET x == CheckEnemyDeaths(c)
           IN  /\ x \in Combats(marked) /\ Len(x.enemies) = 1 /\ Same(c.enemies[1], x.enemies[1])
               /\ x.enemies[1].alive => x.enemies[1].hp > 0
<1>. DEFINE C == After(marked, c)
            Up(x) == x.enemies[1].alive => x.enemies[1].hp > 0
            D == {x \in C : Up(x)}
<1>1. ASSUME NEW x \in C, NEW k \in Nat \ {0} PROVE DeathStep(x, k) \in C
  <2>1. x \in Combats(marked)
    BY AfterFacts
  <2>2. k \in DOMAIN x.enemies /\ x.enemies[k].alive => Announce(x, k) \in After(marked, x)
    BY <2>1, AnnounceKeeps
  <2>3. k \in DOMAIN x.enemies /\ x.enemies[k].alive => Announce(x, k) \in C
    BY <2>2, AfterAfter
  <2>. HIDE DEF C
  <2>. QED
    BY <2>3 DEF DeathStep
<1>2. c \in C
  BY AfterItself
<1>3. 1 \in DOMAIN c.enemies
  <2>1. DOMAIN c.enemies = 1 .. Len(c.enemies)
    BY EnemyList
  <2>. QED
    BY <2>1
<1>4. ASSUME NEW x \in D, NEW k \in Nat \ {0, 1} PROVE DeathStep(x, k) \in D
  <2>1. DOMAIN x.enemies = 1 .. 1
    BY AfterLoner
  <2>2. k \notin DOMAIN x.enemies
    BY <2>1
  <2>. QED
    BY <2>2 DEF DeathStep
<1>5. DeathStep(c, 1) \in D
  <2>. HIDE DEF C
  <2>1. CASE 1 \notin Living(c) /\ c.enemies[1].alive
    <3>1. DeathStep(c, 1) = Announce(c, 1)
      BY <1>3, <2>1 DEF DeathStep
    <3>2. Announce(c, 1) \in C
      BY <1>3, <2>1, AnnounceKeeps DEF C
    <3>3. Up(Announce(c, 1))
      BY <2>1, AnnounceLoner
    <3>. QED
      BY <3>1, <3>2, <3>3
  <2>2. CASE ~(1 \notin Living(c) /\ c.enemies[1].alive)
    <3>1. DeathStep(c, 1) = c
      BY <2>2 DEF DeathStep
    <3>2. Up(c)
      BY <2>2 DEF Living
    <3>. QED
      BY <1>2, <3>1, <3>2
  <2>. QED
    BY <2>1, <2>2
<1>6. CheckEnemyDeaths(c) \in D
  <2>1. Len(c.enemies) \in Nat \ {0}
    OBVIOUS
  <2>. HIDE DEF C, D
  <2>. QED
    BY <1>1, <1>2, <1>4, <1>5, <2>1, DeathsFirst
<1>. QED
  BY <1>6, AfterLoner

LEMMA TickedLoner ==
    ASSUME NEW marked, NEW c \in Combats(marked), Len(c.enemies) = 1
    PROVE  LET x == EnemiesTicked(c)
               e == c.enemies[1]
           IN  /\ x \in Combats(marked) /\ Len(x.enemies) = 1
               /\ x.enemies[1] = IF e.hp > 0 THEN Ticked(e) ELSE e
<1>. DEFINE e == c.enemies[1]
            f == IF e.hp > 0 THEN Ticked(e) ELSE e
            C == {x \in Combats(marked) : Len(x.enemies) = 1}
            D == {x \in C : x.enemies[1] = f}
<1>1. ASSUME NEW x \in C, NEW k \in Nat \ {0}
      PROVE  TickStep(x, k) \in C /\ (k \in Living(x) => TickStep(x, k).enemies[k] = Ticked(x.enemies[k]))
  <2>. SUFFICES ASSUME k \in Living(x)
                PROVE  TickStep(x, k) \in C /\ TickStep(x, k).enemies[k] = Ticked(x.enemies[k])
    BY DEF TickStep
  <2>1. k \in DOMAIN x.enemies /\ x.enemies[k].hp > 0
    BY DEF Living
  <2>. DEFINE t == Ticked(x.enemies[k])
              y == [x EXCEPT !.enemies[k] = t]
  <2>2. t \in Enemies
    BY <2>1, EnemyThere, TickedKeeps
  <2>. HIDE DEF t
  <2>3. y \in Combats(marked) /\ Len(y.enemies) = Len(x.enemies) /\ y.enemies[k] = t
    BY <2>1, <2>2, WithEnemy
  <2>4. TickStep(x, k) = y
    BY DEF TickStep, t
  <2>. HIDE DEF y
  <2>. QED
    BY <2>3, <2>4 DEF t
<1>2. c \in C
  OBVIOUS
<1>3. ASSUME NEW x \in C PROVE DOMAIN x.enemies = 1 .. 1
  BY EnemyList
<1>4. ASSUME NEW x \in D, NEW k \in Nat \ {0, 1} PROVE TickStep(x, k) \in D
  <2>1. k \notin DOMAIN x.enemies
    BY <1>3
  <2>. QED
    BY <2>1 DEF TickStep, Living
<1>5. TickStep(c, 1) \in D
  <2>1. 1 \in DOMAIN c.enemies /\ 1 \in Nat \ {0}
    BY <1>2, <1>3, Bounds
  <2>2. CASE 1 \in Living(c)
    BY <1>1, <1>2, <2>1, <2>2 DEF Living
  <2>3. CASE 1 \notin Living(c)
    BY <1>2, <2>1, <2>3 DEF Living, TickStep
  <2>. QED
    BY <2>2, <2>3
<1>6. EnemiesTicked(c) \in D
  <2>1. Len(c.enemies) \in Nat \ {0}
    OBVIOUS
  <2>. HIDE DEF C, D
  <2>. QED
    BY <1>1, <1>2, <1>4, <1>5, <2>1, TickFirst
<1>. QED
  BY <1>6

\* A Nemesis counts its selections with the turns.
Shrouded ==
    LET e == Chief(combat)
    IN  e.kind = "Nemesis" /\ e.hp > 0 =>
          /\ e.picks = IF pc = "select" /\ at > 1 THEN turn + 1 ELSE turn
          /\ pc = "player" /\ hp > 0 => (e.intangible <=> turn <= 3)
          /\ pc = "select" /\ at > 1 => (e.intangible <=> turn < 3)
\* An Awakened One stands again by the time it selects, it has a move when it
\* is its turn, and Rebirth's cover, which the tick spares once, is the cover
\* it has when its last move was Rebirth.
Settled(e) == ~e.fresh /\ (e.intangible <=> LastIs(e, "Rebirth"))
Moved(e) == IF e.hp = 0 THEN Settled(e)
            ELSE (e.fresh <=> LastIs(e, "Rebirth")) /\ (e.fresh => e.intangible)
Awake ==
    LET e == Chief(combat)
    IN  e.kind = "AwakenedOne" =>
          /\ e.max >= 2
          /\ e.alive => /\ pc = "select" => e.hp > 0
                        /\ Upcoming => e.move # NoMove
                        /\ pc = "select" \/ Upcoming => Settled(e)
                        /\ pc = "enemies" /\ at > 1 => Moved(e)
LonerInv == turn \in Nat /\ Shrouded /\ Awake

LEMMA Alone ==
    ASSUME NEW c \in CombatSet, Party(c), Chief(c).kind \in Solitary
    PROVE  Len(c.enemies) = 1
<1>1. Len(c.enemies) \in Nat /\ DOMAIN c.enemies = 1 .. Len(c.enemies)
  BY SlotList
<1>2. 1 \in DOMAIN c.enemies
  BY <1>1 DEF Party
<1>3. Chief(c).kind \in Outsiders /\ Chief(c).kind \notin Masters \cup {"TorchHead"}
  BY DEF Outsiders, Masters, Solitary
<1>4. ~\A i \in 1 .. Len(c.enemies) : c.enemies[i].kind \notin Outsiders
  BY <1>1, <1>2, <1>3 DEF Chief
<1>. HIDE DEF Outsiders, Masters, Solitary
<1>. QED
  BY <1>3, <1>4 DEF Party

LEMMA ChiefThere ==
    ASSUME RoundInv, BandInv
    PROVE  /\ 1 \in DOMAIN combat.enemies /\ Len(combat.enemies) \in Nat
           /\ DOMAIN combat.enemies = 1 .. Len(combat.enemies)
           /\ Chief(combat) \in Enemies /\ Chief(combat) \in EnemySet /\ Lives(Chief(combat))
           /\ Chief(combat).kind \in Solitary => Len(combat.enemies) = 1
<1>1. combat \in CombatSet /\ Party(combat)
  BY DEF RoundInv, Combats, BandInv, Band
<1>2. Len(combat.enemies) \in Nat /\ DOMAIN combat.enemies = 1 .. Len(combat.enemies)
  BY <1>1, SlotList
<1>3. 1 \in DOMAIN combat.enemies
  BY <1>1, <1>2 DEF Party
<1>4. Chief(combat).kind \in Solitary => Len(combat.enemies) = 1
  BY <1>1, Alone
<1>. QED
  BY <1>1, <1>2, <1>3, <1>4, SlotThere DEF Chief

\* What the blows, cards and ticks of the player's side leave of a loner.
LEMMA LonerFrame ==
    ASSUME RoundInv, RoundInv', BandInv, Frame(combat, combat')
    PROVE  /\ Same(Chief(combat), Chief(combat'))
           /\ Chief(combat').kind = "Nemesis" /\ Chief(combat').hp > 0 => Chief(combat).hp > 0
<1>1. Same(Chief(combat), Chief(combat'))
  BY ChiefThere DEF Frame, Chief
<1>2. "Nemesis" \notin Reborn
  BY DEF Reborn
<1>3. Chief(combat).hp \in Nat
  BY ChiefThere DEF EnemySet
<1>. QED
  BY <1>1, <1>2, <1>3 DEF Same

LEMMA SameSettled ==
    ASSUME NEW e, NEW f, Same(e, f)
    PROVE  /\ Settled(e) => Settled(f)
           /\ LastIs(f, "Rebirth") <=> LastIs(e, "Rebirth")
BY DEF Same, Settled, LastIs

LEMMA LonerPlay == RoundInv /\ RoundInv' /\ BandInv /\ LonerInv /\ Play => LonerInv'
<1>. SUFFICES ASSUME RoundInv, RoundInv', BandInv, LonerInv, Play PROVE LonerInv'
  OBVIOUS
<1>. DEFINE e == Chief(combat)  f == Chief(combat')
<1>1. pc = "player" /\ pc' = "player" /\ UNCHANGED <<at, turn, hp>> /\ Frame(combat, combat')
  BY PlayEffect, AfterFacts
<1>2. Same(e, f) /\ (f.kind = "Nemesis" /\ f.hp > 0 => e.hp > 0)
  BY <1>1, LonerFrame
<1>3. Shrouded'
  <2>1. f.kind = e.kind /\ f.picks = e.picks /\ f.intangible = e.intangible
    BY <1>2 DEF Same
  <2>. HIDE DEF e, f
  <2>2. f.kind = "Nemesis" /\ f.hp > 0 => f.picks = turn' /\ (hp' > 0 => (f.intangible <=> turn' <= 3))
    BY <1>1, <1>2, <2>1 DEF LonerInv, Shrouded, e
  <2>. QED
    BY <1>1, <2>2 DEF Shrouded, f
<1>4. Awake'
  <2>1. f.kind = e.kind /\ f.max = e.max /\ f.move = e.move /\ (f.alive => e.alive) /\ (Settled(e) => Settled(f))
    BY <1>2, SameSettled DEF Same
  <2>2. Upcoming' <=> Upcoming
    BY <1>1 DEF Upcoming
  <2>. HIDE DEF e, f
  <2>3. f.kind = "AwakenedOne" => f.max >= 2 /\ (f.alive /\ Upcoming' => f.move # NoMove /\ Settled(f))
    BY <2>1, <2>2 DEF LonerInv, Awake, e
  <2>. QED
    BY <1>1, <2>3 DEF Awake, f
<1>. QED
  BY <1>1, <1>3, <1>4 DEF LonerInv

LEMMA LonerBegin == RoundInv /\ RoundInv' /\ BandInv /\ LonerInv /\ BeginPlayerTurn => LonerInv'
<1>. SUFFICES ASSUME RoundInv, RoundInv', BandInv, LonerInv, BeginPlayerTurn PROVE LonerInv'
  OBVIOUS
<1>. DEFINE e == Chief(combat)  f == Chief(combat')
<1>1. /\ pc = "select" /\ pc' = "player" /\ turn' = turn + 1 /\ Frame(combat, combat')
      /\ at > Len(combat.enemies) /\ turn \in Nat
  BY BeginPlayerTurnEffect, AfterFacts DEF LonerInv
<1>2. Same(e, f) /\ (f.kind = "Nemesis" /\ f.hp > 0 => e.hp > 0)
  BY <1>1, LonerFrame
<1>3. at > 1 /\ Upcoming
  <2>1. at > 1
    BY <1>1, ChiefThere DEF RoundInv
  <2>. QED
    BY <1>1, <2>1 DEF Upcoming
<1>4. Shrouded'
  <2>1. f.kind = e.kind /\ f.picks = e.picks /\ f.intangible = e.intangible
    BY <1>2 DEF Same
  <2>. HIDE DEF e, f
  <2>2. f.kind = "Nemesis" /\ f.hp > 0 => f.picks = turn + 1 /\ (f.intangible <=> turn < 3)
    BY <1>1, <1>2, <1>3, <2>1 DEF LonerInv, Shrouded, e
  <2>3. turn < 3 <=> turn' <= 3
    BY <1>1
  <2>4. f.kind = "Nemesis" /\ f.hp > 0 => f.picks = turn' /\ (f.intangible <=> turn' <= 3)
    BY <1>1, <2>2, <2>3
  <2>. QED
    BY <1>1, <2>4 DEF Shrouded, f
<1>5. Awake'
  <2>1. f.kind = e.kind /\ f.max = e.max /\ f.move = e.move /\ (f.alive => e.alive) /\ (Settled(e) => Settled(f))
    BY <1>2, SameSettled DEF Same
  <2>. HIDE DEF e, f
  <2>3. f.kind = "AwakenedOne" => /\ f.max >= 2
                                  /\ f.alive => f.move # NoMove /\ Settled(f)
    BY <1>3, <2>1 DEF LonerInv, Awake, e
  <2>. QED
    BY <1>1, <2>3 DEF Awake, f
<1>6. turn' \in Nat
  BY <1>1
<1>. QED
  BY <1>4, <1>5, <1>6 DEF LonerInv

LEMMA LonerEndTurn == RoundInv /\ RoundInv' /\ BandInv /\ LonerInv /\ EndPlayerTurn => LonerInv'
<1>. SUFFICES ASSUME RoundInv, RoundInv', BandInv, LonerInv, EndPlayerTurn PROVE LonerInv'
  OBVIOUS
<1>. DEFINE e == Chief(combat)  f == Chief(combat')
<1>1. pc = "player" /\ hp > 0 /\ pc' = "enemies" /\ at' = 1 /\ turn' = turn /\ Frame(combat, combat')
  BY EndPlayerTurnEffect
<1>2. Same(e, f) /\ (f.kind = "Nemesis" /\ f.hp > 0 => e.hp > 0)
  BY <1>1, LonerFrame
<1>3. Upcoming
  BY <1>1 DEF Upcoming
<1>4. Shrouded'
  <2>1. f.kind = e.kind /\ f.picks = e.picks
    BY <1>2 DEF Same
  <2>. HIDE DEF e, f
  <2>2. f.kind = "Nemesis" /\ f.hp > 0 => f.picks = turn'
    BY <1>1, <1>2, <2>1 DEF LonerInv, Shrouded, e
  <2>. QED
    BY <1>1, <2>2 DEF Shrouded, f
<1>5. Awake'
  <2>1. f.kind = e.kind /\ f.max = e.max /\ f.move = e.move /\ (f.alive => e.alive) /\ (Settled(e) => Settled(f))
    BY <1>2, SameSettled DEF Same
  <2>. HIDE DEF e, f
  <2>3. f.kind = "AwakenedOne" => /\ f.max >= 2
                                  /\ f.alive => f.move # NoMove /\ Settled(f)
    BY <1>3, <2>1 DEF LonerInv, Awake, e
  <2>4. at' = 1 => ~(at' > 1)
    OBVIOUS
  <2>. QED
    BY <1>1, <2>3, <2>4 DEF Awake, f
<1>. QED
  BY <1>1, <1>4, <1>5 DEF LonerInv

LEMMA LonerSelect == RoundInv /\ RoundInv' /\ BandInv /\ LonerInv /\ SelectMove => LonerInv'
<1>. SUFFICES ASSUME RoundInv, RoundInv', BandInv, LonerInv, SelectMove PROVE LonerInv'
  OBVIOUS
<1>. DEFINE e == Chief(combat)  f == Chief(combat')
<1>1. /\ at \in DOMAIN combat.enemies /\ at' = at + 1 /\ pc = "select" /\ pc' = "select"
      /\ UNCHANGED <<turn, hp>> /\ at \in Nat \ {0} /\ combat \in CombatSet
  BY SelectMoveEffect, Typed DEF RoundInv
<1>2. /\ 1 \in DOMAIN combat.enemies /\ e \in Enemies /\ e \in EnemySet /\ Lives(e)
      /\ e.kind \in Solitary => at = 1
  <2>1. e.kind \in Solitary => at = 1
    BY <1>1, ChiefThere
  <2>. QED
    BY <2>1, ChiefThere
<1>3. at' > 1 /\ Upcoming'
  <2>1. at' > 1
    BY <1>1
  <2>. QED
    BY <1>1, <2>1 DEF Upcoming
<1>4. CASE combat' = combat /\ ~(combat.enemies[at].hp > 0)
  <2>1. e.kind \in Solitary => ~(e.hp > 0)
    BY <1>2, <1>4 DEF Chief
  <2>2. f = e
    BY <1>4
  <2>3. Shrouded'
    BY <2>1, <2>2 DEF Shrouded, Solitary
  <2>4. e.kind = "AwakenedOne" => e.max >= 2 /\ ~e.alive
    BY <1>1, <2>1 DEF LonerInv, Awake, Solitary
  <2>5. Awake'
    BY <2>2, <2>4 DEF Awake
  <2>. QED
    BY <1>1, <2>3, <2>5 DEF LonerInv
<1>5. ASSUME NEW m \in MoveSet, m # NoMove,
             combat' = [combat EXCEPT !.enemies[at] = Selected(combat.enemies[at], m)]
      PROVE  LonerInv'
  <2>. HIDE DEF MoveSet
  <2>. DEFINE picked == Selected(combat.enemies[at], m)
  <2>1. combat.enemies[at] \in Enemies
    BY <1>1, SlotThere
  <2>2. picked \in Enemies
    BY <2>1, SelectedKeeps
  <2>3. /\ combat'.enemies[at] = picked
        /\ \A j \in DOMAIN combat.enemies : j # at => combat'.enemies[j] = combat.enemies[j]
    <3>1. combat \in CombatSet /\ at \in DOMAIN combat.enemies
      BY <1>1
    <3>2. combat' = Put(combat, at, picked)
      BY <1>5 DEF Put
    <3>. HIDE DEF picked
    <3>. QED
      BY <2>2, <3>1, <3>2, EnemyPut
  <2>4. f.kind = e.kind
    <3>1. CASE at = 1
      BY <2>1, <2>3, <3>1, SelectedFacts DEF Chief
    <3>2. CASE at # 1
      BY <1>2, <2>3, <3>2 DEF Chief
    <3>. QED
      BY <3>1, <3>2
  <2>5. e.kind \in Solitary =>
          /\ f.move = m /\ f.hp = e.hp /\ f.max = e.max /\ f.alive = e.alive
          /\ f.fresh = e.fresh /\ f.last = e.last /\ f.picks = e.picks + 1
          /\ f.intangible = (IF e.kind = "Nemesis" THEN e.picks < 3 ELSE e.intangible)
    <3>. SUFFICES ASSUME at = 1 PROVE /\ f.move = m /\ f.hp = e.hp /\ f.max = e.max /\ f.alive = e.alive
                                      /\ f.fresh = e.fresh /\ f.last = e.last /\ f.picks = e.picks + 1
                                      /\ f.intangible = (IF e.kind = "Nemesis" THEN e.picks < 3 ELSE e.intangible)
      BY <1>2
    <3>1. f = Selected(e, m)
      BY <2>3 DEF Chief
    <3>. HIDE DEF e, f
    <3>. QED
      BY <1>2, <3>1, SelectedFacts
  <2>. HIDE DEF e, f, picked
  <2>6. Shrouded'
    <3>. SUFFICES ASSUME f.kind = "Nemesis", f.hp > 0
                  PROVE  f.picks = turn' + 1 /\ (f.intangible <=> turn' < 3)
      BY <1>1, <1>3 DEF Shrouded, f
    <3>1. e.kind = "Nemesis" /\ e.kind \in Solitary
      BY <2>4 DEF Solitary
    <3>2. e.picks = turn
      <4>1. ~(at > 1)
        BY <1>2, <3>1
      <4>2. e.hp > 0
        BY <2>5, <3>1
      <4>. QED
        BY <3>1, <4>1, <4>2 DEF LonerInv, Shrouded, e
    <3>3. f.intangible = (e.picks < 3)
      BY <2>5, <3>1
    <3>. QED
      BY <1>1, <2>5, <3>1, <3>2, <3>3
  <2>7. Awake'
    <3>1. f.kind = "AwakenedOne" => e.kind = "AwakenedOne" /\ e.kind \in Solitary /\ e.kind # "Nemesis"
      BY <2>4 DEF Solitary
    <3>2. f.kind = "AwakenedOne" => f.intangible = e.intangible
      BY <2>5, <3>1
    <3>3. f.kind = "AwakenedOne" => (Settled(e) => Settled(f))
      BY <2>5, <3>1, <3>2 DEF Settled, LastIs
    <3>4. e.kind = "AwakenedOne" => e.max >= 2 /\ (e.alive => e.hp > 0 /\ Settled(e))
      BY <1>1 DEF LonerInv, Awake, e
    <3>5. f.kind = "AwakenedOne" => f.max >= 2 /\ (f.alive => f.hp > 0 /\ f.move # NoMove /\ Settled(f))
      BY <1>5, <2>5, <3>1, <3>3, <3>4
    <3>. QED
      BY <1>1, <3>5 DEF Awake, f
  <2>. QED
    BY <1>1, <2>6, <2>7 DEF LonerInv
<1>. HIDE DEF MoveSet
<1>. QED
  BY <1>4, <1>5, SelectMoveEffect

\* One place left of a list of one.
LEMMA LonerPerformed ==
    ASSUME NEW marked, NEW c \in Combats(marked), Len(c.enemies) = 1, c.enemies[1].kind \notin Splitters,
           NEW answer \in Nat
    PROVE  \E y \in EnemySet : /\ Same(c.enemies[1], y) /\ y \in Enemies
                               /\ Performed(c, 1, answer).enemies[1] = Acted(y)
<1>1. 1 \in DOMAIN c.enemies
  <2>1. DOMAIN c.enemies = 1 .. Len(c.enemies)
    BY EnemyList
  <2>. QED
    BY <2>1
<1>2. PICK y \in After(marked, c), k \in Nat, kind \in Born : ListAfter(Performed(c, 1, answer), y, 1, k, kind)
  BY <1>1, PerformedList
<1>3. Same(c.enemies[1], y.enemies[1]) /\ y \in Combats(marked)
  BY AfterLoner
<1>4. 1 \in DOMAIN y.enemies /\ 1 \in 1 .. Len(y.enemies)
  BY <1>2, <1>3, EnemyList DEF ListAfter
<1>5. y.enemies[1] \in Enemies /\ y.enemies[1] \in EnemySet
  BY <1>3, <1>4, EnemyThere
<1>6. Performed(c, 1, answer).enemies[1] = Acted(y.enemies[1])
  BY <1>2, <1>4 DEF ListAfter
<1>. QED
  BY <1>3, <1>5, <1>6

\* A chief keeps its class through the moves of its whole side.
LEMMA PerformedChief ==
    ASSUME NEW marked, NEW c \in Combats(marked), NEW i \in DOMAIN c.enemies, NEW answer \in Nat,
           1 \in DOMAIN c.enemies
    PROVE  /\ 1 \in DOMAIN Performed(c, i, answer).enemies
           /\ Chief(Performed(c, i, answer)).kind = Chief(c).kind
<1>. DEFINE x == Performed(c, i, answer)
<1>1. PICK y \in After(marked, c), k \in Nat, kind \in Born : ListAfter(x, y, i, k, kind)
  BY PerformedList
<1>2. y \in Combats(marked) /\ Frame(c, y) /\ x \in Combats(marked)
  BY AfterFacts, PerformedKeeps
<1>. HIDE DEF x
<1>3. /\ DOMAIN c.enemies = 1 .. Len(c.enemies) /\ Len(c.enemies) \in Nat
      /\ DOMAIN y.enemies = 1 .. Len(y.enemies) /\ Len(y.enemies) \in Nat
      /\ DOMAIN x.enemies = 1 .. Len(x.enemies) /\ Len(x.enemies) \in Nat
  BY <1>2, EnemyList
<1>4. Same(c.enemies[1], y.enemies[1]) /\ 1 \in 1 .. Len(y.enemies)
  BY <1>2, <1>3 DEF Frame
<1>5. /\ x.enemies[1] = IF 1 = i THEN Acted(y.enemies[i]) ELSE y.enemies[1]
      /\ Len(x.enemies) = Len(y.enemies) + k
  BY <1>1, <1>4 DEF ListAfter
<1>6. 1 \in DOMAIN x.enemies
  BY <1>3, <1>4, <1>5
<1>7. y.enemies[1] \in Enemies
  BY <1>2, <1>3, <1>4, EnemyThere
<1>8. x.enemies[1].kind = y.enemies[1].kind
  <2>1. CASE i = 1
    <3>1. x.enemies[1] = Acted(y.enemies[1])
      BY <1>5, <2>1
    <3>2. \A g \in Enemies : Acted(g).kind = g.kind
      BY ActedFacts
    <3>. QED
      BY <1>7, <3>1, <3>2
  <2>2. CASE i # 1
    BY <1>5, <2>2
  <2>. QED
    BY <2>1, <2>2
<1>9. x.enemies[1].kind = c.enemies[1].kind
  BY <1>4, <1>8 DEF Same
<1>. QED
  BY <1>6, <1>9 DEF Chief, x

LEMMA TurnKind ==
    ASSUME RoundInv, BandInv, EnemyTurn
    PROVE  Chief(combat').kind = Chief(combat).kind
<1>1. /\ at \in DOMAIN combat.enemies /\ 1 \in DOMAIN combat.enemies
      /\ combat \in Combats(pc = "enemies")
  BY EnemyTurnEffect, ChiefThere DEF RoundInv
<1>2. PICK answer \in Nat, open \in BOOLEAN : combat' = [TurnChecked(answer) EXCEPT !.window = open]
  BY EnemyTurnEffect
<1>. DEFINE done == TurnDone(answer)  checked == TurnChecked(answer)
<1>3. done \in Combats(pc = "enemies") /\ 1 \in DOMAIN done.enemies /\ Chief(done).kind = Chief(combat).kind
  <2>1. Performed(combat, at, answer) \in Combats(pc = "enemies")
    BY <1>1, PerformedKeeps
  <2>2. /\ 1 \in DOMAIN Performed(combat, at, answer).enemies
        /\ Chief(Performed(combat, at, answer)).kind = Chief(combat).kind
    BY <1>1, PerformedChief
  <2>3. done = Performed(combat, at, answer) \/ done = combat
    BY DEF TurnDone
  <2>. HIDE DEF done
  <2>. QED
    BY <1>1, <2>1, <2>2, <2>3
<1>4. checked \in CombatSet /\ Chief(checked).kind = Chief(done).kind
  <2>1. checked = CheckEnemyDeaths(done) \/ checked = done
    BY DEF TurnChecked
  <2>. HIDE DEF done, checked
  <2>2. CheckEnemyDeaths(done) \in After(pc = "enemies", done)
    BY <1>3, CheckEnemyDeathsKeeps
  <2>3. CheckEnemyDeaths(done) \in CombatSet /\ Frame(done, CheckEnemyDeaths(done))
    BY <1>3, <2>2, AfterFacts, Typed
  <2>4. Chief(CheckEnemyDeaths(done)).kind = Chief(done).kind
    BY <1>3, <2>3 DEF Frame, Same, Chief
  <2>. QED
    BY <1>3, <2>1, <2>3, <2>4, Typed
<1>. HIDE DEF checked, done
<1>5. combat'.enemies = checked.enemies
  BY <1>2, <1>4 DEF CombatSet, checked
<1>. QED
  BY <1>3, <1>4, <1>5 DEF Chief

\* The turn of one that fights alone: the dead do nothing; a living one
\* performs its move, if it has one, and the check leaves it dead or standing.
LEMMA TurnAlone ==
    ASSUME RoundInv, BandInv, EnemyTurn, Chief(combat).kind \in Solitary
    PROVE  LET e == Chief(combat)
               f == Chief(combat')
           IN  /\ at = 1
               /\ ~(e.hp > 0) => f = e
               /\ e.hp > 0 => \E y \in Enemies :
                    LET g == IF e.move = NoMove THEN e ELSE Acted(y)
                    IN  /\ Same(e, y) /\ Same(g, f)
                        /\ e.max >= 2 /\ f.alive => f.hp > 0
<1>. DEFINE e == Chief(combat)  f == Chief(combat')
<1>1. /\ at \in DOMAIN combat.enemies /\ Len(combat.enemies) = 1 /\ DOMAIN combat.enemies = 1 .. 1
      /\ e \in Enemies /\ combat \in Combats(pc = "enemies")
  BY EnemyTurnEffect, ChiefThere DEF RoundInv
<1>2. at = 1 /\ combat.enemies[1] = e
  BY <1>1 DEF Chief
<1>3. PICK answer \in Nat, open \in BOOLEAN : combat' = [TurnChecked(answer) EXCEPT !.window = open]
  BY EnemyTurnEffect
<1>4. e.kind \notin Splitters
  BY DEF Solitary, Splitters
<1>. HIDE DEF e
<1>5. ASSUME NEW x \in CombatSet, TurnChecked(answer) = x PROVE f = Chief(x)
  BY <1>3, <1>5 DEF CombatSet, Chief
<1>6. CASE ~(e.hp > 0)
  <2>1. TurnChecked(answer) = combat
    BY <1>2, <1>6 DEF TurnChecked, TurnDone
  <2>2. combat \in CombatSet
    BY <1>1, Typed
  <2>3. f = e
    BY <1>5, <2>1, <2>2 DEF e
  <2>. HIDE DEF f
  <2>. QED
    BY <1>2, <1>6, <2>3 DEF e, f
<1>7. CASE e.hp > 0
  <2>. DEFINE d == IF e.move # NoMove THEN Performed(combat, 1, answer) ELSE combat
  <2>1. TurnChecked(answer) = CheckEnemyDeaths(d)
    BY <1>2, <1>7 DEF TurnChecked, TurnDone
  <2>2. PICK y \in Enemies : Same(e, y) /\ (e.move # NoMove => Performed(combat, 1, answer).enemies[1] = Acted(y))
    BY <1>1, <1>2, <1>4, LonerPerformed
  <2>. DEFINE g == IF e.move = NoMove THEN e ELSE Acted(y)
  <2>3. d \in Combats(pc = "enemies") /\ 1 \in DOMAIN d.enemies /\ d.enemies[1] = g
    <3>1. /\ Performed(combat, 1, answer) \in Combats(pc = "enemies")
          /\ 1 \in DOMAIN Performed(combat, 1, answer).enemies
      BY <1>1, <1>2, PerformedKeeps, PerformedChief
    <3>. QED
      BY <1>1, <1>2, <2>2, <3>1
  <2>4. Len(d.enemies) = 1
    <3>1. Bound(combat)
      BY <1>1, <1>2, <1>7 DEF EnemyTurn, BandInv, Upcoming, Ready, e
    <3>2. Band(Performed(combat, 1, answer))
      BY <1>1, <1>2, <3>1, PerformedBand DEF BandInv
    <3>3. Band(d)
      BY <3>2 DEF BandInv
    <3>4. d.enemies[1].kind = e.kind
      <4>1. Acted(y).kind = y.kind
        BY ActedFacts
      <4>. QED
        BY <2>2, <2>3, <4>1 DEF Same
    <3>. HIDE DEF d
    <3>5. d \in CombatSet
      BY <2>3, Typed
    <3>. QED
      BY <3>3, <3>4, <3>5, Alone DEF Band, Chief, e
  <2>. HIDE DEF d, g
  <2>5. g.kind \notin Splitters /\ d.enemies[1].kind \notin Splitters /\ g.max = e.max
    <3>1. Acted(y).kind = y.kind /\ Acted(y).max = y.max
      BY ActedFacts
    <3>2. g.kind = e.kind /\ g.max = e.max
      BY <2>2, <3>1 DEF Same, g
    <3>. QED
      BY <1>4, <2>3, <3>2
  <2>6. Same(g, CheckEnemyDeaths(d).enemies[1]) /\ CheckEnemyDeaths(d) \in CombatSet
    <3>1. CheckEnemyDeaths(d) \in After(pc = "enemies", d)
      BY <2>3, CheckEnemyDeathsKeeps
    <3>. QED
      BY <2>3, <3>1, AfterFacts, Typed DEF Frame
  <2>7. f = CheckEnemyDeaths(d).enemies[1]
    BY <1>5, <2>1, <2>6 DEF Chief
  <2>8. e.max >= 2 /\ f.alive => f.hp > 0
    BY <2>3, <2>4, <2>5, <2>7, CheckedLoner
  <2>9. Same(g, f)
    BY <2>6, <2>7
  <2>. HIDE DEF f
  <2>. QED
    BY <1>2, <1>7, <2>2, <2>8, <2>9 DEF e, f, g
<1>. QED
  BY <1>6, <1>7

LEMMA LonerTurn == RoundInv /\ RoundInv' /\ BandInv /\ LonerInv /\ EnemyTurn => LonerInv'
<1>. SUFFICES ASSUME RoundInv, RoundInv', BandInv, LonerInv, EnemyTurn PROVE LonerInv'
  OBVIOUS
<1>. DEFINE e == Chief(combat)  f == Chief(combat')
<1>1. /\ pc = "enemies" /\ turn' = turn /\ at \in Nat \ {0} /\ hp' \in Int
      /\ \/ pc' = "player" /\ hp' <= 0
         \/ pc' = "enemies" /\ at' = at + 1
  <2>1. at \in Nat \ {0} /\ hp' \in Int
    BY DEF RoundInv
  <2>2. PICK lost \in Int, answer \in Nat, open \in BOOLEAN :
          \/ pc' = "player" /\ at' = at /\ hp' <= 0
          \/ pc' = "enemies" /\ at' = at + 1
    BY EnemyTurnEffect
  <2>. QED
    BY <2>1, <2>2, EnemyTurnEffect
<1>2. ~Upcoming' /\ pc' # "select" /\ ~(pc' = "player" /\ hp' > 0)
  <2>1. hp' <= 0 => ~(hp' > 0)
    BY <1>1
  <2>2. at + 1 # 1
    BY <1>1
  <2>. QED
    BY <1>1, <2>1, <2>2 DEF Upcoming
<1>3. f.kind = e.kind
  BY TurnKind
<1>4. e \in EnemySet /\ Lives(e)
  BY ChiefThere
<1>5. e.kind \in Solitary =>
        /\ at = 1
        /\ ~(e.hp > 0) => f = e
        /\ e.hp > 0 => \E y \in Enemies : LET g == IF e.move = NoMove THEN e ELSE Acted(y)
                                          IN  /\ Same(e, y) /\ Same(g, f)
                                              /\ e.max >= 2 /\ f.alive => f.hp > 0
  BY TurnAlone
<1>. HIDE DEF e, f
<1>6. Shrouded'
  <2>. SUFFICES ASSUME f.kind = "Nemesis", f.hp > 0 PROVE f.picks = turn'
    BY <1>2 DEF Shrouded, f
  <2>1. e.kind = "Nemesis" /\ e.kind \in Solitary
    BY <1>3 DEF Solitary
  <2>2. e.hp > 0
    BY <1>5, <2>1
  <2>3. e.picks = turn
    BY <1>1, <2>1, <2>2 DEF LonerInv, Shrouded, e
  <2>4. PICK y \in Enemies : Same(e, y) /\ Same(IF e.move = NoMove THEN e ELSE Acted(y), f)
    BY <1>5, <2>1, <2>2
  <2>5. Acted(y).picks = y.picks
    BY ActedFacts
  <2>6. f.picks = e.picks
    BY <2>4, <2>5 DEF Same
  <2>. QED
    BY <1>1, <2>3, <2>6
<1>7. Awake'
  <2>. SUFFICES ASSUME f.kind = "AwakenedOne"
                PROVE  f.max >= 2 /\ (f.alive => Moved(f))
    BY <1>2 DEF Awake, f
  <2>1. e.kind = "AwakenedOne" /\ e.kind \in Solitary
    BY <1>3 DEF Solitary
  <2>2. Upcoming
    BY <1>1, <1>5, <2>1 DEF Upcoming
  <2>3. e.max >= 2 /\ (e.alive => e.move # NoMove /\ Settled(e))
    BY <2>1, <2>2 DEF LonerInv, Awake, e
  <2>4. CASE ~(e.hp > 0)
    <3>1. f = e
      BY <1>5, <2>1, <2>4
    <3>2. e.hp = 0
      BY <1>4, <2>4 DEF EnemySet
    <3>. QED
      BY <2>3, <3>1, <3>2 DEF Moved
  <2>5. CASE e.hp > 0
    <3>1. e.alive
      BY <1>4, <2>5 DEF Lives
    <3>2. PICK y \in Enemies : Same(e, y) /\ Same(Acted(y), f) /\ (f.alive => f.hp > 0)
      BY <1>5, <2>1, <2>3, <2>5, <3>1
    <3>3. y.kind = "AwakenedOne" /\ ~y.fresh /\ y.max = e.max
      BY <2>1, <2>3, <3>1, <3>2 DEF Same, Settled
    <3>. DEFINE g == Acted(y)  rises == y.move.name = "Rebirth"
    <3>4. (g.fresh <=> rises) /\ (rises => g.intangible) /\ g.max = y.max /\ g.last = <<y.move.name>>
      BY <3>3, ActedFacts
    <3>5. LastIs(g, "Rebirth") <=> rises
      BY <3>4 DEF LastIs
    <3>. HIDE DEF g, rises
    <3>6. f.fresh = g.fresh /\ f.intangible = g.intangible /\ f.max = g.max
      BY <3>2 DEF Same, g
    <3>7. LastIs(f, "Rebirth") <=> LastIs(g, "Rebirth")
      BY <3>2, SameSettled DEF g
    <3>8. f.alive => f.hp # 0
      BY <3>2
    <3>. QED
      BY <2>3, <3>3, <3>4, <3>5, <3>6, <3>7, <3>8 DEF Moved
  <2>. QED
    BY <2>4, <2>5
<1>. QED
  BY <1>1, <1>6, <1>7 DEF LonerInv

LEMMA LonerEndRound == RoundInv /\ RoundInv' /\ BandInv /\ LonerInv /\ EndRound => LonerInv'
<1>. SUFFICES ASSUME RoundInv, RoundInv', BandInv, LonerInv, EndRound PROVE LonerInv'
  OBVIOUS
<1>. DEFINE e == Chief(combat)  f == Chief(combat')
            ticked == EnemiesTicked(Closed)  h == ticked.enemies[1]
<1>1. /\ pc = "enemies" /\ at > Len(combat.enemies) /\ pc' = "select" /\ at' = 1 /\ turn' = turn
      /\ Closed \in Combats(TRUE) /\ Closed.enemies = combat.enemies
      /\ ticked \in Combats(TRUE) /\ Ticks(combat, ticked) /\ Frame(ticked, combat')
      /\ combat'.enemies = CheckEnemyDeaths(ticked).enemies
  BY EndRoundEffect
<1>2. /\ 1 \in DOMAIN combat.enemies /\ e \in Enemies /\ e \in EnemySet /\ Lives(e)
      /\ Len(combat.enemies) \in Nat /\ DOMAIN combat.enemies = 1 .. Len(combat.enemies)
      /\ e.kind \in Solitary => Len(combat.enemies) = 1
  BY ChiefThere
<1>3. at > 1 /\ ~(at' > 1) /\ ~Upcoming'
  <2>1. at > 1 /\ ~(at' > 1)
    BY <1>1, <1>2 DEF RoundInv
  <2>. QED
    BY <1>1, <2>1 DEF Upcoming
<1>4. Worn(e, h) /\ Same(h, f)
  <2>1. Len(ticked.enemies) = Len(combat.enemies)
    BY <1>1 DEF Ticks
  <2>2. DOMAIN ticked.enemies = 1 .. Len(ticked.enemies)
    BY <1>1, EnemyList
  <2>. QED
    BY <1>1, <1>2, <2>1, <2>2 DEF Ticks, Frame, Chief
<1>5. f.kind = e.kind /\ f.max = e.max /\ f.picks = e.picks /\ (f.alive => e.alive)
      /\ (LastIs(f, "Rebirth") <=> LastIs(e, "Rebirth"))
  BY <1>4 DEF Worn, Same, LastIs
<1>6. Shrouded'
  <2>1. "Nemesis" \notin Reborn
    BY DEF Reborn
  <2>2. h.hp \in Nat
    <3>1. 1 \in DOMAIN ticked.enemies
      <4>1. Len(ticked.enemies) = Len(combat.enemies) /\ DOMAIN ticked.enemies = 1 .. Len(ticked.enemies)
        BY <1>1, EnemyList DEF Ticks
      <4>. QED
        BY <1>2, <4>1
    <3>2. h \in EnemySet
      BY <1>1, <3>1, EnemyThere
    <3>. QED
      BY <3>2 DEF EnemySet
  <2>. HIDE DEF e, f, h
  <2>3. f.kind = "Nemesis" /\ f.hp > 0 => e.kind = "Nemesis" /\ e.hp > 0
    BY <1>4, <2>1, <2>2 DEF Worn, Same
  <2>4. e.kind = "Nemesis" /\ e.hp > 0 => e.picks = turn
    BY <1>1 DEF LonerInv, Shrouded, e
  <2>5. f.kind = "Nemesis" /\ f.hp > 0 => f.picks = turn'
    BY <1>1, <1>5, <2>3, <2>4
  <2>. QED
    BY <1>1, <1>3, <2>5 DEF Shrouded, f
<1>7. Awake'
  <2>1. ASSUME f.kind = "AwakenedOne"
        PROVE  f.max >= 2 /\ (f.alive => f.hp > 0 /\ Settled(f))
    <3>1. e.kind = "AwakenedOne" /\ e.kind \in Solitary /\ e.kind \notin Splitters
      BY <1>5, <2>1 DEF Solitary, Splitters
    <3>2. e.max >= 2 /\ (e.alive => Moved(e))
      BY <1>1, <1>3, <3>1 DEF LonerInv, Awake
    <3>3. /\ Len(ticked.enemies) = 1
          /\ h = IF e.hp > 0 THEN Ticked(e) ELSE e
      <4>1. Len(Closed.enemies) = 1 /\ Closed.enemies[1] = e
        BY <1>1, <1>2, <3>1 DEF Chief
      <4>2. LET e1 == Closed.enemies[1]
            IN  /\ Len(ticked.enemies) = 1
                /\ h = IF e1.hp > 0 THEN Ticked(e1) ELSE e1
        BY <1>1, <4>1, TickedLoner
      <4>. HIDE DEF e, h, ticked
      <4>. QED
        BY <4>1, <4>2
    <3>4. h.kind \notin Splitters /\ h.max >= 2
      BY <1>4, <3>1, <3>2 DEF Worn
    <3>5. f.alive => f.hp > 0
      BY <1>1, <3>3, <3>4, CheckedLoner DEF Chief
    <3>6. e.alive => Settled(h)
      <4>1. CASE e.hp > 0
        <5>1. e.alive => (e.fresh <=> LastIs(e, "Rebirth")) /\ (e.fresh => e.intangible)
          <6>1. e.hp # 0
            BY <1>2, <4>1 DEF EnemySet
          <6>. QED
            BY <3>2, <6>1 DEF Moved
        <5>2. ~h.fresh /\ (h.intangible <=> e.intangible /\ e.fresh) /\ h.last = e.last
          <6>1. h = Ticked(e)
            BY <3>3, <4>1
          <6>2. ~Ticked(e).fresh /\ (Ticked(e).intangible <=> e.intangible /\ e.fresh) /\ Ticked(e).last = e.last
            BY <1>2, <4>1, TickedFacts DEF Worn
          <6>. HIDE DEF h, e
          <6>. QED
            BY <6>1, <6>2
        <5>. HIDE DEF e, h
        <5>. QED
          BY <5>1, <5>2 DEF Settled, LastIs
      <4>2. CASE ~(e.hp > 0)
        <5>1. e.hp = 0
          BY <1>2, <4>2 DEF EnemySet
        <5>. QED
          BY <3>2, <3>3, <4>2, <5>1 DEF Moved
      <4>. QED
        BY <4>1, <4>2
    <3>. HIDE DEF e, f, h
    <3>. QED
      BY <1>4, <1>5, <3>2, <3>5, <3>6, SameSettled
  <2>. HIDE DEF e, f
  <2>. QED
    BY <1>1, <1>3, <2>1 DEF Awake, f
<1>. QED
  BY <1>1, <1>6, <1>7 DEF LonerInv

LEMMA LonerInit == Init => LonerInv
<1>. SUFFICES ASSUME Init PROVE LonerInv
  OBVIOUS
<1>. DEFINE e == Chief(combat)  kind == encounter.foes[1]
<1>1. pc = "select" /\ at = 1 /\ turn = 0 /\ encounter \in Encounters
  BY DEF Init
<1>2. RoundInv /\ BandInv
  BY RoundInit, BandInit
<1>3. 1 \in DOMAIN combat.enemies
  BY <1>2, ChiefThere
<1>4. 1 \in DOMAIN encounter.foes /\ e = Fresh(kind)
  BY <1>3 DEF Init, Chief
<1>5. StartHp[kind] \in Nat \ {0} /\ (kind \in Reborn => StartHp[kind] >= 2)
  BY <1>1, <1>4, Bounds
<1>. HIDE DEF kind
<1>6. /\ e.kind = kind /\ e.hp = StartHp[kind] /\ e.max = StartHp[kind] /\ e.picks = 0
      /\ e.intangible = (kind = "Nemesis") /\ e.fresh = FALSE /\ e.last = << >>
  BY <1>4 DEF Fresh, Enemy
<1>. HIDE DEF e
<1>7. ~(at > 1) /\ ~Upcoming
  BY <1>1 DEF Upcoming
<1>8. Shrouded
  BY <1>1, <1>6, <1>7 DEF Shrouded, e
<1>9. Awake
  <2>1. "AwakenedOne" \in Reborn
    BY DEF Reborn
  <2>2. e.hp > 0
    BY <1>5, <1>6
  <2>3. e.kind = "AwakenedOne" => e.max >= 2 /\ Settled(e)
    BY <1>5, <1>6, <2>1 DEF Settled, LastIs
  <2>. QED
    BY <1>1, <1>7, <2>2, <2>3 DEF Awake, e
<1>. QED
  BY <1>1, <1>8, <1>9 DEF LonerInv

LEMMA LonerStep == RoundInv /\ RoundInv' /\ BandInv /\ LonerInv /\ [Next]_vars => LonerInv'
<1>. SUFFICES ASSUME RoundInv, RoundInv', BandInv, LonerInv, [Next]_vars PROVE LonerInv'
  OBVIOUS
<1>1. CASE Finish
  <2>1. /\ UNCHANGED <<at, turn, hp, combat>> /\ pc' = "over"
    BY <1>1 DEF Finish
  <2>2. ~Upcoming'
    BY <2>1 DEF Upcoming
  <2>3. Shrouded'
    <3>1. pc = "player"
      BY <1>1 DEF Finish
    <3>. QED
      BY <2>1, <3>1 DEF LonerInv, Shrouded
  <2>4. Awake'
    BY <2>1, <2>2 DEF LonerInv, Awake
  <2>. QED
    BY <2>1, <2>3, <2>4 DEF LonerInv
<1>2. CASE UNCHANGED vars
  BY <1>2 DEF vars, LonerInv, Shrouded, Awake, Upcoming
<1>. QED
  BY <1>1, <1>2, LonerSelect, LonerBegin, LonerPlay, LonerEndTurn, LonerTurn, LonerEndRound DEF Next, Play

\* What a loner's cover rests on: the selections of a Nemesis keep count with
\* the turns, and an Awakened One is settled whenever its turn is to come.
THEOREM LonersHold == Spec => []LonerInv
<1>1. RoundInv /\ RoundInv' /\ BandInv /\ LonerInv /\ [Next]_vars => LonerInv'
  BY LonerStep
<1>. QED
  BY <1>1, RoundHolds, BandHolds, LonerInit, PTL DEF Spec

\* Intangible covers exactly the player's turns it is meant for: the first
\* three of a Nemesis, and the one that follows an Awakened One's Rebirth.
THEOREM IntangibleKept == Spec => []IntangibleTurns
<1>1. RoundInv /\ BandInv /\ LonerInv => IntangibleTurns
  <2>. SUFFICES ASSUME RoundInv, BandInv, LonerInv, pc = "player", hp > 0,
                       NEW i \in Living(combat), combat.enemies[i].kind \in Solitary
                PROVE  LET e == combat.enemies[i]
                       IN  /\ e.kind = "Nemesis" => (e.intangible <=> turn <= 3)
                           /\ e.kind = "AwakenedOne" => (e.intangible <=> LastIs(e, "Rebirth"))
    BY DEF IntangibleTurns, Solitary
  <2>1. combat \in CombatSet /\ Party(combat) /\ i \in DOMAIN combat.enemies /\ combat.enemies[i].hp > 0
    BY DEF RoundInv, Combats, BandInv, Band, Living
  <2>2. i = 1
    BY <2>1, ChiefFirst
  <2>. DEFINE e == Chief(combat)
  <2>3. e = combat.enemies[i]
    BY <2>2 DEF Chief
  <2>4. e.alive
    <3>1. Lives(e) /\ e \in EnemySet
      BY ChiefThere
    <3>. HIDE DEF e
    <3>. QED
      BY <2>1, <2>3, <3>1 DEF Lives, EnemySet
  <2>5. e.kind = "Nemesis" => (e.intangible <=> turn <= 3)
    BY <2>1, <2>3 DEF LonerInv, Shrouded
  <2>6. e.kind = "AwakenedOne" => (e.intangible <=> LastIs(e, "Rebirth"))
    BY <2>4 DEF LonerInv, Awake, Settled, Upcoming
  <2>. HIDE DEF e
  <2>. QED
    BY <2>3, <2>5, <2>6
<1>. QED
  BY <1>1, RoundHolds, BandHolds, LonersHold, PTL

-----------------------------------------------------------------------------
(* The types of the variables.  The player falls to -1 at the least: a     *)
(* living player alone ends a turn, Combust takes one unit of it, and the  *)
(* enemy phase ends with the first blow that fells it.  The list of        *)
(* enemies never shrinks, so the place a loop has reached stays in it.     *)

Tally ==
    /\ turn \in 0 .. encounter.turns /\ plays \in 0 .. MaxPlays
    /\ hp \in -1 .. PlayerHp /\ (pc = "enemies" => hp >= 0)
Lasting == powers \subseteq {"Combust", "Flame Barrier"}
Placed == at <= Len(combat.enemies) + 1

LEMMA Numbers ==
    ASSUME RoundInv
    PROVE  /\ encounter.turns \in Nat /\ MaxPlays \in Nat \ {0} /\ PlayerHp \in Nat \ {0}
           /\ at \in Nat \ {0} /\ Len(combat.enemies) \in Nat
           /\ DOMAIN combat.enemies = 1 .. Len(combat.enemies)
<1>1. encounter \in Encounters /\ at \in Nat \ {0} /\ combat \in Combats(pc = "enemies")
  BY DEF RoundInv
<1>. QED
  BY <1>1, Bounds, EnemyList

LEMMA TallyInit == Init => Tally /\ Placed /\ Lasting
<1>. SUFFICES ASSUME Init PROVE Tally /\ Placed /\ Lasting
  OBVIOUS
<1>1. RoundInv
  BY RoundInit
<1>2. powers = {}
  BY DEF Init
<1>3. Lasting
  BY <1>2, Zenon DEF Lasting
<1>. QED
  BY <1>1, <1>3, Numbers DEF Init, Tally, Placed

LEMMA TallyPlay ==
    ASSUME RoundInv, Tally, Play
    PROVE  Tally'
<1>1. UNCHANGED <<pc, turn, encounter, hp>>
  BY PlayEffect
<1>2. plays' = plays + 1 /\ plays < MaxPlays
  BY DEF Play, PlayAttack, PlaySweep, PlayDeadlyPoison, PlayCorpseExplosion, PlayBerserk, PlayPower, PlayCard
<1>3. MaxPlays \in Nat
  BY Numbers
<1>4. plays' \in 0 .. MaxPlays
  BY <1>2, <1>3 DEF Tally
<1>. QED
  BY <1>1, <1>4 DEF Tally

LEMMA TallyEnemyTurn ==
    ASSUME RoundInv, Tally, EnemyTurn
    PROVE  Tally'
<1>1. \E lost \in {0, 1} :
        /\ hp' = hp - lost
        /\ pc' = IF hp - lost <= 0 THEN "player" ELSE "enemies"
  <2>1. 0 .. 1 = {0, 1}
    OBVIOUS
  <2>. QED
    BY <2>1, Zenon DEF EnemyTurn
<1>2. PICK lost \in {0, 1} : hp' = hp - lost /\ pc' = IF hp - lost <= 0 THEN "player" ELSE "enemies"
  BY <1>1
<1>3. pc = "enemies" /\ UNCHANGED <<turn, plays, encounter>>
  BY DEF EnemyTurn
<1>4. PlayerHp \in Nat
  BY Numbers
<1>5. hp \in 0 .. PlayerHp
  BY <1>3, <1>4 DEF Tally
<1>6. hp' \in -1 .. PlayerHp /\ (pc' = "enemies" => hp' >= 0)
  BY <1>2, <1>4, <1>5
<1>. QED
  BY <1>3, <1>6 DEF Tally

LEMMA TallyStep == RoundInv /\ Tally /\ [Next]_vars => Tally'
<1>. SUFFICES ASSUME RoundInv, Tally, [Next]_vars PROVE Tally'
  OBVIOUS
<1>1. CASE SelectMove
  BY <1>1 DEF SelectMove, Tally
<1>2. CASE BeginPlayerTurn
  <2>1. turn < encounter.turns /\ turn' = turn + 1 /\ plays' = 0 /\ pc' = "player" /\ UNCHANGED <<encounter, hp>>
    BY <1>2 DEF BeginPlayerTurn
  <2>2. encounter.turns \in Nat /\ MaxPlays \in Nat
    BY Numbers
  <2>3. turn' \in 0 .. encounter.turns /\ plays' \in 0 .. MaxPlays
    BY <2>1, <2>2 DEF Tally
  <2>. QED
    BY <2>1, <2>3 DEF Tally
<1>3. CASE EndPlayerTurn
  <2>1. hp > 0
    BY <1>3, EndPlayerTurnEffect
  <2>2. hp' \in {hp, hp - 1} /\ pc' = "enemies" /\ UNCHANGED <<turn, plays, encounter>>
    BY <1>3 DEF EndPlayerTurn
  <2>3. PlayerHp \in Nat
    BY Numbers
  <2>4. hp' \in -1 .. PlayerHp /\ hp' >= 0
    BY <2>1, <2>2, <2>3 DEF Tally
  <2>. QED
    BY <2>2, <2>4 DEF Tally
<1>4. CASE EndRound
  BY <1>4 DEF EndRound, Tally
<1>5. CASE Finish
  BY <1>5 DEF Finish, Tally
<1>6. CASE UNCHANGED vars
  BY <1>6 DEF vars, Tally
<1>. QED
  BY <1>1, <1>2, <1>3, <1>4, <1>5, <1>6, TallyPlay, TallyEnemyTurn DEF Next, Play

LEMMA LastingStep == Lasting /\ [Next]_vars => Lasting'
<1>. SUFFICES ASSUME Lasting, [Next]_vars PROVE Lasting'
  OBVIOUS
<1>1. CASE PlayPower
  <2>1. PICK card \in {"Combust", "Flame Barrier"} : powers' = powers \cup {card}
    BY <1>1, Zenon DEF PlayPower
  <2>. QED
    BY <2>1, Zenon DEF Lasting
<1>2. CASE UNCHANGED powers
  BY <1>2 DEF Lasting
<1>3. PlayPower \/ UNCHANGED powers
  BY Zenon DEF Next, vars, SelectMove, BeginPlayerTurn, PlayAttack, PlaySweep, PlayDeadlyPoison,
     PlayCorpseExplosion, PlayBerserk, EndPlayerTurn, EnemyTurn, EndRound, Finish
<1>. QED
  BY <1>1, <1>2, <1>3

\* The list of enemies never shrinks.
LEMMA ListGrows ==
    ASSUME RoundInv, RoundInv', SelectMove \/ BeginPlayerTurn \/ Play \/ EnemyTurn
    PROVE  Len(combat'.enemies) \in Nat /\ Len(combat.enemies) <= Len(combat'.enemies)
<1>1. Len(combat.enemies) \in Nat
  BY Numbers
<1>2. Len(combat'.enemies) \in Nat
  <2>1. combat' \in Combats(FALSE)
    BY DEF RoundInv, Combats
  <2>. QED
    BY <2>1, EnemyList
<1>3. CASE SelectMove
  <2>1. CASE combat' = combat
    BY <1>1, <2>1
  <2>2. CASE combat' # combat
    <3>1. PICK e : combat' = [combat EXCEPT !.enemies[at] = e]
      BY <1>3, <2>2, SelectMoveEffect
    <3>2. combat \in CombatSet
      BY DEF RoundInv, Combats
    <3>3. combat'.enemies = [combat.enemies EXCEPT ![at] = e]
      BY <3>1, <3>2 DEF CombatSet
    <3>4. DOMAIN combat'.enemies = DOMAIN combat.enemies
      BY <3>3
    <3>5. DOMAIN combat'.enemies = 1 .. Len(combat'.enemies)
      <4>1. combat' \in Combats(FALSE)
        BY DEF RoundInv, Combats
      <4>. QED
        BY <4>1, EnemyList
    <3>. QED
      BY <1>1, <1>2, <3>4, <3>5, Numbers
  <2>. QED
    BY <2>1, <2>2
<1>4. CASE BeginPlayerTurn
  BY <1>2, <1>4, BeginPlayerTurnEffect, AfterFacts DEF Frame
<1>5. CASE Play
  BY <1>2, <1>5, PlayEffect, AfterFacts DEF Frame
<1>6. CASE EnemyTurn
  <2>1. at \in DOMAIN combat.enemies /\ combat \in Combats(TRUE)
    <3>1. pc = "enemies" /\ combat \in Combats(pc = "enemies")
      BY <1>6 DEF RoundInv, EnemyTurn
    <3>2. (pc = "enemies") = TRUE
      BY <3>1
    <3>3. combat \in Combats(TRUE)
      BY <3>1, <3>2, Zenon
    <3>. QED
      BY <1>6, <3>3, EnemyTurnEffect
  <2>2. PICK answer \in Nat, open \in BOOLEAN : combat' = [TurnChecked(answer) EXCEPT !.window = open]
    BY <1>6, EnemyTurnEffect
  <2>. DEFINE done == TurnDone(answer)  checked == TurnChecked(answer)
  <2>3. done \in Combats(TRUE) /\ Len(combat.enemies) <= Len(done.enemies)
    <3>1. Performed(combat, at, answer) \in Combats(TRUE)
      BY <2>1, PerformedKeeps
    <3>2. Len(combat.enemies) <= Len(Performed(combat, at, answer).enemies)
      <4>1. PICK y \in After(TRUE, combat), k \in Nat, kind \in Born :
              ListAfter(Performed(combat, at, answer), y, at, k, kind)
        BY <2>1, PerformedList
      <4>2. y \in Combats(TRUE) /\ Len(combat.enemies) <= Len(y.enemies)
        BY <2>1, AfterFacts DEF Frame
      <4>3. Len(y.enemies) \in Nat
        BY <4>2, EnemyList
      <4>. QED
        BY <1>1, <4>1, <4>2, <4>3 DEF ListAfter
    <3>3. done = Performed(combat, at, answer) \/ done = combat
      BY DEF TurnDone
    <3>4. Len(combat.enemies) <= Len(combat.enemies)
      BY <1>1
    <3>. HIDE DEF done
    <3>. QED
      BY <2>1, <3>1, <3>2, <3>3, <3>4, Zenon
  <2>4. checked \in Combats(TRUE) /\ Len(done.enemies) <= Len(checked.enemies)
    <3>. HIDE DEF done
    <3>1. CheckEnemyDeaths(done) \in Combats(TRUE) /\ Frame(done, CheckEnemyDeaths(done))
      BY <2>3, CheckEnemyDeathsKeeps, AfterFacts
    <3>2. Len(done.enemies) \in Nat
      BY <2>3, EnemyList
    <3>3. checked = CheckEnemyDeaths(done) \/ checked = done
      BY DEF TurnChecked, done
    <3>. HIDE DEF checked
    <3>4. Len(done.enemies) <= Len(CheckEnemyDeaths(done).enemies)
      BY <3>1 DEF Frame
    <3>5. Len(done.enemies) <= Len(done.enemies)
      BY <3>2
    <3>. QED
      BY <2>3, <3>1, <3>3, <3>4, <3>5, Zenon
  <2>. HIDE DEF done, checked
  <2>5. Len(done.enemies) \in Nat /\ Len(checked.enemies) \in Nat
    BY <2>3, <2>4, EnemyList
  <2>6. combat'.enemies = checked.enemies
    BY <2>2, <2>4 DEF Combats, CombatSet, checked
  <2>. QED
    BY <1>1, <1>2, <2>3, <2>4, <2>5, <2>6
<1>. QED
  BY <1>3, <1>4, <1>5, <1>6

LEMMA PlacedStep == RoundInv /\ RoundInv' /\ Placed /\ [Next]_vars => Placed'
<1>. SUFFICES ASSUME RoundInv, RoundInv', Placed, [Next]_vars PROVE Placed'
  OBVIOUS
<1>1. at \in Nat /\ Len(combat.enemies) \in Nat /\ Len(combat'.enemies) \in Nat
  <2>1. combat' \in Combats(FALSE)
    BY DEF RoundInv, Combats
  <2>. QED
    BY <2>1, Numbers, EnemyList
<1>2. CASE SelectMove
  <2>1. at' = at + 1 /\ at <= Len(combat.enemies)
    BY <1>2 DEF SelectMove
  <2>2. Len(combat.enemies) <= Len(combat'.enemies)
    BY <1>2, ListGrows
  <2>. QED
    BY <1>1, <2>1, <2>2 DEF Placed
<1>3. CASE BeginPlayerTurn \/ Play
  <2>1. at' = at
    BY <1>3, BeginPlayerTurnEffect, PlayEffect
  <2>2. Len(combat.enemies) <= Len(combat'.enemies)
    BY <1>3, ListGrows
  <2>. QED
    BY <1>1, <2>1, <2>2 DEF Placed
<1>4. CASE EndPlayerTurn \/ EndRound
  <2>1. at' = 1
    BY <1>4 DEF EndPlayerTurn, EndRound
  <2>. QED
    BY <1>1, <2>1 DEF Placed
<1>5. CASE EnemyTurn
  <2>1. at' \in {at, at + 1} /\ at <= Len(combat.enemies)
    <3>1. at' \in {at, at + 1}
      BY <1>5, EnemyTurnEffect
    <3>. QED
      BY <1>5, <3>1 DEF EnemyTurn
  <2>2. Len(combat.enemies) <= Len(combat'.enemies)
    BY <1>5, ListGrows
  <2>. QED
    BY <1>1, <2>1, <2>2 DEF Placed
<1>6. CASE Finish
  BY <1>6 DEF Finish, Placed
<1>7. CASE UNCHANGED vars
  BY <1>7 DEF vars, Placed
<1>. QED
  BY <1>2, <1>3, <1>4, <1>5, <1>6, <1>7 DEF Next, Play

\* The turns, the cards of a turn and the player's hit points keep their
\* bounds, and a player is never struck again after the blow that fells it.
THEOREM TallyHolds == Spec => []Tally
BY RoundHolds, TallyInit, TallyStep, PTL DEF Spec

\* Every variable keeps its type: no enemy has more hit points than its
\* maximum or less than none, and no loop leaves the list it runs over.
THEOREM RoundTyped == Spec => []TypeOK
<1>1. RoundInv /\ Tally /\ Placed /\ Lasting => TypeOK
  <2>. SUFFICES ASSUME RoundInv, Tally, Placed, Lasting PROVE TypeOK
    OBVIOUS
  <2>1. combat \in Combats(pc = "enemies") /\ combat \in CombatSet
    BY DEF RoundInv, Combats
  <2>2. \A i \in DOMAIN combat.enemies :
          LET e == combat.enemies[i]
          IN  e.hp \in 0 .. e.max /\ e.poison \in 0 .. MaxPoison /\ e.deaths \in Nat
    <3>. SUFFICES ASSUME NEW i \in DOMAIN combat.enemies
                  PROVE  LET e == combat.enemies[i]
                         IN  e.hp \in 0 .. e.max /\ e.poison \in 0 .. MaxPoison /\ e.deaths \in Nat
      OBVIOUS
    <3>. DEFINE e == combat.enemies[i]
    <3>1. e \in EnemySet /\ Lives(e)
      BY <2>1, EnemyThere
    <3>2. e.hp \in Nat /\ e.max \in Nat /\ e.poison \in Nat /\ e.deaths \in Nat
      BY <3>1 DEF EnemySet
    <3>3. e.hp <= e.max /\ e.poison <= MaxPoison
      BY <3>1 DEF Lives
    <3>4. MaxPoison \in Nat
      BY Bounds
    <3>. HIDE DEF e
    <3>5. e.hp \in 0 .. e.max /\ e.poison \in 0 .. MaxPoison /\ e.deaths \in Nat
      BY <3>2, <3>3, <3>4
    <3>. QED
      BY <3>5 DEF e
  <2>3. /\ combat.held \in [Debuffs -> Nat] /\ combat.artifact \in 0 .. 1
        /\ combat.justApplied \subseteq Debuffs /\ combat.owed \subseteq Debuffs
    BY <2>1 DEF CombatSet
  <2>4. at \in 1 .. (Len(combat.enemies) + 1)
    BY Numbers DEF Placed
  <2>. QED
    BY <2>2, <2>3, <2>4, Zenon DEF RoundInv, Tally, Lasting, TypeOK
<1>2. RoundInv /\ RoundInv' /\ Placed /\ [Next]_vars => Placed'
  BY PlacedStep
<1>3. Spec => []Placed
  BY <1>2, RoundHolds, TallyInit, PTL DEF Spec
<1>4. Spec => []Lasting
  BY LastingStep, TallyInit, PTL DEF Spec
<1>. QED
  BY <1>1, <1>3, <1>4, RoundHolds, TallyHolds, PTL

=============================================================================
