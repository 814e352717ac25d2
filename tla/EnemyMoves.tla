----------------------------- MODULE EnemyMoves -----------------------------
(***************************************************************************)
(* The enemy catalogue of slay_bench/enemies.py and enemies_act2.py: for   *)
(* every class that spawn_enemies or another enemy can create, the set of  *)
(* moves its select_move may pick.  A roll of ai_rng is a choice, so the   *)
(* branches of one selector are the members of one set.                    *)
(*                                                                         *)
(* A move keeps what the combat round tells apart: its name, whether it    *)
(* attacks, and the duration debuffs it puts on the player, in order.      *)
(* Damage numbers, strength, block and the status cards it shuffles in are *)
(* abstracted.  An enemy is a record; the selectors read                   *)
(*   picks   how many moves it has selected (_first, _phase, _turns),      *)
(*   made    how many it has executed (len(move_history)),                 *)
(*   last    the names of its last two executed moves, newest first,       *)
(*   turned  its one-way flag (_awoken, _phase2, _reborn, _split or        *)
(*           _spawned_orbs; no class has two of them that differ).         *)
(***************************************************************************)
EXTENDS Integers, Sequences

Move(name, hits, inflicts) == [name |-> name, hits |-> hits, inflicts |-> inflicts]
Attack(name) == Move(name, TRUE, << >>)
AttackAnd(name, inflicts) == Move(name, TRUE, inflicts)
Hex(name, inflicts) == Move(name, FALSE, inflicts)
Quiet(name) == Move(name, FALSE, << >>)
NoMove == Quiet("none")

At(cycle, n) == cycle[(n % Len(cycle)) + 1]
AnyBut(moves, names) == {m \in moves : m.name \notin names}
LastIs(e, name) == e.last # << >> /\ Head(e.last) = name
LastNames(e) == IF e.last = << >> THEN {} ELSE {Head(e.last)}

-----------------------------------------------------------------------------
(* Act 1. *)

Cultist(e) == IF e.picks = 0 THEN {Quiet("Incantation")} ELSE {Attack("Dark Strike")}

JawWorm(e) ==
  IF e.picks = 0 THEN {Attack("Chomp")}
  ELSE AnyBut({Attack("Chomp"), Attack("Thrash"), Quiet("Bellow")},
              IF LastIs(e, "Chomp") /\ e.last # <<"Chomp", "Chomp">> THEN {} ELSE LastNames(e))

RedLouse(e) == {Attack("Bite"), Quiet("Grow")}

GreenLouse(e) ==
  {Attack("Bite")} \cup IF e.picks = 0 THEN {} ELSE {Hex("Spit Web", <<<<"WEAK", 2>>>>)}

AcidSlimeS(e) == {Attack("Tackle"), Hex("Lick", <<<<"WEAK", 1>>>>)}

AcidSlimeM(e) ==
  AnyBut({Attack("Corrosive Spit"), Attack("Tackle"), Hex("Lick", <<<<"WEAK", 1>>>>)}, LastNames(e))

AcidSlimeL(e) ==
  AnyBut({Attack("Corrosive Spit"), Attack("Tackle"), Hex("Lick", <<<<"WEAK", 2>>>>)}, LastNames(e))

SpikeSlimeS(e) == {Attack("Tackle")}
SpikeSlimeM(e) == AnyBut({Attack("Flame Tackle"), Attack("Lunge")}, LastNames(e))
SpikeSlimeL(e) == AnyBut({Attack("Flame Tackle"), Attack("Lunge")}, LastNames(e))

FungalBeast(e) == AnyBut({Attack("Bite"), Quiet("Grow")}, LastNames(e))

GremlinNob(e) ==
  IF e.picks = 0 THEN {Quiet("Bellow")}
  ELSE AnyBut({Attack("Rush"), AttackAnd("Skull Bash", <<<<"VULNERABLE", 2>>>>)}, LastNames(e))

(* It sleeps for two selections unless the player has lost hit points by then. *)
LagavulinWakes(e, hurt) == e.turned \/ e.picks >= 2 \/ hurt
Lagavulin(e, hurt) ==
  IF ~LagavulinWakes(e, hurt) THEN {Quiet("Sleep")}
  ELSE IF e.turned /\ LastIs(e, "Attack") THEN {Quiet("Siphon Soul")} ELSE {Attack("Attack")}

(* spawn_enemies passes no index, so every Sentry starts with Beam. *)
Sentry(e) == {At(<<Attack("Beam"), Quiet("Bolt")>>, e.picks)}

SlimeBoss(e) ==
  {At(<<Quiet("Goop Spray"), Quiet("Preparing"), Attack("Slam"),
        Quiet("Preparing"), Attack("Slam")>>, e.picks)}

Hexaghost(e) ==
  IF e.picks = 0 THEN {Quiet("Activate")}
  ELSE {At(<<Attack("Divider"), Attack("Inferno"), Quiet("Inflame"),
             Attack("Inferno"), Attack("Sear"), Attack("Inferno")>>, e.picks - 1)}

-----------------------------------------------------------------------------
(* Act 2. *)

Chosen(e) ==
  AnyBut({Attack("Poke"), Attack("Zap"),
          Hex("Debilitate", <<<<"VULNERABLE", 2>>, <<"WEAK", 2>>>>)}, LastNames(e))

ShellParasite(e) ==
  LET suck == AttackAnd("Suck", <<<<"FRAIL", 1>>>>)
  IN {At(<<suck, Attack("Fell"), suck, Quiet("Stunned"), suck>>, e.made)}

Byrd(e) ==
  LET peck == Attack("Peck")
  IN {At(<<peck, peck, peck, Attack("Swoop"), peck, peck, Attack("Headbutt")>>, e.made)}

TorchHead(e) == {Attack("Flame Tackle")}
Transient(e) == {Attack("Attack")}
BookOfStabbing(e) == {At(<<Attack("Stab"), Attack("Stab"), Attack("Multi-Stab")>>, e.made)}

(* Implant puts NO_DRAW on the player: the next draw consumes it, it has no duration. *)
WrithingMass(e) ==
  {Attack("Flail"), Attack("Strong Strike"), Quiet("Implant"),
   AttackAnd("Wither", <<<<"WEAK", 2>>, <<"VULNERABLE", 2>>>>)}

GremlinLeader(e) ==
  {At(<<Quiet("Rally!"), Quiet("Encourage"), Attack("Stab"), Attack("Stab"),
        Quiet("Encourage")>>, e.made)}

Rake == AttackAnd("Rake", <<<<"WEAK", 1>>>>)
RedSlaver(e) ==
  {At(<<Attack("Stab"), Rake, Attack("Stab"), Hex("Entangle", <<<<"ENTANGLED", 1>>>>)>>, e.made)}
BlueSlaver(e) == {Attack("Stab"), Rake}
Taskmaster(e) == {Attack("Scouring Whip")}

TheCollector(e) ==
  {At(<<Quiet("Spawn!"), Quiet("Buff"), Attack("Mega Slash"), Quiet("Buff"),
        Attack("Mega Slash")>>, e.made)}

BronzeAutomaton(e) ==
  {At(<<IF e.turned THEN Quiet("Boost") ELSE Quiet("Spawn Orbs"), Attack("Flail"), Attack("Flail"),
        Attack("Hyper Beam"), Quiet("Stunned"), Quiet("Stunned")>>, e.made)}

OrbWalker(e) == {Attack("Laser"), Attack("Claw")}

ChampTurns(e) == e.turned \/ 2 * e.hp <= e.max
TheChamp(e) ==
  IF ~ChampTurns(e)
  THEN {At(<<Quiet("Gloat"), Attack("Execute"), Attack("Execute"), Quiet("Flex"),
             Attack("Smash")>>, e.made)}
  ELSE IF ~e.turned THEN {Attack("Heavy Slash")}
  ELSE {At(<<Quiet("Defensive Stance"), Attack("Execute"), Attack("Heavy Slash"),
             Hex("Taunt", <<<<"WEAK", 2>>, <<"VULNERABLE", 2>>>>)>>, e.made)}

-----------------------------------------------------------------------------
(* Act 3. *)

Darkling(e) == {Attack("Chomp"), AttackAnd("Nip", <<<<"FRAIL", 1>>>>)}

GiantHead(e) == {IF e.made < 3 THEN Attack("Count") ELSE Attack("It Is Time")}

Maw(e) ==
  IF e.made = 0 THEN {Hex("Roar", <<<<"VULNERABLE", 3>>, <<"WEAK", 3>>>>)}
  ELSE {At(<<Quiet("Drool"), Attack("Nom"), Attack("Nom")>>, e.made - 1)}

(* It is Intangible through its first three selections: Selected in CombatRound. *)
Nemesis(e) ==
  IF e.picks < 3 THEN {Attack("Scythe")}
  ELSE {At(<<Quiet("Debuff"), Attack("Scythe"), Attack("Scythe")>>, e.picks - 3)}

MaxDaggers == 4
Reptomancer(e, daggers) ==
  {At(<<IF daggers >= MaxDaggers THEN Attack("Slash") ELSE Quiet("Summon"),
        Attack("Slash"), Attack("Slash"),
        IF daggers >= MaxDaggers THEN Attack("Slash") ELSE Quiet("Summon"),
        Attack("Big Slash")>>, e.made)}
SnakeDagger(e) == {Attack("Stab")}

Donu(e) == {At(<<Quiet("Circle of Power"), Attack("Beam"), Attack("Beam")>>, e.made)}
Deca(e) ==
  {At(<<Quiet("Square of Protection"), Attack("Beam"), Attack("Beam"),
        Quiet("Square of Protection")>>, e.made)}

AwakenedOne(e) ==
  LET echo == Hex("Dark Echo", <<<<"VULNERABLE", 2>>>>)
  IN {IF ~e.turned
      THEN At(<<Attack("Slash"), Attack("Soul Strike"), Attack("Slash"), Quiet("Rebirth"), echo>>, e.made)
      ELSE At(<<Attack("Slash"), echo, Attack("Sludge"), Attack("Slash")>>, e.made)}

TimeEater(e) ==
  {At(<<Quiet("Ripple"), Attack("Reverberate"), AttackAnd("Head Slam", <<<<"VULNERABLE", 2>>>>),
        Attack("Reverberate")>>, e.made)}

-----------------------------------------------------------------------------
(* The selector of an enemy's class.  hurt is player.hp < player.max_hp,   *)
(* daggers the number of living Snake Daggers.                             *)
MovesOf(e, hurt, daggers) ==
  CASE e.kind = "Cultist" -> Cultist(e)          [] e.kind = "JawWorm" -> JawWorm(e)
    [] e.kind = "RedLouse" -> RedLouse(e)        [] e.kind = "GreenLouse" -> GreenLouse(e)
    [] e.kind = "AcidSlimeS" -> AcidSlimeS(e)    [] e.kind = "AcidSlimeM" -> AcidSlimeM(e)
    [] e.kind = "AcidSlimeL" -> AcidSlimeL(e)    [] e.kind = "SpikeSlimeS" -> SpikeSlimeS(e)
    [] e.kind = "SpikeSlimeM" -> SpikeSlimeM(e)  [] e.kind = "SpikeSlimeL" -> SpikeSlimeL(e)
    [] e.kind = "FungalBeast" -> FungalBeast(e)  [] e.kind = "GremlinNob" -> GremlinNob(e)
    [] e.kind = "Lagavulin" -> Lagavulin(e, hurt) [] e.kind = "Sentry" -> Sentry(e)
    [] e.kind = "SlimeBoss" -> SlimeBoss(e)      [] e.kind = "Hexaghost" -> Hexaghost(e)
    [] e.kind = "Chosen" -> Chosen(e)            [] e.kind = "ShellParasite" -> ShellParasite(e)
    [] e.kind = "Byrd" -> Byrd(e)                [] e.kind = "TorchHead" -> TorchHead(e)
    [] e.kind = "Transient" -> Transient(e)      [] e.kind = "BookOfStabbing" -> BookOfStabbing(e)
    [] e.kind = "WrithingMass" -> WrithingMass(e) [] e.kind = "GremlinLeader" -> GremlinLeader(e)
    [] e.kind = "RedSlaver" -> RedSlaver(e)      [] e.kind = "BlueSlaver" -> BlueSlaver(e)
    [] e.kind = "Taskmaster" -> Taskmaster(e)    [] e.kind = "TheCollector" -> TheCollector(e)
    [] e.kind = "BronzeAutomaton" -> BronzeAutomaton(e) [] e.kind = "OrbWalker" -> OrbWalker(e)
    [] e.kind = "TheChamp" -> TheChamp(e)        [] e.kind = "Darkling" -> Darkling(e)
    [] e.kind = "GiantHead" -> GiantHead(e)      [] e.kind = "Maw" -> Maw(e)
    [] e.kind = "Nemesis" -> Nemesis(e)          [] e.kind = "SnakeDagger" -> SnakeDagger(e)
    [] e.kind = "Reptomancer" -> Reptomancer(e, daggers)
    [] e.kind = "Donu" -> Donu(e)                [] e.kind = "Deca" -> Deca(e)
    [] e.kind = "AwakenedOne" -> AwakenedOne(e)  [] e.kind = "TimeEater" -> TimeEater(e)

(* Classes some selector or property of which looks at the names of past moves. *)
Remembers == {"JawWorm", "AcidSlimeM", "AcidSlimeL", "SpikeSlimeM", "SpikeSlimeL", "FungalBeast",
              "GremlinNob", "Lagavulin", "Chosen", "AwakenedOne"}

Splitters == {"SlimeBoss", "AcidSlimeL", "SpikeSlimeL"}
(* on_hp_threshold: what replaces a slime that falls to half its hit points. *)
Halves == [SlimeBoss |-> <<"SpikeSlimeL", "AcidSlimeL">>,
           AcidSlimeL |-> <<"AcidSlimeM", "AcidSlimeM">>,
           SpikeSlimeL |-> <<"SpikeSlimeM", "SpikeSlimeM">>]
(* on_death: classes that come back once. *)
Reborn == {"Darkling", "AwakenedOne"}

-----------------------------------------------------------------------------
(* run_loop's encounter tables: the groups spawn_enemies is given. *)
Act1Encounters ==
  {<<"Cultist">>, <<"JawWorm">>, <<"RedLouse", "GreenLouse">>, <<"RedLouse", "RedLouse">>,
   <<"GreenLouse", "GreenLouse">>, <<"AcidSlimeS", "SpikeSlimeS">>, <<"AcidSlimeM">>,
   <<"SpikeSlimeM">>, <<"FungalBeast">>,
   <<"GremlinNob">>, <<"Lagavulin">>, <<"Sentry", "Sentry", "Sentry">>,
   <<"SlimeBoss">>, <<"Hexaghost">>}
Act2Encounters ==
  {<<"Chosen">>, <<"ShellParasite">>, <<"Byrd", "Byrd", "Byrd">>, <<"Chosen", "Byrd">>,
   <<"ShellParasite", "Byrd">>, <<"TorchHead", "TorchHead">>,
   <<"GremlinLeader">>, <<"RedSlaver", "BlueSlaver", "Taskmaster">>, <<"BookOfStabbing">>,
   <<"TheCollector">>, <<"BronzeAutomaton">>, <<"TheChamp">>}
Act3Encounters ==
  {<<"Darkling", "Darkling", "Darkling">>, <<"Maw">>, <<"WrithingMass">>, <<"Transient">>,
   <<"GiantHead">>, <<"Nemesis">>, <<"Reptomancer">>,
   <<"Donu", "Deca">>, <<"AwakenedOne">>, <<"TimeEater">>}
EncounterTable == Act1Encounters \cup Act2Encounters \cup Act3Encounters
=============================================================================
