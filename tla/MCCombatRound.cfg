SPECIFICATION Spec
CONSTANTS
  Encounters <- MCEncounters
  StartHp <- MCStartHp
  PlayerHp = 2
  MaxBlow = 2
  MaxPlays = 2
  MaxPoison = 1
CHECK_DEADLOCK FALSE
INVARIANTS TypeOK DebuffsCover SpawnCaps DeathsOnce IntangibleTurns
