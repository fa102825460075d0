SPECIFICATION Spec
CONSTANTS
    MaxId = 3
    MaxHP = 2
    MedkitHeal = 1
    RespawnDelay = 2
    SpawnShield = 2
    StreakStep = 2
    StreakShield = 1
    ProjectileLife = 2
    MaxProjectiles = 2
    Weapons <- MCWeapons
    SpreadCount = 2
    BuffTime = 2
    PickupDelay = 1
    MatchTime = 4
    Intermission = 2
    FlagReturn = 2
    Scenario <- MCScenario
    MaxDeaths = 2
INVARIANTS TypeOK NoShotFromLastMatch FlagsAreHeld OneCapture
PROPERTIES HitsAreFair WinnerIsBest EveryoneReturns
