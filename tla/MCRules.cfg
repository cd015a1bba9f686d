CONSTANTS
    Items = {sword, shield}
    NoItem = noItem
    Uids = {101}
    Depth = 2
    LastTimer = 1
    Releases = 1
    Players = {1}
    Monsters = {2, 3}
    Victim = 4
    MaxHealth = 2
    Worth = 5
    MaxRounds = 2
    MaxEffects = 1
    Grounds = {"poison", "nopvp"}
    Casters = {1}
    Hurts = 2
SPECIFICATION RulesSpec
CHECK_DEADLOCK FALSE
INVARIANTS
    ScriptsHold
    DeathsHold
