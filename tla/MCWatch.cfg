SPECIFICATION Spec
CONSTANTS
    Null = Null
    Home <- MCHome
    Historic <- MCHistoric
    Lookups <- MCLookups
    Worlds <- MCWorlds
    Configs <- MCConfigs
    MaxRuns = 3
    MaxUpsets = 2
INVARIANTS NothingUntold MailedOnce
PROPERTIES TransitionsTold NoFalseAlarm
CHECK_DEADLOCK FALSE
