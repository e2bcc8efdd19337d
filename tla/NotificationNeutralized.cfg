CONSTANTS
    Users <- MCUsers
    States <- MCStates
    UserTypes <- MCUserTypes
    UserStates <- MCUserStates
    TypeFilter = {"Problem", "Recovery", "FlappingStart", "FlappingEnd"}
    StateFilter = {"OK", "WARNING", "CRITICAL"}
    PeriodUsers = {}
    Period = TRUE
    TimesBegin = FALSE
    TimesEnd = FALSE
    Interval = FALSE
    Holds = {}
    EnableFlapping = FALSE
    MaxStash = 2
SPECIFICATION LiveSpec
PROPERTIES NeutralizedKnow
