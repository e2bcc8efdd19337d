CONSTANTS
    Users <- MCUsers
    States <- MCStates
    UserTypes <- MCUserTypes
    UserStates <- MCUserStates
    TypeFilter = {"Problem", "Recovery", "FlappingStart", "FlappingEnd"}
    StateFilter = {"OK", "WARNING", "CRITICAL"}
    PeriodUsers = {}
    Period = TRUE
    TimesBegin = TRUE
    TimesEnd = FALSE
    Interval = TRUE
    Holds = {"acknowledged", "downtime", "unreachable"}
    EnableFlapping = FALSE
    MaxStash = 2
    Objects = {"h", "s", "r1", "r2"}
    NoObject = NoObject
    HostOf <- MCHostOf
    Dependencies = {"d1", "d2", "d3", "d4"}
    Child <- MCChild
    Parent <- MCParent
    GroupName <- MCGroupName
    NoGroup = NoGroup
    Configured = {"d1", "d3"}
    ParentStates <- MCParentStates
    IgnoreSoft = {"d1", "d3"}
    HasPeriod = {"d4"}
    DisableChecks = {"d1", "d4"}
    DisableNotifications = {"d1", "d2", "d3", "d4"}
    Results <- MCResults
    MaxLevel = 4
    MaxChanges = 2
    Bits = 8
    ThresholdLow = 22
    ThresholdHigh = 33
    FlappingStates = {"OK", "WARNING", "CRITICAL"}
    IgnoreStates = {"WARNING"}
    Order <- MCOrder
    Ranges <- MCRanges
    Includes <- MCIncludes
    Excludes <- MCExcludes
    Day = 4
    Week = 2
    Hour = 1
    MaxClock = 13
    MaxRestarts = 1
SPECIFICATION FiltersSpec
INVARIANTS
    UsersKnow
    RecoveryFollows
    GroupsMatch
    ReachabilityRight
    InsideRight
PROPERTIES
    NoRepeat
    FlappingFollows
    EventuallyKnow
CHECK_DEADLOCK FALSE
