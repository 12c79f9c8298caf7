SPECIFICATION Spec
CONSTANTS
    s1 = s1
    s2 = s2
    c1 = c1
    c2 = c2
    k1 = k1
    k2 = k2
    k3 = k3
    k4 = k4
    Pollers <- TwoPollers
    Messages <- ThreeMessages
    NoMessage = NoMessage
    MaxKills = 1
    Hours = 24
    PerHour = 4
    TaskHours <- AllHours
    Hourly = Hourly
    Never = Never
    MaxLag = 5
    Clients <- TwoClients
    MaxValue = 3
    Unset = Unset
    Entries <- ThreeEntries
    PageSize = 2
    Limits <- OneLimit
    NoLimit = NoLimit
    MaxWrites = 2
    MaxCalls = 5
    BatchSize = 2
    MaxKeys = 4
    GetSize = 2
    Machines <- TwoServers
    HourLength = 1
    DayLength = 2
    WeekLength = 4
    MonthLength = 5
    HourlyBackups = 2
    DailyBackups = 1
    WeeklyBackups = 1
    Preserved <- ThirdTick
    MaxTime = 9
    Keys <- FourKeys
    Capacity = 3
    Nil = Nil
INVARIANTS
    TypeOK
    TaskKept
    ListedAll
    BlockWritesAll
    GotAll
    TrimsRight
PROPERTIES
    CountsUp
    KeepsTime
    KeepsRecent
    HelpersGoOn
CHECK_DEADLOCK FALSE
