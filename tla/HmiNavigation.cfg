\* Two capabilities and one client beside the vehicle in a store of four rate windows; two
\* requests at once everywhere, two places, and answers of one or two routes.
SPECIFICATION NavigationRunSpec
CONSTANTS
    Principals = {p}
    Loopback = Loopback
    Capabilities = {c1, c2}
    NoCapability = NoCapability
    Settings <- MCSettings
    PerMinute = 1
    PerHour = 1
    Minute = 1
    Hour = 2
    Ttl = 1
    MaxRateKeys = 4
    ReplayPrune = 1
    ReplayMax = 1
    RouteRequests = {r1, r2}
    DailyPaidLimit = 1
    Places = {home, work}
    NoPlace = NoPlace
    Calls = {call1, call2}
    Answers <- MCAnswers
    Destinations = {d1, d2}
    NoDestination = NoDestination
    OptionIds = {o1}
    NoOption = NoOption
    Requests = {q1, q2}
    MaxAge = 0
INVARIANTS  RoutesAreTrue
PROPERTIES SelectionIsKept
