SPECIFICATION FairSpec
CONSTANTS
    c1 = c1
    c2 = c2
    h1 = h1
    Containers = {c1, c2}
    Announced = {c1}
    Handlers = {h1}
    None = None
    Requests = {"containers+trend", "limit-status", "one"}
    Judged <- MCJudged
    Restored <- MCRestored
INVARIANTS
    TypeOK
    NeverAsksHolding
    NilNeverFollowed
    SteadyHasTrend
PROPERTIES
    StatusesWhole
    EveryRequestAnswered
