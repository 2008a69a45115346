\* One container whose load changes; the watch closes or the daemon dies once.
CONSTANTS
    c1 = c1
    p1 = p1
    n1 = n1
    None = None
    Malformed = Malformed
    Containers = {c1}
    Pods = {p1}
    PodOf <- OnePod
    KubeletMode = FALSE
    Monitored = {p1}
    Accepted = {p1}
    Excluded = {}
    NameOf <- OneName
    Sources = {"cadvisor"}
    LabelSelector = FALSE
    Trends <- MCTrends
    IOThreshold <- MCThreshold
    BPSThreshold <- MCThreshold
    IOPSLimit <- MCIOPSLimit
    BPSLimit <- MCBPSLimit
    RemoveThreshold = 1
    DefaultIOPS = 5
    DefaultBPS = 9
    MaxIOPS = 7
    MaxBPS = 7
    Defaults <- MCDefaults
    RemoveDelay = 1
    CheckInterval = 1
    MonitorInterval = 1
    HistoryWindow = 0
    MaxEdits = 0
    MaxFailures = 0
    MaxEnds = 1
    MaxSwings = 1
    MaxCleanups = 0
    MaxRestarts = 0
    MaxDisturbances = 1
    Versions = {"v1"}
SPECIFICATION FairSpec
PROPERTIES HotGetsThrottled CalmGetsLifted
CHECK_DEADLOCK FALSE
