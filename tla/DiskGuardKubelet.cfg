\* The shipped configuration: SmartLimitUseKubeletAPI, and a container that is hot all the time.
CONSTANTS
    c1 = c1
    p1 = p1
    n1 = n1
    None = None
    Malformed = Malformed
    Containers = {c1}
    Pods = {p1}
    PodOf <- OnePod
    KubeletMode = TRUE
    Monitored = {p1}
    Accepted = {p1}
    Excluded = {}
    NameOf <- OneName
    Sources = {"summary"}
    LabelSelector = FALSE
    Trends <- MCTrends
    IOThreshold <- MCThreshold
    BPSThreshold <- MCThreshold
    IOPSLimit <- MCIOPSLimit
    BPSLimit <- MCBPSLimit
    RemoveThreshold = 1
    DefaultIOPS = 5
    DefaultBPS = 9
    MaxIOPS = 7
    MaxBPS = 7
    Defaults <- MCDefaults
    RemoveDelay = 1
    CheckInterval = 1
    MonitorInterval = 1
    HistoryWindow = 0
    MaxEdits = 0
    MaxFailures = 0
    MaxEnds = 0
    MaxSwings = 0
    MaxCleanups = 0
    MaxRestarts = 0
    MaxDisturbances = 0
    Versions = {"v1"}
SPECIFICATION FairSpec
PROPERTY HotGetsLimited
CHECK_DEADLOCK FALSE
