\* Rounds read the summary, which names containers; one restart.
CONSTANTS
    c1 = c1
    p1 = p1
    n1 = n1
    None = None
    Containers = {c1}
    Pods = {p1}
    Monitored = {p1}
    PodOf <- OnePod
    NameOf <- OneName
    Sources = {"summary"}
    LabelSelector = FALSE
    Trends <- TwoTrends
    IOThreshold <- MCThreshold
    BPSThreshold <- MCThreshold
    IOPSLimit <- MCIOPSLimit
    BPSLimit <- MCBPSLimit
    RemoveThreshold = 1
    DefaultIOPS = 5
    DefaultBPS = 9
    MaxIOPS = 7
    MaxBPS = 7
    RemoveDelay = 1
    CheckInterval = 1
    MonitorInterval = 1
    HistoryWindow = 0
    KubeletMode = FALSE
    UserKeys = {"read-iops"}
    UserValues = {0, 8}
    MaxEdits = 0
    MaxFailures = 0
    MaxCrashes = 1
    MaxSwings = 1
    MaxCleanups = 0
    MaxDisturbances = 1
SPECIFICATION Spec
CONSTRAINT FewDisturbances
INVARIANT Tracked
