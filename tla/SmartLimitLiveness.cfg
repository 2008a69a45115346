\* No failure and no restart: what must happen under any changes of load, whatever each round reads.
CONSTANTS
    c1 = c1
    p1 = p1
    n1 = n1
    None = None
    Containers = {c1}
    Pods = {p1}
    Monitored = {p1}
    PodOf <- OnePod
    NameOf <- OneName
    Sources = {"summary", "cadvisor"}
    LabelSelector = FALSE
    Trends <- LateTrends
    IOThreshold <- MCThreshold
    BPSThreshold <- MCThreshold
    IOPSLimit <- MCIOPSLimit
    BPSLimit <- MCBPSLimit
    RemoveThreshold = 1
    DefaultIOPS = 5
    DefaultBPS = 9
    MaxIOPS = 7
    MaxBPS = 7
    RemoveDelay = 1
    CheckInterval = 1
    MonitorInterval = 1
    HistoryWindow = 0
    KubeletMode = FALSE
    UserKeys = {"read-iops"}
    UserValues = {0, 8}
    MaxEdits = 0
    MaxFailures = 0
    MaxCrashes = 0
    MaxSwings = 2
    MaxCleanups = 0
    MaxDisturbances = 0
SPECIFICATION FairSpec
PROPERTIES HotGetsLimited CalmGetsReleased
