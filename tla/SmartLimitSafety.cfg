\* A user edits the pod, calls fail, the daemon dies, the cleanup runs: any two of them, in any order.
CONSTANTS
    c1 = c1
    p1 = p1
    n1 = n1
    None = None
    Containers = {c1}
    Pods = {p1}
    Monitored = {p1}
    PodOf <- OnePod
    NameOf <- OneName
    Sources = {"cadvisor"}
    LabelSelector = FALSE
    Trends <- ThreeTrends
    IOThreshold <- MCThreshold
    BPSThreshold <- MCThreshold
    IOPSLimit <- MCIOPSLimit
    BPSLimit <- MCBPSLimit
    RemoveThreshold = 1
    DefaultIOPS = 5
    DefaultBPS = 9
    MaxIOPS = 7
    MaxBPS = 7
    RemoveDelay = 2
    CheckInterval = 1
    MonitorInterval = 1
    HistoryWindow = 0
    KubeletMode = FALSE
    UserKeys = {"read-iops"}
    UserValues = {0}
    MaxEdits = 2
    MaxFailures = 1
    MaxCrashes = 2
    MaxSwings = 2
    MaxCleanups = 1
    MaxDisturbances = 2
SPECIFICATION Spec
CONSTRAINT FewDisturbances
INVARIANTS TypeOK Tracked
PROPERTIES UserDataSurvives ExemptionSurvives KeepsPromise RemovalDelayed
