\* One container; a user edits the pod, a call fails, the container or the daemon restarts.
CONSTANTS
    c1 = c1
    p1 = p1
    n1 = n1
    None = None
    Malformed = Malformed
    Containers = {c1}
    Pods = {p1}
    PodOf <- OnePod
    KubeletMode = FALSE
    Monitored = {p1}
    Accepted = {p1}
    Excluded = {}
    NameOf <- OneName
    Sources = {"cadvisor"}
    LabelSelector = FALSE
    Trends <- MCTrends
    IOThreshold <- MCThreshold
    BPSThreshold <- MCThreshold
    IOPSLimit <- MCIOPSLimit
    BPSLimit <- MCBPSLimit
    RemoveThreshold = 1
    DefaultIOPS = 5
    DefaultBPS = 9
    MaxIOPS = 7
    MaxBPS = 7
    Defaults <- MCDefaults
    RemoveDelay = 1
    CheckInterval = 1
    MonitorInterval = 1
    HistoryWindow = 0
    MaxEdits = 1
    MaxFailures = 1
    MaxEnds = 1
    MaxSwings = 1
    MaxCleanups = 1
    MaxRestarts = 1
    MaxDisturbances = 1
    Versions = {"v1"}
SPECIFICATION Spec
INVARIANT MemoryEnforced
CHECK_DEADLOCK FALSE
