\* Two containers in a pod that is edited, recreated, restarted in part; a call or a
\* write fails; the watch closes, the daemon dies, or reset-all is run.
CONSTANTS
    p1 = p1
    c1 = c1
    c2 = c2
    None = None
    Malformed = Malformed
    Defaults <- MCDefaults
    Pods = {p1}
    Containers = {c1, c2}
    PodOf <- OnePod
    Accepted = {p1}
    Excluded = {}
    Choices <- LimitedOrLifted
    KubeletMode = FALSE
    MaxEdits = 1
    MaxRestarts = 1
    MaxRecreations = 1
    MaxFailures = 1
    MaxEnds = 1
SPECIFICATION FairSpec
INVARIANTS TypeOK Agreement
PROPERTY CatchesUp
CHECK_DEADLOCK FALSE
