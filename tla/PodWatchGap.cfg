\* The pod is edited between the list and the watch.
CONSTANTS
    p1 = p1
    c1 = c1
    c2 = c2
    None = None
    Malformed = Malformed
    Defaults <- MCDefaults
    Pods = {p1}
    Containers = {c1}
    PodOf <- OnePod
    Accepted = {p1}
    Excluded = {}
    Choices <- DefaultsOrLimited
    KubeletMode = FALSE
    MaxEdits = 1
    MaxRestarts = 0
    MaxRecreations = 0
    MaxFailures = 0
    MaxEnds = 0
SPECIFICATION Spec
INVARIANT AgreementSinceList
CHECK_DEADLOCK FALSE
