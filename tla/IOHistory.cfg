\* Two containers, of two names or of one, whose load changes and one of which
\* restarts; rounds find the summary, or only cAdvisor, or nothing.
CONSTANTS
    c1 = c1
    c2 = c2
    n1 = n1
    n2 = n2
    Names = {n1, n2}
    Containers = {c1, c2}
    Monitored = {c1, c2}
    LabelSelector = FALSE
    Windows = {2, 4, 8}
    HistoryWindow = 5
    RateWindow = 2
    Period = 3
    MaxPoints = 3
    Sources = {"summary", "cadvisor"}
    Loads = {0, 3}
    MaxTime = 6
    MaxChanges = 1
    MaxRestarts = 1
SYMMETRY Symmetry
SPECIFICATION Spec
INVARIANTS TypeOK MeanWithinLoad RateWithinLoad ExpiredDropped
PROPERTY FreshKept
CHECK_DEADLOCK FALSE
