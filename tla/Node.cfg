\* Two containers of one pod; the runtime goes down, a process is killed, --reset-all is run.
CONSTANTS
    c1 = c1
    c2 = c2
    Containers = {c1, c2}
    PodGroup = pod
    None = None
    Unset = Unset
    Malformed = Malformed
    Cases <- MCCases
    Wishes <- MCWishes
    MaxResets = 1
    MaxDisturbances = 1
SPECIFICATION FairSpec
INVARIANT TypeOK
PROPERTIES OnlyItsOwn NilMeansDone ResetAllLifts ComesUp ResetAllEnds
CHECK_DEADLOCK FALSE
