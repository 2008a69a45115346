\* A node as kubeadm sets it up, cgroup v2 and the systemd driver.
CONSTANTS
    c1 = c1
    c2 = c2
    Containers = {c1, c2}
    PodGroup = pod
    None = None
    Unset = Unset
    Malformed = Malformed
    Cases <- SystemdNode
    Wishes <- MCWishes
    MaxResets = 1
    MaxDisturbances = 1
SPECIFICATION Spec
INVARIANT Found
CHECK_DEADLOCK FALSE
