---- MODULE MCNode ----
(***************************************************************************)
(* Small instances of Node for TLC.                                        *)
(***************************************************************************)
EXTENDS Node

CONSTANTS c1, c2

OnKubelet == <<"kubelet", "kubepods", "pod1">>
AtRoot == <<"kubepods", "burstable", "pod1">>

Kind(runtime, version, driver, pod, binaries, forms, ownPort) ==
    [runtime |-> runtime, version |-> version, driver |-> driver, pod |-> pod,
     binaries |-> binaries, forms |-> forms, ownPort |-> ownPort]

Variables(smart, kubelet, interval, name) ==
    [ContainerRuntime |-> Unset, CgroupVersion |-> Unset, KubeConfigPath |-> Unset,
     SmartLimitEnabled |-> smart, SmartLimitUseKubeletAPI |-> kubelet,
     SmartLimitMonitorInterval |-> interval,
     NODE_NAME |-> name, KUBECONFIG |-> Unset, InCluster |-> TRUE]

Case(kind, variables, started) == [node |-> kind, env |-> variables, running |-> started]

\* Both runtimes, versions and drivers; a kernel that takes the first, the last or no
\* form of "max"; the image as it is built and one with a client of another runtime;
\* kubelet and API mode, with and without the node's name; an interval of 0; and what
\* is shipped, with smart limits disabled.
MCCases ==
    {Case(Kind("containerd", "v1", "cgroupfs", AtRoot, {}, {}, FALSE), Variables(TRUE, Malformed, Malformed, FALSE), {c1}),
     Case(Kind("containerd", "v2", "systemd", OnKubelet, {}, {3}, TRUE), Variables(TRUE, FALSE, 30, TRUE), {c1, c2}),
     Case(Kind("containerd", "v2", "cgroupfs", AtRoot, {"docker"}, {1}, TRUE), Variables(TRUE, Unset, Unset, TRUE), {c1}),
     Case(Kind("docker", "v2", "systemd", AtRoot, {}, {}, TRUE), Variables(TRUE, FALSE, 30, FALSE), {c1}),
     Case(Kind("docker", "v1", "cgroupfs", AtRoot, {}, {}, TRUE), Variables(TRUE, Unset, 0, TRUE), {c1}),
     Case(Kind("docker", "v1", "cgroupfs", AtRoot, {}, {}, TRUE), Variables(Unset, Unset, Unset, TRUE), {c1})}

\* A node as kubeadm sets it up: the slices of the pods are at the root.
SystemdNode ==
    {Case(Kind("containerd", "v2", "systemd", AtRoot, {}, {3}, TRUE), Variables(TRUE, FALSE, 30, TRUE), {c1})}

MCWishes == {[k \in Items |-> IF k \in {"read-iops", "write-bps"} THEN 1 ELSE 0]}
====
