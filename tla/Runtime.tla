---- MODULE Runtime ----
(***************************************************************************)
(* Where the container runtimes look for the cgroup of a container         *)
(* (pkg/runtime: getCgroupPath of docker and of containerd), and where the *)
(* kubelet, runc and systemd put it.  A path is the sequence of the        *)
(* directories below /sys/fs/cgroup.                                       *)
(***************************************************************************)
EXTENDS Integers, Sequences

\* A directory kubepods is dir <<"kubepods">>, and kubelet-kubepods.slice is
\* slice <<"kubelet", "kubepods">>.
Dir(name) == [kind |-> "dir", name |-> <<name>>]
Slice(words) == [kind |-> "slice", name |-> words]
Scope(service, id) == [kind |-> "scope", name |-> <<service, id>>]

\* cgroup v1 has a hierarchy for each subsystem.
Subsystem(version) == IF version = "v1" THEN <<Dir("blkio")>> ELSE <<>>

(***************************************************************************)
(* The node: pod is the sequence of names that lead to the cgroup of the   *)
(* pod, as <<"kubepods", "burstable", "pod1">>.  The cgroup driver makes   *)
(* directories of them, or nested slices.                                  *)
(***************************************************************************)
PodLocation(node) ==
    Subsystem(node.version) \o
    (IF node.driver = "systemd" THEN [i \in DOMAIN node.pod |-> Slice(SubSeq(node.pod, 1, i))]
     ELSE [i \in DOMAIN node.pod |-> Dir(node.pod[i])])

Service(runtime) == IF runtime = "docker" THEN "docker" ELSE "cri-containerd"

Location(node, c) ==
    Append(PodLocation(node), IF node.driver = "systemd" THEN Scope(Service(node.runtime), c) ELSE Dir(c))

\* What the runtime says of the cgroup of c: containerd the path of the container, or
\* the three parts slice:service:id; docker the parent, with no slash before a slice.
Reported(node, c) ==
    IF node.runtime = "docker"
    THEN [form |-> "parent", absolute |-> node.driver = "cgroupfs",
          names |-> IF node.driver = "systemd" THEN <<Slice(node.pod)>>
                    ELSE [i \in DOMAIN node.pod |-> Dir(node.pod[i])]]
    ELSE IF node.driver = "systemd"
    THEN [form |-> "systemd", absolute |-> FALSE, names |-> <<node.pod, Service(node.runtime), c>>]
    ELSE [form |-> "path", absolute |-> TRUE,
          names |-> Append([i \in DOMAIN node.pod |-> Dir(node.pod[i])], Dir(c))]

(***************************************************************************)
(* The code.                                                               *)
(***************************************************************************)

\* The path is put after "/sys/fs/cgroup/blkio", or after "/sys/fs/cgroup", as it is:
\* with no slash in front its first name is glued to theirs.
Glued == <<[kind |-> "glued", name |-> <<>>]>>
Below(version, absolute, names) == IF absolute THEN Subsystem(version) \o names ELSE Glued

\* Faulty: stops at the slice of the pod.
convertSystemdCgroupPath_NoScope(parts) ==
    [i \in DOMAIN parts[1] |-> Slice([SubSeq(parts[1], 1, i) EXCEPT ![1] = "kubelet"])]

\* The slices from the root down to the last one, whose names begin with kubelet
\* whatever the first word of the slice is, and the scope.
convertSystemdCgroupPath(parts) ==
    Append([i \in DOMAIN parts[1] |-> Slice([SubSeq(parts[1], 1, i) EXCEPT ![1] = "kubelet"])],
           Scope(parts[2], parts[3]))

isSystemdCgroupPath(reported) == reported.form = "systemd"

ContainerdPath(version, reported) ==
    IF version # "v1" /\ isSystemdCgroupPath(reported) THEN convertSystemdCgroupPath(reported.names)
    ELSE IF version # "v1" /\ reported.form = "path" THEN reported.names
    ELSE Below(version, reported.absolute, reported.names)

DockerPath(version, reported, c) ==
    IF reported.names # <<>> THEN Below(version, reported.absolute, Append(reported.names, Dir(c)))
    ELSE Below(version, TRUE, <<Dir("docker"), Dir(c)>>)

\* runtime and version are those of the configuration, reported is CgroupParent.
getCgroupPath(runtime, version, reported, c) ==
    IF runtime = "docker" THEN DockerPath(version, reported, c) ELSE ContainerdPath(version, reported)

(***************************************************************************)
(* pkg/detector: what the socket answers, then what is installed.          *)
(***************************************************************************)

\* Faulty: takes docker for granted.
DetectRuntime_Docker(node, up) == IF up THEN node.runtime ELSE "docker"

DetectRuntime(node, up) ==
    IF up THEN node.runtime
    ELSE IF "docker" \in node.binaries THEN "docker"
    ELSE IF "ctr" \in node.binaries THEN "containerd"
    ELSE "none"

DetectCgroupVersion(node) == node.version
====
