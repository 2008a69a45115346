---- MODULE NodeProofs ----
(***************************************************************************)
(* Proofs about the paths of the container runtimes and about the calls of *)
(* the daemon and of --reset-all, for all nodes, environments and limits.  *)
(***************************************************************************)
EXTENDS Node, SequenceTheorems, TLAPS

(***************************************************************************)
(* Paths.                                                                  *)
(***************************************************************************)
Word == STRING \cup {"blkio", "docker", "cri-containerd", "kubelet"} \cup Containers
Component == [kind: {"dir", "slice", "scope", "glued"}, name: Seq(Word)]
EndOf(path) == path[Len(path)]

LEMMA ComponentType ==
    /\ \A w \in Word : Dir(w) \in Component
    /\ \A words \in Seq(Word) : Slice(words) \in Component
    /\ \A s, w \in Word : Scope(s, w) \in Component
    /\ Glued \in Seq(Component)
    /\ \A v : Subsystem(v) \in Seq(Component)
<1>1. "blkio" \in Word
  BY DEF Word
<1>2. <<>> \in Seq(Word) /\ \A s, w \in Word : <<w>> \in Seq(Word) /\ <<s, w>> \in Seq(Word)
  <2>1. <<>> \in Seq(Word)
    BY EmptySeq
  <2>2. \A w \in Word : <<w>> \in Seq(Word)
    OBVIOUS
  <2>3. \A s, w \in Word : <<s, w>> \in Seq(Word)
    OBVIOUS
  <2> QED BY <2>1, <2>2, <2>3
<1>3. \A w \in Word : Dir(w) \in Component
  BY <1>1, <1>2 DEF Dir, Component
<1>4. \A words \in Seq(Word) : Slice(words) \in Component
  BY <1>1 DEF Slice, Component
<1>5. \A s, w \in Word : Scope(s, w) \in Component
  BY <1>1, <1>2 DEF Scope, Component
<1>6. \A e \in Component : <<e>> \in Seq(Component)
  OBVIOUS
<1>7. [kind |-> "glued", name |-> <<>>] \in Component
  BY <1>1, <1>2 DEF Component
<1>8. \A v : Subsystem(v) \in Seq(Component)
  BY <1>1, <1>3, <1>6 DEF Subsystem
<1> QED BY <1>3, <1>4, <1>5, <1>6, <1>7, <1>8 DEF Glued

LEMMA EndOfAppend ==
    ASSUME NEW path \in Seq(Component), NEW e \in Component
    PROVE  Append(path, e) \in Seq(Component) /\ EndOf(Append(path, e)) = e
BY AppendProperties DEF EndOf

LEMMA EndOfConcat ==
    ASSUME NEW p \in Seq(Component), NEW q \in Seq(Component), q # <<>>
    PROVE  p \o q \in Seq(Component) /\ EndOf(p \o q) = EndOf(q)
<1>1. Len(q) \in Nat \ {0} /\ Len(p) \in Nat
  BY EmptySeq, LenProperties
<1>2. /\ p \o q \in Seq(Component) /\ Len(p \o q) = Len(p) + Len(q)
      /\ \A i \in 1 .. Len(p) + Len(q) :
           (p \o q)[i] = IF i <= Len(p) THEN p[i] ELSE q[i - Len(p)]
  BY ConcatProperties
<1> QED BY <1>1, <1>2 DEF EndOf

\* The directories of a pod, as both drivers make them.
LEMMA MappedPod ==
    ASSUME NEW pod \in Seq(Word) \ {<<>>}
    PROVE  /\ [i \in DOMAIN pod |-> Dir(pod[i])] \in Seq(Component) \ {<<>>}
           /\ EndOf([i \in DOMAIN pod |-> Dir(pod[i])]) = Dir(pod[Len(pod)])
           /\ [i \in DOMAIN pod |-> Slice(SubSeq(pod, 1, i))] \in Seq(Component) \ {<<>>}
           /\ EndOf([i \in DOMAIN pod |-> Slice(SubSeq(pod, 1, i))]).kind = "slice"
<1> DEFINE dirs == [i \in DOMAIN pod |-> Dir(pod[i])]
           slices == [i \in DOMAIN pod |-> Slice(SubSeq(pod, 1, i))]
<1>1. Len(pod) \in Nat \ {0} /\ DOMAIN pod = 1 .. Len(pod)
  BY EmptySeq, LenProperties
<1>2. \A i \in 1 .. Len(pod) : pod[i] \in Word /\ SubSeq(pod, 1, i) \in Seq(Word)
  BY <1>1, ElementOfSeq, SubSeqProperties
<1>3. dirs \in [1 .. Len(pod) -> Component] /\ slices \in [1 .. Len(pod) -> Component]
  BY <1>1, <1>2, ComponentType
<1>4. /\ dirs \in Seq(Component) /\ slices \in Seq(Component)
      /\ Len(dirs) = Len(pod) /\ Len(slices) = Len(pod)
  BY <1>1, <1>3, IsASeq, LenProperties
<1>5. dirs # <<>> /\ slices # <<>>
  BY <1>1, <1>4, EmptySeq
<1> QED BY <1>1, <1>4, <1>5 DEF EndOf, Slice

Fitting(n) == n \in Nodes /\ \A i \in DOMAIN n.pod : n.pod[i] \notin Containers

\* The last component of a path names the container, or glues it to nothing that exists.
Names(e, c) == e = Dir(c) \/ \E s \in Word : e = Scope(s, c)

LEMMA NamesOne ==
    /\ \A e, c, d : Names(e, c) /\ Names(e, d) => c = d
    /\ \A e, c : Names(e, c) => e.kind \in {"dir", "scope"}
<1>1. \A c, d : Dir(c) = Dir(d) => c = d
  <2> SUFFICES ASSUME NEW c, NEW d, Dir(c) = Dir(d) PROVE c = d
    OBVIOUS
  <2>1. Dir(c).name[1] = c /\ Dir(d).name[1] = d
    BY DEF Dir
  <2> QED BY <2>1
<1>2. \A s, t, c, d : Scope(s, c) = Scope(t, d) => c = d
  <2> SUFFICES ASSUME NEW s, NEW t, NEW c, NEW d, Scope(s, c) = Scope(t, d) PROVE c = d
    OBVIOUS
  <2>1. Scope(s, c).name[2] = c /\ Scope(t, d).name[2] = d
    BY DEF Scope
  <2> QED BY <2>1
<1>3. \A c, d, s : Dir(c).kind = "dir" /\ Scope(s, d).kind = "scope"
  BY DEF Dir, Scope
<1> QED BY <1>1, <1>2, <1>3 DEF Names

LEMMA PodWords ==
    ASSUME NEW n, Fitting(n)
    PROVE  n.pod \in Seq(Word) \ {<<>>} /\ n.pod[Len(n.pod)] \in Word \ Containers
<1>1. n.pod \in Seq(STRING) \ {<<>>}
  BY DEF Fitting, Nodes
<1>2. STRING \subseteq Word
  BY DEF Word
<1>3. n.pod \in Seq(Word)
  BY <1>1, <1>2, SeqMonotonic
<1>4. Len(n.pod) \in DOMAIN n.pod
  BY <1>1, EmptySeq, LenProperties
<1>5. n.pod[Len(n.pod)] \in Word
  BY <1>3, <1>4, ElementOfSeq, LenProperties
<1> QED BY <1>1, <1>3, <1>4, <1>5 DEF Fitting

LEMMA EndOfPod ==
    ASSUME NEW n, Fitting(n)
    PROVE  /\ PodLocation(n) \in Seq(Component) \ {<<>>}
           /\ EndOf(PodLocation(n)).kind # "glued"
           /\ \A c \in Containers : ~Names(EndOf(PodLocation(n)), c)
<1>1. n.pod \in Seq(Word) \ {<<>>} /\ n.pod[Len(n.pod)] \in Word \ Containers
  BY PodWords
<1> DEFINE dirs == [i \in DOMAIN n.pod |-> Dir(n.pod[i])]
           slices == [i \in DOMAIN n.pod |-> Slice(SubSeq(n.pod, 1, i))]
           below == IF n.driver = "systemd" THEN slices ELSE dirs
<1>2. /\ below \in Seq(Component) \ {<<>>}
      /\ EndOf(below).kind = "slice" \/ EndOf(below) = Dir(n.pod[Len(n.pod)])
  BY <1>1, MappedPod
<1>3. \A c \in Containers : ~Names(EndOf(below), c)
  <2>1. Names(Dir(n.pod[Len(n.pod)]), n.pod[Len(n.pod)])
    BY DEF Names
  <2> QED BY <1>1, <1>2, <2>1, NamesOne
<1> HIDE DEF below
<1>4. /\ Subsystem(n.version) \o below \in Seq(Component)
      /\ EndOf(Subsystem(n.version) \o below) = EndOf(below)
  BY <1>2, ComponentType, EndOfConcat
<1>5. Subsystem(n.version) \o below # <<>>
  BY <1>2, ComponentType, ConcatEqualIffEmpty, ConcatProperties, EmptySeq, LenProperties
<1>6. EndOf(below).kind # "glued"
  BY <1>2 DEF Dir
<1> QED BY <1>3, <1>4, <1>5, <1>6 DEF PodLocation, below

LEMMA EndOfLocation ==
    ASSUME NEW n, Fitting(n), NEW c \in Containers
    PROVE  Names(EndOf(Location(n, c)), c)
<1>1. c \in Word /\ Service(n.runtime) \in Word
  BY DEF Word, Service
<1>2. Dir(c) \in Component /\ Scope(Service(n.runtime), c) \in Component
  BY <1>1, ComponentType
<1>3. PodLocation(n) \in Seq(Component)
  BY EndOfPod
<1>4. EndOf(Location(n, c)) \in {Dir(c), Scope(Service(n.runtime), c)}
  BY <1>2, <1>3, EndOfAppend DEF Location
<1> QED BY <1>1, <1>4 DEF Names

\* The path that the code makes of what the node's runtime reports of c.
PathOf(n, v, c) == getCgroupPath(n.runtime, v, Reported(n, c), c)

LEMMA EndOfPath ==
    ASSUME NEW n, Fitting(n), NEW v, NEW c \in Containers
    PROVE  Names(EndOf(PathOf(n, v, c)), c) \/ EndOf(PathOf(n, v, c)).kind = "glued"
<1> DEFINE e == EndOf(PathOf(n, v, c))
           dirs == [i \in DOMAIN n.pod |-> Dir(n.pod[i])]
<1>1. n.pod \in Seq(Word) \ {<<>>}
  BY PodWords
<1>2. c \in Word /\ Dir(c) \in Component
  BY ComponentType DEF Word
<1>3. dirs \in Seq(Component)
  BY <1>1, MappedPod
<1>4. \A p \in Seq(Component), abs \in BOOLEAN :
        LET q == Below(v, abs, Append(p, Dir(c))) IN
        EndOf(q) = Dir(c) \/ EndOf(q).kind = "glued"
  <2> SUFFICES ASSUME NEW p \in Seq(Component), NEW abs \in BOOLEAN
               PROVE  LET q == Below(v, abs, Append(p, Dir(c))) IN
                      EndOf(q) = Dir(c) \/ EndOf(q).kind = "glued"
    OBVIOUS
  <2>1. /\ Append(p, Dir(c)) \in Seq(Component) \ {<<>>}
        /\ EndOf(Append(p, Dir(c))) = Dir(c)
    BY <1>2, EndOfAppend, AppendProperties
  <2>2. EndOf(Subsystem(v) \o Append(p, Dir(c))) = Dir(c)
    BY <2>1, ComponentType, EndOfConcat
  <2>3. EndOf(Glued).kind = "glued"
    BY DEF EndOf, Glued
  <2> QED BY <2>2, <2>3 DEF Below
<1>5. CASE n.runtime = "docker"
  <2>1. Reported(n, c) = [form |-> "parent", absolute |-> n.driver = "cgroupfs",
          names |-> IF n.driver = "systemd" THEN <<Slice(n.pod)>> ELSE dirs]
    BY <1>5 DEF Reported
  <2>2. <<Slice(n.pod)>> \in Seq(Component) \ {<<>>} /\ dirs # <<>>
    BY <1>1, ComponentType, MappedPod
  <2>3. Reported(n, c).names \in Seq(Component) \ {<<>>} /\ Reported(n, c).absolute \in BOOLEAN
    BY <1>3, <2>1, <2>2
  <2>4. PathOf(n, v, c) = Below(v, Reported(n, c).absolute, Append(Reported(n, c).names, Dir(c)))
    BY <1>5, <2>3 DEF PathOf, getCgroupPath, DockerPath
  <2> QED BY <1>4, <2>3, <2>4 DEF Names
<1>6. CASE n.runtime # "docker" /\ n.driver = "systemd"
  <2> DEFINE r == [form |-> "systemd", absolute |-> FALSE, names |-> <<n.pod, "cri-containerd", c>>]
             slices == [i \in DOMAIN n.pod |-> Slice([SubSeq(n.pod, 1, i) EXCEPT ![1] = "kubelet"])]
  <2>1. Reported(n, c) = r
    BY <1>6 DEF Reported, Service
  <2>2. PathOf(n, v, c) = IF v # "v1" THEN Append(slices, Scope("cri-containerd", c)) ELSE Glued
    BY <1>6, <2>1 DEF PathOf, getCgroupPath, ContainerdPath, isSystemdCgroupPath, convertSystemdCgroupPath, Below
  <2>3. slices \in Seq(Component)
    <3>1. Len(n.pod) \in Nat /\ DOMAIN n.pod = 1 .. Len(n.pod)
      BY <1>1, LenProperties
    <3>2. \A i \in 1 .. Len(n.pod) : SubSeq(n.pod, 1, i) \in Seq(Word) /\ Len(SubSeq(n.pod, 1, i)) = i
      BY <1>1, <3>1, SubSeqProperties
    <3>3. \A i \in 1 .. Len(n.pod) : [SubSeq(n.pod, 1, i) EXCEPT ![1] = "kubelet"] \in Seq(Word)
      BY <3>2, ExceptSeq DEF Word
    <3>4. slices \in [1 .. Len(n.pod) -> Component]
      BY <3>1, <3>3, ComponentType
    <3> QED BY <3>1, <3>4, IsASeq
  <2>4. "cri-containerd" \in Word
    BY DEF Word
  <2>5. Scope("cri-containerd", c) \in Component
    BY <1>2, <2>4, ComponentType
  <2> HIDE DEF slices
  <2>6. EndOf(Append(slices, Scope("cri-containerd", c))) = Scope("cri-containerd", c)
    BY <2>3, <2>5, EndOfAppend
  <2>7. EndOf(Glued).kind = "glued"
    BY DEF EndOf, Glued
  <2> QED BY <2>2, <2>4, <2>6, <2>7 DEF Names
<1>7. CASE n.runtime # "docker" /\ n.driver # "systemd"
  <2>1. Reported(n, c) = [form |-> "path", absolute |-> TRUE, names |-> Append(dirs, Dir(c))]
    BY <1>7 DEF Reported
  <2>2. PathOf(n, v, c) = IF v # "v1" THEN Append(dirs, Dir(c)) ELSE Below(v, TRUE, Append(dirs, Dir(c)))
    BY <1>7, <2>1 DEF PathOf, getCgroupPath, ContainerdPath, isSystemdCgroupPath
  <2> HIDE DEF dirs
  <2>3. EndOf(Append(dirs, Dir(c))) = Dir(c)
    BY <1>2, <1>3, EndOfAppend
  <2> QED BY <1>3, <1>4, <2>2, <2>3 DEF Names
<1> QED BY <1>5, <1>6, <1>7

\* Whatever the runtime, the version and the driver, the path of c leads neither to
\* the cgroup of another container nor to that of the pod (containerd.go:120-194,
\* docker.go:68-92).
THEOREM PathsApart ==
    ASSUME NEW n, Fitting(n), NEW v, NEW c \in Containers
    PROVE  /\ \A d \in Containers : PathOf(n, v, c) = Location(n, d) => d = c
           /\ PathOf(n, v, c) # PodLocation(n)
<1>1. Names(EndOf(PathOf(n, v, c)), c) \/ EndOf(PathOf(n, v, c)).kind = "glued"
  BY EndOfPath
<1>2. \A d \in Containers : Names(EndOf(Location(n, d)), d)
  BY EndOfLocation
<1>3. ~Names(EndOf(PodLocation(n)), c)
  BY EndOfPod
<1>4. EndOf(PodLocation(n)).kind # "glued"
  BY EndOfPod
<1> QED BY <1>1, <1>2, <1>3, <1>4, NamesOne

\* With the cgroupfs driver the path is where the container is; so it is with the
\* systemd driver, containerd and cgroup v2, where the kubelet runs in a slice of
\* its own name (containerd.go:139-194).
THEOREM PathFound ==
    ASSUME NEW n, Fitting(n), NEW c \in Containers,
           \/ n.driver = "cgroupfs"
           \/ n.runtime = "containerd" /\ n.version = "v2" /\ n.pod[1] = "kubelet"
    PROVE  PathOf(n, n.version, c) = Location(n, c)
<1> DEFINE dirs == [i \in DOMAIN n.pod |-> Dir(n.pod[i])]
<1>1. n.pod \in Seq(Word) \ {<<>>}
  BY PodWords
<1>2. c \in Word /\ Dir(c) \in Component
  BY ComponentType DEF Word
<1>3. dirs \in Seq(Component) \ {<<>>}
  BY <1>1, MappedPod
<1>4. n.runtime \in {"docker", "containerd"} /\ n.version \in {"v1", "v2"} /\ n.driver \in {"cgroupfs", "systemd"}
  <2>1. n \in Nodes
    BY DEF Fitting
  <2> QED BY <2>1 DEF Nodes
<1>5. CASE n.driver = "cgroupfs"
  <2>1. Location(n, c) = Append(Subsystem(n.version) \o dirs, Dir(c))
    BY <1>5 DEF Location, PodLocation
  <2>7. n.runtime = "docker" =>
          Reported(n, c).absolute = TRUE /\ Reported(n, c).names = dirs
    BY <1>5 DEF Reported
  <2>8. n.runtime = "containerd" =>
          /\ Reported(n, c).form = "path" /\ Reported(n, c).absolute = TRUE
          /\ Reported(n, c).names = Append(dirs, Dir(c))
    BY <1>5 DEF Reported
  <2> HIDE DEF dirs
  <2>2. Append(Subsystem(n.version) \o dirs, Dir(c)) = Subsystem(n.version) \o Append(dirs, Dir(c))
    <3>1. Subsystem(n.version) \in Seq(Component) /\ Subsystem(n.version) \o dirs \in Seq(Component)
      BY <1>3, ComponentType, ConcatProperties
    <3>2. <<Dir(c)>> \in Seq(Component)
      BY <1>2
    <3>3. Append(Subsystem(n.version) \o dirs, Dir(c)) = (Subsystem(n.version) \o dirs) \o <<Dir(c)>>
      BY <1>2, <3>1, AppendIsConcat
    <3>4. Append(dirs, Dir(c)) = dirs \o <<Dir(c)>>
      BY <1>2, <1>3, AppendIsConcat
    <3> QED BY <1>3, <3>1, <3>2, <3>3, <3>4, ConcatAssociative
  <2>3. n.version # "v1" => Subsystem(n.version) \o Append(dirs, Dir(c)) = Append(dirs, Dir(c))
    BY <1>2, <1>3, ConcatEmptySeq, AppendProperties DEF Subsystem
  <2>4. Below(n.version, TRUE, Append(dirs, Dir(c))) = Subsystem(n.version) \o Append(dirs, Dir(c))
    BY DEF Below
  <2>5. CASE n.runtime = "docker"
    BY <1>3, <2>1, <2>2, <2>4, <2>5, <2>7 DEF PathOf, getCgroupPath, DockerPath
  <2>6. CASE n.runtime = "containerd"
    BY <2>1, <2>2, <2>3, <2>4, <2>6, <2>8 DEF PathOf, getCgroupPath, ContainerdPath, isSystemdCgroupPath
  <2> QED BY <1>4, <2>5, <2>6
<1>6. CASE n.driver = "systemd" /\ n.runtime = "containerd" /\ n.version = "v2" /\ n.pod[1] = "kubelet"
  <2> DEFINE slices == [i \in DOMAIN n.pod |-> Slice(SubSeq(n.pod, 1, i))]
             converted == [i \in DOMAIN n.pod |-> Slice([SubSeq(n.pod, 1, i) EXCEPT ![1] = "kubelet"])]
  <2>1. Reported(n, c) = [form |-> "systemd", absolute |-> FALSE, names |-> <<n.pod, "cri-containerd", c>>]
    BY <1>6 DEF Reported, Service
  <2>2. PathOf(n, n.version, c) = Append(converted, Scope("cri-containerd", c))
    BY <1>6, <2>1 DEF PathOf, getCgroupPath, ContainerdPath, isSystemdCgroupPath, convertSystemdCgroupPath
  <2>3. \A i \in DOMAIN n.pod : [SubSeq(n.pod, 1, i) EXCEPT ![1] = "kubelet"] = SubSeq(n.pod, 1, i)
    <3> SUFFICES ASSUME NEW i \in DOMAIN n.pod
                 PROVE  [SubSeq(n.pod, 1, i) EXCEPT ![1] = "kubelet"] = SubSeq(n.pod, 1, i)
      OBVIOUS
    <3>1. Len(n.pod) \in Nat /\ i \in 1 .. Len(n.pod)
      BY <1>1, LenProperties
    <3>2. SubSeq(n.pod, 1, i) \in Seq(Word) /\ Len(SubSeq(n.pod, 1, i)) = i /\ SubSeq(n.pod, 1, i)[1] = n.pod[1]
      BY <1>1, <3>1, SubSeqProperties
    <3>3. SubSeq(n.pod, 1, i) \in [1 .. i -> Word]
      BY <3>2, LenProperties
    <3> QED BY <1>6, <3>1, <3>2, <3>3
  <2>4. converted = slices
    BY <2>3
  <2>5. slices \in Seq(Component)
    BY <1>1, MappedPod
  <2>6. Location(n, c) = Append(Subsystem(n.version) \o slices, Scope("cri-containerd", c))
    BY <1>6 DEF Location, PodLocation, Service
  <2> HIDE DEF slices, converted
  <2>7. Subsystem(n.version) \o slices = slices
    BY <1>6, <2>5, ConcatEmptySeq DEF Subsystem
  <2> QED BY <2>2, <2>4, <2>6, <2>7
<1> QED BY <1>4, <1>5, <1>6

(***************************************************************************)
(* Types.                                                                  *)
(***************************************************************************)
LEMMA ConfigurationType ==
    ASSUME NEW e \in Environments
    PROVE  GetDefaultConfig \in Config /\ LoadFromEnv(GetDefaultConfig, e) \in Config
<1> DEFINE d == GetDefaultConfig
           l == LoadFromEnv(d, e)
<1>1. d \in Config
  BY DEF GetDefaultConfig, Config
<1>2. DOMAIN d = {"ContainerRuntime", "CgroupVersion", "KubeConfigPath", "SmartLimitEnabled",
                  "SmartLimitUseKubeletAPI", "SmartLimitMonitorInterval"}
  BY DEF GetDefaultConfig
<1>3. l = [s \in DOMAIN d |-> IF e[s] \in {Unset, Malformed} THEN d[s] ELSE e[s]]
  BY DEF LoadFromEnv
<1> HIDE DEF d, l
<1>4. l.ContainerRuntime \in {"auto", "docker", "containerd", "none"}
  BY <1>1, <1>2, <1>3 DEF Environments, Config
<1>5. l.CgroupVersion \in {"auto", "v1", "v2"}
  BY <1>1, <1>2, <1>3 DEF Environments, Config
<1>6. l.KubeConfigPath \in {Unset, "valid", "broken"}
  BY <1>1, <1>2, <1>3 DEF Environments, Config
<1>7. l.SmartLimitEnabled \in BOOLEAN /\ l.SmartLimitUseKubeletAPI \in BOOLEAN
  BY <1>1, <1>2, <1>3 DEF Environments, Config
<1>8. l.SmartLimitMonitorInterval \in Int
  BY <1>1, <1>2, <1>3 DEF Environments, Config
<1>9. l \in Config
  BY <1>2, <1>3, <1>4, <1>5, <1>6, <1>7, <1>8 DEF Config
<1> QED BY <1>1, <1>9 DEF d, l

LEMMA WrittenType ==
    ASSUME NEW f \in Files, NEW want \in Files, NEW n \in Nat, NEW v
    PROVE  /\ SetLimits("v2", f, want) \in Files
           /\ [k \in Items |-> IF Position[k] = n THEN want[k] ELSE f[k]] \in Files
<1>1. Positive(want) \in Files
  BY DEF Positive, Files
<1> QED BY <1>1 DEF SetLimits, AfterLine, Unlimited, Files

\* The node and the environment are among those that are given.
LEMMA Given ==
    ASSUME TypeOK
    PROVE  node \in Nodes /\ env \in Environments /\ Fitting(node)
BY CasesOK DEF TypeOK, Fitting

LEMMA InitTypeOK == Init => TypeOK
<1> SUFFICES ASSUME Init PROVE TypeOK
  OBVIOUS
<1>1. running \subseteq Containers /\ \E k \in Cases : node = k.node /\ env = k.env
  BY CasesOK DEF Init
<1>2. conf \in [Programs -> Config]
  <2>1. GetDefaultConfig \in Config
    BY DEF GetDefaultConfig, Config
  <2> QED BY <2>1 DEF Init
<1>3. files \in [Groups -> Files]
  BY DEF Init, Files, Unlimited
<1> QED BY <1>1, <1>2, <1>3 DEF Init, TypeOK, Programs

\* The start and the end of a process.
LEMMA ProcessTypeOK ==
    ASSUME TypeOK, NEW x \in Programs,
           \/ StartDaemon \/ StartResetAll \/ Dies(x) \/ Listen(x) \/ ListenFails(x)
           \/ TickerPanics \/ RunReturns \/ ListPodsFails \/ ListPodsPanics \/ Done
    PROVE  TypeOK'
<1>1. ASSUME NEW y \in Programs, Start(y), UNCHANGED history PROVE TypeOK'
  <2>1. LoadFromEnv(GetDefaultConfig, env) \in Config
    BY Given, ConfigurationType
  <2>2. conf' \in [Programs -> Config]
    BY <1>1, <2>1 DEF Start, TypeOK
  <2>3. http' \in [Programs -> BOOLEAN]
    BY <1>1, Given DEF Start, TypeOK, Nodes
  <2>4. at' = [at EXCEPT ![y] = "detect"] /\ at[y] = "down"
    BY <1>1 DEF Start, Go
  <2> QED BY <1>1, <2>2, <2>3, <2>4 DEF Start, TypeOK, given, history
<1>2. ASSUME NEW y \in Programs, NEW how \in {"success", "failure", "panic", "killed"}, End(y, how)
      PROVE  TypeOK'
  <2>1. at' = [at EXCEPT ![y] = "down"] /\ call' = [call EXCEPT ![y] = None]
    BY <1>2 DEF End, Go
  <2>2. todo' \subseteq Containers /\ listed' \subseteq Containers
        /\ failed' \subseteq Containers /\ touched' \subseteq Containers
    BY <1>2 DEF End, TypeOK, history
  <2> QED BY <1>2, <2>1, <2>2 DEF End, TypeOK, given
<1>3. CASE Listen(x)
  BY <1>3 DEF Listen, TypeOK, given, history
<1> QED BY <1>1, <1>2, <1>3 DEF StartDaemon, StartResetAll, Dies, ListenFails, Fatal,
         TickerPanics, RunReturns, ListPodsFails, ListPodsPanics, Done, Programs

LEMMA ServiceTypeOK ==
    ASSUME TypeOK, NEW x \in Programs, NewKubeDiskGuardService(x)
    PROVE  TypeOK'
<1>1. CASE Detect(x)
  <2>1. DetectRuntime(node, up) \in {"docker", "containerd", "none"} /\ DetectCgroupVersion(node) \in {"v1", "v2"}
    BY Given DEF DetectRuntime, DetectCgroupVersion, Nodes
  <2>2. conf' \in [Programs -> Config]
    <3> DEFINE r == IF conf[x].ContainerRuntime = "auto" THEN DetectRuntime(node, up) ELSE conf[x].ContainerRuntime
               v == IF conf[x].CgroupVersion = "auto" THEN DetectCgroupVersion(node) ELSE conf[x].CgroupVersion
    <3>1. conf \in [Programs -> Config] /\ conf[x] \in Config
      BY DEF TypeOK
    <3>2. r \in {"auto", "docker", "containerd", "none"} /\ v \in {"auto", "v1", "v2"}
      BY <2>1, <3>1 DEF Config
    <3>3. conf' = [conf EXCEPT ![x].ContainerRuntime = r, ![x].CgroupVersion = v]
      BY <1>1, <3>1 DEF Detect, Config
    <3> HIDE DEF r, v
    <3> DEFINE once == [conf EXCEPT ![x].ContainerRuntime = r]
    <3>4. once \in [Programs -> Config]
      BY <3>1, <3>2 DEF Config
    <3>5. conf' = [once EXCEPT ![x].CgroupVersion = v]
      BY <3>3
    <3> HIDE DEF once
    <3> QED BY <3>2, <3>4, <3>5 DEF Config
  <2> QED BY <1>1, <2>2 DEF Detect, Go, TypeOK, given, history
<1>2. CASE NewRuntime(x)
  BY <1>2 DEF NewRuntime, Go, TypeOK, given, history
<1>3. CASE NewClient(x)
  BY <1>3 DEF NewClient, Go, TypeOK, given, history, Programs
<1>4. CASE NewRuntimeFails(x) \/ NewClientFails(x)
  <2>1. End(x, "failure")
    BY <1>4 DEF NewRuntimeFails, NewClientFails, Fatal
  <2>2. at' = [at EXCEPT ![x] = "down"] /\ call' = [call EXCEPT ![x] = None]
    BY <2>1 DEF End, Go
  <2>3. /\ todo' \subseteq Containers /\ listed' \subseteq Containers
        /\ failed' \subseteq Containers /\ touched' \subseteq Containers
    BY <2>1 DEF End, TypeOK, history
  <2> QED BY <2>1, <2>2, <2>3 DEF End, TypeOK, given
<1> QED BY <1>1, <1>2, <1>3, <1>4 DEF NewKubeDiskGuardService

LEMMA BeginTypeOK ==
    ASSUME TypeOK, ListPods \/ (\E c \in todo : BeginReset(c)) \/ (\E c \in running, want \in Wishes : BeginSet(c, want))
    PROVE  TypeOK'
<1>1. ASSUME NEW x \in Programs, NEW c \in Containers, NEW want \in [Items -> Nat], Begin(x, c, want),
             at[x] \in {"run", "reset"}, todo' \subseteq Containers, UNCHANGED history
      PROVE  TypeOK'
  <2>1. PICK b \in BOOLEAN : call' = [call EXCEPT ![x] =
            [c |-> c, want |-> want, stage |-> "find", n |-> 0, alone |-> b]]
    BY <1>1 DEF Begin
  <2>2. call' \in [Programs -> Call \cup {None}]
    BY <2>1 DEF Call, TypeOK
  <2> QED BY <1>1, <2>1, <2>2 DEF Begin, TypeOK, process, given, history
<1>2. CASE ListPods
  BY <1>2 DEF ListPods, Go, TypeOK, given, Programs
<1>3. ASSUME NEW c \in todo, BeginReset(c) PROVE TypeOK'
  <2>1. c \in Containers /\ "reset-all" \in Programs /\ Unlimited \in [Items -> Nat]
    BY DEF TypeOK, Programs, Unlimited
  <2>2. at["reset-all"] \in {"run", "reset"} /\ todo' \subseteq Containers /\ UNCHANGED history
    BY <1>3 DEF BeginReset, TypeOK
  <2>3. Begin("reset-all", c, Unlimited)
    BY <1>3 DEF BeginReset
  <2> QED BY <1>1, <2>1, <2>2, <2>3
<1>4. ASSUME NEW c \in running, NEW want \in Wishes, BeginSet(c, want) PROVE TypeOK'
  <2>1. c \in Containers /\ "daemon" \in Programs /\ want \in [Items -> Nat]
    BY NodeConstantsOK DEF TypeOK, Programs
  <2>2. at["daemon"] \in {"run", "reset"} /\ todo' \subseteq Containers /\ UNCHANGED history
    BY <1>4 DEF BeginSet, TypeOK
  <2>3. Begin("daemon", c, want)
    BY <1>4 DEF BeginSet
  <2> QED BY <1>1, <2>1, <2>2, <2>3
<1> QED BY <1>2, <1>3, <1>4

LEMMA CallTypeOK ==
    ASSUME TypeOK, NEW x \in Programs, GoOn(x)
    PROVE  TypeOK'
<1>1. call[x] \in Call /\ call \in [Programs -> Call \cup {None}]
  BY DEF GoOn, Prepare, PrepareFails, StatExists, StatGone, Write, WriteFails, WriteFailsForGood, Calling, TypeOK
<1>2. ASSUME NEW stage \in {"stat", "write"}, call[x] # None, Advance(x, stage) PROVE TypeOK'
  <2>1. call' = [call EXCEPT ![x] = [call[x] EXCEPT !.stage = stage]]
    BY <1>2 DEF Advance
  <2>2. call' \in [Programs -> Call \cup {None}]
    BY <1>1, <2>1 DEF Call
  <2> QED BY <1>2, <2>1, <2>2 DEF Advance, TypeOK, process, given, history
<1>3. ASSUME NEW err \in {"nil", "error"}, Return(x, err),
             UNCHANGED <<given, up, running, files, process, listed, touched>>
      PROVE  TypeOK'
  <2>1. failed' \subseteq Containers
    BY <1>1, <1>3 DEF Return, TypeOK, Call
  <2> QED BY <1>3, <2>1 DEF Return, TypeOK, process, given
<1>4. CASE Prepare(x) \/ StatExists(x)
  BY <1>2, <1>4 DEF Prepare, StatExists, Calling
<1>5. CASE PrepareFails(x) \/ StatGone(x) \/ WriteFailsForGood(x)
  BY <1>3, <1>5 DEF PrepareFails, StatGone, WriteFailsForGood
<1>6. CASE WriteFails(x)
  <2>1. call[x].n + 1 \in 0 .. 3
    BY <1>1, <1>6 DEF WriteFails, Attempts, Call
  <2>2. call' = [call EXCEPT ![x] = [call[x] EXCEPT !.n = call[x].n + 1]]
    BY <1>6 DEF WriteFails
  <2>3. call' \in [Programs -> Call \cup {None}]
    BY <1>1, <2>1, <2>2 DEF Call
  <2> QED BY <1>6, <2>2, <2>3 DEF WriteFails, Calling, TypeOK, process, given, history
<1>7. CASE Write(x)
  <2>1. files' \in [Groups -> Files]
    <3>1. call[x].want \in Files /\ call[x].n + 1 \in Nat
      BY <1>1 DEF Call, Files
    <3>2. \A g \in Groups : files[g] \in Files
      BY DEF TypeOK
    <3>3. \A g \in Groups : Written(x, files[g]) \in Files
      BY <3>1, <3>2, WrittenType DEF Written
    <3> QED BY <1>7, <3>2, <3>3 DEF Write
  <2>2. touched' \subseteq Containers
    BY <1>1, <1>7 DEF Write, TypeOK, Call
  <2> DEFINE seen == [y \in Programs |-> IF Meets(x, y) THEN [call[y] EXCEPT !.alone = FALSE] ELSE call[y]]
  <2>3. seen \in [Programs -> Call \cup {None}] /\ seen[x] = call[x]
    <3>1. \A y \in Programs : Meets(x, y) => call[y] \in Call
      BY <1>1 DEF Meets
    <3> QED BY <1>1, <3>1 DEF Meets, Call
  <2>4. \A y \in Programs : call[y] = None => seen[y] = None
    BY DEF Meets
  <2>5. CASE Last(x)
    <3>1. call' = [seen EXCEPT ![x] = None] /\ returned' = [returned EXCEPT ![x] = "nil"]
      BY <1>7, <2>5 DEF Write
    <3> HIDE DEF seen
    <3> QED BY <1>7, <2>1, <2>2, <2>3, <2>4, <3>1 DEF Write, TypeOK, process, given
  <2>6. CASE ~Last(x)
    <3>1. call' = [seen EXCEPT ![x] = [seen[x] EXCEPT !.n = seen[x].n + 1]] /\ returned' = returned
      BY <1>7, <2>6 DEF Write
    <3>2. call[x].n + 1 \in 0 .. 3
      BY <1>1, <2>6 DEF Last, Call
    <3> HIDE DEF seen
    <3>3. call' \in [Programs -> Call \cup {None}]
      BY <1>1, <2>3, <3>1, <3>2 DEF Call
    <3>4. call[x] # None
      BY <1>7 DEF Write, Calling
    <3>5. \A y \in Programs : call'[y] # None => call[y] # None
      BY <2>3, <2>4, <3>1, <3>4
    <3> QED BY <1>7, <2>1, <2>2, <3>1, <3>3, <3>5 DEF Write, TypeOK, process, given
  <2> QED BY <2>5, <2>6
<1> QED BY <1>4, <1>5, <1>6, <1>7 DEF GoOn

LEMMA NextTypeOK == TypeOK /\ [Next]_vars => TypeOK'
<1> SUFFICES ASSUME TypeOK, [Next]_vars PROVE TypeOK'
  OBVIOUS
<1>1. ASSUME NEW x \in Programs, Main(x) PROVE TypeOK'
  <2>1. CASE ResetAll /\ x = "reset-all"
    <3>1. CASE ListPods \/ \E c \in todo : BeginReset(c)
      BY <3>1, BeginTypeOK
    <3>2. CASE ListPodsFails \/ ListPodsPanics \/ Done
      BY <3>2, ProcessTypeOK
    <3> QED BY <2>1, <3>1, <3>2 DEF ResetAll
  <2> QED BY <1>1, <2>1, ServiceTypeOK, CallTypeOK DEF Main
<1>2. ASSUME NEW x \in Programs, Serve(x) \/ Dies(x) PROVE TypeOK'
  BY <1>2, ProcessTypeOK DEF Serve
<1>3. CASE StartDaemon \/ StartResetAll \/ TickerPanics \/ RunReturns
  BY <1>3, ProcessTypeOK DEF Programs
<1>4. CASE \E c \in running, want \in Wishes : BeginSet(c, want)
  BY <1>4, BeginTypeOK
<1>5. ASSUME NEW c \in Containers, ContainerExits(c) PROVE TypeOK'
  <2>1. files' \in [Groups -> Files]
    BY <1>5 DEF ContainerExits, TypeOK, Files, Unlimited
  <2> QED BY <1>5, <2>1 DEF ContainerExits, TypeOK, process, given, history
<1>6. CASE RuntimeComesUp \/ RuntimeGoesDown
  BY <1>6 DEF RuntimeComesUp, RuntimeGoesDown, TypeOK, process, given, history
<1>7. CASE UNCHANGED vars
  BY <1>7 DEF vars, TypeOK, process, given, history
<1> QED BY <1>1, <1>2, <1>3, <1>4, <1>5, <1>6, <1>7 DEF Next, Watch

\* Every variable has its type (main.go:23-85, service.go:63-180, cgroup.go:186-326).
THEOREM TypeCorrect == Spec => []TypeOK
BY InitTypeOK, NextTypeOK, PTL DEF Spec

(***************************************************************************)
(* The inductive invariant.  Both programs come to the same cgroup         *)
(* version, so the path of a container is the same for both, and a         *)
(* container that is not at its path is never written.                     *)
(***************************************************************************)
Loaded == LoadFromEnv(GetDefaultConfig, env).CgroupVersion
Vsn == IF Loaded = "auto" THEN node.version ELSE Loaded
AtPath(c) == Location(node, c) = PathOf(node, Vsn, c)

Configured == \A x \in Programs :
    /\ at[x] = "detect" => conf[x].CgroupVersion = Loaded
    /\ at[x] \notin {"down", "detect"} => conf[x].CgroupVersion = Vsn
    /\ call[x] # None /\ call[x].stage # "find" => conf[x].ContainerRuntime = node.runtime

Elsewhere == \A c \in Containers : ~AtPath(c) => files[c] = Unlimited

Counted == \A x \in Programs : call[x] # None =>
    /\ returned[x] = "nothing"
    /\ call[x].stage # "write" => call[x].n = 0
    /\ call[x].stage = "stat" => call[x].want = Unlimited

\* v1 writes one file after the other.
WrittenSoFar(x) == \A k \in Items :
    Vsn = "v1" /\ Position[k] <= call[x].n => files[call[x].c][k] = call[x].want[k]

Kept == \A x \in Programs :
    call[x] # None /\ call[x].alone /\ call[x].c \in running => WrittenSoFar(x)

Resetting == call["reset-all"] # None =>
    /\ call["reset-all"].want = Unlimited /\ call["reset-all"].c \in listed
    /\ call["reset-all"].c \in running \ touched => WrittenSoFar("reset-all")

\* Of what --reset-all set out to reset, what it has dealt with is lifted.
Lifted == \A c \in (listed \cap running) \ (failed \cup touched \cup todo) :
    files[c] = Unlimited \/ (call["reset-all"] # None /\ call["reset-all"].c = c)

Lifting == at["reset-all"] = "reset" => todo \subseteq listed /\ Resetting /\ Lifted

Rest == Configured /\ Elsewhere /\ Counted /\ Kept /\ Lifting
IInv == TypeOK /\ Rest

LEMMA ConstantPaths ==
    ASSUME UNCHANGED given
    PROVE  node' = node /\ Loaded' = Loaded /\ Vsn' = Vsn /\ \A c : AtPath(c)' = AtPath(c)
<1>1. node' = node /\ env' = env
  BY DEF given
<1>2. Loaded' = Loaded /\ Vsn' = Vsn
  BY <1>1 DEF Loaded, Vsn
<1> QED BY <1>1, <1>2 DEF AtPath

\* A call reaches its container, or nothing.
LEMMA Reaches ==
    ASSUME IInv, NEW x \in Programs, call[x] # None, call[x].stage # "find"
    PROVE  /\ Version(x) = Vsn /\ call[x].c \in Containers
           /\ Reached(x) = IF AtPath(call[x].c) /\ call[x].c \in running THEN {call[x].c} ELSE {}
<1>1. call[x].c \in Containers /\ at[x] \in {"run", "reset"} /\ running \subseteq Containers
  BY DEF IInv, TypeOK, Call
<1>2. conf[x].ContainerRuntime = node.runtime /\ conf[x].CgroupVersion = Vsn
  BY <1>1 DEF IInv, Rest, Configured
<1>3. Path(x) = PathOf(node, Vsn, call[x].c)
  BY <1>2 DEF Path, PathOf, Version
<1>4. Fitting(node)
  BY Given DEF IInv
<1>5. /\ \A d \in Containers : PathOf(node, Vsn, call[x].c) = Location(node, d) => d = call[x].c
      /\ PathOf(node, Vsn, call[x].c) # PodLocation(node)
  BY <1>1, <1>4, PathsApart
<1> QED BY <1>1, <1>2, <1>3, <1>5 DEF Reached, AtPath, Version

LEMMA WriteEffect ==
    ASSUME IInv, NEW x \in Programs, Write(x)
    PROVE  /\ call[x].c \in running /\ AtPath(call[x].c) /\ call[x].c \in Containers
           /\ Version(x) = Vsn
           /\ files' = [files EXCEPT ![call[x].c] = Written(x, files[call[x].c])]
<1>1. call[x] # None /\ call[x].stage = "write" /\ Reached(x) # {}
  BY DEF Write, Calling
<1>2. Reached(x) = {call[x].c} /\ call[x].c \in running /\ AtPath(call[x].c) /\ call[x].c \in Containers
      /\ Version(x) = Vsn
  BY <1>1, Reaches
<1>3. files \in [Groups -> Files] /\ call[x].c \in Groups
  BY <1>2 DEF IInv, TypeOK, Groups
<1> QED BY <1>2, <1>3 DEF Write

\* A step that leaves the calls and the files alone.
LEMMA QuietSteps ==
    ASSUME IInv, Configured',
           UNCHANGED <<given, running, files, todo, call, returned, history>>,
           at'["reset-all"] = "reset" => at["reset-all"] = "reset"
    PROVE  Rest'
<1>1. Vsn' = Vsn /\ \A c : AtPath(c)' = AtPath(c)
  BY ConstantPaths
<1>2. Elsewhere'
  BY <1>1 DEF IInv, Rest, Elsewhere
<1>3. Counted'
  BY DEF IInv, Rest, Counted
<1>4. \A x \in Programs : call[x] # None => (WrittenSoFar(x)' <=> WrittenSoFar(x))
  BY <1>1 DEF WrittenSoFar
<1>5. Kept'
  BY <1>4 DEF IInv, Rest, Kept
<1>6. Lifting'
  BY <1>4 DEF IInv, Rest, Lifting, Resetting, Lifted, history, Programs
<1> QED BY <1>2, <1>3, <1>5, <1>6 DEF Rest

LEMMA StartKeeps ==
    ASSUME IInv, NEW x \in Programs, Start(x), UNCHANGED history
    PROVE  Rest'
<1>1. Loaded' = Loaded /\ Vsn' = Vsn /\ node' = node
  BY ConstantPaths DEF Start
<1>2. at' = [at EXCEPT ![x] = "detect"] /\ call[x] = None
  BY DEF Start, Go, IInv, TypeOK
<1>3. Configured'
  BY <1>1, <1>2 DEF Start, IInv, Rest, Configured, TypeOK, Loaded
<1> QED BY <1>2, <1>3, QuietSteps DEF Start, IInv, TypeOK, Programs

LEMMA EndKeeps ==
    ASSUME IInv, NEW x \in Programs, NEW how, End(x, how)
    PROVE  Rest'
<1>1. Loaded' = Loaded /\ Vsn' = Vsn /\ node' = node /\ \A c : AtPath(c)' = AtPath(c)
  BY ConstantPaths DEF End
<1>2. /\ at' = [at EXCEPT ![x] = "down"] /\ call' = [call EXCEPT ![x] = None]
      /\ returned' = [returned EXCEPT ![x] = "nothing"] /\ files' = files /\ running' = running /\ conf' = conf
  BY DEF End, Go
<1>3. Configured' /\ Elsewhere' /\ Counted'
  BY <1>1, <1>2 DEF IInv, Rest, Configured, Elsewhere, Counted, TypeOK
<1>4. \A y \in Programs : call'[y] # None => call'[y] = call[y] /\ (WrittenSoFar(y)' <=> WrittenSoFar(y))
  BY <1>1, <1>2 DEF WrittenSoFar, IInv, TypeOK
<1>5. Kept'
  BY <1>2, <1>4 DEF IInv, Rest, Kept
<1>6. Lifting'
  <2>1. CASE x = "reset-all"
    BY <1>2, <2>1 DEF Lifting, IInv, TypeOK
  <2>2. CASE x # "reset-all"
    <3>1. UNCHANGED <<todo, listed, failed, touched>> /\ at'["reset-all"] = at["reset-all"]
          /\ call'["reset-all"] = call["reset-all"]
      BY <1>2, <2>2 DEF End, history, IInv, TypeOK, Programs
    <3> QED BY <1>2, <1>4, <3>1 DEF IInv, Rest, Lifting, Resetting, Lifted, Programs
  <2> QED BY <2>1, <2>2
<1> QED BY <1>3, <1>5, <1>6 DEF Rest

LEMMA ServiceKeeps ==
    ASSUME IInv, NEW x \in Programs, Detect(x) \/ NewRuntime(x) \/ NewClient(x)
    PROVE  Rest'
<1>1. Loaded' = Loaded /\ Vsn' = Vsn /\ node' = node
  BY ConstantPaths DEF Detect, NewRuntime, NewClient
<1>2. call[x] = None /\ call' = call
  BY DEF Detect, NewRuntime, NewClient, IInv, TypeOK
<1>3. CASE Detect(x)
  <2>1. conf'[x].CgroupVersion = Vsn
    <3>1. conf[x].CgroupVersion = Loaded /\ conf[x] \in Config
      BY <1>3 DEF Detect, IInv, Rest, Configured, TypeOK
    <3>2. conf'[x].CgroupVersion = IF conf[x].CgroupVersion = "auto" THEN DetectCgroupVersion(node) ELSE conf[x].CgroupVersion
      BY <1>3, <3>1 DEF Detect, Config, IInv, TypeOK
    <3> QED BY <3>1, <3>2 DEF Vsn, DetectCgroupVersion
  <2>2. \A y \in Programs \ {x} : conf'[y] = conf[y] /\ at'[y] = at[y]
    BY <1>3 DEF Detect, Go, IInv, TypeOK
  <2>3. at'[x] = "connect"
    BY <1>3 DEF Detect, Go, IInv, TypeOK
  <2>4. Configured'
    BY <1>1, <1>2, <2>1, <2>2, <2>3 DEF IInv, Rest, Configured
  <2> QED BY <1>3, <2>2, <2>3, <2>4, QuietSteps DEF Detect, Programs
<1>4. CASE NewRuntime(x) \/ NewClient(x)
  <2>1. at[x] \notin {"down", "detect"} /\ conf' = conf
    BY <1>4 DEF NewRuntime, NewClient
  <2>2. at'[x] \in {"client", "list", "run"} /\ \A y \in Programs \ {x} : at'[y] = at[y]
    BY <1>4 DEF NewRuntime, NewClient, Go, IInv, TypeOK
  <2>3. Configured'
    BY <1>1, <1>2, <2>1, <2>2 DEF IInv, Rest, Configured
  <2> QED BY <1>4, <2>2, <2>3, QuietSteps DEF NewRuntime, NewClient, Programs
<1> QED BY <1>3, <1>4

LEMMA ListKeeps ==
    ASSUME IInv, ListPods
    PROVE  Rest'
<1>1. Loaded' = Loaded /\ Vsn' = Vsn /\ node' = node /\ \A c : AtPath(c)' = AtPath(c)
  BY ConstantPaths DEF ListPods
<1>2. at' = [at EXCEPT !["reset-all"] = "reset"] /\ at["reset-all"] = "list" /\ conf' = conf
      /\ call' = call /\ call["reset-all"] = None /\ files' = files /\ running' = running /\ returned' = returned
  BY DEF ListPods, Go, IInv, TypeOK, Programs
<1>3. Configured' /\ Elsewhere' /\ Counted'
  BY <1>1, <1>2 DEF IInv, Rest, Configured, Elsewhere, Counted, TypeOK
<1>4. Kept'
  BY <1>1, <1>2 DEF IInv, Rest, Kept, WrittenSoFar
<1>5. Lifting'
  BY <1>2 DEF ListPods, Lifting, Resetting, Lifted
<1> QED BY <1>3, <1>4, <1>5 DEF Rest

LEMMA BeginKeeps ==
    ASSUME IInv, NEW x \in Programs, NEW c \in Containers, NEW want \in [Items -> Nat], Begin(x, c, want),
           UNCHANGED history,
           x = "reset-all" => want = Unlimited /\ c \in todo /\ todo' = todo \ {c},
           x # "reset-all" => todo' = todo
    PROVE  Rest'
<1>1. Loaded' = Loaded /\ Vsn' = Vsn /\ node' = node /\ \A d : AtPath(d)' = AtPath(d)
  BY ConstantPaths DEF Begin
<1>2. PICK b \in BOOLEAN : call' = [call EXCEPT ![x] =
                  [c |-> c, want |-> want, stage |-> "find", n |-> 0, alone |-> b]]
  BY DEF Begin
<1>3. /\ returned' = [returned EXCEPT ![x] = "nothing"] /\ call[x] = None
      /\ files' = files /\ running' = running /\ conf' = conf /\ at' = at
  BY DEF Begin, process
<1>4. /\ call'[x] = [c |-> c, want |-> want, stage |-> "find", n |-> 0, alone |-> b]
      /\ \A y \in Programs \ {x} : call'[y] = call[y] /\ returned'[y] = returned[y]
      /\ returned'[x] = "nothing"
  BY <1>2, <1>3 DEF IInv, TypeOK
<1>5. Configured' /\ Elsewhere' /\ Counted'
  BY <1>1, <1>3, <1>4 DEF IInv, Rest, Configured, Elsewhere, Counted
<1>6. WrittenSoFar(x)' /\ \A y \in Programs \ {x} : WrittenSoFar(y)' <=> WrittenSoFar(y)
  BY <1>1, <1>3, <1>4 DEF WrittenSoFar, Position, Items
<1>7. Kept'
  BY <1>3, <1>4, <1>6 DEF IInv, Rest, Kept
<1>8. Lifting'
  <2>1. CASE x = "reset-all"
    <3> SUFFICES ASSUME at["reset-all"] = "reset" PROVE todo' \subseteq listed' /\ Resetting' /\ Lifted'
      BY <1>3 DEF Lifting
    <3>1. todo \subseteq listed /\ Lifted /\ UNCHANGED <<listed, failed, touched>>
      BY DEF IInv, Rest, Lifting, history
    <3>2. Resetting'
      BY <1>4, <1>6, <2>1, <3>1 DEF Resetting
    <3>3. Lifted'
      <4>1. call'["reset-all"] # None
        BY <1>4, <2>1, NodeConstantsOK DEF Call
      <4> QED BY <1>3, <1>4, <2>1, <3>1, <4>1 DEF Lifted
    <3> QED BY <2>1, <3>1, <3>2, <3>3
  <2>2. CASE x # "reset-all"
    BY <1>3, <1>4, <1>6, <2>2 DEF IInv, Rest, Lifting, Resetting, Lifted, history, Programs
  <2> QED BY <2>1, <2>2
<1> QED BY <1>5, <1>7, <1>8 DEF Rest

\* The steps of one call that write nothing.
LEMMA AdvanceKeeps ==
    ASSUME IInv, NEW x \in Programs, Prepare(x) \/ StatExists(x)
    PROVE  Rest'
<1>1. PICK stage \in {"stat", "write"} :
         Advance(x, stage) /\ (stage = "stat" => call[x].want = Unlimited)
  BY DEF Prepare, StatExists, IsReset
<1>2. /\ call[x] # None /\ call[x] \in Call /\ call[x].stage # "write"
      /\ conf[x].ContainerRuntime = node.runtime
  BY DEF Prepare, StatExists, Calling, Answers, IInv, Rest, Configured, TypeOK
<1>3. Loaded' = Loaded /\ Vsn' = Vsn /\ node' = node /\ \A d : AtPath(d)' = AtPath(d)
  BY <1>1, ConstantPaths DEF Advance
<1>4. /\ returned' = returned /\ files' = files /\ running' = running /\ conf' = conf /\ at' = at
      /\ call' = [call EXCEPT ![x] = [call[x] EXCEPT !.stage = stage]]
      /\ UNCHANGED <<todo, listed, failed, touched>>
  BY <1>1 DEF Advance, process, history
<1>5. /\ call'[x].stage = stage /\ call'[x].n = 0 /\ call'[x].c = call[x].c
      /\ call'[x].want = call[x].want /\ call'[x].alone = call[x].alone
      /\ \A y \in Programs \ {x} : call'[y] = call[y]
  BY <1>2, <1>4 DEF IInv, Rest, Counted, TypeOK, Call
<1>6. Configured' /\ Elsewhere' /\ Counted'
  BY <1>1, <1>2, <1>3, <1>4, <1>5 DEF IInv, Rest, Configured, Elsewhere, Counted
<1>7. WrittenSoFar(x)' /\ \A y \in Programs \ {x} : WrittenSoFar(y)' <=> WrittenSoFar(y)
  BY <1>3, <1>4, <1>5 DEF WrittenSoFar, Position, Items
<1>8. Kept'
  BY <1>2, <1>4, <1>5, <1>7 DEF IInv, Rest, Kept
<1>9. Lifting'
  <2> SUFFICES ASSUME at["reset-all"] = "reset" PROVE todo' \subseteq listed' /\ Resetting' /\ Lifted'
    BY <1>4 DEF Lifting
  <2>1. todo \subseteq listed /\ Lifted /\ Resetting
    BY DEF IInv, Rest, Lifting
  <2>2. Resetting'
    BY <1>2, <1>4, <1>5, <1>7, <2>1 DEF Resetting, Programs
  <2>3. Lifted'
    <3>1. call["reset-all"] # None => call'["reset-all"] # None /\ call'["reset-all"].c = call["reset-all"].c
      <4>1. [call[x] EXCEPT !.stage = stage] \in Call
        BY <1>2 DEF Call
      <4> QED BY <1>2, <1>4, <1>5, <4>1, NodeConstantsOK DEF Programs, IInv, TypeOK
    <3> QED BY <1>4, <2>1, <3>1 DEF Lifted
  <2> QED BY <1>4, <2>1, <2>2, <2>3
<1> QED BY <1>6, <1>8, <1>9 DEF Rest

LEMMA ReturnKeeps ==
    ASSUME IInv, NEW x \in Programs, PrepareFails(x) \/ StatGone(x) \/ WriteFailsForGood(x)
    PROVE  Rest'
<1>1. PICK err \in {"nil", "error"} :
         /\ Return(x, err) /\ UNCHANGED <<given, up, running, files, process, listed, touched, used>>
         /\ err = "nil" => call[x].stage = "stat" /\ Reached(x) = {}
  BY DEF PrepareFails, StatGone, WriteFailsForGood, Calling
<1>2. call[x] # None
  BY DEF PrepareFails, StatGone, WriteFailsForGood, Calling
<1>3. Loaded' = Loaded /\ Vsn' = Vsn /\ node' = node /\ \A d : AtPath(d)' = AtPath(d)
  BY <1>1, ConstantPaths
<1>4. /\ files' = files /\ running' = running /\ conf' = conf /\ at' = at
      /\ call' = [call EXCEPT ![x] = None] /\ returned' = [returned EXCEPT ![x] = err]
      /\ UNCHANGED <<todo, listed, touched>>
  BY <1>1 DEF Return, process
<1>5. /\ call'[x] = None
      /\ \A y \in Programs \ {x} : call'[y] = call[y] /\ returned'[y] = returned[y]
  BY <1>4 DEF IInv, TypeOK
<1>6. Configured' /\ Elsewhere' /\ Counted'
  BY <1>3, <1>4, <1>5 DEF IInv, Rest, Configured, Elsewhere, Counted
<1>7. \A y \in Programs \ {x} : WrittenSoFar(y)' <=> WrittenSoFar(y)
  BY <1>3, <1>4, <1>5 DEF WrittenSoFar
<1>8. Kept'
  BY <1>4, <1>5, <1>7 DEF IInv, Rest, Kept
<1>9. Lifting'
  <2>1. CASE x # "reset-all"
    <3>1. failed' = failed
      BY <1>1, <2>1 DEF Return
    <3> QED BY <1>4, <1>5, <1>7, <2>1, <3>1 DEF IInv, Rest, Lifting, Resetting, Lifted, Programs
  <2>2. CASE x = "reset-all" /\ err = "error"
    <3>1. failed' = failed \cup {call[x].c}
      BY <1>1, <2>2 DEF Return
    <3> QED BY <1>4, <1>5, <2>2, <3>1 DEF IInv, Rest, Lifting, Resetting, Lifted
  <2>3. CASE x = "reset-all" /\ err = "nil"
    <3>1. failed' = failed
      BY <1>1, <2>3 DEF Return
    <3>2. call[x].c \in running => files[call[x].c] = Unlimited
      BY <1>1, <1>2, <2>3, Reaches DEF IInv, Rest, Elsewhere
    <3> QED BY <1>4, <1>5, <2>3, <3>1, <3>2 DEF IInv, Rest, Lifting, Resetting, Lifted
  <2> QED BY <2>1, <2>2, <2>3
<1> QED BY <1>6, <1>8, <1>9 DEF Rest

\* A write, the last one of a call or not.
LEMMA WriteKeeps ==
    ASSUME IInv, NEW x \in Programs, Write(x)
    PROVE  Rest'
<1> DEFINE c == call[x].c
           seen == [y \in Programs |-> IF Meets(x, y) THEN [call[y] EXCEPT !.alone = FALSE] ELSE call[y]]
<1>1. /\ c \in running /\ AtPath(c) /\ c \in Containers /\ Version(x) = Vsn
      /\ files' = [files EXCEPT ![c] = Written(x, files[c])]
  BY WriteEffect
<1>2. Loaded' = Loaded /\ Vsn' = Vsn /\ node' = node /\ \A d : AtPath(d)' = AtPath(d)
  BY ConstantPaths DEF Write
<1>3. /\ call[x] # None /\ call[x] \in Call /\ call[x].stage = "write"
      /\ call \in [Programs -> Call \cup {None}] /\ files \in [Groups -> Files] /\ c \in Groups
  BY <1>1 DEF Write, Calling, IInv, TypeOK, Groups
<1>4. /\ running' = running /\ conf' = conf /\ at' = at /\ UNCHANGED <<todo, listed, failed>>
  BY DEF Write, process
<1>5. \A y \in Programs : y # x =>
        /\ returned'[y] = returned[y]
        /\ (call'[y] = None) = (call[y] = None)
        /\ call'[y].alone => call[y].alone
        /\ call[y] # None /\ call'[y].alone => call[y].c # c
        /\ call[y] # None => /\ call'[y].c = call[y].c
                             /\ call'[y].want = call[y].want
                             /\ call'[y].n = call[y].n
                             /\ call'[y].stage = call[y].stage
  <2> SUFFICES ASSUME NEW y \in Programs, y # x
               PROVE  /\ returned'[y] = returned[y]
                      /\ (call'[y] = None) = (call[y] = None)
                      /\ call'[y].alone => call[y].alone
                      /\ call[y] # None /\ call'[y].alone => call[y].c # c
                      /\ call[y] # None => /\ call'[y].c = call[y].c
                                           /\ call'[y].want = call[y].want
                                           /\ call'[y].n = call[y].n
                                           /\ call'[y].stage = call[y].stage
    OBVIOUS
  <2>1. call'[y] = seen[y] /\ returned'[y] = returned[y]
    BY DEF Write, IInv, TypeOK
  <2>2. CASE Meets(x, y)
    <3>1. call[y] \in Call /\ call[y] # None
      BY <1>3, <2>2 DEF Meets
    <3>2. call'[y] = [call[y] EXCEPT !.alone = FALSE]
      BY <2>1, <2>2
    <3>3. call'[y] \in Call
      BY <3>1, <3>2 DEF Call
    <3> QED BY <2>1, <3>1, <3>2, <3>3, NodeConstantsOK DEF Call
  <2>3. CASE ~Meets(x, y)
    BY <2>1, <2>3 DEF Meets
  <2> QED BY <2>2, <2>3
<1>6. IF Last(x) THEN call'[x] = None /\ returned'[x] = "nil"
      ELSE /\ call'[x] # None /\ call'[x].stage = "write" /\ call'[x].c = c
           /\ call'[x].want = call[x].want /\ call'[x].alone = call[x].alone
           /\ call'[x].n = call[x].n + 1 /\ returned'[x] = returned[x]
  <2>1. IF Last(x) THEN call'[x] = None /\ returned'[x] = "nil"
        ELSE call'[x] = [call[x] EXCEPT !.n = call[x].n + 1] /\ returned'[x] = returned[x]
    BY <1>3 DEF Write, Meets, IInv, TypeOK
  <2>2. ~Last(x) => [call[x] EXCEPT !.n = call[x].n + 1] \in Call
    BY <1>3 DEF Last, Call
  <2> QED BY <1>3, <2>1, <2>2, NodeConstantsOK DEF Call
<1> HIDE DEF seen
<1>7. Configured' /\ Elsewhere' /\ Counted'
  <2>1. Configured'
    <3>1. \A y \in Programs : call'[y] # None => call[y] # None /\ call'[y].stage = call[y].stage
      BY <1>3, <1>5, <1>6
    <3> QED BY <1>2, <1>4, <3>1 DEF IInv, Rest, Configured
  <2>2. Elsewhere'
    BY <1>1, <1>2, <1>3 DEF IInv, Rest, Elsewhere
  <2>3. Counted'
    <3>1. \A y \in Programs : call'[y] # None =>
            /\ call[y] # None /\ returned'[y] = returned[y]
            /\ call'[y].stage = call[y].stage /\ call'[y].want = call[y].want
            /\ call'[y].stage # "write" => call'[y].n = call[y].n
      BY <1>3, <1>5, <1>6
    <3> QED BY <3>1 DEF IInv, Rest, Counted
  <2> QED BY <2>1, <2>2, <2>3
\* What has been written is right, if it was so before.
<1>8. ~Last(x) /\ WrittenSoFar(x) => WrittenSoFar(x)'
  <2> SUFFICES ASSUME ~Last(x), WrittenSoFar(x), NEW k \in Items, Vsn = "v1", Position[k] <= call[x].n + 1
               PROVE  files'[c][k] = call[x].want[k]
    BY <1>2, <1>6 DEF WrittenSoFar
  <2>1. files'[c][k] = IF Position[k] = call[x].n + 1 THEN call[x].want[k] ELSE files[c][k]
    BY <1>1, <1>3 DEF Written
  <2>2. Position[k] # call[x].n + 1 => Position[k] <= call[x].n
    BY <1>3 DEF Position, Items, Call
  <2> QED BY <2>1, <2>2 DEF WrittenSoFar
<1>9. \A y \in Programs \ {x} : call[y] # None /\ call[y].c # c => (WrittenSoFar(y)' <=> WrittenSoFar(y))
  <2> SUFFICES ASSUME NEW y \in Programs \ {x}, call[y] # None, call[y].c # c
               PROVE  WrittenSoFar(y)' <=> WrittenSoFar(y)
    OBVIOUS
  <2>1. call[y].c \in Groups
    BY <1>3 DEF Call, Groups
  <2>2. files'[call[y].c] = files[call[y].c]
    BY <1>1, <1>3, <2>1
  <2> QED BY <1>2, <1>5, <2>2 DEF WrittenSoFar
<1>10. Kept'
  <2> SUFFICES ASSUME NEW y \in Programs, call'[y] # None, call'[y].alone, call'[y].c \in running
               PROVE  WrittenSoFar(y)'
    BY <1>4 DEF Kept
  <2>1. Kept
    BY DEF IInv, Rest
  <2>2. CASE y = x
    BY <1>3, <1>6, <1>8, <2>1, <2>2 DEF Kept
  <2>3. CASE y # x
    BY <1>5, <1>9, <2>1, <2>3 DEF Kept
  <2> QED BY <2>2, <2>3
<1>11. Last(x) /\ WrittenSoFar(x) /\ call[x].want = Unlimited => files'[c] = Unlimited
  <2> SUFFICES ASSUME Last(x), WrittenSoFar(x), call[x].want = Unlimited PROVE files'[c] = Unlimited
    OBVIOUS
  <2>1. CASE Vsn = "v1"
    <3>1. files'[c] = [k \in Items |-> IF Position[k] = 4 THEN 0 ELSE files[c][k]]
      BY <1>1, <1>3, <2>1 DEF Written, Last, Unlimited
    <3>2. \A k \in Items : Position[k] # 4 => files[c][k] = 0
      BY <1>1, <2>1 DEF WrittenSoFar, Last, Unlimited, Position, Items
    <3> QED BY <3>1, <3>2 DEF Unlimited
  <2>2. CASE Vsn # "v1"
    <3>1. Positive(Unlimited) = Unlimited
      BY DEF Positive, Unlimited
    <3> QED BY <1>1, <1>3, <2>2, <3>1 DEF Written, SetLimits, AfterLine
  <2> QED BY <2>1, <2>2
<1>12. Lifting'
  <2> SUFFICES ASSUME at["reset-all"] = "reset" PROVE todo' \subseteq listed' /\ Resetting' /\ Lifted'
    BY <1>4 DEF Lifting
  <2>1. todo \subseteq listed /\ Lifted /\ Resetting
    BY DEF IInv, Rest, Lifting
  <2>2. CASE x = "reset-all"
    <3>1. touched' = touched
      BY <2>2 DEF Write
    <3>2. Resetting'
      BY <1>3, <1>4, <1>6, <1>8, <2>1, <2>2, <3>1 DEF Resetting
    <3>3. \A d \in Containers \ {c} : files'[d] = files[d]
      BY <1>1, <1>3 DEF Groups
    <3>4. Lifted'
      <4>1. CASE Last(x)
        BY <1>1, <1>3, <1>4, <1>6, <1>11, <2>1, <2>2, <3>1, <3>3, <4>1 DEF Lifted, Resetting, IInv, TypeOK
      <4>2. CASE ~Last(x)
        <5>1. call'[x] # None /\ call'[x].c = c
          BY <1>6, <4>2
        <5> QED BY <1>3, <1>4, <2>1, <2>2, <3>1, <3>3, <5>1 DEF Lifted, IInv, TypeOK
      <4> QED BY <4>1, <4>2
    <3> QED BY <1>4, <2>1, <3>2, <3>4
  <2>3. CASE x = "daemon"
    <3>1. listed # {} => touched' = touched \cup {c}
      BY <2>3 DEF Write
    <3>2. touched \subseteq touched'
      BY <2>3 DEF Write
    <3>3. Resetting'
      <4>1. "reset-all" \in Programs \ {x}
        BY <2>3 DEF Programs
      <4>2. ASSUME call["reset-all"] # None, call["reset-all"].c \in running \ touched'
            PROVE  WrittenSoFar("reset-all")'
        <5>1. call["reset-all"].c \in listed /\ call["reset-all"].c # c
          BY <2>1, <3>1, <4>2 DEF Resetting
        <5> QED BY <1>9, <2>1, <3>2, <4>1, <4>2, <5>1 DEF Resetting
      <4> QED BY <1>4, <1>5, <2>1, <4>1, <4>2 DEF Resetting
    <3>4. \A d \in Containers \ {c} : files'[d] = files[d]
      BY <1>1, <1>3 DEF Groups
    <3>5. Lifted'
      <4>1. "reset-all" \in Programs \ {x} /\ listed \subseteq Containers
        BY <2>3 DEF Programs, IInv, TypeOK
      <4> QED BY <1>4, <1>5, <2>1, <3>1, <3>2, <3>4, <4>1 DEF Lifted
    <3> QED BY <1>4, <2>1, <3>3, <3>5
  <2> QED BY <2>2, <2>3 DEF Programs
<1> QED BY <1>7, <1>10, <1>12 DEF Rest

LEMMA WriteFailsKeeps ==
    ASSUME IInv, NEW x \in Programs, WriteFails(x)
    PROVE  Rest'
<1>1. Loaded' = Loaded /\ Vsn' = Vsn /\ node' = node /\ \A d : AtPath(d)' = AtPath(d)
  BY ConstantPaths DEF WriteFails
<1>2. /\ call[x] # None /\ call[x] \in Call /\ call[x].stage = "write"
      /\ files' = files /\ running' = running /\ conf' = conf /\ at' = at /\ returned' = returned
      /\ UNCHANGED <<todo, listed, failed, touched>>
      /\ call' = [call EXCEPT ![x] = [call[x] EXCEPT !.n = call[x].n + 1]]
  BY DEF WriteFails, Calling, process, history, IInv, TypeOK
<1>3. Vsn # "v1"
  BY <1>2, Reaches DEF WriteFails, Attempts
<1>4. /\ call'[x] # None /\ call'[x].stage = "write" /\ call'[x].c = call[x].c
      /\ call'[x].want = call[x].want /\ call'[x].alone = call[x].alone
      /\ \A y \in Programs \ {x} : call'[y] = call[y]
  <2>1. [call[x] EXCEPT !.n = call[x].n + 1] \in Call
    BY <1>2 DEF WriteFails, Attempts, Call
  <2> QED BY <1>2, <2>1, NodeConstantsOK DEF IInv, TypeOK, Call
<1>5. Configured' /\ Elsewhere' /\ Counted'
  BY <1>1, <1>2, <1>4 DEF IInv, Rest, Configured, Elsewhere, Counted
<1>6. \A y \in Programs : WrittenSoFar(y)'
  BY <1>1, <1>3 DEF WrittenSoFar
<1>7. Kept'
  BY <1>6 DEF Kept
<1>8. Lifting'
  BY <1>2, <1>4, <1>6 DEF IInv, Rest, Lifting, Resetting, Lifted, Programs
<1> QED BY <1>5, <1>7, <1>8 DEF Rest

LEMMA ExitKeeps ==
    ASSUME IInv, NEW d \in Containers, ContainerExits(d)
    PROVE  Rest'
<1>1. Loaded' = Loaded /\ Vsn' = Vsn /\ node' = node /\ \A c : AtPath(c)' = AtPath(c)
  BY ConstantPaths DEF ContainerExits
<1>2. /\ files' = [files EXCEPT ![d] = Unlimited] /\ running' = running \ {d}
      /\ conf' = conf /\ at' = at /\ returned' = returned /\ call' = call
      /\ UNCHANGED <<todo, listed, failed, touched>>
  BY DEF ContainerExits, process, history
<1>3. \A c \in Containers : files'[c] = IF c = d THEN Unlimited ELSE files[c]
  BY <1>2 DEF IInv, TypeOK, Groups
<1>4. Configured' /\ Elsewhere' /\ Counted'
  BY <1>1, <1>2, <1>3 DEF IInv, Rest, Configured, Elsewhere, Counted
<1>5. \A y \in Programs : call[y] # None /\ call[y].c # d => (WrittenSoFar(y)' <=> WrittenSoFar(y))
  BY <1>1, <1>2, <1>3 DEF WrittenSoFar, IInv, TypeOK, Call
<1>6. Kept'
  BY <1>2, <1>5 DEF IInv, Rest, Kept
<1>7. Lifting'
  BY <1>2, <1>3, <1>5 DEF IInv, Rest, Lifting, Resetting, Lifted, Programs, TypeOK
<1> QED BY <1>4, <1>6, <1>7 DEF Rest

LEMMA InitInvariant == Init => IInv
<1> SUFFICES ASSUME Init PROVE IInv
  OBVIOUS
<1>1. TypeOK
  BY InitTypeOK
<1>2. /\ \A x \in Programs : call[x] = None /\ at[x] = "down"
      /\ \A c \in Containers : files[c] = Unlimited
      /\ "reset-all" \in Programs
  BY DEF Init, Groups, Programs
<1>3. Rest
  BY <1>2 DEF Rest, Configured, Elsewhere, Counted, Kept, Lifting
<1> QED BY <1>1, <1>3 DEF IInv

\* The invariant is inductive.
LEMMA StepInvariant == IInv /\ [Next]_vars => IInv'
<1> SUFFICES ASSUME IInv, [Next]_vars PROVE Rest'
  BY NextTypeOK DEF IInv
<1>1. TypeOK
  BY DEF IInv
<1>2. ASSUME NEW x \in Programs, Main(x) PROVE Rest'
  <2>1. CASE NewKubeDiskGuardService(x)
    <3>1. CASE NewRuntimeFails(x) \/ NewClientFails(x)
      BY <3>1, EndKeeps DEF NewRuntimeFails, NewClientFails, Fatal
    <3> QED BY <2>1, <3>1, ServiceKeeps DEF NewKubeDiskGuardService
  <2>2. CASE GoOn(x)
    BY <2>2, AdvanceKeeps, ReturnKeeps, WriteKeeps, WriteFailsKeeps DEF GoOn
  <2>3. CASE x = "reset-all" /\ ResetAll
    <3>1. CASE ListPods
      BY <3>1, ListKeeps
    <3>2. CASE ListPodsFails \/ ListPodsPanics \/ Done
      BY <2>3, <3>2, EndKeeps DEF ListPodsFails, ListPodsPanics, Done, Fatal
    <3>3. ASSUME NEW c \in todo, BeginReset(c) PROVE Rest'
      <4>1. c \in Containers /\ Unlimited \in [Items -> Nat]
        BY <1>1 DEF TypeOK, Unlimited
      <4>2. Begin("reset-all", c, Unlimited) /\ UNCHANGED history /\ todo' = todo \ {c}
        BY <3>3 DEF BeginReset
      <4> QED BY <2>3, <4>1, <4>2, BeginKeeps
    <3> QED BY <2>3, <3>1, <3>2, <3>3 DEF ResetAll
  <2> QED BY <1>2, <2>1, <2>2, <2>3 DEF Main
<1>3. ASSUME NEW x \in Programs, Serve(x) PROVE Rest'
  <2>1. CASE Listen(x)
    <3>1. Configured'
      BY <2>1, ConstantPaths DEF Listen, IInv, Rest, Configured
    <3> QED BY <2>1, <3>1, QuietSteps DEF Listen
  <2>2. CASE ListenFails(x)
    BY <2>2, EndKeeps DEF ListenFails, Fatal
  <2> QED BY <1>3, <2>1, <2>2 DEF Serve
<1>4. ASSUME NEW x \in Programs, Dies(x) PROVE Rest'
  BY <1>4, EndKeeps DEF Dies
<1>5. CASE StartDaemon \/ StartResetAll
  <2>1. PICK x \in Programs : Start(x) /\ UNCHANGED history
    BY <1>5 DEF StartDaemon, StartResetAll, Programs
  <2> QED BY <2>1, StartKeeps
<1>6. CASE Watch
  <2>1. CASE TickerPanics \/ RunReturns
    <3>1. "daemon" \in Programs /\ \E how \in {"panic", "failure", "success"} : End("daemon", how)
      BY <2>1 DEF TickerPanics, RunReturns, Programs
    <3> QED BY <3>1, EndKeeps
  <2>2. ASSUME NEW c \in running, NEW want \in Wishes, BeginSet(c, want) PROVE Rest'
    <3>1. c \in Containers /\ want \in [Items -> Nat] /\ "daemon" \in Programs
      BY <1>1, NodeConstantsOK DEF TypeOK, Programs
    <3>2. Begin("daemon", c, want) /\ UNCHANGED history /\ todo' = todo
      BY <2>2 DEF BeginSet
    <3> QED BY <3>1, <3>2, BeginKeeps
  <2> QED BY <1>6, <2>1, <2>2 DEF Watch
<1>7. ASSUME NEW c \in Containers, ContainerExits(c) PROVE Rest'
  BY <1>7, ExitKeeps
<1>8. CASE RuntimeComesUp \/ RuntimeGoesDown \/ UNCHANGED vars
  <2>1. UNCHANGED <<given, running, files, process, todo, call, returned, history>>
    BY <1>8 DEF RuntimeComesUp, RuntimeGoesDown, vars
  <2>2. Configured'
    BY <2>1, ConstantPaths DEF process, IInv, Rest, Configured
  <2> QED BY <2>1, <2>2, QuietSteps DEF process
<1> QED BY <1>1, <1>2, <1>3, <1>4, <1>5, <1>6, <1>7, <1>8 DEF Next

LEMMA Invariant == Spec => []IInv
BY InitInvariant, StepInvariant, PTL DEF Spec

(***************************************************************************)
(* What follows from it.                                                   *)
(***************************************************************************)
LEMMA WhoWrites ==
    ASSUME [Next]_vars
    PROVE  \/ files' = files
           \/ \E x \in Programs : Write(x)
           \/ \E c \in Containers : ContainerExits(c)
<1>1. ASSUME NEW x \in Programs, Start(x) PROVE files' = files
  BY <1>1 DEF Start
<1>2. ASSUME NEW x \in Programs, NEW how, End(x, how) PROVE files' = files
  BY <1>2 DEF End
<1>3. ASSUME NEW x \in Programs, NewKubeDiskGuardService(x) PROVE files' = files
  BY <1>3 DEF NewKubeDiskGuardService, Detect, NewRuntime, NewRuntimeFails, NewClient, NewClientFails, Fatal, End
<1>4. ASSUME NEW x \in Programs, GoOn(x) PROVE files' = files \/ Write(x)
  BY <1>4 DEF GoOn, Prepare, PrepareFails, StatExists, StatGone, WriteFails, WriteFailsForGood, Advance
<1>5. ASSUME ResetAll PROVE files' = files
  BY <1>5 DEF ResetAll, ListPods, ListPodsFails, ListPodsPanics, BeginReset, Begin, Done, Fatal, End
<1>6. ASSUME NEW x \in Programs, Serve(x) \/ Dies(x) PROVE files' = files
  BY <1>6 DEF Serve, Listen, ListenFails, Dies, Fatal, End
<1>7. ASSUME Watch PROVE files' = files
  BY <1>7 DEF Watch, TickerPanics, RunReturns, BeginSet, Begin, End
<1>8. CASE RuntimeComesUp \/ RuntimeGoesDown \/ UNCHANGED vars
  BY <1>8 DEF RuntimeComesUp, RuntimeGoesDown, vars
<1>9. CASE StartDaemon \/ StartResetAll
  BY <1>9 DEF StartDaemon, StartResetAll, Start
<1> QED BY <1>3, <1>4, <1>5, <1>6, <1>7, <1>8, <1>9 DEF Next, Main

\* The limits of a container are written by a call for this container only, whatever
\* the runtime, the version and the driver (containerd.go:120-194, docker.go:68-92).
THEOREM OwnLimitsOnly == Spec => OnlyItsOwn
<1> DEFINE A == \A g \in Groups : files'[g] # files[g] =>
                  (g \in running \ running') \/ (\E x \in Programs : call[x] # None /\ call[x].c = g)
<1>1. IInv /\ [Next]_vars => A
  <2> SUFFICES ASSUME IInv, [Next]_vars, NEW g \in Groups, files'[g] # files[g]
               PROVE  (g \in running \ running') \/ (\E x \in Programs : call[x] # None /\ call[x].c = g)
    OBVIOUS
  <2>1. files \in [Groups -> Files]
    BY DEF IInv, TypeOK
  <2>2. ASSUME NEW x \in Programs, Write(x) PROVE call[x] # None /\ call[x].c = g
    BY <2>1, <2>2, WriteEffect DEF Write, Calling
  <2>3. ASSUME NEW c \in Containers, ContainerExits(c) PROVE g \in running \ running'
    BY <2>1, <2>3 DEF ContainerExits
  <2> QED BY <2>2, <2>3, WhoWrites
<1>2. IInv /\ [Next]_vars => [A]_vars
  BY <1>1
<1> QED BY <1>2, Invariant, PTL DEF Spec, OnlyItsOwn

\* How a call ends.
LEMMA CallEnds ==
    ASSUME IInv, [Next]_vars, NEW x \in Programs, call[x] # None, call'[x] = None
    PROVE  \/ at'[x] = "down" \/ returned'[x] = "error"
           \/ StatGone(x) \/ (Write(x) /\ Last(x))
<1>1. call \in [Programs -> Call \cup {None}] /\ at \in [Programs -> {"down", "detect", "connect", "client", "run", "list", "reset"}]
      /\ returned \in [Programs -> {"nothing", "nil", "error"}]
  BY DEF IInv, TypeOK
<1>2. ASSUME NEW y \in Programs, NEW how, End(y, how) PROVE at'[x] = "down"
  BY <1>1, <1>2 DEF End, Go
<1>3. call' # call
  OBVIOUS
<1>4. ASSUME NEW y \in Programs, NewKubeDiskGuardService(y) PROVE at'[x] = "down"
  <2>1. End(y, "failure")
    BY <1>3, <1>4 DEF NewKubeDiskGuardService, Detect, NewRuntime, NewRuntimeFails, NewClient, NewClientFails, Fatal
  <2> QED BY <1>2, <2>1
<1>5. ASSUME NEW y \in Programs, NEW c, NEW want, Begin(y, c, want) PROVE FALSE
  <2>1. y # x
    BY <1>5 DEF Begin
  <2> QED BY <1>1, <1>5, <2>1 DEF Begin
<1>6. ASSUME NEW y \in Programs, GoOn(y)
      PROVE  returned'[x] = "error" \/ StatGone(x) \/ (Write(x) /\ Last(x))
  <2>1. CASE Prepare(y) \/ StatExists(y)
    <3>1. PICK stage \in {"stat", "write"} : Advance(y, stage) /\ call[y] # None
      BY <2>1 DEF Prepare, StatExists, Calling
    <3>2. call[y] \in Call /\ [call[y] EXCEPT !.stage = stage] \in Call
      BY <1>1, <3>1 DEF Call
    <3> QED BY <1>1, <3>1, <3>2, NodeConstantsOK DEF Advance
  <2>2. CASE PrepareFails(y) \/ WriteFailsForGood(y)
    <3>1. Return(y, "error")
      BY <2>2 DEF PrepareFails, WriteFailsForGood
    <3> QED BY <1>1, <3>1 DEF Return
  <2>3. CASE StatGone(y)
    BY <1>1, <2>3 DEF StatGone, Return
  <2>4. CASE WriteFails(y)
    <3>1. call[y] \in Call /\ [call[y] EXCEPT !.n = call[y].n + 1] \in Call
      BY <1>1, <2>4 DEF WriteFails, Calling, Attempts, Call
    <3> QED BY <1>1, <2>4, <3>1, NodeConstantsOK DEF WriteFails
  <2>5. CASE Write(y)
    <3> DEFINE seen == [z \in Programs |-> IF Meets(y, z) THEN [call[z] EXCEPT !.alone = FALSE] ELSE call[z]]
    <3>1. \A z \in Programs : Meets(y, z) => call[z] \in Call /\ [call[z] EXCEPT !.alone = FALSE] \in Call
      BY <1>1 DEF Meets, Call
    <3>2. seen[x] # None /\ seen[y] = call[y]
      BY <3>1, NodeConstantsOK DEF Meets
    <3>3. CASE y # x
      <4>1. call'[x] = seen[x]
        BY <1>1, <2>5, <3>3 DEF Write
      <4> QED BY <3>2, <4>1
    <3>4. CASE y = x /\ ~Last(x)
      <4>1. call'[x] = [call[x] EXCEPT !.n = call[x].n + 1]
        BY <2>5, <3>2, <3>4 DEF Write
      <4>2. [call[x] EXCEPT !.n = call[x].n + 1] \in Call
        BY <1>1, <3>4 DEF Last, Call
      <4> QED BY <4>1, <4>2, NodeConstantsOK
    <3> QED BY <2>5, <3>3, <3>4
  <2> QED BY <1>6, <2>1, <2>2, <2>3, <2>4, <2>5 DEF GoOn
<1>7. ASSUME ResetAll PROVE at'[x] = "down"
  <2>1. CASE ListPodsFails \/ ListPodsPanics \/ Done
    BY <1>2, <2>1 DEF ListPodsFails, ListPodsPanics, Done, Fatal, Programs
  <2>2. CASE ListPods
    BY <1>3, <2>2 DEF ListPods
  <2>3. ASSUME NEW c \in todo, BeginReset(c) PROVE FALSE
    BY <1>5, <2>3 DEF BeginReset, Programs
  <2> QED BY <1>7, <2>1, <2>2, <2>3 DEF ResetAll
<1>8. ASSUME NEW y \in Programs, Serve(y) \/ Dies(y) PROVE at'[x] = "down"
  BY <1>2, <1>3, <1>8 DEF Serve, Listen, ListenFails, Dies, Fatal
<1>9. ASSUME Watch PROVE at'[x] = "down"
  <2>1. CASE TickerPanics \/ RunReturns
    BY <1>2, <2>1 DEF TickerPanics, RunReturns, Programs
  <2>2. ASSUME NEW c \in running, NEW want \in Wishes, BeginSet(c, want) PROVE FALSE
    BY <1>5, <2>2 DEF BeginSet, Programs
  <2> QED BY <1>9, <2>1, <2>2 DEF Watch
<1>10. ~(StartDaemon \/ StartResetAll \/ RuntimeComesUp \/ RuntimeGoesDown \/ UNCHANGED vars)
  BY <1>3 DEF StartDaemon, StartResetAll, Start, RuntimeComesUp, RuntimeGoesDown, vars
<1>11. \A c \in Containers : ~ContainerExits(c)
  BY <1>3 DEF ContainerExits
<1> QED BY <1>4, <1>6, <1>7, <1>8, <1>9, <1>10, <1>11 DEF Next, Main

LEMMA UnlimitedHas ==
    ASSUME NEW v
    PROVE  Has(Unlimited, Unlimited, v)
BY DEF Has, Unlimited

LEMMA LastWriteHas ==
    ASSUME IInv, NEW x \in Programs, Write(x), Last(x), WrittenSoFar(x)
    PROVE  Has(files'[call[x].c], call[x].want, Version(x))
<1> DEFINE c == call[x].c
           want == call[x].want
<1>1. /\ c \in Containers /\ Version(x) = Vsn
      /\ files' = [files EXCEPT ![c] = Written(x, files[c])]
  BY WriteEffect
<1>2. files \in [Groups -> Files] /\ c \in Groups /\ want \in [Items -> Nat] /\ files[c] \in Files
  BY <1>1 DEF IInv, TypeOK, Groups, Write, Calling, Call
<1>3. CASE Vsn = "v1"
  <2>1. files'[c] = [k \in Items |-> IF Position[k] = 4 THEN want[k] ELSE files[c][k]]
    BY <1>1, <1>2, <1>3 DEF Written, Last
  <2>2. \A k \in Items : Position[k] # 4 => files[c][k] = want[k]
    BY <1>1, <1>3 DEF WrittenSoFar, Last, Position, Items
  <2>3. \A k \in Items : files'[c][k] = want[k]
    BY <2>1, <2>2
  <2> QED BY <2>3 DEF Has
<1>4. CASE Vsn # "v1"
  <2>1. files'[c] = AfterLine(files[c], want)
    BY <1>1, <1>2, <1>4 DEF Written, SetLimits
  <2> HIDE DEF c, want
  <2>2. CASE Positive(want) = Unlimited
    <3>1. want = Unlimited
      BY <1>2, <2>2 DEF Positive, Unlimited
    <3> QED BY <2>1, <2>2, <3>1, UnlimitedHas DEF AfterLine, c, want
  <2>3. CASE Positive(want) # Unlimited
    <3>1. want # Unlimited
      BY <2>3 DEF Positive, Unlimited
    <3>2. \A k \in Items : want[k] > 0 => files'[c][k] = want[k]
      BY <2>1, <2>3 DEF AfterLine
    <3> QED BY <1>1, <1>4, <3>1, <3>2 DEF Has, c, want
  <2> QED BY <2>2, <2>3
<1> QED BY <1>3, <1>4

\* A call that returns nil has done all of its work (cgroup.go:186-326).
THEOREM NilIsDone == Spec => NilMeansDone
<1> DEFINE A == \A x \in Programs :
                  /\ call[x] # None /\ call[x].alone /\ call'[x] = None
                  /\ at'[x] # "down" /\ returned'[x] = "nil" /\ call[x].c \in running
                  => Has(files'[call[x].c], call[x].want, Version(x))
<1>1. IInv /\ [Next]_vars => A
  <2> SUFFICES ASSUME IInv, [Next]_vars, NEW x \in Programs,
                      call[x] # None, call[x].alone, call'[x] = None,
                      at'[x] # "down", returned'[x] = "nil", call[x].c \in running
               PROVE  Has(files'[call[x].c], call[x].want, Version(x))
    OBVIOUS
  <2>1. CASE StatGone(x)
    <3>1. call[x].want = Unlimited /\ call[x].stage = "stat" /\ Reached(x) = {} /\ files' = files
      BY <2>1 DEF StatGone, Calling, IInv, Rest, Counted
    <3>2. files[call[x].c] = Unlimited
      BY <3>1, Reaches DEF IInv, Rest, Elsewhere
    <3> QED BY <3>1, <3>2, UnlimitedHas
  <2>2. CASE Write(x) /\ Last(x)
    <3>1. WrittenSoFar(x)
      BY DEF IInv, Rest, Kept
    <3> QED BY <2>2, <3>1, LastWriteHas
  <2> QED BY <2>1, <2>2, CallEnds
<1>2. IInv /\ [Next]_vars => [A]_vars
  BY <1>1
<1> QED BY <1>2, Invariant, PTL DEF Spec, NilMeansDone

\* --reset-all ends with success in one place.
LEMMA EndsWithSuccess ==
    ASSUME TypeOK, [Next]_vars, at["reset-all"] = "reset", at'["reset-all"] = "down", code' = "success"
    PROVE  Done
<1>1. /\ at \in [Programs -> {"down", "detect", "connect", "client", "run", "list", "reset"}]
      /\ "reset-all" \in Programs
  BY DEF TypeOK, Programs
<1>2. ASSUME NEW y \in Programs, NEW how, End(y, how) PROVE y = "reset-all" /\ how = "success"
  BY <1>1, <1>2 DEF End, Go
<1>3. at' # at
  OBVIOUS
<1>4. ASSUME NEW y \in Programs, NewKubeDiskGuardService(y) PROVE FALSE
  <2>1. CASE End(y, "failure")
    BY <1>2, <2>1
  <2>2. CASE Detect(y) \/ NewRuntime(y) \/ NewClient(y)
    BY <1>1, <2>2 DEF Detect, NewRuntime, NewClient, Go
  <2> QED BY <1>4, <2>1, <2>2 DEF NewKubeDiskGuardService, NewRuntimeFails, NewClientFails, Fatal
<1>5. \A y \in Programs : ~GoOn(y)
  BY <1>3 DEF GoOn, Prepare, PrepareFails, StatExists, StatGone, Write, WriteFails, WriteFailsForGood, Advance, process
<1>6. ASSUME NEW y \in Programs, Serve(y) \/ Dies(y) PROVE FALSE
  <2>1. CASE Listen(y)
    BY <1>3, <2>1 DEF Listen
  <2>2. CASE End(y, "failure") \/ End(y, "killed")
    BY <1>2, <2>2
  <2> QED BY <1>6, <2>1, <2>2 DEF Serve, ListenFails, Dies, Fatal
<1>7. ASSUME Watch PROVE FALSE
  <2>1. ~TickerPanics /\ ~RunReturns
    BY <1>2 DEF TickerPanics, RunReturns, Programs
  <2> QED BY <1>3, <1>7, <2>1 DEF Watch, BeginSet, Begin, process
<1>8. ASSUME ResetAll PROVE Done
  <2>1. ~ListPodsFails /\ ~ListPodsPanics
    BY <1>1, <1>2 DEF ListPodsFails, ListPodsPanics, Fatal
  <2>2. ~ListPods
    BY DEF ListPods
  <2>3. \A c \in todo : ~BeginReset(c)
    BY <1>3 DEF BeginReset, Begin, process
  <2> QED BY <1>8, <2>1, <2>2, <2>3 DEF ResetAll
<1>9. ~(StartDaemon \/ StartResetAll \/ RuntimeComesUp \/ RuntimeGoesDown \/ UNCHANGED vars)
  <2>1. \A y \in Programs : ~Start(y)
    BY <1>1 DEF Start, Go
  <2> QED BY <1>3, <2>1 DEF StartDaemon, StartResetAll, RuntimeComesUp, RuntimeGoesDown, vars, process, Programs
<1>10. \A c \in Containers : ~ContainerExits(c)
  BY <1>3 DEF ContainerExits, process
<1> QED BY <1>4, <1>5, <1>6, <1>7, <1>8, <1>9, <1>10 DEF Next, Main

\* When --reset-all ends with success, all that it set out to reset is lifted, except
\* what failed and what the daemon has written since (service.go:481-507).
THEOREM ResetLifts == Spec => ResetAllLifts
<1> DEFINE A == at["reset-all"] = "reset" /\ at'["reset-all"] = "down" /\ code' = "success" =>
                  \A c \in (listed \cap running) \ (failed \cup touched) : files[c] = Unlimited
<1>1. IInv /\ [Next]_vars => A
  <2> SUFFICES ASSUME IInv, [Next]_vars, at["reset-all"] = "reset", at'["reset-all"] = "down",
                      code' = "success"
               PROVE  \A c \in (listed \cap running) \ (failed \cup touched) : files[c] = Unlimited
    OBVIOUS
  <2>1. Done
    BY EndsWithSuccess DEF IInv
  <2>2. todo = {} /\ call["reset-all"] = None
    BY <2>1 DEF Done
  <2> QED BY <2>2 DEF IInv, Rest, Lifting, Lifted
<1>2. IInv /\ [Next]_vars => [A]_vars
  BY <1>1
<1> QED BY <1>2, Invariant, PTL DEF Spec, ResetAllLifts
====
