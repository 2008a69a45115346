---- MODULE Node ----
(***************************************************************************)
(* The processes of the program on one node and the calls they make        *)
(* (main.go, pkg/service, pkg/runtime, pkg/cgroup).  The daemon is started *)
(* by the kubelet, and again whenever it ends; an administrator starts the *)
(* program with --reset-all beside it.  Each process has a main goroutine  *)
(* and one that serves HTTP; an error of either ends the process wherever  *)
(* the other one is, and so does the end of the daemon's watch.  Meanwhile *)
(* containers exit, the container runtime goes down and comes up, and the  *)
(* kernel refuses writes.                                                  *)
(***************************************************************************)
EXTENDS Cgroup, Runtime, Config, FiniteSets

CONSTANTS
    Containers,    \* the containers of one pod
    PodGroup,      \* the cgroup of the pod itself
    Cases,         \* what the node, its containers and the environment of the process may be
    Wishes,        \* the limits that pods may ask for
    None,          \* no call under way
    MaxResets, MaxDisturbances   \* bounds on reset-all, and on outages and kills together

\* A call for container c: where it has got to, how many writes it has tried, and
\* whether the other program has kept out of c since it began.
Call == [c: Containers, want: [Items -> Nat], stage: {"find", "stat", "write"},
         n: 0 .. 3, alone: BOOLEAN]

ASSUME NodeConstantsOK ==
    /\ PodGroup \notin Containers
    /\ None \notin Call
    /\ Wishes \subseteq [Items -> Nat]
    /\ MaxResets \in Nat /\ MaxDisturbances \in Nat

Nodes ==
    [runtime: {"docker", "containerd"}, version: {"v1", "v2"}, driver: {"cgroupfs", "systemd"},
     pod: Seq(STRING) \ {<<>>}, binaries: SUBSET {"docker", "ctr"}, forms: SUBSET (1 .. 3),
     ownPort: BOOLEAN]

Environments ==
    [ContainerRuntime: {Unset, "auto", "docker", "containerd"}, CgroupVersion: {Unset, "auto", "v1", "v2"},
     KubeConfigPath: {Unset, "valid", "broken"}, SmartLimitEnabled: BOOLEAN \cup {Unset, Malformed},
     SmartLimitUseKubeletAPI: BOOLEAN \cup {Unset, Malformed},
     SmartLimitMonitorInterval: Int \cup {Unset, Malformed},
     NODE_NAME: BOOLEAN, KUBECONFIG: {Unset, "valid", "broken"}, InCluster: BOOLEAN]

\* No directory above the container is named like a container: their names are hashes.
ASSUME CasesOK ==
    \A k \in Cases :
        /\ k.node \in Nodes /\ k.env \in Environments /\ k.running \subseteq Containers
        /\ \A i \in DOMAIN k.node.pod : k.node.pod[i] \notin Containers

Programs == {"daemon", "reset-all"}
Groups == Containers \cup {PodGroup}

VARIABLES
    node,      \* runtime, version, driver, pod, binaries, forms, ownPort
    env,       \* the environment variables
    up,        \* the socket of the container runtime answers
    running,   \* the containers whose cgroup exists
    files,     \* the throttle files of the cgroups
    at,        \* where the main goroutine of each program is
    http,      \* whether its server listens
    conf,      \* its configuration
    todo,      \* the containers that --reset-all has still to reset
    call,      \* the call it makes for one container, or None
    returned,  \* what its last call returned
    code,      \* how the last process of --reset-all ended
    listed,    \* history variable: what --reset-all set out to reset, while it runs
    failed,    \* history variable: the containers it could not reset
    touched,   \* history variable: the containers the daemon has written since
    used       \* how much of each bound is used up

given == <<node, env>>
process == <<at, http, conf, code>>
history == <<listed, failed, touched>>
vars == <<given, up, running, files, process, todo, call, returned, history, used>>

Init ==
    /\ \E k \in Cases : node = k.node /\ env = k.env /\ running = k.running
    /\ up \in BOOLEAN
    /\ files = [g \in Groups |-> Unlimited]
    /\ at = [x \in Programs |-> "down"] /\ http = [x \in Programs |-> FALSE]
    /\ conf = [x \in Programs |-> GetDefaultConfig]
    /\ todo = {} /\ call = [x \in Programs |-> None]
    /\ returned = [x \in Programs |-> "nothing"] /\ code = "none"
    /\ listed = {} /\ failed = {} /\ touched = {}
    /\ used = [resets |-> 0, disturbances |-> 0]

Spend(b, max) ==
    /\ used[b] < max
    /\ used' = [used EXCEPT ![b] = @ + 1]

Go(x, stage) == at' = [at EXCEPT ![x] = stage]

(***************************************************************************)
(* The start and the end of a process.                                     *)
(***************************************************************************)

\* main up to NewKubeDiskGuardService.  A server with a port of its own disturbs
\* nobody: it is taken to listen at once.
Start(x) ==
    /\ at[x] = "down"
    /\ Go(x, "detect")
    /\ conf' = [conf EXCEPT ![x] = LoadFromEnv(GetDefaultConfig, env)]
    /\ http' = [http EXCEPT ![x] = node.ownPort]
    /\ UNCHANGED <<given, up, running, files, code, todo, call, returned>>

StartDaemon == Start("daemon") /\ UNCHANGED <<history, used>>

StartResetAll ==
    /\ Spend("resets", MaxResets)
    /\ Start("reset-all")
    /\ UNCHANGED history

\* The process is gone: its listener is closed, its call stays where it is.
End(x, how) ==
    /\ Go(x, "down")
    /\ http' = [http EXCEPT ![x] = FALSE]
    /\ call' = [call EXCEPT ![x] = None]
    /\ returned' = [returned EXCEPT ![x] = "nothing"]
    /\ IF x = "reset-all"
       THEN code' = how /\ todo' = {} /\ listed' = {} /\ failed' = {} /\ touched' = {}
       ELSE UNCHANGED <<code, todo, history>>
    /\ UNCHANGED <<given, up, running, files, conf>>

Fatal(x) == End(x, "failure") /\ UNCHANGED used

Dies(x) ==
    /\ at[x] # "down"
    /\ Spend("disturbances", MaxDisturbances)
    /\ End(x, "killed")

\* The goroutine that serves: one listener for each port and network namespace.
PortTaken(x) == ~node.ownPort /\ \E y \in Programs \ {x} : http[y]

Listen(x) ==
    /\ at[x] # "down" /\ ~http[x] /\ ~PortTaken(x)
    /\ http' = [http EXCEPT ![x] = TRUE]
    /\ UNCHANGED <<given, up, running, files, at, conf, code, todo, call, returned, history, used>>

ListenFails(x) ==
    /\ at[x] # "down" /\ ~http[x] /\ PortTaken(x)
    /\ Fatal(x)

(***************************************************************************)
(* NewKubeDiskGuardService.                                                *)
(***************************************************************************)
Detect(x) ==
    /\ at[x] = "detect"
    /\ conf' = [conf EXCEPT
         ![x].ContainerRuntime = IF @ = "auto" THEN DetectRuntime(node, up) ELSE @,
         ![x].CgroupVersion = IF @ = "auto" THEN DetectCgroupVersion(node) ELSE @]
    /\ Go(x, "connect")
    /\ UNCHANGED <<given, up, running, files, http, code, todo, call, returned, history, used>>

\* The client of docker connects when it is used, that of containerd at once.
Connects(x) ==
    \/ conf[x].ContainerRuntime = "docker"
    \/ conf[x].ContainerRuntime = "containerd" /\ node.runtime = "containerd" /\ up

NewRuntime(x) ==
    /\ at[x] = "connect" /\ Connects(x)
    /\ Go(x, "client")
    /\ UNCHANGED <<given, up, running, files, http, conf, code, todo, call, returned, history, used>>

NewRuntimeFails(x) == at[x] = "connect" /\ ~Connects(x) /\ Fatal(x)

\* NewKubeClientWithConfig: in kubelet mode nothing can go wrong; otherwise the
\* configured file must load, or the pod's service account, or the file KUBECONFIG.
NewKubeClientWithConfig(c) ==
    \/ c.SmartLimitUseKubeletAPI
    \/ /\ env.NODE_NAME
       /\ IF c.KubeConfigPath # Unset THEN c.KubeConfigPath = "valid"
          ELSE env.InCluster \/ env.KUBECONFIG = "valid"

HasClient(x) == conf[x].SmartLimitEnabled

\* The routes are registered next; then --reset-all lists the pods, and the daemon runs.
NewClient(x) ==
    /\ at[x] = "client"
    /\ HasClient(x) => NewKubeClientWithConfig(conf[x])
    /\ Go(x, IF x = "reset-all" THEN "list" ELSE "run")
    /\ UNCHANGED <<given, up, running, files, http, conf, code, todo, call, returned, history, used>>

NewClientFails(x) ==
    /\ at[x] = "client"
    /\ HasClient(x) /\ ~NewKubeClientWithConfig(conf[x])
    /\ Fatal(x)

\* Run without a client, or when the list or the watch fails in kubelet mode, waits for
\* ever; otherwise it returns: with an error if the list or the watch fails, with none
\* when the watch is closed, and main ends the process.  The API server closes every
\* watch sooner or later, so there is no bound on how often.
RunReturns ==
    /\ at["daemon"] = "run" /\ call["daemon"] = None
    /\ HasClient("daemon") /\ ~conf["daemon"].SmartLimitUseKubeletAPI
    /\ \E how \in {"failure", "success"} : End("daemon", how)
    /\ UNCHANGED used

\* Start runs the monitor, whose ticker panics on an interval that is not positive.
TickerPanics ==
    /\ at["daemon"] = "run"
    /\ HasClient("daemon") /\ conf["daemon"].SmartLimitMonitorInterval <= 0
    /\ End("daemon", "panic") /\ UNCHANGED used

----
(***************************************************************************)
(* The calls for one container: GetContainerByID, GetMajMin, getCgroupPath *)
(* and the writes of the cgroup manager, one file at a time.               *)
(***************************************************************************)
Begin(x, c, want) ==
    /\ call[x] = None
    /\ call' = [call EXCEPT ![x] = [c |-> c, want |-> want, stage |-> "find", n |-> 0,
                                    alone |-> \A y \in Programs \ {x} : call[y] = None \/ call[y].c # c]]
    /\ returned' = [returned EXCEPT ![x] = "nothing"]
    /\ UNCHANGED <<given, up, running, files, process, used>>

\* processPodContainers, for a pod that asks for what it asks for.
BeginSet(c, want) ==
    /\ at["daemon"] = "run" /\ HasClient("daemon")
    /\ Begin("daemon", c, want)
    /\ UNCHANGED <<todo, history>>

\* ResetAllContainersIOPSLimit.  ShouldProcessPod takes the pod or leaves it out, for its
\* namespace, its labels, its phase or a container that has not started.  With smart limits
\* disabled there is no client to ask.
ListPods ==
    /\ at["reset-all"] = "list" /\ HasClient("reset-all")
    /\ Go("reset-all", "reset")
    /\ todo' \in {running, {}} /\ listed' = todo'
    /\ UNCHANGED <<given, up, running, files, http, conf, code, call, returned, failed, touched, used>>

ListPodsFails == at["reset-all"] = "list" /\ HasClient("reset-all") /\ Fatal("reset-all")

ListPodsPanics ==
    /\ at["reset-all"] = "list" /\ ~HasClient("reset-all")
    /\ End("reset-all", "panic") /\ UNCHANGED used

BeginReset(c) ==
    /\ at["reset-all"] = "reset" /\ c \in todo
    /\ Begin("reset-all", c, Unlimited)
    /\ todo' = todo \ {c}
    /\ UNCHANGED history

Done ==
    /\ at["reset-all"] = "reset" /\ todo = {} /\ call["reset-all"] = None
    /\ End("reset-all", "success") /\ UNCHANGED used

(***************************************************************************)
(* One call.                                                               *)
(***************************************************************************)
Version(x) == conf[x].CgroupVersion
IsReset(x) == call[x].want = Unlimited

\* The cgroup at the path that the runtime makes of what it reports, if there is one.
Path(x) ==
    getCgroupPath(conf[x].ContainerRuntime, Version(x), Reported(node, call[x].c), call[x].c)
Reached(x) ==
    {c \in running : Location(node, c) = Path(x)} \cup
    (IF PodLocation(node) = Path(x) THEN {PodGroup} ELSE {})

Calling(x, stage) == call[x] # None /\ call[x].stage = stage

Advance(x, stage) ==
    /\ call' = [call EXCEPT ![x].stage = stage]
    /\ UNCHANGED <<given, up, running, files, process, todo, returned, history, used>>

\* Faulty: reset-all gives up at the first error, and ends as if it were done.
Return_GiveUp(x, err) ==
    /\ call' = [call EXCEPT ![x] = None]
    /\ returned' = [returned EXCEPT ![x] = err]
    /\ todo' = IF x = "reset-all" /\ err = "error" THEN {} ELSE todo
    /\ failed' = IF x = "reset-all" /\ err = "error" THEN failed \cup {call[x].c} ELSE failed

\* The error, if there is one, is logged, and the next container is tried.
Return(x, err) ==
    /\ call' = [call EXCEPT ![x] = None]
    /\ returned' = [returned EXCEPT ![x] = err]
    /\ failed' = IF x = "reset-all" /\ err = "error" THEN failed \cup {call[x].c} ELSE failed
    /\ UNCHANGED todo

Answers(x) == up /\ conf[x].ContainerRuntime = node.runtime

\* GetContainerByID, then GetMajMin and getCgroupPath.
Prepare(x) ==
    /\ Calling(x, "find") /\ Answers(x)
    /\ Advance(x, IF IsReset(x) /\ Version(x) # "v1" THEN "stat" ELSE "write")

\* The runtime does not answer, it no longer knows a container that has exited, or
\* the device of the data mount cannot be found.
PrepareFails(x) ==
    /\ Calling(x, "find")
    /\ Return(x, "error")
    /\ UNCHANGED <<given, up, running, files, process, listed, touched, used>>

\* Under v2 ResetLimits takes a path that does not exist for a container that is gone.
StatExists(x) ==
    /\ Calling(x, "stat") /\ Reached(x) # {}
    /\ Advance(x, "write")

StatGone(x) ==
    /\ Calling(x, "stat") /\ Reached(x) = {}
    /\ Return(x, "nil")
    /\ UNCHANGED <<given, up, running, files, process, listed, touched, used>>

\* What the next write of the call makes of the files it reaches.
Written(x, before) ==
    IF Version(x) = "v1"
    THEN [k \in Items |-> IF Position[k] = call[x].n + 1 THEN call[x].want[k] ELSE before[k]]
    ELSE SetLimits("v2", before, call[x].want)

\* The call of the other program for the same container is no longer alone.
Meets(x, y) == call[y] # None /\ y # x /\ call[y].c = call[x].c

\* Faulty: leaves out the last of the four files.
Last_Early(x) == IF Version(x) = "v1" THEN call[x].n = 2 ELSE TRUE

Last(x) == IF Version(x) = "v1" THEN call[x].n = 3 ELSE TRUE

\* The kernel takes one of the three forms of "max" or not; it may refuse any limit.
Write(x) ==
    /\ Calling(x, "write") /\ Reached(x) # {}
    /\ IsReset(x) /\ Version(x) # "v1" => call[x].n + 1 \in node.forms
    /\ files' = [g \in Groups |-> IF g \in Reached(x) THEN Written(x, files[g]) ELSE files[g]]
    /\ touched' = IF x = "daemon" /\ listed # {} THEN touched \cup {call[x].c} ELSE touched
    /\ LET seen == [y \in Programs |-> IF Meets(x, y) THEN [call[y] EXCEPT !.alone = FALSE] ELSE call[y]] IN
       IF Last(x) THEN /\ call' = [seen EXCEPT ![x] = None]
                       /\ returned' = [returned EXCEPT ![x] = "nil"]
       ELSE call' = [seen EXCEPT ![x].n = @ + 1] /\ UNCHANGED returned
    /\ UNCHANGED <<given, up, running, process, todo, listed, failed, used>>

\* ResetLimits under v2 tries the next form.
Attempts(x) == IsReset(x) /\ Version(x) # "v1" /\ call[x].n < 2

\* Faulty: tries the same form again.
WriteFails_Forever(x) ==
    /\ Calling(x, "write") /\ Attempts(x)
    /\ UNCHANGED vars

WriteFails(x) ==
    /\ Calling(x, "write") /\ Attempts(x)
    /\ call' = [call EXCEPT ![x].n = @ + 1]
    /\ UNCHANGED <<given, up, running, files, process, todo, returned, history, used>>

WriteFailsForGood(x) ==
    /\ Calling(x, "write") /\ ~Attempts(x)
    /\ Return(x, "error")
    /\ UNCHANGED <<given, up, running, files, process, listed, touched, used>>

----
(***************************************************************************)
(* The environment.                                                        *)
(***************************************************************************)
ContainerExits(c) ==
    /\ c \in running
    /\ running' = running \ {c}
    /\ files' = [files EXCEPT ![c] = Unlimited]
    /\ UNCHANGED <<given, up, process, todo, call, returned, history, used>>

RuntimeComesUp ==
    /\ ~up /\ up' = TRUE
    /\ UNCHANGED <<given, running, files, process, todo, call, returned, history, used>>

RuntimeGoesDown ==
    /\ up /\ up' = FALSE
    /\ Spend("disturbances", MaxDisturbances)
    /\ UNCHANGED <<given, running, files, process, todo, call, returned, history>>

----
NewKubeDiskGuardService(x) ==
    Detect(x) \/ NewRuntime(x) \/ NewRuntimeFails(x) \/ NewClient(x) \/ NewClientFails(x)

GoOn(x) ==
    \/ Prepare(x) \/ PrepareFails(x)
    \/ StatExists(x) \/ StatGone(x) \/ Write(x) \/ WriteFails(x) \/ WriteFailsForGood(x)

ResetAll == ListPods \/ ListPodsFails \/ ListPodsPanics \/ (\E c \in todo : BeginReset(c)) \/ Done

Main(x) == NewKubeDiskGuardService(x) \/ GoOn(x) \/ (x = "reset-all" /\ ResetAll)

Serve(x) == Listen(x) \/ ListenFails(x)

Watch == TickerPanics \/ RunReturns \/ \E c \in running, want \in Wishes : BeginSet(c, want)

Next ==
    \/ StartDaemon \/ StartResetAll
    \/ \E x \in Programs : Main(x) \/ Serve(x) \/ Dies(x)
    \/ Watch
    \/ \E c \in Containers : ContainerExits(c)
    \/ RuntimeComesUp \/ RuntimeGoesDown

Spec == Init /\ [][Next]_vars

\* Both goroutines of a process go on, the kubelet starts the daemon again, and the
\* container runtime comes up.
FairSpec ==
    /\ Spec
    /\ WF_vars(StartDaemon \/ Main("daemon")) /\ WF_vars(Main("reset-all"))
    /\ \A x \in Programs : WF_vars(Serve(x))
    /\ WF_vars(RuntimeComesUp)

----
(***************************************************************************)
(* What the processes must get right.                                      *)
(***************************************************************************)

\* Every variable has its type.
TypeOK ==
    /\ \E k \in Cases : node = k.node /\ env = k.env
    /\ up \in BOOLEAN
    /\ running \subseteq Containers
    /\ files \in [Groups -> Files]
    /\ at \in [Programs -> {"down", "detect", "connect", "client", "run", "list", "reset"}]
    /\ http \in [Programs -> BOOLEAN]
    /\ conf \in [Programs -> Config]
    /\ todo \subseteq Containers /\ listed \subseteq Containers
    /\ failed \subseteq Containers /\ touched \subseteq Containers
    /\ call \in [Programs -> Call \cup {None}]
    /\ \A x \in Programs : call[x] # None => at[x] \in {"run", "reset"}
    /\ returned \in [Programs -> {"nothing", "nil", "error"}]
    /\ code \in {"none", "success", "failure", "panic", "killed"}

\* The limits of a container are written by a call for this container only: whatever
\* the runtime, the cgroup version and the driver, no call writes the files of a
\* neighbour, nor those of the pod they share (containerd.go:120-194, docker.go:68-92).
OnlyItsOwn ==
    [][\A g \in Groups :
         files'[g] # files[g] =>
           (g \in running \ running') \/ (\E x \in Programs : call[x] # None /\ call[x].c = g)]_vars

\* c has the limits that were asked for; v2 keeps an item that is not mentioned.
Has(f, want, version) ==
    /\ \A k \in Items : want[k] > 0 => f[k] = want[k]
    /\ (version = "v1" \/ want = Unlimited) => \A k \in Items : want[k] = 0 => f[k] = 0

\* A call that returns nil has done all of its work, through exits of the container,
\* refused writes and retries, unless the other program wrote the same container
\* meanwhile or the container is gone (cgroup.go:186-326).
NilMeansDone ==
    [][\A x \in Programs :
         /\ call[x] # None /\ call[x].alone /\ call'[x] = None
         /\ at'[x] # "down" /\ returned'[x] = "nil" /\ call[x].c \in running
         => Has(files'[call[x].c], call[x].want, Version(x))]_vars

\* When --reset-all ends with success, no container that it set out to reset is
\* limited any more, except those whose error it logged and those the daemon has
\* written since (service.go:481-507, main.go:73-79).
ResetAllLifts ==
    [][at["reset-all"] = "reset" /\ at'["reset-all"] = "down" /\ code' = "success" =>
         \A c \in (listed \cap running) \ (failed \cup touched) : files[c] = Unlimited]_vars

\* A configuration that fits the node.
Sound ==
    /\ env.ContainerRuntime \in {Unset, "auto", node.runtime}
    /\ node.binaries \subseteq (IF node.runtime = "docker" THEN {"docker"} ELSE {"ctr"})
    /\ env.SmartLimitEnabled = TRUE =>
         /\ env.SmartLimitMonitorInterval \notin Int \/ env.SmartLimitMonitorInterval > 0
         /\ env.SmartLimitUseKubeletAPI # FALSE \/ (env.NODE_NAME /\ env.InCluster /\ env.KubeConfigPath = Unset)

Runs == at["daemon"] = "run" /\ http["daemon"] /\ conf["daemon"].ContainerRuntime = node.runtime

\* Whatever comes up first, the node's runtime or the daemon, and whoever holds the port
\* for a time, the daemon runs again after every end of a watch, with the runtime of the
\* node; where Run does not return, it ends up running for good (main.go:46-85,
\* detector.go:13-42, service.go:376-435).
Returns == env.SmartLimitEnabled = TRUE /\ env.SmartLimitUseKubeletAPI = FALSE
ComesUp ==
    /\ Sound => []<>Runs
    /\ Sound /\ ~Returns => <>[]Runs

\* --reset-all always ends: no refused write is tried for ever (cgroup.go:303-322).
ResetAllEnds == at["reset-all"] # "down" ~> at["reset-all"] = "down"

\* The cgroup of a running container is found under every driver and version
\* (CONTAINERD_RUNTIME_INTEGRATION.md:331).
Found ==
    \A x \in Programs : Calling(x, "write") /\ call[x].c \in running => call[x].c \in Reached(x)
====
