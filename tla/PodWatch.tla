---- MODULE PodWatch ----
(***************************************************************************)
(* The pod watch service (pkg/service): it lists the pods of the node and  *)
(* applies the limits their annotations ask for to the cgroups of their    *)
(* containers, then watches the pods and applies what changed.  The API    *)
(* server, users and the kubelet change the pods between any two of its    *)
(* steps; containers restart with fresh cgroups; writes fail; the watch    *)
(* closes; the daemon dies and is started again.  An administrator may     *)
(* run the reset-all option beside it.                                     *)
(***************************************************************************)
EXTENDS Annotations, Cgroup, Sequences, FiniteSets

CONSTANTS
    Pods, Containers,
    PodOf,            \* [Containers -> Pods]
    Accepted,         \* pods whose namespace and labels ShouldProcessPod accepts
    Excluded,         \* containers that ShouldSkipContainer skips
    Choices,          \* the annotations a pod may have
    KubeletMode,      \* SmartLimitUseKubeletAPI
    MaxEdits, MaxRestarts, MaxRecreations, MaxFailures, MaxEnds  \* bounds

ASSUME ServiceConstantsOK ==
    /\ IsFiniteSet(Pods)
    /\ PodOf \in [Containers -> Pods]
    /\ Accepted \subseteq Pods /\ Excluded \subseteq Containers
    /\ Choices \subseteq PodAnnotations
    /\ KubeletMode \in BOOLEAN
    /\ {MaxEdits, MaxRestarts, MaxRecreations, MaxFailures, MaxEnds} \subseteq Nat

Pod == [ann: PodAnnotations, ready: BOOLEAN]
Object == [ann: PodAnnotations, ready: BOOLEAN, id: [Containers -> Nat]]

ASSUME NoneIsNoObject == None \notin PodAnnotations \cup Pod \cup [pod: Pods, obj: Object]

VARIABLES
    version,     \* the cgroup version of the node
    pods,        \* the pods of the API server: [Pods -> Pod or None]
    instance,    \* the runtime id of each container, a new one at each start
    cgroup,      \* the throttle files of that instance
    at,          \* where Run is
    watching,    \* the API server sends events to the watch
    queue,       \* the events on their way
    listed,      \* what is still to be applied of the first list
    cache,       \* podAnnotations: [Pods -> annotations or None]
    work,        \* the pod processPodContainers works for, as it was read
    todo,        \* the containers it still has to do
    unseen,      \* history variable: pods that changed with no watch open since the list
    cleared,     \* history variable: containers restarted in place or reset since they were set
    failed,      \* history variable: containers whose last write failed
    resetting,   \* the containers the reset-all process has still to reset
    used         \* how much of each bound is used up

apart == <<version, resetting>>
node == <<apart, pods, instance>>
run == <<at, watching, listed, cache>>
process == <<work, todo>>
ghosts == <<unseen, cleared, failed>>
vars == <<node, cgroup, run, process, queue, ghosts, used>>

\* A pod is ready when it runs and all its containers have started.
Work == [pod: Pods, obj: Object]
Target == [c: Containers, id: Nat]
Event == [type: {"Added", "Modified", "Deleted"}, pod: Pods, obj: Object]
Budgets == [edits: Nat, restarts: Nat, recreations: Nat, failures: Nat, ends: Nat]

ContainersOf(p) == {c \in Containers : PodOf[c] = p}

Init ==
    /\ version \in {"v1", "v2"}
    /\ pods \in [Pods -> [ann: Choices, ready: {TRUE}]]
    /\ instance = [c \in Containers |-> 0]
    /\ cgroup = [c \in Containers |-> Unlimited]
    /\ at = "list" /\ watching = FALSE /\ queue = <<>>
    /\ listed = {} /\ cache = [p \in Pods |-> None] /\ work = None /\ todo = {}
    /\ unseen = {} /\ cleared = {} /\ failed = {} /\ resetting = {}
    /\ used = [edits |-> 0, restarts |-> 0, recreations |-> 0, failures |-> 0, ends |-> 0]

Spend(b, max) ==
    /\ used[b] < max
    /\ used' = [used EXCEPT ![b] = @ + 1]

\* A pod as the API server shows it: id holds the runtime ids of its containers.
ObjectOf(p) == [ann |-> pods[p].ann, ready |-> pods[p].ready,
                id |-> [c \in Containers |-> IF PodOf[c] = p THEN instance[c] ELSE 0]]
Existing == {p \in Pods : pods[p] # None}

ShouldProcessPod(w) == w.pod \in Accepted /\ w.obj.ready

----
(***************************************************************************)
(* Run: the first list.                                                    *)
(***************************************************************************)
List ==
    /\ at = "list"
    /\ at' = "apply"
    /\ listed' = {[pod |-> p, obj |-> ObjectOf(p)] : p \in Existing}
    /\ unseen' = {}
    /\ UNCHANGED <<node, cgroup, watching, cache, process, queue, cleared, failed, used>>

\* A list or a watch that cannot be had ends the process, or parks Run for ever.
Quit == at' = IF KubeletMode THEN "parked" ELSE "exited"

ListFails ==
    /\ at = "list"
    /\ Spend("failures", MaxFailures)
    /\ Quit
    /\ UNCHANGED <<node, cgroup, watching, listed, cache, process, queue, ghosts>>

Begin(w) == work' = w /\ todo' = ContainersOf(w.pod) \ Excluded

SkipListed(w) ==
    /\ at = "apply" /\ work = None /\ w \in listed
    /\ ~ShouldProcessPod(w)
    /\ listed' = listed \ {w}
    /\ UNCHANGED <<node, cgroup, at, watching, cache, process, queue, ghosts, used>>

BeginListed(w) ==
    /\ at = "apply" /\ work = None /\ w \in listed
    /\ ShouldProcessPod(w)
    /\ listed' = listed \ {w}
    /\ Begin(w)
    /\ UNCHANGED <<node, cgroup, at, watching, cache, queue, ghosts, used>>

(***************************************************************************)
(* processPodContainers, one container at a time, by the annotations and   *)
(* the runtime ids of the object it was given.  An id that is gone is not  *)
(* found; a failed write is logged and the next container is tried.        *)
(***************************************************************************)
Wanted == Limits(work.obj.ann)
Alive(c) == work.obj.id[c] = instance[c]

SetContainer(c) ==
    /\ work # None /\ c \in todo
    /\ todo' = todo \ {c}
    /\ cgroup' = IF ~Alive(c) THEN cgroup
                 ELSE [cgroup EXCEPT ![c] = IF Wanted = Unlimited THEN ResetLimits(version, @)
                                            ELSE SetLimits(version, @, Wanted)]
    /\ cleared' = IF Alive(c) THEN cleared \ {c} ELSE cleared
    /\ failed' = IF Alive(c) THEN failed \ {c} ELSE failed
    /\ UNCHANGED <<node, run, work, queue, unseen, used>>

SetContainerFails(c) ==
    /\ work # None /\ c \in todo /\ Alive(c)
    /\ Spend("failures", MaxFailures)
    /\ todo' = todo \ {c}
    /\ \E files \in Interrupted(version, cgroup[c], Wanted) : cgroup' = [cgroup EXCEPT ![c] = files]
    /\ failed' = failed \cup {c}
    /\ UNCHANGED <<node, run, work, queue, unseen, cleared>>

\* Faulty: remembers the annotations the pod has by now.
Remember_Latest ==
    /\ work # None /\ todo = {}
    /\ cache' = [cache EXCEPT ![work.pod] = IF pods[work.pod] = None THEN None ELSE pods[work.pod].ann]
    /\ work' = None
    /\ UNCHANGED <<node, cgroup, at, watching, listed, todo, queue, ghosts, used>>

Remember ==
    /\ work # None /\ todo = {}
    /\ cache' = [cache EXCEPT ![work.pod] = work.obj.ann]
    /\ work' = None
    /\ UNCHANGED <<node, cgroup, at, watching, listed, todo, queue, ghosts, used>>

(***************************************************************************)
(* watchPodEvents.  The watch starts with an Added event for each pod that *)
(* exists; the loop has no case for Added.                                 *)
(***************************************************************************)
Initial(p) == [type |-> "Added", pod |-> p, obj |-> ObjectOf(p)]

OpenWatch ==
    /\ ~KubeletMode
    /\ at = "apply" /\ work = None /\ listed = {}
    /\ at' = "loop" /\ watching' = TRUE
    /\ queue' \in {s \in [1 .. Cardinality(Existing) -> {Initial(p) : p \in Existing}] :
                     \A p \in Existing : \E i \in DOMAIN s : s[i] = Initial(p)}
    /\ UNCHANGED <<node, cgroup, listed, cache, process, ghosts, used>>

\* In kubelet mode there is no client to watch with: it fails every time.
OpenWatchFails ==
    /\ at = "apply" /\ work = None /\ listed = {}
    /\ IF KubeletMode THEN UNCHANGED used ELSE Spend("failures", MaxFailures)
    /\ Quit
    /\ UNCHANGED <<node, cgroup, watching, listed, cache, process, queue, ghosts>>

Receive(type) ==
    /\ at = "loop" /\ work = None /\ queue # <<>>
    /\ Head(queue).type = type
    /\ queue' = Tail(queue)
    /\ UNCHANGED <<node, cgroup, at, watching, listed, cleared, failed, used>>

Received == [pod |-> Head(queue).pod, obj |-> Head(queue).obj]

IgnoreAdded ==
    /\ Receive("Added")
    /\ UNCHANGED <<cache, process, unseen>>

\* Faulty: puts the event back to look at it again.
IgnoreUnready_Requeue ==
    /\ at = "loop" /\ work = None /\ queue # <<>>
    /\ Head(queue).type = "Modified" /\ ~ShouldProcessPod(Received)
    /\ queue' = Append(Tail(queue), Head(queue))
    /\ UNCHANGED <<node, cgroup, run, process, ghosts, used>>

IgnoreUnready ==
    /\ Receive("Modified") /\ ~ShouldProcessPod(Received)
    /\ UNCHANGED <<cache, process, unseen>>

IgnoreUnchanged ==
    /\ Receive("Modified") /\ ShouldProcessPod(Received)
    /\ cache[Received.pod] = Received.obj.ann
    /\ UNCHANGED <<cache, process, unseen>>

BeginModified ==
    /\ Receive("Modified") /\ ShouldProcessPod(Received)
    /\ cache[Received.pod] # Received.obj.ann
    /\ Begin(Received)
    /\ unseen' = unseen \ {Received.pod}
    /\ UNCHANGED cache

\* Faulty: keeps the cache of a deleted pod.
Forget_Keep ==
    /\ Receive("Deleted")
    /\ UNCHANGED <<cache, process, unseen>>

Forget ==
    /\ Receive("Deleted")
    /\ cache' = [cache EXCEPT ![Received.pod] = None]
    /\ UNCHANGED <<process, unseen>>

\* The channel is closed: the loop ends after the last event, Run returns nil and
\* main with it.
Exit ==
    /\ at = "loop" /\ work = None /\ queue = <<>> /\ ~watching
    /\ at' = "exited"
    /\ UNCHANGED <<node, cgroup, watching, listed, cache, process, queue, ghosts, used>>

----
(***************************************************************************)
(* The program run once more on the node, with the reset-all option: it    *)
(* lifts the limits of all containers of the pods it accepts and ends.     *)
(* The service does not know of it.                                        *)
(***************************************************************************)
ResetAllContainersIOPSLimit ==
    /\ resetting = {}
    /\ Spend("ends", MaxEnds)
    /\ resetting' = {[c |-> c, id |-> instance[c]] : c \in
                       {c \in Containers : PodOf[c] \in Existing \cap Accepted /\ pods[PodOf[c]].ready}}
    /\ UNCHANGED <<version, pods, instance, cgroup, run, process, queue, ghosts>>

ResetContainer(t) ==
    /\ t \in resetting
    /\ resetting' = resetting \ {t}
    /\ IF t.id = instance[t.c]
       THEN cgroup' = [cgroup EXCEPT ![t.c] = ResetLimits(version, @)] /\ cleared' = cleared \cup {t.c}
       ELSE UNCHANGED <<cgroup, cleared>>
    /\ UNCHANGED <<version, pods, instance, run, process, queue, unseen, failed, used>>

ResetContainerFails(t) ==
    /\ t \in resetting /\ t.id = instance[t.c]
    /\ Spend("failures", MaxFailures)
    /\ resetting' = resetting \ {t}
    /\ \E files \in Interrupted(version, cgroup[t.c], Unlimited) : cgroup' = [cgroup EXCEPT ![t.c] = files]
    /\ cleared' = cleared \cup {t.c}
    /\ UNCHANGED <<version, pods, instance, run, process, queue, unseen, failed>>

----
(***************************************************************************)
(* The environment: users, the kubelet, the API server, the DaemonSet.     *)
(***************************************************************************)
Notify(type, p, obj) ==
    IF watching
    THEN queue' = Append(queue, [type |-> type, pod |-> p, obj |-> obj]) /\ unseen' = unseen
    ELSE unseen' = unseen \cup {p} /\ queue' = queue

PodChanges(p, pod) ==
    /\ pods' = [pods EXCEPT ![p] = pod]
    /\ Notify("Modified", p, ObjectOf(p)')
    /\ UNCHANGED <<apart, run, process>>

UserAnnotates(p) ==
    /\ p \in Existing
    /\ Spend("edits", MaxEdits)
    /\ UNCHANGED <<instance, cgroup, cleared, failed>>
    /\ \E a \in Choices \ {pods[p].ann} : PodChanges(p, [pods[p] EXCEPT !.ann = a])

\* A container dies and is started again, with a new id and a new cgroup.
ContainerRestarts(c) ==
    /\ PodOf[c] \in Existing
    /\ Spend("restarts", MaxRestarts)
    /\ instance' = [instance EXCEPT ![c] = @ + 1]
    /\ cgroup' = [cgroup EXCEPT ![c] = Unlimited]
    /\ PodChanges(PodOf[c], [pods[PodOf[c]] EXCEPT !.ready = FALSE])
    /\ cleared' = cleared \cup {c}
    /\ UNCHANGED failed

PodGetsReady(p) ==
    /\ p \in Existing /\ ~pods[p].ready
    /\ UNCHANGED <<instance, cgroup, cleared, failed, used>>
    /\ PodChanges(p, [pods[p] EXCEPT !.ready = TRUE])

PodDeleted(p) ==
    /\ p \in Existing
    /\ Spend("recreations", MaxRecreations)
    /\ pods' = [pods EXCEPT ![p] = None]
    /\ instance' = [c \in Containers |-> IF PodOf[c] = p THEN instance[c] + 1 ELSE instance[c]]
    /\ cgroup' = [c \in Containers |-> IF PodOf[c] = p THEN Unlimited ELSE cgroup[c]]
    /\ Notify("Deleted", p, ObjectOf(p))
    /\ cleared' = cleared \ ContainersOf(p)
    /\ failed' = failed \ ContainersOf(p)
    /\ UNCHANGED <<apart, run, process>>

\* A pod of the same namespace and name, as a StatefulSet creates it.
PodCreated(p) ==
    /\ p \in Pods \ Existing
    /\ \E a \in Choices : pods' = [pods EXCEPT ![p] = [ann |-> a, ready |-> FALSE]]
    /\ UNCHANGED <<apart, instance, cgroup, run, process, cleared, failed, used>>
    /\ Notify("Added", p, ObjectOf(p)')

WatchCloses ==
    /\ watching
    /\ Spend("ends", MaxEnds)
    /\ watching' = FALSE
    /\ UNCHANGED <<node, cgroup, at, listed, cache, process, queue, ghosts>>

StartAgain ==
    /\ at' = "list" /\ watching' = FALSE /\ queue' = <<>>
    /\ listed' = {} /\ cache' = [p \in Pods |-> None] /\ work' = None /\ todo' = {}
    /\ UNCHANGED <<node, cgroup, ghosts>>

\* The kubelet restarts the daemon's container when the process has ended.
Restart == at = "exited" /\ StartAgain /\ UNCHANGED used

Crash == at # "exited" /\ Spend("ends", MaxEnds) /\ StartAgain

----
Process == (\E c \in Containers : SetContainer(c) \/ SetContainerFails(c)) \/ Remember

Loop == IgnoreAdded \/ IgnoreUnready \/ IgnoreUnchanged \/ BeginModified \/ Forget \/ Exit

Service ==
    \/ List \/ ListFails \/ OpenWatch \/ OpenWatchFails
    \/ \E w \in listed : SkipListed(w) \/ BeginListed(w)
    \/ Process \/ Loop

Environment ==
    \/ \E p \in Pods : UserAnnotates(p) \/ PodGetsReady(p) \/ PodDeleted(p) \/ PodCreated(p)
    \/ \E c \in Containers : ContainerRestarts(c)
    \/ WatchCloses \/ Crash

Reset ==
    \/ ResetAllContainersIOPSLimit
    \/ \E t \in resetting : ResetContainer(t) \/ ResetContainerFails(t)

Next == Service \/ Restart \/ Environment \/ Reset

Spec == Init /\ [][Next]_vars

\* The goroutine that runs the service goes on, and an ended process is restarted.
FairSpec == Spec /\ WF_vars(Service \/ Restart)

----
(***************************************************************************)
(* What the service must get right.                                        *)
(***************************************************************************)

\* Every variable has its type.
TypeOK ==
    /\ version \in {"v1", "v2"}
    /\ pods \in [Pods -> Pod \cup {None}]
    /\ instance \in [Containers -> Nat]
    /\ cgroup \in [Containers -> Files]
    /\ at \in {"list", "apply", "loop", "exited", "parked"}
    /\ watching \in BOOLEAN
    /\ queue \in Seq(Event)
    /\ listed \subseteq Work
    /\ cache \in [Pods -> PodAnnotations \cup {None}]
    /\ work \in Work \cup {None}
    /\ IF work = None THEN todo = {} ELSE todo \subseteq ContainersOf(work.pod) \ Excluded
    /\ unseen \subseteq Pods /\ cleared \subseteq Containers /\ resetting \subseteq Target
    /\ failed \subseteq Containers
    /\ used \in Budgets

\* The service has caught up with everything the API server sent it.
Idle == at = "loop" /\ watching /\ work = None /\ queue = <<>>

Serves(p) == p \in Existing /\ p \in Accepted /\ pods[p].ready

\* The files of c say what the annotations ask for.  cgroup v2 keeps an item that
\* is to be lifted while another one stays limited.
Follows(c) ==
    LET limits == Limits(pods[PodOf[c]].ann) IN
    /\ \A k \in Items : limits[k] > 0 => cgroup[c][k] = limits[k]
    /\ version = "v1" \/ limits = Unlimited => \A k \in Items : limits[k] <= 0 => cgroup[c][k] = 0

\* Once the service is idle the cgroups follow the annotations, whatever edits,
\* deletions, recreations, restarts of the daemon and closed watches it went
\* through; except for what changed between list and watch, for a container
\* restarted in place or reset and for one whose write failed (service.go:377-479).
Agreement ==
    Idle => \A c \in Containers \ Excluded :
              Serves(PodOf[c]) /\ PodOf[c] \notin unseen /\ c \notin cleared \cup failed => Follows(c)

\* The same of what changed between list and watch (USER_GUIDE.md:83-84).
AgreementSinceList ==
    Idle => \A c \in Containers \ Excluded :
              Serves(PodOf[c]) /\ c \notin cleared \cup failed => Follows(c)

\* The service always catches up: no sequence of events, failures and ends of the
\* process leaves it waiting for anything but the next event.
CatchesUp == []<>Idle
====
