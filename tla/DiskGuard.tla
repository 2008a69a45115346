---- MODULE DiskGuard ----
(***************************************************************************)
(* The daemon as a whole: the smart-limit manager and the pod watch        *)
(* service run in one process and know nothing of each other.  The manager *)
(* writes annotations, the API server tells the service that the pod       *)
(* changed, the service writes cgroup files; the kubelet and the users     *)
(* change the same pods, and the end of the process ends both halves.      *)
(*                                                                         *)
(* Each half keeps its own view of the pods: objects has the annotations   *)
(* by name and the resource version, pods has them as the parser sees them *)
(* and the phase.  Every step changes both or none.                        *)
(***************************************************************************)
EXTENDS Integers, FiniteSets

CONSTANTS
    Containers, Pods, PodOf, None, KubeletMode, MaxFailures, MaxEnds, MaxEdits,
    \* of the manager
    NameOf, Sources, Monitored, LabelSelector, Trends, IOThreshold, BPSThreshold, IOPSLimit, BPSLimit,
    RemoveThreshold, DefaultIOPS, DefaultBPS, MaxIOPS, MaxBPS, RemoveDelay,
    CheckInterval, MonitorInterval, HistoryWindow, MaxSwings, MaxCleanups,
    \* of the service
    Malformed, Defaults, Accepted, Excluded, MaxRestarts, Versions,
    \* bound on how often anything below disturbs the two
    MaxDisturbances

VARIABLES
    objects, running, trend, status, hist, sinceTick, due, judged, step, cur,
    decision, copy, rstage, rtodo, rsnap, sinceWrite, spent,
    version, pods, instance, cgroup, at, watching, queue, listed, cache, work,
    todo, unseen, cleared, failed, resetting, used

Manager == INSTANCE SmartLimit WITH
    pods <- objects, todo <- judged, used <- spent,
    UserKeys <- {}, UserValues <- {}, MaxCrashes <- MaxEnds + MaxFailures

Parser == INSTANCE Annotations

(***************************************************************************)
(* What the parser sees of the annotations that the manager writes.  The   *)
(* marker limit-removed is not the key removed that it looks for.          *)
(***************************************************************************)
Window == [w \in Manager!Windows |-> CASE w = "15m" -> 1 [] w = "30m" -> 2 [] w = "60m" -> 3]

Seen(ann) ==
    [removed |-> FALSE,
     smart |-> [k \in Parser!Keys |-> IF k \in Manager!LimitKeys THEN ann.limit[k] ELSE None],
     legacy |-> [k \in Parser!Keys |-> None],
     other |-> (IF ann.triggeredBy = None THEN 0 ELSE Window[ann.triggeredBy])
               + (IF ann.removed THEN 4 ELSE 0) + 8 * ann.app]

Plain == [limit |-> [k \in Manager!LimitKeys |-> None], triggeredBy |-> None, removed |-> FALSE, app |-> 0]

Service == INSTANCE PodWatch WITH
    Choices <- {Seen(Plain)}, MaxEdits <- 0, MaxRecreations <- 0

\* The constants are those that the halves are written for.
ASSUME ManagerConstantsOK == Manager!ConstantsOK /\ Manager!NoneIsNoValue /\ Manager!NoneIsNoRecord

ASSUME ServiceConstantsOK == Service!ServiceConstantsOK /\ Service!NoneIsNoObject /\ Service!DefaultsOK

memory == <<status, hist, sinceTick, due, judged, step, cur, decision, copy, rstage, rtodo, rsnap>>
manager == <<objects, running, trend, memory, sinceWrite, spent>>
service == <<version, pods, instance, cgroup, at, watching, queue, listed, cache, work,
             todo, unseen, cleared, failed, resetting, used>>
vars == <<manager, service>>

Init == Manager!Init /\ Service!Init /\ version \in Versions

----
\* A pod that a step of the manager or of a user changed is shown to the service.
Propagate ==
    IF objects' = objects THEN UNCHANGED service
    ELSE \E p \in Pods :
           /\ objects'[p] # objects[p]
           /\ UNCHANGED <<instance, cgroup, cleared, failed, used>>
           /\ Service!PodChanges(p, [pods[p] EXCEPT !.ann = Seen(objects'[p].ann)])

\* The manager's goroutines run as long as the process that Run ends.
Alive == at # "exited"

MonitorStep == Alive /\ Manager!Monitor /\ Propagate
RestoreStep == Alive /\ Manager!Restoration /\ Propagate
CleanupStep == Alive /\ Manager!CleanupHistory /\ Propagate

TimePasses == Manager!Tick /\ UNCHANGED service

ServiceStep == Service!Service /\ UNCHANGED manager

\* The end of the process ends both halves, and both start again together.
StartAgain == (Service!Restart \/ Service!Crash) /\ Manager!Restart

UserEdits == \E p \in Pods : Manager!UserEditsApp(p) /\ Propagate

\* The status of a pod is part of its object: a change of it makes the update
\* of whoever read the object before a conflict.
StatusChanges(p) ==
    /\ \/ \E c \in Service!ContainersOf(p) : Service!ContainerRestarts(c)
       \/ Service!PodGetsReady(p)
    /\ objects' = [objects EXCEPT ![p].rv = @ + 1]
    /\ UNCHANGED <<running, trend, memory, sinceWrite, spent>>

WatchCloses == Service!WatchCloses /\ UNCHANGED manager

Disturbances ==
    spent.edits + spent.failures + spent.cleanups + used.restarts + used.failures + used.ends

Step ==
    \/ MonitorStep \/ RestoreStep \/ CleanupStep \/ TimePasses
    \/ ServiceStep \/ StartAgain
    \/ UserEdits \/ WatchCloses
    \/ \E p \in Pods : StatusChanges(p)

Next == Step /\ Disturbances' <= MaxDisturbances

Spec == Init /\ [][Next]_vars

\* Every goroutine of a live process goes on, time passes, the kubelet starts an
\* ended process again and reports a container that is running.
FairSpec ==
    /\ Spec
    /\ WF_vars(MonitorStep) /\ WF_vars(RestoreStep) /\ WF_vars(TimePasses)
    /\ WF_vars(ServiceStep) /\ WF_vars(Service!Restart /\ Manager!Restart)

----
(***************************************************************************)
(* From the load of a container to its cgroup files and back.              *)
(***************************************************************************)

\* What the manager remembers by the key k and what the annotations of c say is the
\* same whenever the manager is between two pieces of work.  A refused call, a conflict,
\* the marker left on a pod that is limited again, and a restart where rounds file by name
\* break this for good (smartlimit.go:383-411, 635; state_recovery.go:36, 60).
Agreed(c, k) ==
    LET ann == objects[PodOf[c]].ann IN
    Manager!Quiet => /\ Manager!Limited(k) <=> ann.triggeredBy # None
                     /\ Manager!Limited(k) => status[k].triggeredBy = ann.triggeredBy

\* Nothing kept the service from writing what it saw: see Agreement of PodWatch.
Served(c) == PodOf[c] \notin unseen /\ c \notin cleared \cup failed /\ Service!Serves(PodOf[c])

\* The files hold what the window w imposes.
Throttled(c, w) ==
    LET imposed == Manager!Imposed(Manager!WindowResult(w)) IN
    \A k \in Manager!LimitKeys : imposed[k] > 0 => cgroup[c][k] = imposed[k]

\* The files hold the limits of a container whose pod says nothing.
Lifted(c) ==
    \A k \in Manager!LimitKeys :
      IF Defaults[k] > 0 THEN cgroup[c][k] = Defaults[k]
      ELSE version = "v1" \/ Defaults = Service!Unlimited => cgroup[c][k] = 0

\* When both halves are at rest, the kernel does what the manager remembers: two
\* goroutines that share no memory, through objects that others write, restarts,
\* failures and conflicts (smartlimit.go:635-667, service.go:449-479).
MemoryEnforced ==
    Manager!Quiet /\ Service!Idle =>
      \A c \in Containers \ Excluded : \A k \in Manager!FiledAs(c) :
        Served(c) /\ Agreed(c, k) =>
          IF Manager!Limited(k) THEN Throttled(c, status[k].triggeredBy) ELSE Lifted(c)

\* The manager and the service both do what they can for c.
Obeyed(c) == Served(c) /\ \A k \in Manager!FiledAs(c) : Agreed(c, k)

\* c is above a threshold, and the files hold what the window imposes that limits it.
HotAndThrottled(c) ==
    /\ Manager!Hot(c)
    /\ \A k \in Manager!FiledAs(c) :
         Throttled(c, Manager!shouldApplyLimitGraded(trend[k]).triggeredBy)

\* A container that stays hot ends up with the limits of its window in its cgroup,
\* whatever crashes, closed watches and changes of load came before.
HotGetsThrottled ==
    \A c \in Containers : <>[](Manager!Hot(c) /\ Obeyed(c)) => <>[]HotAndThrottled(c)

\* A container that stays calm gets the limits back that it had before.
CalmGetsLifted ==
    \A c \in Containers :
      <>[](c \in Manager!Reported /\ Manager!Calm(c) /\ Obeyed(c)) => <>[]Lifted(c)

\* In the shipped configuration, too, a hot container ends up limited
\* (README.md:16, service.go:424).
HotGetsLimited ==
    \A c \in Containers : <>[]Manager!Hot(c) => <>[]HotAndThrottled(c)
====
