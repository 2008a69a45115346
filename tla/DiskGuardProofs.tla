---- MODULE DiskGuardProofs ----
(***************************************************************************)
(* The daemon as a whole, for any pods, containers, configuration and      *)
(* bounds: at rest, the cgroups do what the manager remembers.  The proof  *)
(* takes what was proved of the two halves and relates the two views of    *)
(* the pods, that of the manager and that of the service.                  *)
(***************************************************************************)
EXTENDS DiskGuard, TLAPS

\* The halves once more, with what is proved of them.
M == INSTANCE SmartLimitProofs WITH
    pods <- objects, todo <- judged, used <- spent,
    UserKeys <- {}, UserValues <- {}, MaxCrashes <- MaxEnds + MaxFailures

A == INSTANCE AgreementProofs WITH
    Choices <- {Seen(Plain)}, MaxEdits <- 0, MaxRecreations <- 0

LEMMA ManagerConstants == M!ConstantsOK /\ M!NoneIsNoValue /\ M!NoneIsNoRecord
BY ManagerConstantsOK
   DEF Manager!ConstantsOK, M!ConstantsOK, Manager!NoneIsNoValue, M!NoneIsNoValue,
       Manager!NoneIsNoRecord, M!NoneIsNoRecord, Manager!Windows, M!Windows, Manager!Rates, M!Rates,
       Manager!LimitKeys, M!LimitKeys, Manager!IOPSKeys, M!IOPSKeys, Manager!BPSKeys, M!BPSKeys,
       Manager!LimitStatus, M!LimitStatus, Manager!LimitResult, M!LimitResult,
       Manager!HistoryEntry, M!HistoryEntry, Manager!StatusKeys, M!StatusKeys, Manager!Filed, M!Filed,
       Manager!FiledAs, M!FiledAs, Manager!Key, M!Key

LEMMA ServiceConstants == A!ServiceConstantsOK /\ A!NoneIsNoObject /\ A!DefaultsOK
BY ServiceConstantsOK
   DEF Service!ServiceConstantsOK, A!ServiceConstantsOK, Service!NoneIsNoObject, A!NoneIsNoObject,
       Service!DefaultsOK, A!DefaultsOK, Service!Pod, A!Pod, Service!Object, A!Object,
       Service!PodAnnotations, A!PodAnnotations, Service!Keys, A!Keys, Service!LimitKeys, A!LimitKeys,
       Service!BothKeys, A!BothKeys, Service!Values, A!Values, Service!IsFiniteSet, A!IsFiniteSet

\* M and Manager, A and Service are instances of the same modules.
LEMMA SameManager ==
    /\ Manager!Init => M!Init
    /\ Manager!Monitor => M!Monitor
    /\ Manager!Restoration => M!Restoration
    /\ Manager!CleanupHistory => M!CleanupHistory
    /\ Manager!Tick => M!Tick
    /\ Manager!Restart => M!Restart
    /\ \A p : Manager!UserEditsApp(p) => M!UserEditsApp(p)
    /\ \A w : Manager!Imposed(Manager!WindowResult(w)) = M!Imposed(M!WindowResult(w))
    /\ Manager!LimitKeys = M!LimitKeys /\ Manager!Windows = M!Windows
BY DEF Manager!memory, M!memory, Manager!vars, M!vars, Manager!Windows, M!Windows, Manager!IOPSKeys,
       M!IOPSKeys, Manager!BPSKeys, M!BPSKeys, Manager!LimitKeys, M!LimitKeys, Manager!Rates, M!Rates,
       Manager!Key, M!Key, Manager!FiledAs, M!FiledAs, Manager!Filed, M!Filed, Manager!StatusKeys,
       M!StatusKeys, Manager!Annotations, M!Annotations, Manager!PodObject, M!PodObject, Manager!HistoryEntry,
       M!HistoryEntry, Manager!LimitResult, M!LimitResult, Manager!LimitStatus, M!LimitStatus,
       Manager!Budgets, M!Budgets, Manager!Above, M!Above, Manager!checkWindowThreshold,
       M!checkWindowThreshold, Manager!checkRemoveCondition, M!checkRemoveCondition, Manager!Precedence,
       M!Precedence, Manager!WindowResult, M!WindowResult, Manager!shouldApplyLimitGraded,
       M!shouldApplyLimitGraded, Manager!shouldRemoveLimit, M!shouldRemoveLimit, Manager!shouldUpdateLimit,
       M!shouldUpdateLimit, Manager!Least, M!Least, Manager!Cap, M!Cap, Manager!ContainerLimit,
       M!ContainerLimit, Manager!Imposed, M!Imposed, Manager!LimitedAnnotations, M!LimitedAnnotations,
       Manager!ReleasedAnnotations, M!ReleasedAnnotations, Manager!Recorded, M!Recorded, Manager!Init, M!Init,
       Manager!monitor, M!monitor, Manager!restoration, M!restoration, Manager!ticker, M!ticker,
       Manager!shouldMonitorPod, M!shouldMonitorPod, Manager!Collected, M!Collected, Manager!Round, M!Round,
       Manager!MonitorRound, M!MonitorRound, Manager!MonitorRoundBlind, M!MonitorRoundBlind, Manager!Limited,
       M!Limited, Manager!Turn, M!Turn, Manager!Skip, M!Skip, Manager!KeepLimit, M!KeepLimit, Manager!Call,
       M!Call, Manager!BeginRemove, M!BeginRemove, Manager!BeginApply, M!BeginApply, Manager!GetPod, M!GetPod,
       Manager!Accepts, M!Accepts, Manager!UpdatePod, M!UpdatePod, Manager!UpdateConflict, M!UpdateConflict,
       Manager!CallFails, M!CallFails, Manager!UpdateLimitStatus, M!UpdateLimitStatus, Manager!CleanupHistory,
       M!CleanupHistory, Manager!RestoreList, M!RestoreList, Manager!RestoreListFails, M!RestoreListFails,
       Manager!RestoredResult, M!RestoredResult, Manager!Restorable, M!Restorable, Manager!RestoreContainer,
       M!RestoreContainer, Manager!RestoreEnds, M!RestoreEnds, Manager!Older, M!Older, Manager!CheckHorizon,
       M!CheckHorizon, Manager!Tick, M!Tick, Manager!UserWrites, M!UserWrites, Manager!UserEditsApp,
       M!UserEditsApp, Manager!Restart, M!Restart, Manager!Judge, M!Judge, Manager!Monitor, M!Monitor,
       Manager!Restoration, M!Restoration

LEMMA SameService ==
    /\ Service!Init => A!Init
    /\ Service!Service => A!Service
    /\ Service!Restart => A!Restart
    /\ Service!Crash => A!Crash
    /\ Service!WatchCloses => A!WatchCloses
    /\ \A c : Service!ContainerRestarts(c) => A!ContainerRestarts(c)
    /\ \A p : Service!PodGetsReady(p) => A!PodGetsReady(p)
    /\ \A p, pod : Service!PodChanges(p, pod) => A!PodChanges(p, pod)
    /\ \A p : Service!Serves(p) => A!Serves(p)
    /\ \A p : Service!ContainersOf(p) = A!ContainersOf(p)
    /\ Service!Idle => A!Idle
    /\ Service!Unlimited = A!Unlimited
BY DEF Service!vars, A!vars, Service!apart, A!apart, Service!node, A!node, Service!run, A!run,
       Service!process, A!process, Service!ghosts, A!ghosts, Service!Work, A!Work, Service!Target, A!Target,
       Service!Event, A!Event, Service!ContainersOf, A!ContainersOf, Service!Spend, A!Spend, Service!ObjectOf,
       A!ObjectOf, Service!Existing, A!Existing, Service!ShouldProcessPod, A!ShouldProcessPod, Service!List,
       A!List, Service!Quit, A!Quit, Service!ListFails, A!ListFails, Service!Begin, A!Begin,
       Service!SkipListed, A!SkipListed, Service!BeginListed, A!BeginListed, Service!Wanted, A!Wanted,
       Service!Alive, A!Alive, Service!SetContainer, A!SetContainer, Service!SetContainerFails,
       A!SetContainerFails, Service!Remember, A!Remember, Service!Initial, A!Initial, Service!OpenWatch,
       A!OpenWatch, Service!OpenWatchFails, A!OpenWatchFails, Service!Receive, A!Receive, Service!Received,
       A!Received, Service!IgnoreAdded, A!IgnoreAdded, Service!IgnoreUnready, A!IgnoreUnready,
       Service!IgnoreUnchanged, A!IgnoreUnchanged, Service!BeginModified, A!BeginModified, Service!Forget,
       A!Forget, Service!Exit, A!Exit, Service!Notify, A!Notify, Service!PodChanges, A!PodChanges,
       Service!ContainerRestarts, A!ContainerRestarts, Service!PodGetsReady, A!PodGetsReady,
       Service!WatchCloses, A!WatchCloses, Service!StartAgain, A!StartAgain, Service!Restart, A!Restart,
       Service!Crash, A!Crash, Service!Process, A!Process, Service!Loop, A!Loop, Service!Service, A!Service,
       Service!Object, A!Object, Service!Pod, A!Pod, Service!Items, A!Items, Service!Files, A!Files,
       Service!Unlimited, A!Unlimited, Service!Position, A!Position, Service!Positive, A!Positive,
       Service!AfterWrites, A!AfterWrites, Service!AfterLine, A!AfterLine, Service!SetLimits, A!SetLimits,
       Service!ResetLimits, A!ResetLimits, Service!Interrupted, A!Interrupted, Service!LimitKeys, A!LimitKeys,
       Service!BothKeys, A!BothKeys, Service!Keys, A!Keys, Service!Values, A!Values, Service!PodAnnotations,
       A!PodAnnotations, Service!Both, A!Both, Service!hasSmartLimitAnnotation, A!hasSmartLimitAnnotation,
       Service!Chosen, A!Chosen, Service!Number, A!Number, Service!Limits, A!Limits, Service!Cardinality,
       A!Cardinality, Service!IsFiniteSet, A!IsFiniteSet, Service!Init, A!Init, Service!Idle, A!Idle,
       Service!Serves, A!Serves, Service!Budgets, A!Budgets

(***************************************************************************)
(* The two views of the pods.                                              *)
(***************************************************************************)

\* No pod is ever gone, and the service is shown the annotations there are.
Paired == \A p \in Pods : pods[p] # None /\ pods[p].ann = Seen(objects[p].ann)

DInv == M!TypeOK /\ M!Written /\ A!AInv /\ Paired

\* The parser is shown annotations of its own type.
LEMMA SeenTyped ==
    ASSUME NEW ann \in M!Annotations
    PROVE  Seen(ann) \in A!PodAnnotations
<1>1. \A k \in Parser!Keys : (IF k \in Manager!LimitKeys THEN ann.limit[k] ELSE None) \in A!Values
  BY SameManager DEF M!Annotations, A!Values
<1>2. ann.triggeredBy # None => Window[ann.triggeredBy] \in Nat
  BY SameManager DEF M!Annotations, M!Windows, Window
<1>3. ann.app \in Nat
  BY DEF M!Annotations
<1>4. Parser!Keys = A!Keys
  BY DEF Parser!Keys, Parser!LimitKeys, Parser!BothKeys, A!Keys, A!LimitKeys, A!BothKeys
<1> QED BY <1>1, <1>2, <1>3, <1>4 DEF Seen, A!PodAnnotations, A!Values

LEMMA InitDInv == Init => DInv
<1> SUFFICES ASSUME Init PROVE DInv
  OBVIOUS
<1>1. M!Init /\ A!Init
  BY SameManager, SameService DEF Init
<1>2. M!TypeOK /\ M!Written
  BY <1>1, ManagerConstants, M!InitTyped, M!InitWritten
<1>3. A!AInv
  BY <1>1, ServiceConstants, A!InitAInv
<1>4. Paired
  <2>1. \A p \in Pods : objects[p].ann = Plain
    BY <1>1, SameManager DEF M!Init, Plain
  <2>2. \A p \in Pods : pods[p] \in [ann: {Seen(Plain)}, ready: {TRUE}]
    BY <1>1 DEF A!Init
  <2>3. [ann: {Seen(Plain)}, ready: {TRUE}] \subseteq A!Pod
    BY ServiceConstants DEF A!ServiceConstantsOK, A!Pod
  <2> QED BY <2>1, <2>2, <2>3, ServiceConstants DEF A!NoneIsNoObject, Paired
<1> QED BY <1>2, <1>3, <1>4 DEF DInv

\* What the manager does to a pod, or a user through it, is shown to the service.
LEMMA PropagateKeeps ==
    ASSUME DInv, M!Next, Propagate
    PROVE  DInv'
<1>1. M!TypeOK' /\ M!Written'
  BY ManagerConstants, M!NextTyped, M!WrittenStep DEF DInv
<1>2. CASE objects' = objects
  <2>1. UNCHANGED service
    BY <1>2 DEF Propagate
  <2>2. UNCHANGED A!vars
    BY <2>1 DEF service, A!vars, A!node, A!apart, A!run, A!process, A!ghosts
  <2>3. A!AInv'
    BY <2>2, ServiceConstants, A!NextAInv DEF DInv
  <2> QED BY <1>1, <1>2, <2>1, <2>3 DEF DInv, Paired, service
<1>3. CASE objects' # objects
  <2>1. PICK p \in Pods : /\ objects'[p] # objects[p]
                          /\ UNCHANGED <<instance, cgroup, cleared, failed, used>>
                          /\ Service!PodChanges(p, [pods[p] EXCEPT !.ann = Seen(objects'[p].ann)])
    BY <1>3 DEF Propagate
  <2> DEFINE pod == [pods[p] EXCEPT !.ann = Seen(objects'[p].ann)]
  <2>2. A!PodChanges(p, pod)
    BY <2>1, SameService
  <2>3. objects'[p].ann \in M!Annotations
    BY <1>1 DEF M!TypeOK, M!PodObject
  <2>4. pods[p] \in A!Pod
    BY DEF DInv, Paired, A!AInv, A!TypeOK
  <2>5. pod \in A!Pod
    BY <2>3, <2>4, SeenTyped DEF A!Pod
  <2>6. pod # None /\ pod.ann = Seen(objects'[p].ann)
    BY <2>4, <2>5, ServiceConstants DEF A!NoneIsNoObject, A!Pod
  <2> HIDE DEF pod
  <2>7. A!AInv'
    BY <2>1, <2>2, <2>5, ServiceConstants, A!EditKeeps DEF DInv
  <2>8. \A q \in Pods \ {p} : objects'[q] = objects[q]
    <3>1. PICK r \in Pods : objects' = [objects EXCEPT ![r] = objects'[r]]
      BY <1>3, ManagerConstants, M!OnePodChanges DEF DInv
    <3>2. r = p
      BY <2>1, <3>1 DEF DInv, M!TypeOK
    <3> QED BY <3>1, <3>2 DEF DInv, M!TypeOK
  <2>9. pods' = [pods EXCEPT ![p] = pod]
    BY <2>2 DEF A!PodChanges
  <2>10. Paired'
    BY <2>6, <2>8, <2>9 DEF DInv, Paired, A!AInv, A!TypeOK
  <2> QED BY <1>1, <2>7, <2>10 DEF DInv
<1> QED BY <1>2, <1>3

\* A step of the service leaves the pods as they are.
LEMMA ServiceKeeps ==
    ASSUME DInv, A!Next, UNCHANGED <<pods, objects>>, M!TypeOK' /\ M!Written'
    PROVE  DInv'
<1>1. A!AInv'
  BY ServiceConstants, A!NextAInv DEF DInv
<1> QED BY <1>1 DEF DInv, Paired

LEMMA ManagerUnchanged ==
    ASSUME M!TypeOK, M!Written, UNCHANGED manager
    PROVE  M!TypeOK' /\ M!Written'
<1>1. UNCHANGED M!vars
  BY DEF manager, memory, M!vars, M!memory
<1> QED BY <1>1, ManagerConstants, M!NextTyped, M!WrittenStep

LEMMA StatusKeeps ==
    ASSUME DInv, NEW p \in Pods, StatusChanges(p)
    PROVE  DInv'
<1>1. objects' = [objects EXCEPT ![p].rv = @ + 1] /\ UNCHANGED <<running, trend, M!memory, sinceWrite, spent>>
  BY DEF StatusChanges, memory, M!memory
<1>2. M!TypeOK' /\ M!Written'
  BY <1>1, M!VersionKeeps, ManagerConstants DEF DInv
<1>3. \A q \in Pods : objects'[q].ann = objects[q].ann
  BY <1>1 DEF DInv, M!TypeOK, M!PodObject
<1>4. A!Next /\ \E ready \in BOOLEAN : pods' = [pods EXCEPT ![p].ready = ready]
  <2>1. CASE \E c \in Service!ContainersOf(p) : Service!ContainerRestarts(c)
    <3>1. PICK c \in Containers : PodOf[c] = p /\ A!ContainerRestarts(c)
      BY <2>1, SameService DEF A!ContainersOf
    <3>2. pods' = [pods EXCEPT ![p] = [pods[p] EXCEPT !.ready = FALSE]]
      BY <3>1 DEF A!ContainerRestarts, A!PodChanges
    <3> QED BY <3>1, <3>2 DEF A!Next, A!Environment
  <2>2. CASE Service!PodGetsReady(p)
    <3>1. A!PodGetsReady(p)
      BY <2>2, SameService
    <3>2. pods' = [pods EXCEPT ![p] = [pods[p] EXCEPT !.ready = TRUE]]
      BY <3>1 DEF A!PodGetsReady, A!PodChanges
    <3> QED BY <3>1, <3>2 DEF A!Next, A!Environment
  <2> QED BY <2>1, <2>2 DEF StatusChanges
<1>5. A!AInv'
  BY <1>4, ServiceConstants, A!NextAInv DEF DInv
<1>6. Paired'
  <2>1. \A q \in Pods : pods[q] \in A!Pod
    BY DEF DInv, Paired, A!AInv, A!TypeOK
  <2>2. \A q \in Pods : pods'[q] \in A!Pod /\ pods'[q].ann = pods[q].ann
    BY <1>4, <2>1 DEF A!Pod, DInv, A!AInv, A!TypeOK
  <2> QED BY <1>3, <2>2, ServiceConstants DEF A!NoneIsNoObject, DInv, Paired
<1> QED BY <1>2, <1>5, <1>6 DEF DInv

LEMMA NextDInv == DInv /\ [Next]_vars => DInv'
<1> SUFFICES ASSUME DInv, [Next]_vars PROVE DInv'
  OBVIOUS
<1>1. CASE MonitorStep \/ RestoreStep \/ CleanupStep \/ UserEdits
  <2>1. M!Next /\ Propagate
    BY <1>1, SameManager DEF MonitorStep, RestoreStep, CleanupStep, UserEdits, M!Next, M!Users
  <2> QED BY <2>1, PropagateKeeps
<1>2. CASE TimePasses
  <2>1. M!Next /\ UNCHANGED <<objects, service>>
    BY <1>2, SameManager DEF TimePasses, M!Next, M!Tick
  <2> QED BY <2>1, PropagateKeeps DEF Propagate
<1>3. CASE ServiceStep
  <2>1. A!Next /\ UNCHANGED manager
    BY <1>3, SameService DEF ServiceStep, A!Next
  <2>2. UNCHANGED pods
    BY <1>3, SameService
       DEF ServiceStep, A!Service, A!List, A!ListFails, A!OpenWatch, A!OpenWatchFails, A!SkipListed, A!BeginListed, A!Process,
           A!SetContainer, A!SetContainerFails, A!Remember, A!Loop, A!IgnoreAdded, A!IgnoreUnready, A!IgnoreUnchanged,
           A!BeginModified, A!Forget, A!Receive, A!Exit, A!node
  <2> QED BY <2>1, <2>2, ManagerUnchanged, ServiceKeeps DEF DInv, manager
<1>4. CASE WatchCloses
  <2>1. A!Next /\ UNCHANGED <<manager, pods>>
    BY <1>4, SameService DEF WatchCloses, A!Next, A!Environment, A!WatchCloses, A!node
  <2> QED BY <2>1, ManagerUnchanged, ServiceKeeps DEF DInv, manager
<1>5. CASE StartAgain
  <2>1. A!Next /\ UNCHANGED pods
    BY <1>5, SameService DEF StartAgain, A!Next, A!Environment, A!Restart, A!Crash, A!StartAgain, A!node
  <2>2. M!Next /\ UNCHANGED objects
    BY <1>5, SameManager DEF StartAgain, M!Next, M!Restart
  <2>3. M!TypeOK' /\ M!Written'
    BY <2>2, ManagerConstants, M!NextTyped, M!WrittenStep DEF DInv
  <2> QED BY <2>1, <2>2, <2>3, ServiceKeeps
<1>6. ASSUME NEW p \in Pods, StatusChanges(p) PROVE DInv'
  BY <1>6, StatusKeeps
<1>7. CASE UNCHANGED vars
  <2>1. A!AInv'
    <3>1. UNCHANGED A!vars
      BY <1>7 DEF vars, service, A!vars, A!node, A!apart, A!run, A!process, A!ghosts
    <3> QED BY <3>1, ServiceConstants, A!NextAInv DEF DInv
  <2> QED BY <1>7, <2>1, ManagerUnchanged DEF DInv, Paired, vars, manager, service
<1> QED BY <1>1, <1>2, <1>3, <1>4, <1>5, <1>6, <1>7 DEF Next, Step

(***************************************************************************)
(* At rest.                                                                *)
(***************************************************************************)

\* The parser reads every limit that the manager wrote, and the defaults where it
\* wrote none.
LEMMA ParserReads ==
    ASSUME NEW ann \in M!Annotations, NEW k \in M!LimitKeys
    PROVE  /\ ann.limit[k] # None => A!Limits(Seen(ann))[k] = ann.limit[k]
           /\ (\A j \in M!LimitKeys : ann.limit[j] = None) => A!Limits(Seen(ann))[k] = Defaults[k]
<1> DEFINE seen == Seen(ann)
<1>1. Parser!Keys = A!Keys /\ Manager!LimitKeys = M!LimitKeys /\ A!LimitKeys = M!LimitKeys
  BY SameManager
     DEF Parser!Keys, Parser!LimitKeys, Parser!BothKeys, A!Keys, A!LimitKeys, A!BothKeys, M!LimitKeys, M!IOPSKeys, M!BPSKeys
<1>2. k \in A!Keys /\ A!Both(k) \in A!Keys /\ A!Both(k) \notin M!LimitKeys
  BY DEF A!Keys, A!LimitKeys, A!BothKeys, A!Both, M!LimitKeys, M!IOPSKeys, M!BPSKeys
<1>3. /\ ~seen.removed
      /\ \A j \in A!Keys : seen.smart[j] = (IF j \in M!LimitKeys THEN ann.limit[j] ELSE None) /\ seen.legacy[j] = None
  BY <1>1 DEF Seen
<1> HIDE DEF seen
<1>4. None \notin Int
  BY ServiceConstants DEF A!DefaultsOK
<1>5. A!Limits(seen)[k] = A!Number(A!Chosen(seen)[A!Both(k)], A!Number(A!Chosen(seen)[k], Defaults[k]))
  BY <1>1, <1>3 DEF A!Limits
<1>6. A!Chosen(seen)[A!Both(k)] = None
  BY <1>2, <1>3 DEF A!Chosen
<1>7. A!Limits(seen)[k] = A!Number(A!Chosen(seen)[k], Defaults[k])
  BY <1>4, <1>5, <1>6 DEF A!Number
<1>8. ASSUME ann.limit[k] # None PROVE A!Limits(seen)[k] = ann.limit[k]
  <2>1. A!Chosen(seen) = seen.smart
    BY <1>2, <1>3, <1>8 DEF A!Chosen, A!hasSmartLimitAnnotation
  <2>2. ann.limit[k] \in Int
    BY <1>8 DEF M!Annotations
  <2> QED BY <1>2, <1>3, <1>7, <2>1, <2>2 DEF A!Number
<1>9. ASSUME \A j \in M!LimitKeys : ann.limit[j] = None PROVE A!Limits(seen)[k] = Defaults[k]
  <2>1. A!Chosen(seen)[k] = None
    BY <1>2, <1>3, <1>9 DEF A!Chosen
  <2> QED BY <1>4, <1>7, <2>1 DEF A!Number
<1> QED BY <1>8, <1>9 DEF seen

LEMMA RestEnforces == DInv => MemoryEnforced
<1> SUFFICES ASSUME DInv, Manager!Quiet, Service!Idle, NEW c \in Containers \ Excluded,
                    NEW k \in Manager!FiledAs(c), Served(c), Agreed(c, k)
             PROVE  IF Manager!Limited(k) THEN Throttled(c, status[k].triggeredBy) ELSE Lifted(c)
  BY DEF MemoryEnforced
<1> DEFINE ann == objects[PodOf[c]].ann
<1>1. PodOf[c] \in Pods
  BY ManagerConstants DEF M!ConstantsOK
<1>2. ann \in M!Annotations /\ M!Bears(ann) /\ pods[PodOf[c]].ann = Seen(ann)
  BY <1>1 DEF DInv, M!TypeOK, M!PodObject, M!Written, Paired
<1>3. A!Follows(c)
  BY SameService, ServiceConstants, A!IdleFollows DEF DInv, A!Agreement, Served
<1> DEFINE limits == A!Limits(Seen(ann))
<1>4. /\ \A l \in M!LimitKeys : limits[l] > 0 => cgroup[c][l] = limits[l]
      /\ version = "v1" \/ limits = A!Unlimited => \A l \in M!LimitKeys : limits[l] <= 0 => cgroup[c][l] = 0
  BY <1>2, <1>3 DEF A!Follows, A!Items, M!LimitKeys, M!IOPSKeys, M!BPSKeys
<1>5. CASE Manager!Limited(k)
  <2>1. ann.triggeredBy # None /\ status[k].triggeredBy = ann.triggeredBy
    BY <1>5 DEF Agreed
  <2> DEFINE imposed == M!Imposed(M!WindowResult(ann.triggeredBy))
  <2>2. \A l \in M!LimitKeys : imposed[l] > 0 => ann.limit[l] = imposed[l]
    BY <1>2, <2>1 DEF M!Bears
  <2>3. ASSUME NEW l \in M!LimitKeys, imposed[l] > 0 PROVE cgroup[c][l] = imposed[l]
    <3>1. ann.limit[l] = imposed[l] /\ ann.limit[l] \in Nat \cup {None}
      BY <1>2, <2>2, <2>3 DEF M!Annotations
    <3>2. ann.limit[l] # None
      <4>1. ann.triggeredBy \in M!Windows
        BY <1>2, <2>1 DEF M!Annotations
      <4> HIDE DEF ann
      <4>2. imposed \in [M!LimitKeys -> Nat]
        BY <4>1, ManagerConstants, M!WindowResultType, M!ImposedType
      <4> QED BY <3>1, <4>2, ManagerConstants DEF M!NoneIsNoValue
    <3>3. limits[l] = imposed[l]
      BY <1>2, <3>1, <3>2, ParserReads
    <3> QED BY <1>4, <2>3, <3>3
  <2> HIDE DEF ann, limits
  <2>4. Throttled(c, ann.triggeredBy)
    BY <2>3, SameManager DEF Throttled
  <2> QED BY <1>5, <2>1, <2>4
<1>6. CASE ~Manager!Limited(k)
  <2>1. ann.triggeredBy = None
    BY <1>6 DEF Agreed
  <2>2. \A l \in M!LimitKeys : limits[l] = Defaults[l]
    BY <1>2, <2>1, ParserReads DEF M!Bears
  <2>3. Defaults \in [M!LimitKeys -> Int]
    BY ServiceConstants DEF A!DefaultsOK, A!LimitKeys, M!LimitKeys, M!IOPSKeys, M!BPSKeys
  <2>4. limits = Defaults
    <3>1. limits \in [M!LimitKeys -> Int]
      BY <1>2, SeenTyped, ServiceConstants, A!LimitsAreNumbers DEF A!LimitKeys, M!LimitKeys, M!IOPSKeys, M!BPSKeys
    <3> HIDE DEF limits
    <3> QED BY <2>2, <2>3, <3>1
  <2> HIDE DEF ann, limits
  <2>5. Lifted(c)
    BY <1>4, <2>3, <2>4, SameManager, SameService DEF Lifted
  <2> QED BY <1>6, <2>5
<1> QED BY <1>5, <1>6

\* Whenever both halves are at rest the cgroups do what the manager remembers, for
\* the containers that Served and Agreed describe (smartlimit.go:635-667,
\* service.go:449-479).
THEOREM MemoryIsEnforced == Spec => []MemoryEnforced
BY InitDInv, NextDInv, RestEnforces, PTL DEF Spec
====
