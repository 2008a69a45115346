---- MODULE SmartLimit ----
(***************************************************************************)
(* The smart-limit manager (pkg/smartlimit): a monitor goroutine that      *)
(* turns the I/O trend of every container of the node into limits written  *)
(* as pod annotations, a cleanup goroutine that ages its memory, and a     *)
(* restore goroutine that rebuilds the memory from the annotations when    *)
(* the daemon starts.  The three run concurrently, every call to the API   *)
(* server is a step of its own, users edit the same pods, and the daemon   *)
(* may die between any two steps.                                          *)
(*                                                                         *)
(* A time stamp t of the code is modelled by its age now - t, saturating   *)
(* one past the longest delay it is compared with: every comparison has    *)
(* the outcome it has on the clock, and time is unbounded.                 *)
(***************************************************************************)
EXTENDS Integers, FiniteSets

CONSTANTS
    Containers,      \* by their ids
    Pods,
    PodOf,           \* [Containers -> Pods]
    NameOf,          \* the names of the containers in their pods
    Sources,         \* where a round may find the containers' I/O
    Monitored,       \* pods that shouldMonitorPodByNamespace accepts
    LabelSelector,   \* ExcludeLabelSelector is set
    None,            \* an absent value: a nil pointer, a missing annotation
    Trends,          \* the trends a container may show
    IOThreshold, BPSThreshold,   \* per window: above it a container is limited
    IOPSLimit, BPSLimit,         \* per window: the limit then imposed
    RemoveThreshold,             \* at or below it the limit may be lifted
    DefaultIOPS, DefaultBPS,     \* a container's limit when the window has none
    MaxIOPS, MaxBPS,             \* no limit is above these
    RemoveDelay, CheckInterval, MonitorInterval, HistoryWindow,
    KubeletMode,                 \* SmartLimitUseKubeletAPI: no client of the API server
    UserKeys, UserValues,        \* what users write into the limit annotations
    MaxEdits, MaxFailures, MaxCrashes, MaxSwings, MaxCleanups  \* bounds

Windows == {"15m", "30m", "60m"}
IOPSKeys == {"read-iops", "write-iops"}
BPSKeys == {"read-bps", "write-bps"}
LimitKeys == IOPSKeys \cup BPSKeys
Rates == [LimitKeys -> Nat]

\* The summary is filed by the bare name of the container, cAdvisor's metrics by its id.
Key(source, c) == IF source = "summary" THEN NameOf[c] ELSE c
FiledAs(c) == {Key(source, c) : source \in Sources}
Filed == UNION {FiledAs(c) : c \in Containers}

\* Restoration files every status by the id.
StatusKeys == Filed \cup Containers

ASSUME ConstantsOK ==
    /\ PodOf \in [Containers -> Pods]
    /\ DOMAIN NameOf = Containers
    /\ Sources \subseteq {"summary", "cadvisor"}
    /\ Monitored \subseteq Pods /\ LabelSelector \in BOOLEAN
    /\ Trends \subseteq [Windows -> [LimitKeys -> Int]]
    /\ {IOThreshold, BPSThreshold, IOPSLimit, BPSLimit} \subseteq [Windows -> Nat]
    /\ {RemoveThreshold, DefaultIOPS, DefaultBPS, MaxIOPS, MaxBPS} \subseteq Nat
    /\ {RemoveDelay, CheckInterval, HistoryWindow} \subseteq Nat
    /\ MonitorInterval \in Nat \ {0}
    /\ KubeletMode \in BOOLEAN
    /\ UserKeys \subseteq LimitKeys
    /\ UserValues \subseteq Nat \cup {None}
    /\ {MaxEdits, MaxFailures, MaxCrashes, MaxSwings, MaxCleanups} \subseteq Nat

ASSUME NoneIsNoValue ==
    None \notin Nat \cup Windows \cup Pods \cup StatusKeys \cup Rates \cup [Windows -> Rates]

(***************************************************************************)
(* State.  pods is the API server's; status, hist and the goroutines'      *)
(* stages are the daemon's memory and are lost in a crash.                 *)
(***************************************************************************)
VARIABLES
    pods,        \* [Pods -> PodObject], the objects the API server holds
    running,     \* containers that the node reports metrics for
    trend,       \* the trend of each key in the last analysis
    status,      \* limitStatus: [StatusKeys -> LimitStatus or None]
    hist,        \* history: for each key an entry, or None
    sinceTick,   \* time since the monitor's ticker last fired
    due,         \* the ticker's channel holds a tick
    todo,        \* keys the monitor still has to look at in this round
    step,        \* where applyLimitForContainer is
    cur,         \* the key it works for and the pod that the key's history names
    decision,    \* the LimitResult it is about to apply; None for a removal
    copy,        \* the pod object GetPod returned
    rstage,      \* where restoreLimitStatus is
    rtodo, rsnap,\* containers still to restore, and the pods it listed
    sinceWrite,  \* history variable: time since the manager last limited a pod
    used         \* how much of each bound is used up

memory == <<status, hist, sinceTick, due, todo, step, cur, decision, copy, rstage, rtodo, rsnap>>
vars == <<pods, running, trend, memory, sinceWrite, used>>

\* The annotations of a pod: the four limit keys, the window that triggered the
\* limit, the limit-removed marker, and app, any annotation without the prefix.
Annotations == [limit: [LimitKeys -> Nat \cup {None}], triggeredBy: Windows \cup {None},
                removed: BOOLEAN, app: Nat]
PodObject == [rv: Nat, ann: Annotations]
HistoryEntry == [age: Nat, pod: Pods]     \* of LastUpdate; the pod first filed by the key
LimitResult == [triggeredBy: Windows, limit: Rates]
LimitStatus == [isLimited: BOOLEAN, triggeredBy: Windows \cup {None},
                limit: Rates \cup {None}, applied: Nat, checked: Nat]
Budgets == [edits: Nat, failures: Nat, crashes: Nat, swings: Nat, cleanups: Nat]

ASSUME NoneIsNoRecord == None \notin LimitStatus \cup LimitResult \cup HistoryEntry

----
(***************************************************************************)
(* The decision procedures.                                                *)
(***************************************************************************)
Above(rates, io, bps) ==
    \/ \E k \in IOPSKeys : rates[k] > io
    \/ \E k \in BPSKeys : rates[k] > bps

checkWindowThreshold(t, w) == Above(t[w], IOThreshold[w], BPSThreshold[w])
checkRemoveCondition(t, w) == ~Above(t[w], RemoveThreshold, RemoveThreshold)

Precedence == [w \in Windows |-> CASE w = "15m" -> 1 [] w = "30m" -> 2 [] w = "60m" -> 3]

WindowResult(w) ==
    [triggeredBy |-> w,
     limit |-> [k \in LimitKeys |-> IF k \in IOPSKeys THEN IOPSLimit[w] ELSE BPSLimit[w]]]

\* Faulty variants, none of them reachable from Next, stand before the definition
\* they vary; each breaks a property below.  Here: gives up after the 15m window.
shouldApplyLimitGraded_First(t) ==
    IF checkWindowThreshold(t, "15m") THEN WindowResult("15m") ELSE None

\* The result of the first window, 15m before 30m before 60m, over its threshold.
shouldApplyLimitGraded(t) ==
    LET hot == {w \in Windows : checkWindowThreshold(t, w)}
    IN  IF hot = {} THEN None
        ELSE WindowResult(CHOOSE w \in hot : \A v \in hot : Precedence[w] <= Precedence[v])

\* Faulty: > for >=.
shouldRemoveLimit_Strict(t, s) ==
    /\ s.applied >= RemoveDelay
    /\ s.checked > CheckInterval
    /\ s.triggeredBy \in Windows
    /\ checkRemoveCondition(t, s.triggeredBy)

shouldRemoveLimit(t, s) ==
    /\ s.applied >= RemoveDelay
    /\ s.checked >= CheckInterval
    /\ s.triggeredBy \in Windows
    /\ checkRemoveCondition(t, s.triggeredBy)

shouldUpdateLimit(s, result) ==
    /\ s.limit # None
    /\ s.triggeredBy # result.triggeredBy \/ s.limit # result.limit

(***************************************************************************)
(* The annotations a write puts on a pod, from those of the object read.   *)
(***************************************************************************)
Least(a, b) == IF a < b THEN a ELSE b
Cap(k) == IF k \in IOPSKeys THEN MaxIOPS ELSE MaxBPS
ContainerLimit == [k \in LimitKeys |-> Least(IF k \in IOPSKeys THEN DefaultIOPS ELSE DefaultBPS, Cap(k))]

\* What a result imposes: its own values, or the container's when its read
\* limits are both zero; never above the maximum.
Imposed(result) ==
    LET graded == result.limit["read-iops"] > 0 \/ result.limit["read-bps"] > 0
        wanted == IF graded THEN result.limit ELSE ContainerLimit
    IN  [k \in LimitKeys |-> Least(wanted[k], Cap(k))]

\* Faulty: writes every item, exempted or not.
LimitedAnnotations_NoSkip(ann, result) ==
    [ann EXCEPT !.limit = Imposed(result), !.triggeredBy = result.triggeredBy]

\* Faulty: writes the IOPS limits only.
LimitedAnnotations_IOPSOnly(ann, result) ==
    [ann EXCEPT
        !.limit = [k \in LimitKeys |-> IF ann.limit[k] = 0 \/ k \in BPSKeys THEN ann.limit[k]
                                       ELSE Imposed(result)[k]],
        !.triggeredBy = result.triggeredBy]

\* A key whose value is "0" was exempted by a user and is passed over.
LimitedAnnotations(ann, result) ==
    [ann EXCEPT
        !.limit = [k \in LimitKeys |->
                     IF ann.limit[k] = 0 \/ Imposed(result)[k] = 0
                     THEN ann.limit[k] ELSE Imposed(result)[k]],
        !.triggeredBy = result.triggeredBy]

\* Faulty: starts from an empty map.
ReleasedAnnotations_Fresh(ann) ==
    [limit |-> [k \in LimitKeys |-> None], triggeredBy |-> None, removed |-> TRUE, app |-> 0]

\* Faulty: marks the pod and leaves the limits on it.
ReleasedAnnotations_KeepLimits(ann) == [ann EXCEPT !.triggeredBy = None, !.removed = TRUE]

ReleasedAnnotations(ann) ==
    [ann EXCEPT !.limit = [k \in LimitKeys |-> None], !.triggeredBy = None, !.removed = TRUE]

\* Faulty: AppliedAt set only when the entry is created.
Recorded_FirstApply(s, result) ==
    [isLimited |-> result # None,
     limit |-> IF result = None THEN None ELSE result.limit,
     triggeredBy |-> IF result = None THEN None ELSE result.triggeredBy,
     applied |-> IF s = None THEN 0 ELSE s.applied, checked |-> 0]

\* updateLimitStatus: the entry that replaces s; result is None when not limited.
Recorded(s, result) ==
    [isLimited |-> result # None,
     limit |-> IF result = None THEN None ELSE result.limit,
     triggeredBy |-> CASE result # None -> result.triggeredBy
                       [] result = None /\ s # None -> s.triggeredBy
                       [] OTHER -> None,
     applied |-> 0, checked |-> 0]

----
Init ==
    /\ pods = [p \in Pods |-> [rv |-> 0,
                 ann |-> [limit |-> [k \in LimitKeys |-> None], triggeredBy |-> None,
                          removed |-> FALSE, app |-> 0]]]
    /\ running = Containers
    /\ trend \in [Filed -> Trends]
    /\ status = [k \in StatusKeys |-> None]
    /\ hist = [k \in Filed |-> None]
    /\ sinceTick = 0 /\ due = FALSE
    /\ todo = {} /\ step = "scan" /\ cur = None /\ decision = None /\ copy = None
    /\ rstage = "list" /\ rtodo = {} /\ rsnap = None
    /\ sinceWrite = [p \in Pods |-> RemoveDelay]
    /\ used = [edits |-> 0, failures |-> 0, crashes |-> 0, swings |-> 0, cleanups |-> 0]

monitor == <<todo, step, cur, decision, copy>>
restoration == <<rstage, rtodo, rsnap>>
ticker == <<sinceTick, due>>

(***************************************************************************)
(* monitorLoop: collectIOStats refreshes the history of what the node      *)
(* reports, then all trends are computed, then each key of the history is  *)
(* judged by that snapshot, however long the round takes.                  *)
(***************************************************************************)

\* Where the pods are listed a label selector excludes all of them.
shouldMonitorPod(p) == p \in Monitored /\ ~LabelSelector

\* In the summary the pods have no labels: they are chosen by their namespace alone.
Collected(source) ==
    {c \in running : IF source = "summary" THEN PodOf[c] \in Monitored ELSE shouldMonitorPod(PodOf[c])}

\* Containers of one name share an entry, which keeps the pod it was made for: that of
\* the first of them, in whatever order the pods come.
Round(newTrend, source, reported) ==
    /\ due /\ step = "scan" /\ todo = {}
    /\ due' = FALSE
    /\ newTrend = trend \/ used.swings < MaxSwings
    /\ trend' = newTrend
    /\ \E first \in [Filed -> Pods] :
         LET filed(k) == {c \in reported : Key(source, c) = k} IN
         /\ \A k \in Filed : filed(k) # {} => \E c \in filed(k) : first[k] = PodOf[c]
         /\ hist' = [k \in Filed |->
                       IF filed(k) = {} THEN hist[k]
                       ELSE [age |-> 0, pod |-> IF hist[k] = None THEN first[k] ELSE hist[k].pod]]
    /\ todo' = {k \in Filed : hist'[k] # None}
    /\ UNCHANGED <<pods, running, status, sinceTick, step, cur, decision, copy,
                   restoration, sinceWrite>>

MonitorRound ==
    \E newTrend \in [Filed -> Trends], source \in Sources :
        /\ Round(newTrend, source, Collected(source))
        /\ used' = [used EXCEPT !.swings = IF newTrend = trend THEN @ ELSE @ + 1]

\* Every metrics source failed: the round judges by what the history holds.
MonitorRoundBlind ==
    /\ used.failures < MaxFailures
    /\ Round(trend, "cadvisor", {})
    /\ used' = [used EXCEPT !.failures = @ + 1]

(***************************************************************************)
(* applyLimitForContainer, up to its first call to the API server.  What   *)
(* it takes for a container's id is a key of the history.                  *)
(***************************************************************************)
Limited(k) == status[k] # None /\ status[k].isLimited

Turn(k) == step = "scan" /\ k \in todo

Skip(k) ==
    LET result == shouldApplyLimitGraded(trend[k]) IN
    /\ Turn(k)
    /\ \/ hist[k] = None
       \/ result = None /\ ~Limited(k)
       \/ result # None /\ Limited(k) /\ ~shouldUpdateLimit(status[k], result)
    /\ todo' = todo \ {k}
    /\ UNCHANGED <<pods, running, trend, status, hist, ticker, step, cur, decision, copy,
                   restoration, sinceWrite, used>>

KeepLimit(k) ==
    /\ Turn(k) /\ hist[k] # None
    /\ shouldApplyLimitGraded(trend[k]) = None /\ Limited(k)
    /\ ~shouldRemoveLimit(trend[k], status[k])
    /\ status' = [status EXCEPT ![k].checked = 0]
    /\ todo' = todo \ {k}
    /\ UNCHANGED <<pods, running, trend, hist, ticker, step, cur, decision, copy,
                   restoration, sinceWrite, used>>

Call(k, result) ==
    /\ step' = "get" /\ cur' = [key |-> k, pod |-> hist[k].pod] /\ decision' = result
    /\ UNCHANGED <<pods, running, trend, status, hist, ticker, todo, copy,
                   restoration, sinceWrite, used>>

BeginRemove(k) ==
    /\ Turn(k) /\ hist[k] # None
    /\ shouldApplyLimitGraded(trend[k]) = None /\ Limited(k)
    /\ shouldRemoveLimit(trend[k], status[k])
    /\ Call(k, None)

BeginApply(k) ==
    LET result == shouldApplyLimitGraded(trend[k]) IN
    /\ Turn(k) /\ hist[k] # None
    /\ result # None
    /\ Limited(k) => shouldUpdateLimit(status[k], result)
    /\ Call(k, result)

(***************************************************************************)
(* applySmartLimitWithResult and removeSmartLimit: read the pod, rebuild   *)
(* its annotations, write it back.  Any error is logged and swallowed, and *)
(* updateLimitStatus runs all the same.                                    *)
(***************************************************************************)
GetPod ==
    /\ ~KubeletMode
    /\ step = "get"
    /\ step' = "put" /\ copy' = pods[cur.pod]
    /\ UNCHANGED <<pods, running, trend, status, hist, ticker, todo, cur, decision,
                   restoration, sinceWrite, used>>

\* The API server accepts an update of the version it holds and no other.
Accepts(p, object) == object.rv = pods[p].rv

UpdatePod ==
    LET p == cur.pod
        ann == IF decision = None THEN ReleasedAnnotations(copy.ann)
               ELSE LimitedAnnotations(copy.ann, decision)
    IN
    /\ step = "put"
    /\ Accepts(p, copy)
    /\ pods' = [pods EXCEPT ![p] = [rv |-> @.rv + 1, ann |-> ann]]
    /\ sinceWrite' = IF decision = None THEN sinceWrite ELSE [sinceWrite EXCEPT ![p] = 0]
    /\ step' = "commit" /\ copy' = None
    /\ UNCHANGED <<running, trend, status, hist, ticker, todo, cur, decision, restoration, used>>

\* Faulty: tries again with the annotations it read and the version it did not.
UpdateConflict_Retry ==
    /\ step = "put" /\ ~Accepts(cur.pod, copy)
    /\ copy' = [copy EXCEPT !.rv = pods[cur.pod].rv]
    /\ UNCHANGED <<pods, running, trend, status, hist, ticker, todo, step, cur, decision,
                   restoration, sinceWrite, used>>

UpdateConflict ==
    /\ step = "put" /\ ~Accepts(cur.pod, copy)
    /\ step' = "commit" /\ copy' = None
    /\ UNCHANGED <<pods, running, trend, status, hist, ticker, todo, cur, decision,
                   restoration, sinceWrite, used>>

\* Faulty: goes on with the nil pod that GetPod returned.
CallFails_NoReturn ==
    /\ step \in {"get", "put"}
    /\ used.failures < MaxFailures
    /\ used' = [used EXCEPT !.failures = @ + 1]
    /\ step' = (IF step = "get" THEN "put" ELSE "commit") /\ copy' = None
    /\ UNCHANGED <<pods, running, trend, status, hist, ticker, todo, cur, decision,
                   restoration, sinceWrite>>

\* In kubelet mode there is no client to call with: every call fails.
CallFails ==
    /\ step \in {"get", "put"}
    /\ IF KubeletMode THEN UNCHANGED used
       ELSE used.failures < MaxFailures /\ used' = [used EXCEPT !.failures = @ + 1]
    /\ step' = "commit" /\ copy' = None
    /\ UNCHANGED <<pods, running, trend, status, hist, ticker, todo, cur, decision,
                   restoration, sinceWrite>>

UpdateLimitStatus ==
    /\ step = "commit"
    /\ status' = [status EXCEPT ![cur.key] = Recorded(@, decision)]
    /\ todo' = todo \ {cur.key}
    /\ step' = "scan" /\ cur' = None /\ decision' = None
    /\ UNCHANGED <<pods, running, trend, hist, ticker, copy, restoration, sinceWrite, used>>

(***************************************************************************)
(* cleanupHistory, at an arbitrary phase of its hourly ticker.             *)
(***************************************************************************)
CleanupHistory ==
    /\ used.cleanups < MaxCleanups
    /\ used' = [used EXCEPT !.cleanups = @ + 1]
    /\ hist' = [k \in Filed |->
                  IF hist[k] # None /\ hist[k].age > HistoryWindow THEN None ELSE hist[k]]
    /\ status' = [k \in StatusKeys |->
                  IF status[k] # None /\ status[k].checked > HistoryWindow THEN None ELSE status[k]]
    /\ UNCHANGED <<pods, running, trend, ticker, monitor, restoration, sinceWrite>>

(***************************************************************************)
(* restoreLimitStatus: list the pods once, then rebuild one container      *)
(* after another from that list, by its id.  Nothing in the code writes    *)
(* the *-limit keys it reads, so every restored value is zero, the default.*)
(***************************************************************************)
RestoreList ==
    /\ rstage = "list"
    /\ rtodo' = {c \in running : shouldMonitorPod(PodOf[c])}
    /\ rsnap' = [p \in Pods |-> pods[p].ann]
    /\ rstage' = "restore"
    /\ UNCHANGED <<pods, running, trend, status, hist, ticker, monitor, sinceWrite, used>>

RestoreListFails ==
    /\ rstage = "list"
    /\ used.failures < MaxFailures
    /\ used' = [used EXCEPT !.failures = @ + 1]
    /\ rstage' = "done"
    /\ UNCHANGED <<pods, running, trend, status, hist, ticker, monitor, rtodo, rsnap, sinceWrite>>

RestoredResult(ann) == [triggeredBy |-> ann.triggeredBy, limit |-> [k \in LimitKeys |-> 0]]

\* Faulty: takes the zeros it parsed for a limit that is not there.
Restorable_NonZero(ann) ==
    /\ ann.triggeredBy # None /\ ~ann.removed
    /\ \E k \in LimitKeys : RestoredResult(ann).limit[k] > 0

Restorable(ann) == ann.triggeredBy # None /\ ~ann.removed

RestoreContainer(c) ==
    LET ann == rsnap[PodOf[c]] IN
    /\ rstage = "restore" /\ c \in rtodo
    /\ rtodo' = rtodo \ {c}
    /\ status' = IF Restorable(ann)
                 THEN [status EXCEPT ![c] = Recorded(@, RestoredResult(ann))]
                 ELSE status
    /\ UNCHANGED <<pods, running, trend, hist, ticker, monitor, rstage, rsnap, sinceWrite, used>>

RestoreEnds ==
    /\ rstage = "restore" /\ rtodo = {}
    /\ rstage' = "done" /\ rsnap' = None
    /\ UNCHANGED <<pods, running, trend, status, hist, ticker, monitor, rtodo, sinceWrite, used>>

(***************************************************************************)
(* Time, users, the node, and the death of the daemon.                     *)
(***************************************************************************)
Older(age, longest) == IF age < longest THEN age + 1 ELSE longest

CheckHorizon == IF CheckInterval > HistoryWindow THEN CheckInterval ELSE HistoryWindow + 1

Tick ==
    /\ sinceTick' = (sinceTick + 1) % MonitorInterval
    /\ due' = (due \/ sinceTick' = 0)
    /\ hist' = [k \in Filed |->
                  IF hist[k] = None THEN None
                  ELSE [hist[k] EXCEPT !.age = Older(@, HistoryWindow + 1)]]
    /\ status' = [k \in StatusKeys |->
                  IF status[k] = None THEN None
                  ELSE [status[k] EXCEPT !.applied = Older(@, RemoveDelay),
                                         !.checked = Older(@, CheckHorizon)]]
    /\ sinceWrite' = [p \in Pods |-> Older(sinceWrite[p], RemoveDelay)]
    /\ UNCHANGED <<pods, running, trend, monitor, restoration, used>>

UserWrites(p, ann) ==
    /\ used.edits < MaxEdits
    /\ used' = [used EXCEPT !.edits = @ + 1]
    /\ pods' = [pods EXCEPT ![p] = [rv |-> @.rv + 1, ann |-> ann]]
    /\ UNCHANGED <<running, trend, memory, sinceWrite>>

UserEditsLimit(p) ==
    \E k \in UserKeys, v \in UserValues : UserWrites(p, [pods[p].ann EXCEPT !.limit[k] = v])

UserEditsApp(p) == UserWrites(p, [pods[p].ann EXCEPT !.app = @ + 1])

ContainerExits(c) ==
    /\ c \in running
    /\ running' = running \ {c}
    /\ UNCHANGED <<pods, trend, memory, sinceWrite, used>>

\* The daemon dies, or is stopped, and is started again: Start launches the
\* three goroutines on empty maps.
Restart ==
    /\ used.crashes < MaxCrashes
    /\ used' = [used EXCEPT !.crashes = @ + 1]
    /\ status' = [k \in StatusKeys |-> None]
    /\ hist' = [k \in Filed |-> None]
    /\ sinceTick' = 0 /\ due' = FALSE
    /\ todo' = {} /\ step' = "scan" /\ cur' = None /\ decision' = None /\ copy' = None
    /\ rstage' = "list" /\ rtodo' = {} /\ rsnap' = None
    /\ UNCHANGED <<pods, running, trend, sinceWrite>>

----
Judge(k) == Skip(k) \/ KeepLimit(k) \/ BeginRemove(k) \/ BeginApply(k)

Monitor ==
    \/ MonitorRound \/ MonitorRoundBlind
    \/ \E k \in Filed : Judge(k)
    \/ GetPod \/ UpdatePod \/ UpdateConflict \/ CallFails \/ UpdateLimitStatus

Restoration ==
    \/ RestoreList \/ RestoreListFails \/ RestoreEnds
    \/ \E c \in Containers : RestoreContainer(c)

Users == \E p \in Pods : UserEditsLimit(p) \/ UserEditsApp(p)

Next ==
    \/ Tick \/ Monitor \/ Restoration \/ CleanupHistory
    \/ Users \/ (\E c \in Containers : ContainerExits(c)) \/ Restart

Spec == Init /\ [][Next]_vars

\* The Go scheduler runs every runnable goroutine, and time goes on.  Nothing
\* obliges a user, a crash, a failure or a change of load to happen.
FairSpec == Spec /\ WF_vars(Tick) /\ WF_vars(Monitor) /\ WF_vars(Restoration)

----
(***************************************************************************)
(* What the manager must get right.                                        *)
(***************************************************************************)

\* Every variable has its type: what the proofs stand on.
TypeOK ==
    /\ pods \in [Pods -> PodObject]
    /\ running \subseteq Containers
    /\ trend \in [Filed -> Trends]
    /\ status \in [StatusKeys -> LimitStatus \cup {None}]
    /\ hist \in [Filed -> HistoryEntry \cup {None}]
    /\ sinceTick \in 0 .. MonitorInterval - 1 /\ due \in BOOLEAN
    /\ todo \subseteq Filed
    /\ step \in {"scan", "get", "put", "commit"}
    /\ IF step = "scan" THEN cur = None ELSE cur \in [key: todo, pod: Pods]
    /\ decision \in LimitResult \cup {None}
    /\ IF step = "put" THEN copy \in PodObject ELSE copy = None
    /\ rstage \in {"list", "restore", "done"}
    /\ rtodo \subseteq Containers
    /\ IF rstage = "restore" THEN rsnap \in [Pods -> Annotations] ELSE rsnap = None
    /\ sinceWrite \in [Pods -> Nat]
    /\ used \in Budgets

\* A step in which the daemon, not a user, changes the annotations of p.
ManagerWrites(p) == pods'[p].ann # pods[p].ann /\ used'.edits = used.edits

\* The manager rebuilds a pod's annotations from a copy it read earlier, while
\* users edit the pod: whatever the interleaving, it never rolls back an
\* annotation that is not its own (smartlimit.go:393-407, 587-632).
UserDataSurvives ==
    [][\A p \in Pods : ManagerWrites(p) => pods'[p].ann.app = pods[p].ann.app]_vars

\* A user exempts one item with the value "0".  A limit leaves alone every "0" that
\* is on the pod when it is written, one that the user wrote after the limit was
\* decided or the pod was read included (smartlimit.go:612-624).  Nothing is said of
\* a removal: it takes the "0" off with all the rest (393-397), and the next limit
\* finds the item exempted no more.
ExemptionSurvives ==
    [][\A p \in Pods, k \in LimitKeys :
         /\ ManagerWrites(p)
         /\ pods'[p].ann.triggeredBy # None
         /\ pods[p].ann.limit[k] = 0
         => pods'[p].ann.limit[k] = 0]_vars

\* A limit stays on its pod for at least RemoveDelay after it was last imposed
\* or updated, across slow calls, restarts and restoration, as long as all that is
\* filed of a pod is filed by one key (SMART_LIMIT_GUIDE.md:60-62, smartlimit.go:328-332).
RemovalDelayed ==
    [][\A p \in Pods :
         pods[p].ann.triggeredBy # None /\ pods'[p].ann.triggeredBy = None
         => sinceWrite[p] >= RemoveDelay]_vars

\* The manager implements what LimitLifecycle promises: slow calls, failures,
\* restarts and restoration are hidden behind steps that are atomic and made upon
\* the current annotations (smartlimit.go:377-414, 562-638).
Lifecycle == INSTANCE LimitLifecycle WITH
    Maximum <- [k \in LimitKeys |-> Cap(k)], Delay <- RemoveDelay,
    ann <- [p \in Pods |-> pods[p].ann], held <- sinceWrite, edits <- used.edits
KeepsPromise == Lifecycle!Spec

\* The goroutines are between two pieces of work.
Quiet == step = "scan" /\ rstage = "done"

Annotated(p) == pods[p].ann.triggeredBy # None

\* The annotations say that the manager limits this pod, and not that it stopped.
Announces(ann) == ann.triggeredBy # None /\ ~ann.removed

\* No user edited a pod, no call failed and the cleanup did not run so far.
Undisturbed == used.edits = 0 /\ used.failures = 0 /\ used.cleanups = 0

\* Wherever the daemon was killed, once restoration is over it knows of every limit
\* that the annotations announce and do not mark as removed, and it does so by a key
\* under which the container is filed: any other limit is one it never lifts.  It
\* holds as long as nothing else disturbs the manager, where rounds read cAdvisor and
\* not where they read the summary (state_recovery.go:6-85, metrics_collector.go:61).
Tracked ==
    Quiet /\ Undisturbed =>
      \A c \in running :
        PodOf[c] \in Monitored /\ Announces(pods[PodOf[c]].ann) => \E k \in FiledAs(c) : Limited(k)

\* Some source reports c.
Reported == UNION {Collected(source) : source \in Sources}

\* A container that stays over a threshold ends up limited for good.
Hot(c) ==
    /\ c \in Reported
    /\ \A k \in FiledAs(c) : \E w \in Windows : checkWindowThreshold(trend[k], w)
HotGetsLimited ==
    \A c \in Containers : <>[]Hot(c) => <>[]Annotated(PodOf[c])

\* A container that stays calm in every window is not limited for ever: if the
\* monitor's period is at least the check interval its limit is lifted.
Calm(c) == \A k \in FiledAs(c), w \in Windows : checkRemoveCondition(trend[k], w)
CalmGetsReleased ==
    \A c \in Containers : <>[](c \in Reported /\ Calm(c)) => <>[]~Annotated(PodOf[c])
====
