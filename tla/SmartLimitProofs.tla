---- MODULE SmartLimitProofs ----
(***************************************************************************)
(* Proofs about SmartLimit, for every number of pods and containers, every *)
(* configuration and every bound on the environment.                       *)
(***************************************************************************)
EXTENDS SmartLimit, TLAPS

(***************************************************************************)
(* The operators.                                                          *)
(***************************************************************************)

\* Some window takes precedence in every non-empty set of windows: the switch of
\* shouldApplyLimitGraded always has a first hit.
LEMMA FirstWindow ==
    ASSUME NEW hot \in SUBSET Windows, hot # {}
    PROVE  \E w \in hot : \A v \in hot : Precedence[w] <= Precedence[v]
<1>1. CASE "15m" \in hot
  BY <1>1 DEF Windows, Precedence
<1>2. CASE "15m" \notin hot /\ "30m" \in hot
  BY <1>2 DEF Windows, Precedence
<1>3. CASE "15m" \notin hot /\ "30m" \notin hot
  BY <1>3 DEF Windows, Precedence
<1> QED BY <1>1, <1>2, <1>3

LEMMA WindowResultType ==
    ASSUME NEW w \in Windows
    PROVE  WindowResult(w) \in LimitResult
BY ConstantsOK DEF WindowResult, LimitResult, Rates

\* What shouldApplyLimitGraded returns is nil or a result that names a window.
LEMMA GradedType ==
    ASSUME NEW t
    PROVE  shouldApplyLimitGraded(t) \in LimitResult \cup {None}
<1> DEFINE hot == {w \in Windows : checkWindowThreshold(t, w)}
           first == CHOOSE w \in hot : \A v \in hot : Precedence[w] <= Precedence[v]
<1>1. CASE hot = {}
  BY <1>1 DEF shouldApplyLimitGraded
<1>2. CASE hot # {}
  <2>1. first \in Windows
    <3>1. hot \in SUBSET Windows
      OBVIOUS
    <3>2. \E w \in hot : \A v \in hot : Precedence[w] <= Precedence[v]
      BY <3>1, <1>2, FirstWindow
    <3> QED BY <3>1, <3>2
  <2>2. WindowResult(first) \in LimitResult
    <3>1. first \in Windows
      BY <2>1
    <3> HIDE DEF first
    <3> QED BY <3>1, WindowResultType
  <2> QED BY <1>2, <2>2 DEF shouldApplyLimitGraded
<1> QED BY <1>1, <1>2

\* updateLimitStatus always leaves a well-formed entry.
LEMMA RecordedType ==
    ASSUME NEW s \in LimitStatus \cup {None}, NEW r \in LimitResult \cup {None}
    PROVE  Recorded(s, r) \in LimitStatus
BY DEF Recorded, LimitStatus, LimitResult

LEMMA ImposedType ==
    ASSUME NEW r \in LimitResult
    PROVE  Imposed(r) \in [LimitKeys -> Nat]
<1>1. \A k \in LimitKeys : Cap(k) \in Nat /\ ContainerLimit[k] \in Nat
  BY ConstantsOK DEF Cap, ContainerLimit, Least
<1> QED BY <1>1 DEF Imposed, Least, LimitResult, Rates, ContainerLimit

LEMMA LimitedType ==
    ASSUME NEW ann \in Annotations, NEW r \in LimitResult
    PROVE  LimitedAnnotations(ann, r) \in Annotations
BY ImposedType DEF LimitedAnnotations, Annotations, LimitResult

LEMMA ReleasedType ==
    ASSUME NEW ann \in Annotations
    PROVE  ReleasedAnnotations(ann) \in Annotations
BY DEF ReleasedAnnotations, Annotations

----
(***************************************************************************)
(* Type correctness.                                                       *)
(***************************************************************************)
LEMMA InitTyped == Init => TypeOK
<1> SUFFICES ASSUME Init PROVE TypeOK
  OBVIOUS
<1>1. pods \in [Pods -> PodObject]
  BY DEF Init, PodObject, Annotations
<1>2. used \in Budgets
  BY DEF Init, Budgets
<1>3. sinceTick \in 0 .. MonitorInterval - 1
  BY ConstantsOK DEF Init
<1>4. sinceWrite \in [Pods -> Nat]
  BY ConstantsOK DEF Init
<1> QED BY <1>1, <1>2, <1>3, <1>4 DEF Init, TypeOK

\* One round, or one decision, of the monitor.
LEMMA RoundTyped ==
    ASSUME TypeOK, MonitorRound \/ MonitorRoundBlind
    PROVE  TypeOK'
<1>1. used' \in Budgets
  BY DEF TypeOK, MonitorRound, MonitorRoundBlind, Budgets
<1>2. \E newTrend \in [Filed -> Trends] : \E source, reported : Round(newTrend, source, reported)
  BY DEF TypeOK, MonitorRound, MonitorRoundBlind
<1>3. hist' \in [Filed -> HistoryEntry \cup {None}]
  <2>1. PICK newTrend \in [Filed -> Trends] : \E source, reported : Round(newTrend, source, reported)
    BY <1>2
  <2>2. PICK source, reported : Round(newTrend, source, reported)
    BY <2>1
  <2>3. PICK first \in [Filed -> Pods] :
          hist' = [k \in Filed |->
                     IF {c \in reported : Key(source, c) = k} = {} THEN hist[k]
                     ELSE [age |-> 0, pod |-> IF hist[k] = None THEN first[k] ELSE hist[k].pod]]
    BY <2>2 DEF Round
  <2>4. ASSUME NEW k \in Filed
        PROVE  hist'[k] \in HistoryEntry \cup {None}
    <3>1. hist[k] \in HistoryEntry \cup {None} /\ first[k] \in Pods
      BY <2>3 DEF TypeOK
    <3>2. \/ hist'[k] = hist[k]
          \/ hist'[k] = [age |-> 0, pod |-> first[k]]
          \/ hist[k] # None /\ hist'[k] = [age |-> 0, pod |-> hist[k].pod]
      BY <2>3
    <3> QED BY <3>1, <3>2 DEF HistoryEntry
  <2>5. hist' = [k \in Filed |-> hist'[k]]
    BY <2>3
  <2> QED BY <2>4, <2>5
<1>4. todo' \subseteq Filed
  BY <1>2 DEF Round
<1> QED BY <1>1, <1>2, <1>3, <1>4 DEF TypeOK, Round, restoration

LEMMA JudgeTyped ==
    ASSUME TypeOK, NEW k \in Filed, Judge(k)
    PROVE  TypeOK'
<1>1. CASE Skip(k)
  BY <1>1 DEF TypeOK, Skip, Turn, ticker, restoration
<1>2. CASE KeepLimit(k)
  <2>1. status[k] \in LimitStatus
    BY <1>2 DEF KeepLimit, Limited, TypeOK, StatusKeys
  <2>2. [status[k] EXCEPT !.checked = 0] \in LimitStatus
    BY <2>1 DEF LimitStatus
  <2>3. status' \in [StatusKeys -> LimitStatus \cup {None}]
    BY <1>2, <2>2 DEF KeepLimit, TypeOK
  <2> QED BY <1>2, <2>3 DEF TypeOK, KeepLimit, Turn, ticker, restoration
<1>0. hist[k] # None => [key |-> k, pod |-> hist[k].pod] \in [key: {k}, pod: Pods]
  BY DEF TypeOK, HistoryEntry
<1>3. CASE BeginRemove(k)
  BY <1>0, <1>3 DEF TypeOK, BeginRemove, Turn, Call, ticker, restoration
<1>4. CASE BeginApply(k)
  BY <1>0, <1>4, GradedType DEF TypeOK, BeginApply, Turn, Call, ticker, restoration
<1> QED BY <1>1, <1>2, <1>3, <1>4 DEF Judge

LEMMA CallTyped ==
    ASSUME TypeOK, GetPod \/ UpdatePod \/ UpdateConflict \/ CallFails \/ UpdateLimitStatus
    PROVE  TypeOK'
<1>0. step # "scan" => cur.key \in Filed /\ cur.pod \in Pods
  BY DEF TypeOK
<1>1. CASE GetPod
  BY <1>0, <1>1 DEF TypeOK, GetPod, ticker, restoration
<1>2. CASE UpdatePod
  <2> DEFINE p == cur.pod
             ann == IF decision = None THEN ReleasedAnnotations(copy.ann)
                    ELSE LimitedAnnotations(copy.ann, decision)
  <2>1. p \in Pods /\ copy \in PodObject
    BY <1>0, <1>2 DEF UpdatePod, TypeOK
  <2>2. ann \in Annotations
    BY <2>1, LimitedType, ReleasedType DEF TypeOK, PodObject
  <2>3. pods'[p] = [rv |-> pods[p].rv + 1, ann |-> ann] /\ pods' = [pods EXCEPT ![p] = pods'[p]]
    BY <1>2, <2>1 DEF UpdatePod, TypeOK
  <2>4. pods' \in [Pods -> PodObject]
    BY <2>1, <2>2, <2>3 DEF TypeOK, PodObject
  <2>5. sinceWrite' \in [Pods -> Nat]
    BY <1>2 DEF UpdatePod, TypeOK
  <2> QED BY <1>2, <2>4, <2>5 DEF TypeOK, UpdatePod, ticker, restoration
<1>3. CASE UpdateConflict
  BY <1>3 DEF TypeOK, UpdateConflict, ticker, restoration
<1>4. CASE CallFails
  <2>1. used' \in Budgets
    BY <1>4 DEF CallFails, TypeOK, Budgets
  <2> QED BY <1>4, <2>1 DEF TypeOK, CallFails, ticker, restoration
<1>5. CASE UpdateLimitStatus
  <2>1. cur.key \in StatusKeys
    BY <1>0, <1>5 DEF UpdateLimitStatus, StatusKeys
  <2>2. Recorded(status[cur.key], decision) \in LimitStatus
    BY <2>1, RecordedType DEF TypeOK
  <2>3. status' \in [StatusKeys -> LimitStatus \cup {None}]
    BY <1>5, <2>2 DEF UpdateLimitStatus, TypeOK
  <2> QED BY <1>5, <2>3 DEF TypeOK, UpdateLimitStatus, ticker, restoration
<1> QED BY <1>1, <1>2, <1>3, <1>4, <1>5

LEMMA RestorationTyped ==
    ASSUME TypeOK, Restoration
    PROVE  TypeOK'
<1>1. CASE RestoreList
  BY <1>1 DEF TypeOK, RestoreList, PodObject, ticker, monitor
<1>2. CASE RestoreListFails
  <2>1. used' \in Budgets
    BY <1>2 DEF RestoreListFails, TypeOK, Budgets
  <2> QED BY <1>2, <2>1 DEF TypeOK, RestoreListFails, ticker, monitor
<1>3. CASE RestoreEnds
  BY <1>3 DEF TypeOK, RestoreEnds, ticker, monitor
<1>4. ASSUME NEW c \in Containers, RestoreContainer(c) PROVE TypeOK'
  <2> DEFINE ann == rsnap[PodOf[c]]
  <2>1. ann \in Annotations
    BY <1>4, ConstantsOK DEF RestoreContainer, TypeOK
  <2>2. c \in StatusKeys
    BY DEF StatusKeys
  <2>3. Restorable(ann) => Recorded(status[c], RestoredResult(ann)) \in LimitStatus
    <3>1. Restorable(ann) => RestoredResult(ann) \in LimitResult
      BY <2>1 DEF Restorable, RestoredResult, LimitResult, Annotations, Rates
    <3> QED BY <2>2, <3>1, RecordedType DEF TypeOK
  <2>4. status' \in [StatusKeys -> LimitStatus \cup {None}]
    BY <1>4, <2>2, <2>3 DEF RestoreContainer, TypeOK
  <2> QED BY <1>4, <2>4 DEF TypeOK, RestoreContainer, ticker, monitor
<1> QED BY <1>1, <1>2, <1>3, <1>4 DEF Restoration

LEMMA EnvironmentTyped ==
    ASSUME TypeOK,
           Tick \/ CleanupHistory \/ Users \/ (\E c \in Containers : ContainerExits(c)) \/ Restart
    PROVE  TypeOK'
<1>0. \A age, longest \in Nat : Older(age, longest) \in Nat
  BY DEF Older
<1>1. CASE Tick
  <2>1. CheckHorizon \in Nat /\ RemoveDelay \in Nat /\ HistoryWindow + 1 \in Nat
    BY ConstantsOK DEF CheckHorizon
  <2>2. sinceTick' \in 0 .. MonitorInterval - 1
    <3>1. sinceTick + 1 \in Nat /\ MonitorInterval \in Nat /\ MonitorInterval > 0
      BY ConstantsOK DEF TypeOK
    <3>2. sinceTick' = (sinceTick + 1) % MonitorInterval
      BY <1>1 DEF Tick
    <3> QED BY <3>1, <3>2
  <2>3. hist' \in [Filed -> HistoryEntry \cup {None}]
    <3>1. ASSUME NEW e \in HistoryEntry
          PROVE  [e EXCEPT !.age = Older(@, HistoryWindow + 1)] \in HistoryEntry
      BY <1>0, <2>1 DEF HistoryEntry
    <3> QED BY <1>1, <3>1 DEF Tick, TypeOK
  <2>4. status' \in [StatusKeys -> LimitStatus \cup {None}]
    <3>1. ASSUME NEW s \in LimitStatus
          PROVE  [s EXCEPT !.applied = Older(@, RemoveDelay), !.checked = Older(@, CheckHorizon)]
                   \in LimitStatus
      BY <1>0, <2>1 DEF LimitStatus
    <3> QED BY <1>1, <3>1 DEF Tick, TypeOK
  <2>5. sinceWrite' \in [Pods -> Nat]
    BY <1>0, <1>1, <2>1 DEF Tick, TypeOK
  <2> QED BY <1>1, <2>2, <2>3, <2>4, <2>5 DEF TypeOK, Tick, monitor, restoration
<1>2. CASE CleanupHistory
  <2>1. used' \in Budgets
    BY <1>2 DEF CleanupHistory, TypeOK, Budgets
  <2>2. status' \in [StatusKeys -> LimitStatus \cup {None}] /\ hist' \in [Filed -> HistoryEntry \cup {None}]
    BY <1>2 DEF CleanupHistory, TypeOK
  <2> QED BY <1>2, <2>1, <2>2 DEF TypeOK, CleanupHistory, ticker, monitor, restoration
<1>3. ASSUME NEW p \in Pods, NEW ann \in Annotations, UserWrites(p, ann) PROVE TypeOK'
  <2>1. used' \in Budgets
    BY <1>3 DEF UserWrites, TypeOK, Budgets
  <2>2. pods' \in [Pods -> PodObject]
    BY <1>3 DEF UserWrites, TypeOK, PodObject
  <2> QED BY <1>3, <2>1, <2>2 DEF TypeOK, UserWrites, memory
<1>4. CASE Users
  <2>1. ASSUME NEW p \in Pods, NEW k \in UserKeys, NEW v \in UserValues
        PROVE  [pods[p].ann EXCEPT !.limit[k] = v] \in Annotations
    <3>1. k \in LimitKeys /\ v \in Nat \cup {None} /\ pods[p].ann \in Annotations
      BY ConstantsOK DEF TypeOK, PodObject
    <3> QED BY <3>1 DEF Annotations
  <2>2. ASSUME NEW p \in Pods PROVE [pods[p].ann EXCEPT !.app = @ + 1] \in Annotations
    BY DEF TypeOK, PodObject, Annotations
  <2> QED BY <1>3, <1>4, <2>1, <2>2 DEF Users, UserEditsLimit, UserEditsApp
<1>5. ASSUME NEW c \in Containers, ContainerExits(c) PROVE TypeOK'
  BY <1>5 DEF TypeOK, ContainerExits, memory
<1>6. CASE Restart
  <2>1. used' \in Budgets
    BY <1>6 DEF Restart, TypeOK, Budgets
  <2>2. 0 \in 0 .. MonitorInterval - 1
    BY ConstantsOK
  <2>3. status' \in [StatusKeys -> LimitStatus \cup {None}] /\ hist' \in [Filed -> HistoryEntry \cup {None}]
    BY <1>6 DEF Restart
  <2>4. /\ pods' = pods /\ running' = running /\ trend' = trend /\ sinceWrite' = sinceWrite
        /\ sinceTick' = 0 /\ due' = FALSE /\ todo' = {} /\ step' = "scan" /\ cur' = None
        /\ decision' = None /\ copy' = None /\ rstage' = "list" /\ rtodo' = {} /\ rsnap' = None
    BY <1>6 DEF Restart
  <2> QED BY <2>1, <2>2, <2>3, <2>4 DEF TypeOK
<1> QED BY <1>1, <1>2, <1>4, <1>5, <1>6

LEMMA NextTyped == TypeOK /\ [Next]_vars => TypeOK'
<1> SUFFICES ASSUME TypeOK, [Next]_vars PROVE TypeOK'
  OBVIOUS
<1>1. CASE Monitor
  BY <1>1, RoundTyped, JudgeTyped, CallTyped DEF Monitor
<1>2. CASE Restoration
  BY <1>2, RestorationTyped
<1>3. CASE Tick \/ CleanupHistory \/ Users \/ (\E c \in Containers : ContainerExits(c)) \/ Restart
  BY <1>3, EnvironmentTyped
<1>4. CASE UNCHANGED vars
  BY <1>4 DEF TypeOK, vars, memory
<1> QED BY <1>1, <1>2, <1>3, <1>4 DEF Next

\* The manager's memory and the pods it writes keep their types for ever.
THEOREM TypeCorrect == Spec => []TypeOK
BY InitTyped, NextTyped, PTL DEF Spec

----
(***************************************************************************)
(* No lost update.  The copy the monitor holds between GetPod and          *)
(* UpdatePod is the pod itself for as long as the versions agree, since    *)
(* every write raises the version.                                         *)
(***************************************************************************)
CopyCurrent ==
    step = "put" =>
        /\ copy.rv <= pods[cur.pod].rv
        /\ copy.rv = pods[cur.pod].rv => copy = pods[cur.pod]

LEMMA CopyCurrentStep == TypeOK /\ CopyCurrent /\ [Next]_vars => CopyCurrent'
<1> SUFFICES ASSUME TypeOK, CopyCurrent, [Next]_vars, step' = "put"
             PROVE  /\ copy'.rv <= pods'[cur'.pod].rv
                    /\ copy'.rv = pods'[cur'.pod].rv => copy' = pods'[cur'.pod]
  BY DEF CopyCurrent
<1>1. CASE GetPod
  <2>1. copy' = pods[cur.pod] /\ pods' = pods /\ cur' = cur
    BY <1>1 DEF GetPod
  <2>2. pods[cur.pod] \in PodObject
    BY <1>1, ConstantsOK DEF GetPod, TypeOK
  <2> QED BY <2>1, <2>2 DEF PodObject
<1>2. ASSUME NEW p \in Pods, NEW ann, UserWrites(p, ann)
      PROVE  /\ copy'.rv <= pods'[cur'.pod].rv
             /\ copy'.rv = pods'[cur'.pod].rv => copy' = pods'[cur'.pod]
  <2>1. step = "put" /\ copy' = copy /\ cur' = cur
    BY <1>2 DEF UserWrites, memory
  <2> DEFINE q == cur.pod
  <2>2. q \in Pods /\ copy \in PodObject /\ pods[q] \in PodObject
    BY <2>1, ConstantsOK DEF TypeOK
  <2>3. CASE q = p
    <3>1. pods'[q].rv = pods[q].rv + 1
      BY <1>2, <2>2, <2>3 DEF UserWrites, TypeOK
    <3> QED BY <2>1, <2>2, <3>1 DEF CopyCurrent, PodObject
  <2>4. CASE q # p
    <3>1. pods'[q] = pods[q]
      BY <1>2, <2>2, <2>4 DEF UserWrites, TypeOK
    <3> QED BY <2>1, <3>1 DEF CopyCurrent
  <2> QED BY <2>3, <2>4
<1>3. CASE Users
  BY <1>2, <1>3 DEF Users, UserEditsLimit, UserEditsApp
<1>4. CASE pods' = pods /\ step = "put" /\ copy' = copy /\ cur' = cur
  BY <1>4 DEF CopyCurrent
<1>5. CASE UpdatePod \/ UpdateConflict \/ CallFails \/ UpdateLimitStatus \/ Restart
  BY <1>5 DEF UpdatePod, UpdateConflict, CallFails, UpdateLimitStatus, Restart
<1>6. CASE MonitorRound \/ MonitorRoundBlind
  BY <1>6 DEF MonitorRound, MonitorRoundBlind, Round
<1>7. ASSUME NEW k \in Filed, Judge(k) PROVE FALSE
  BY <1>7 DEF Judge, Skip, KeepLimit, BeginRemove, BeginApply, Turn, Call
<1>8. CASE Restoration
  <2>1. pods' = pods /\ step = "put" /\ copy' = copy /\ cur' = cur
    BY <1>8 DEF Restoration, RestoreList, RestoreListFails, RestoreEnds, RestoreContainer, monitor
  <2> QED BY <2>1, <1>4
<1>9. CASE Tick \/ CleanupHistory \/ (\E c \in Containers : ContainerExits(c)) \/ UNCHANGED vars
  <2>1. pods' = pods /\ step = "put" /\ copy' = copy /\ cur' = cur
    BY <1>9 DEF Tick, CleanupHistory, ContainerExits, vars, memory, monitor
  <2> QED BY <2>1, <1>4
<1> QED BY <1>1, <1>3, <1>5, <1>6, <1>7, <1>8, <1>9 DEF Next, Monitor

\* Only UpdatePod and users change annotations.
LEMMA Writers ==
    ASSUME [Next]_vars, pods' # pods
    PROVE  UpdatePod \/ Users
<1>2. CASE MonitorRound \/ MonitorRoundBlind \/ GetPod \/ UpdateConflict \/ CallFails \/ UpdateLimitStatus
  BY <1>2 DEF MonitorRound, MonitorRoundBlind, Round, GetPod, UpdateConflict, CallFails, UpdateLimitStatus
<1>3. ASSUME NEW k \in Filed, Judge(k) PROVE FALSE
  BY <1>3 DEF Judge, Skip, KeepLimit, BeginRemove, BeginApply, Call
<1>4. CASE Restoration
  BY <1>4 DEF Restoration, RestoreList, RestoreListFails, RestoreEnds, RestoreContainer
<1>5. CASE Tick \/ CleanupHistory \/ (\E c \in Containers : ContainerExits(c)) \/ Restart \/ UNCHANGED vars
  BY <1>5 DEF Tick, CleanupHistory, ContainerExits, Restart, vars
<1> QED BY <1>2, <1>3, <1>4, <1>5 DEF Next, Monitor

\* What a write of the daemon does: one pod, from its present annotations.
LEMMA DaemonWrite ==
    ASSUME TypeOK, CopyCurrent, [Next]_vars, NEW p \in Pods, ManagerWrites(p)
    PROVE  /\ UpdatePod /\ p = cur.pod
           /\ pods[p].ann \in Annotations
           /\ pods'[p].ann = IF decision = None THEN ReleasedAnnotations(pods[p].ann)
                             ELSE LimitedAnnotations(pods[p].ann, decision)
<1>1. ~Users
  BY DEF ManagerWrites, Users, UserEditsLimit, UserEditsApp, UserWrites, TypeOK, Budgets
<1>2. UpdatePod
  BY <1>1, Writers DEF ManagerWrites
<1>3. cur.pod \in Pods /\ copy \in PodObject
  BY <1>2, ConstantsOK DEF UpdatePod, TypeOK
<1>4. p = cur.pod
  BY <1>2, <1>3 DEF UpdatePod, ManagerWrites, TypeOK
<1>5. copy = pods[p]
  BY <1>2, <1>4 DEF UpdatePod, Accepts, CopyCurrent
<1>6. pods'[p].ann = IF decision = None THEN ReleasedAnnotations(copy.ann)
                     ELSE LimitedAnnotations(copy.ann, decision)
  BY <1>2, <1>3, <1>4 DEF UpdatePod, TypeOK
<1> QED BY <1>2, <1>4, <1>5, <1>6 DEF TypeOK, PodObject

LEMMA CopyInvariant == Spec => [](TypeOK /\ CopyCurrent)
<1>1. Init => CopyCurrent
  BY DEF Init, CopyCurrent
<1> QED BY <1>1, InitTyped, NextTyped, CopyCurrentStep, PTL DEF Spec

\* However users, calls and restarts interleave, the daemon never rolls back an
\* annotation that is not its own.
THEOREM UserDataIsSafe == Spec => UserDataSurvives
<1>1. ASSUME TypeOK, CopyCurrent, [Next]_vars, NEW p \in Pods, ManagerWrites(p)
      PROVE  pods'[p].ann.app = pods[p].ann.app
  BY <1>1, DaemonWrite DEF ReleasedAnnotations, LimitedAnnotations, Annotations
<1>2. TypeOK /\ CopyCurrent /\ [Next]_vars
      => [\A p \in Pods : ManagerWrites(p) => pods'[p].ann.app = pods[p].ann.app]_vars
  BY <1>1
<1> QED BY <1>2, CopyInvariant, PTL DEF Spec, UserDataSurvives

\* No write of a limit replaces a "0" that is on the pod at that moment, by which a user
\* exempts the item.  A removal does take it off (smartlimit.go:393-397), and nothing is
\* said of the limits that come after.
THEOREM ExemptionIsSafe == Spec => ExemptionSurvives
<1>1. ASSUME TypeOK, CopyCurrent, [Next]_vars, NEW p \in Pods, NEW k \in LimitKeys,
             ManagerWrites(p), pods'[p].ann.triggeredBy # None, pods[p].ann.limit[k] = 0
      PROVE  pods'[p].ann.limit[k] = 0
  <2>1. decision # None /\ pods'[p].ann = LimitedAnnotations(pods[p].ann, decision)
    BY <1>1, DaemonWrite DEF ReleasedAnnotations, Annotations
  <2>2. pods[p].ann \in Annotations
    BY <1>1, DaemonWrite
  <2> QED BY <1>1, <2>1, <2>2 DEF LimitedAnnotations, Annotations
<1>2. TypeOK /\ CopyCurrent /\ [Next]_vars
      => [\A p \in Pods, k \in LimitKeys :
            /\ ManagerWrites(p)
            /\ pods'[p].ann.triggeredBy # None
            /\ pods[p].ann.limit[k] = 0
            => pods'[p].ann.limit[k] = 0]_vars
  BY <1>1
<1> QED BY <1>2, CopyInvariant, PTL DEF Spec, ExemptionSurvives

----
(***************************************************************************)
(* The removal delay.  The delay is measured on the entry in memory, the   *)
(* promise is about the annotation: the entry never looks older than the   *)
(* annotation it stands for, save between UpdatePod and updateLimitStatus, *)
(* and a removal under way was decided on such an entry.  This needs a     *)
(* pod and a key to stand for each other: one container in each pod, no    *)
(* name used twice, and rounds that all find the I/O in one source.        *)
(***************************************************************************)
SoleKey ==
    \A c, d \in Containers, s, t \in Sources : PodOf[c] = PodOf[d] <=> Key(s, c) = Key(t, d)

LEMMA OneKey ==
    ASSUME SoleKey, NEW c \in Containers, NEW d \in Containers,
           NEW k \in FiledAs(c), NEW l \in FiledAs(d)
    PROVE  k = l <=> PodOf[c] = PodOf[d]
BY DEF SoleKey, FiledAs

LEMMA FiledBySomeone ==
    ASSUME NEW k \in Filed
    PROVE  \E c \in Containers : k \in FiledAs(c)
BY DEF Filed

\* The entry of a container names its pod, and so does the work that goes on for it.
Owned ==
    \A c \in Containers : \A k \in FiledAs(c) :
        /\ hist[k] # None => hist[k].pod = PodOf[c]
        /\ step # "scan" /\ cur.key = k => cur.pod = PodOf[c]

\* k was just limited and its entry does not say so yet.
Unrecorded(k) == step = "commit" /\ cur.key = k /\ decision # None

EntryYounger ==
    \A c \in Containers : \A k \in FiledAs(c) :
        Limited(k) /\ ~Unrecorded(k) => status[k].applied <= sinceWrite[PodOf[c]]

RemovalDue ==
    step \in {"get", "put"} /\ decision = None => sinceWrite[cur.pod] >= RemoveDelay

DelayInv == TypeOK /\ Owned /\ EntryYounger /\ RemovalDue

\* What a container is filed by is a key of every map.
LEMMA KeyTyped ==
    ASSUME TypeOK, NEW c \in Containers, NEW k \in FiledAs(c)
    PROVE  /\ k \in Filed /\ k \in StatusKeys /\ PodOf[c] \in Pods /\ sinceWrite[PodOf[c]] \in Nat
           /\ hist[k] \in HistoryEntry \cup {None} /\ status[k] \in LimitStatus \cup {None}
<1>1. k \in Filed
  BY DEF Filed
<1> QED BY <1>1, ConstantsOK DEF TypeOK, StatusKeys

LEMMA OwnedStep ==
    ASSUME SoleKey, TypeOK, Owned, [Next]_vars
    PROVE  Owned'
<1> SUFFICES ASSUME NEW c \in Containers, NEW k \in FiledAs(c)
             PROVE  /\ hist'[k] # None => hist'[k].pod = PodOf[c]
                    /\ step' # "scan" /\ cur'.key = k => cur'.pod = PodOf[c]
  BY DEF Owned
<1>0. /\ k \in Filed /\ hist[k] \in HistoryEntry \cup {None}
      /\ hist[k] # None => hist[k].pod = PodOf[c]
      /\ step # "scan" /\ cur.key = k => cur.pod = PodOf[c]
  BY KeyTyped DEF Owned
<1>1. ASSUME NEW newTrend, NEW source, NEW reported \in SUBSET Containers,
             Round(newTrend, source, reported), reported # {} => source \in Sources
      PROVE  hist'[k] # None => hist'[k].pod = PodOf[c]
  <2> DEFINE filed == {d \in reported : Key(source, d) = k}
  <2>1. PICK first \in [Filed -> Pods] :
          /\ filed # {} => \E d \in filed : first[k] = PodOf[d]
          /\ hist'[k] = IF filed = {} THEN hist[k]
                        ELSE [age |-> 0, pod |-> IF hist[k] = None THEN first[k] ELSE hist[k].pod]
    BY <1>0, <1>1 DEF Round
  <2>2. \A d \in filed : PodOf[d] = PodOf[c]
    BY <1>1, OneKey DEF FiledAs
  <2> QED BY <1>0, <2>1, <2>2
<1>2. CASE MonitorRound \/ MonitorRoundBlind
  <2>1. step' = "scan"
    BY <1>2 DEF MonitorRound, MonitorRoundBlind, Round
  <2>2. \A source \in Sources : Collected(source) \in SUBSET Containers
    BY DEF Collected, TypeOK
  <2>3. hist'[k] # None => hist'[k].pod = PodOf[c]
    <3>1. \E newTrend, source : \E reported \in SUBSET Containers :
            /\ Round(newTrend, source, reported)
            /\ reported # {} => source \in Sources
      BY <1>2, <2>2 DEF MonitorRound, MonitorRoundBlind
    <3> QED BY <1>1, <3>1
  <2> QED BY <2>1, <2>3
<1>3. ASSUME NEW l \in Filed, Judge(l)
      PROVE  hist' = hist /\ (step' # "scan" => step' = "get" /\ cur' = [key |-> l, pod |-> hist[l].pod]
                                             /\ hist[l] # None)
  BY <1>3 DEF Judge, Skip, KeepLimit, BeginRemove, BeginApply, Turn, Call
<1>4. CASE hist' = hist /\ (step' = "scan" \/ (step # "scan" /\ cur' = cur))
  BY <1>0, <1>4
<1>5. CASE GetPod \/ UpdatePod \/ UpdateConflict \/ CallFails \/ UpdateLimitStatus
  BY <1>4, <1>5 DEF GetPod, UpdatePod, UpdateConflict, CallFails, UpdateLimitStatus
<1>6. CASE Restoration \/ Users \/ (\E d \in Containers : ContainerExits(d)) \/ UNCHANGED vars
  <2>1. hist' = hist /\ step' = step /\ cur' = cur
    BY <1>6 DEF Restoration, RestoreList, RestoreListFails, RestoreEnds, RestoreContainer, Users,
                UserEditsLimit, UserEditsApp, UserWrites, ContainerExits, vars, memory, monitor
  <2> QED BY <1>4, <2>1
<1>7. CASE Tick \/ CleanupHistory
  <2>1. step' = step /\ cur' = cur
    BY <1>7 DEF Tick, CleanupHistory, monitor
  <2>2. hist'[k] # None => hist[k] # None /\ hist'[k].pod = hist[k].pod
    BY <1>0, <1>7 DEF Tick, CleanupHistory, HistoryEntry
  <2> QED BY <1>0, <2>1, <2>2
<1>8. CASE Restart
  BY <1>0, <1>8 DEF Restart
<1>9. CASE \E l \in Filed : Judge(l)
  BY <1>0, <1>3, <1>9
<1> QED BY <1>2, <1>5, <1>6, <1>7, <1>8, <1>9 DEF Next, Monitor

LEMMA FreshEntry ==
    ASSUME NEW s, NEW r
    PROVE  Recorded(s, r).applied = 0
BY DEF Recorded

LEMMA OlderMonotone ==
    ASSUME NEW a \in Nat, NEW b \in Nat
    PROVE  /\ a <= b => Older(a, RemoveDelay) <= Older(b, RemoveDelay)
           /\ a >= RemoveDelay => Older(a, RemoveDelay) >= RemoveDelay
           /\ Older(a, RemoveDelay) \in Nat
<1>1. RemoveDelay \in Nat
  BY ConstantsOK
<1> QED BY <1>1 DEF Older

LEMMA EntryYoungerStep ==
    ASSUME SoleKey, DelayInv, [Next]_vars
    PROVE  EntryYounger'
<1> SUFFICES ASSUME NEW c \in Containers, NEW k \in FiledAs(c), Limited(k)', ~Unrecorded(k)'
             PROVE  status'[k].applied <= sinceWrite'[PodOf[c]]
  BY DEF EntryYounger
<1>0. k \in StatusKeys /\ PodOf[c] \in Pods /\ sinceWrite[PodOf[c]] \in Nat
      /\ (status[k] # None => status[k] \in LimitStatus)
  BY KeyTyped DEF DelayInv
<1>1. CASE Tick
  <2>1. sinceWrite'[PodOf[c]] = Older(sinceWrite[PodOf[c]], RemoveDelay)
    BY <1>0, <1>1 DEF Tick
  <2>2. status[k] # None /\ status'[k].applied = Older(status[k].applied, RemoveDelay)
        /\ status'[k].isLimited = status[k].isLimited
    BY <1>0, <1>1 DEF Tick, Limited, LimitStatus
  <2>3. Limited(k) /\ ~Unrecorded(k)
    BY <1>1, <2>2 DEF Limited, Unrecorded, Tick, monitor
  <2> QED BY <1>0, <2>1, <2>2, <2>3, OlderMonotone DEF DelayInv, EntryYounger, LimitStatus
<1>2. CASE UpdatePod
  <2>1. status' = status /\ cur' = cur /\ decision' = decision /\ step' = "commit" /\ step = "put"
    BY <1>2 DEF UpdatePod
  <2>2. Limited(k) /\ ~Unrecorded(k) /\ (cur.key # k \/ decision = None)
    BY <2>1 DEF Limited, Unrecorded
  <2>3. sinceWrite'[PodOf[c]] = sinceWrite[PodOf[c]]
    <3>1. CASE decision = None
      BY <1>2, <3>1 DEF UpdatePod
    <3>2. CASE cur.key # k /\ decision # None
      <4>1. cur.key \in Filed /\ cur.pod \in Pods
        BY <2>1 DEF DelayInv, TypeOK
      <4>2. PICK d \in Containers : cur.key \in FiledAs(d)
        BY <4>1, FiledBySomeone
      <4>3. cur.pod = PodOf[d]
        BY <2>1, <4>2 DEF DelayInv, Owned
      <4>4. cur.pod # PodOf[c]
        BY <3>2, <4>2, <4>3, OneKey
      <4> QED BY <1>0, <1>2, <3>2, <4>1, <4>4 DEF UpdatePod, DelayInv, TypeOK
    <3> QED BY <2>2, <3>1, <3>2
  <2> QED BY <2>1, <2>2, <2>3 DEF DelayInv, EntryYounger
<1>3. CASE UpdateLimitStatus
  <2>1. sinceWrite' = sinceWrite
    BY <1>3 DEF UpdateLimitStatus
  <2>2. CASE cur.key = k
    <3>1. status'[k] = Recorded(status[k], decision)
      BY <1>0, <1>3, <2>2 DEF UpdateLimitStatus, DelayInv, TypeOK
    <3> QED BY <1>0, <2>1, <3>1, FreshEntry
  <2>3. CASE cur.key # k
    <3>1. status'[k] = status[k]
      BY <1>0, <1>3, <2>3 DEF UpdateLimitStatus, DelayInv, TypeOK
    <3> QED BY <2>1, <2>3, <3>1 DEF Limited, Unrecorded, DelayInv, EntryYounger
  <2> QED BY <2>2, <2>3
<1>4. ASSUME NEW d \in Containers, RestoreContainer(d)
      PROVE  status'[k].applied <= sinceWrite'[PodOf[c]]
  <2>1. sinceWrite' = sinceWrite /\ step' = step /\ cur' = cur /\ decision' = decision
    BY <1>4 DEF RestoreContainer, monitor
  <2>2. CASE status'[k] = status[k]
    BY <2>1, <2>2 DEF Limited, Unrecorded, DelayInv, EntryYounger
  <2>3. CASE status'[k] # status[k]
    <3>1. status'[k] = Recorded(status[k], RestoredResult(rsnap[PodOf[d]]))
      BY <1>0, <1>4, <2>3 DEF RestoreContainer, DelayInv, TypeOK
    <3> QED BY <1>0, <2>1, <3>1, FreshEntry
  <2> QED BY <2>2, <2>3
<1>5. ASSUME NEW d \in Filed, KeepLimit(d)
      PROVE  status'[k].applied <= sinceWrite'[PodOf[c]]
  <2>1. sinceWrite' = sinceWrite /\ step' = step /\ cur' = cur /\ decision' = decision
    BY <1>5 DEF KeepLimit
  <2>2. status'[k] = IF k = d THEN [status[k] EXCEPT !.checked = 0] ELSE status[k]
    BY <1>0, <1>5 DEF KeepLimit, DelayInv, TypeOK
  <2>3. Limited(k) /\ status'[k].applied = status[k].applied
    BY <1>0, <1>5, <2>2 DEF KeepLimit, Limited, LimitStatus
  <2> QED BY <2>1, <2>3 DEF Unrecorded, DelayInv, EntryYounger
<1>6. CASE CleanupHistory
  <2>1. sinceWrite' = sinceWrite /\ step' = step /\ cur' = cur /\ decision' = decision
    BY <1>6 DEF CleanupHistory, monitor
  <2>2. status'[k] = status[k]
    BY <1>0, <1>6 DEF CleanupHistory, Limited
  <2> QED BY <2>1, <2>2 DEF Limited, Unrecorded, DelayInv, EntryYounger
<1>7. CASE Restart
  BY <1>0, <1>7 DEF Restart, Limited
<1>8. CASE /\ status' = status /\ sinceWrite' = sinceWrite
           /\ step' # "commit" \/ UNCHANGED <<step, cur, decision>> \/ step \in {"get", "put"}
           /\ step = "commit" => UNCHANGED <<step, cur, decision>>
  BY <1>8 DEF Limited, Unrecorded, DelayInv, EntryYounger
<1>9. CASE MonitorRound \/ MonitorRoundBlind
  BY <1>8, <1>9 DEF MonitorRound, MonitorRoundBlind, Round
<1>10. ASSUME NEW d \in Filed, Skip(d) \/ BeginRemove(d) \/ BeginApply(d)
       PROVE  status'[k].applied <= sinceWrite'[PodOf[c]]
  BY <1>8, <1>10 DEF Skip, BeginRemove, BeginApply, Call, Turn
<1>11. CASE GetPod \/ UpdateConflict \/ CallFails
  BY <1>8, <1>11 DEF GetPod, UpdateConflict, CallFails
<1>12. CASE RestoreList \/ RestoreListFails \/ RestoreEnds
  BY <1>8, <1>12 DEF RestoreList, RestoreListFails, RestoreEnds, monitor
<1>13. CASE Users \/ (\E d \in Containers : ContainerExits(d)) \/ UNCHANGED vars
  BY <1>8, <1>13 DEF Users, UserEditsLimit, UserEditsApp, UserWrites, ContainerExits, vars, memory
<1> QED BY <1>1, <1>2, <1>3, <1>4, <1>5, <1>6, <1>7, <1>9, <1>10, <1>11, <1>12, <1>13
        DEF Next, Monitor, Judge, Restoration

LEMMA RemovalDueStep ==
    ASSUME DelayInv, [Next]_vars
    PROVE  RemovalDue'
<1> SUFFICES ASSUME step' \in {"get", "put"}, decision' = None
             PROVE  sinceWrite'[cur'.pod] >= RemoveDelay
  BY DEF RemovalDue
<1>0. RemoveDelay \in Nat /\ \A p \in Pods : sinceWrite[p] \in Nat
  BY ConstantsOK DEF DelayInv, TypeOK
<1>1. ASSUME NEW k \in Filed, BeginRemove(k)
      PROVE  sinceWrite'[cur'.pod] >= RemoveDelay
  <2>1. /\ cur' = [key |-> k, pod |-> hist[k].pod] /\ hist[k] # None
        /\ sinceWrite' = sinceWrite /\ step = "scan"
    BY <1>1 DEF BeginRemove, Call, Turn
  <2>2. status[k].applied >= RemoveDelay /\ Limited(k) /\ status[k].applied \in Nat
    BY <1>1 DEF BeginRemove, shouldRemoveLimit, Limited, DelayInv, TypeOK, LimitStatus, StatusKeys
  <2>3. PICK c \in Containers : k \in FiledAs(c)
    BY FiledBySomeone
  <2>4. hist[k].pod = PodOf[c] /\ PodOf[c] \in Pods
    BY <2>1, <2>3, KeyTyped DEF DelayInv, Owned
  <2>5. status[k].applied <= sinceWrite[PodOf[c]]
    BY <2>1, <2>2, <2>3 DEF DelayInv, EntryYounger, Unrecorded
  <2> QED BY <1>0, <2>1, <2>2, <2>4, <2>5
<1>2. ASSUME NEW k \in Filed, BeginApply(k)
      PROVE  FALSE
  BY <1>2 DEF BeginApply, Call
<1>3. CASE Tick
  <2>1. step \in {"get", "put"} /\ decision = None /\ cur' = cur
    BY <1>3 DEF Tick, monitor
  <2>2. cur.pod \in Pods
    BY <2>1 DEF DelayInv, TypeOK
  <2>3. sinceWrite'[cur.pod] = Older(sinceWrite[cur.pod], RemoveDelay)
    BY <1>0, <1>3, <2>2 DEF Tick
  <2> QED BY <1>0, <2>1, <2>2, <2>3, OlderMonotone DEF DelayInv, RemovalDue
<1>4. CASE /\ step \in {"get", "put"} /\ decision' = decision
           /\ cur' = cur /\ sinceWrite' = sinceWrite
  BY <1>4 DEF DelayInv, RemovalDue
<1>5. CASE MonitorRound \/ MonitorRoundBlind
  BY <1>5 DEF MonitorRound, MonitorRoundBlind, Round
<1>6. ASSUME NEW k \in Filed, Skip(k) \/ KeepLimit(k) PROVE FALSE
  BY <1>6 DEF Skip, KeepLimit, Turn
<1>7. CASE GetPod
  BY <1>4, <1>7 DEF GetPod
<1>8. CASE UpdatePod \/ UpdateConflict \/ CallFails \/ UpdateLimitStatus \/ Restart
  BY <1>8 DEF UpdatePod, UpdateConflict, CallFails, UpdateLimitStatus, Restart
<1>9. CASE Restoration
  BY <1>4, <1>9 DEF Restoration, RestoreList, RestoreListFails, RestoreEnds, RestoreContainer, monitor
<1>10. CASE CleanupHistory \/ Users \/ (\E d \in Containers : ContainerExits(d)) \/ UNCHANGED vars
  BY <1>4, <1>10 DEF CleanupHistory, Users, UserEditsLimit, UserEditsApp, UserWrites, ContainerExits,
                     vars, memory, monitor
<1> QED BY <1>1, <1>2, <1>3, <1>5, <1>6, <1>7, <1>8, <1>9, <1>10 DEF Next, Monitor, Judge

LEMMA DelayInvariant ==
    ASSUME SoleKey
    PROVE  Spec => []DelayInv
<1>1. Init => DelayInv
  <2> SUFFICES ASSUME Init PROVE DelayInv
    OBVIOUS
  <2>1. TypeOK
    BY InitTyped
  <2>2. \A c \in Containers : \A k \in FiledAs(c) : hist[k] = None /\ status[k] = None
    BY <2>1, KeyTyped DEF Init
  <2> QED BY <2>1, <2>2 DEF Init, DelayInv, Owned, EntryYounger, RemovalDue, Limited
<1>2. DelayInv /\ [Next]_vars => DelayInv'
  BY NextTyped, OwnedStep, EntryYoungerStep, RemovalDueStep DEF DelayInv
<1> QED BY <1>1, <1>2, PTL DEF Spec

\* Where every pod has one key of its own, a limit stays for at least RemoveDelay
\* after it was last imposed, across slow calls, restarts and restoration.
THEOREM RemovalIsDelayed ==
    ASSUME SoleKey
    PROVE  Spec => RemovalDelayed
<1>1. ASSUME DelayInv, [Next]_vars, NEW p \in Pods,
             pods[p].ann.triggeredBy # None, pods'[p].ann.triggeredBy = None
      PROVE  sinceWrite[p] >= RemoveDelay
  <2>1. CASE UpdatePod
    <3>1. cur.pod \in Pods /\ copy \in PodObject
      BY <1>1, <2>1, ConstantsOK DEF UpdatePod, DelayInv, TypeOK
    <3>2. p = cur.pod
      BY <1>1, <2>1, <3>1 DEF UpdatePod, DelayInv, TypeOK
    <3>3. decision = None
      <4>1. decision # None => pods'[p].ann.triggeredBy = decision.triggeredBy
        <5>1. copy.ann \in Annotations
          BY <3>1 DEF PodObject
        <5>2. decision # None => pods'[p].ann = LimitedAnnotations(copy.ann, decision)
          BY <1>1, <2>1, <3>1, <3>2 DEF UpdatePod, DelayInv, TypeOK
        <5> QED BY <5>1, <5>2 DEF LimitedAnnotations, Annotations
      <4>2. decision # None => decision.triggeredBy \in Windows
        BY <1>1 DEF DelayInv, TypeOK, LimitResult
      <4> QED BY <1>1, <4>1, <4>2, NoneIsNoValue
    <3> QED BY <1>1, <2>1, <3>2, <3>3 DEF UpdatePod, DelayInv, RemovalDue
  <2>2. CASE Users
    <3>1. ASSUME NEW q \in Pods, NEW ann, UserWrites(q, ann),
                 ann.triggeredBy = pods[q].ann.triggeredBy
          PROVE  pods'[p].ann.triggeredBy = pods[p].ann.triggeredBy
      BY <1>1, <3>1 DEF UserWrites, DelayInv, TypeOK
    <3>2. \A q \in Pods : pods[q].ann \in Annotations
      BY <1>1 DEF DelayInv, TypeOK, PodObject
    <3> QED BY <1>1, <2>2, <3>1, <3>2 DEF Users, UserEditsLimit, UserEditsApp, Annotations
  <2>3. UpdatePod \/ Users
    <3>1. pods' # pods
      BY <1>1
    <3> QED BY <1>1, <3>1, Writers
  <2> QED BY <2>1, <2>2, <2>3
<1>2. DelayInv /\ [Next]_vars
      => [\A p \in Pods :
            pods[p].ann.triggeredBy # None /\ pods'[p].ann.triggeredBy = None
            => sinceWrite[p] >= RemoveDelay]_vars
  BY <1>1
<1> QED BY <1>2, DelayInvariant, PTL DEF Spec, RemovalDelayed

----
(***************************************************************************)
(* The manager implements LimitLifecycle.  The annotations of a pod, the   *)
(* age of its limit and the number of edits are the abstract state; a step *)
(* that writes no pod and lets no time pass is a stutter.                  *)
(***************************************************************************)
Shown == [p \in Pods |-> pods[p].ann]

\* One pod changes: the others look as before.
LEMMA ShownChange ==
    ASSUME TypeOK, NEW p \in Pods, NEW o \in PodObject, pods' = [pods EXCEPT ![p] = o]
    PROVE  /\ Shown' = [Shown EXCEPT ![p] = o.ann]
           /\ Shown[p] = pods[p].ann /\ Shown[p] \in Annotations /\ Shown'[p] = o.ann
BY DEF TypeOK, Shown, PodObject

\* A limit is written: what it changes, and that it is below the maximum.
LEMMA ImposedBelow ==
    ASSUME NEW ann \in Annotations, NEW r \in LimitResult, NEW k \in LimitKeys
    PROVE  \/ LimitedAnnotations(ann, r).limit[k] = ann.limit[k]
           \/ ann.limit[k] # 0 /\ LimitedAnnotations(ann, r).limit[k] \in 1 .. Cap(k)
<1>1. Cap(k) \in Nat /\ ContainerLimit[k] \in Nat
  BY ConstantsOK DEF Cap, ContainerLimit, Least
<1>2. Imposed(r)[k] \in 0 .. Cap(k)
  BY <1>1 DEF Imposed, Least, LimitResult, Rates, ContainerLimit
<1>3. LimitedAnnotations(ann, r).limit[k] = IF ann.limit[k] = 0 \/ Imposed(r)[k] = 0
                                            THEN ann.limit[k] ELSE Imposed(r)[k]
  BY DEF LimitedAnnotations, Annotations
<1> QED BY <1>1, <1>2, <1>3

\* A write of the manager is an atomic imposition or release.
LEMMA WriteIsAtomic ==
    ASSUME SoleKey, DelayInv, CopyCurrent, UpdatePod
    PROVE  \E p \in Pods : Lifecycle!Impose(p) \/ Lifecycle!Release(p)
<1> DEFINE p == cur.pod
           new == IF decision = None THEN ReleasedAnnotations(pods[p].ann)
                  ELSE LimitedAnnotations(pods[p].ann, decision)
           o == [rv |-> pods[p].rv + 1, ann |-> new]
<1>1. p \in Pods /\ copy = pods[p] /\ pods[p] \in PodObject
  BY ConstantsOK DEF UpdatePod, Accepts, CopyCurrent, DelayInv, TypeOK
<1>2. new \in Annotations /\ o \in PodObject
  BY <1>1, LimitedType, ReleasedType DEF DelayInv, TypeOK, PodObject
<1>3. pods' = [pods EXCEPT ![p] = o] /\ used' = used
  BY <1>1 DEF UpdatePod
<1>4. /\ Shown' = [Shown EXCEPT ![p] = new]
      /\ Shown[p] = pods[p].ann /\ Shown[p] \in Annotations /\ Shown'[p] = new
  <2>1. o.ann = new
    OBVIOUS
  <2>2. TypeOK
    BY DEF DelayInv
  <2> HIDE DEF new, o, p
  <2> QED BY <1>1, <1>2, <1>3, <2>1, <2>2, ShownChange
<1>5. CASE decision = None
  <2>1. sinceWrite[p] >= RemoveDelay /\ sinceWrite' = sinceWrite
    BY <1>5 DEF UpdatePod, DelayInv, RemovalDue
  <2>2. Shown' = [Shown EXCEPT ![p].limit = [k \in LimitKeys |-> None],
                               ![p].triggeredBy = None, ![p].removed = TRUE]
    <3>1. new = [pods[p].ann EXCEPT !.limit = [k \in LimitKeys |-> None], !.triggeredBy = None,
                                    !.removed = TRUE]
      BY <1>5 DEF ReleasedAnnotations
    <3>2. p \in DOMAIN Shown
      BY <1>1 DEF Shown
    <3> HIDE DEF new, o, p
    <3> QED BY <1>4, <3>1, <3>2 DEF Annotations
  <2> QED BY <1>1, <1>3, <1>4, <2>1, <2>2 DEF Lifecycle!Release, Shown
<1>6. CASE decision # None
  <2>1. decision \in LimitResult /\ new = LimitedAnnotations(pods[p].ann, decision)
    BY <1>6 DEF DelayInv, TypeOK
  <2>2. new.triggeredBy \in Windows
    BY <1>4, <2>1 DEF LimitedAnnotations, Annotations, LimitResult
  <2>3. new = [pods[p].ann EXCEPT !.limit = new.limit, !.triggeredBy = new.triggeredBy]
    BY <1>4, <2>1 DEF LimitedAnnotations, Annotations
  <2>4. Shown' = [Shown EXCEPT ![p].limit = Shown'[p].limit, ![p].triggeredBy = Shown'[p].triggeredBy]
    BY <1>1, <1>4, <2>3 DEF Shown
  <2>5. \A k \in LimitKeys : \/ Shown'[p].limit[k] = Shown[p].limit[k]
                             \/ Shown[p].limit[k] # 0 /\ Shown'[p].limit[k] \in 1 .. Cap(k)
    BY <1>4, <2>1, ImposedBelow
  <2>6. sinceWrite' = [sinceWrite EXCEPT ![p] = 0]
    BY <1>6 DEF UpdatePod
  <2> QED BY <1>1, <1>3, <1>4, <2>2, <2>4, <2>5, <2>6 DEF Lifecycle!Impose, Shown
<1> QED BY <1>1, <1>5, <1>6

\* A user's edit is one in the abstract specification.
LEMMA EditIsAtomic ==
    ASSUME TypeOK, Users
    PROVE  \E p \in Pods : Lifecycle!UserEdits(p)
<1>1. ASSUME NEW p \in Pods, NEW ann \in Annotations, UserWrites(p, ann),
             ann.triggeredBy = pods[p].ann.triggeredBy, ann.removed = pods[p].ann.removed
      PROVE  Lifecycle!UserEdits(p)
  <2> DEFINE o == [rv |-> pods[p].rv + 1, ann |-> ann]
  <2>1. o \in PodObject /\ o.ann = ann
    BY DEF TypeOK, PodObject
  <2>2. pods' = [pods EXCEPT ![p] = o] /\ sinceWrite' = sinceWrite
    BY <1>1 DEF UserWrites
  <2>3. used'.edits = used.edits + 1
    BY <1>1 DEF UserWrites, TypeOK, Budgets
  <2> HIDE DEF o
  <2>4. /\ Shown' = [Shown EXCEPT ![p] = ann] /\ p \in DOMAIN Shown
        /\ Shown[p] = pods[p].ann /\ Shown[p] \in Annotations /\ Shown'[p] = ann
    BY <2>1, <2>2, ShownChange DEF Shown
  <2>5. ann = [Shown[p] EXCEPT !.limit = ann.limit, !.app = ann.app]
    BY <1>1, <2>4 DEF Annotations
  <2>6. Shown' = [Shown EXCEPT ![p].limit = Shown'[p].limit, ![p].app = Shown'[p].app]
    BY <2>4, <2>5
  <2> QED BY <2>2, <2>3, <2>6 DEF Lifecycle!UserEdits, Shown
<1>2. ASSUME NEW p \in Pods, UserEditsLimit(p)
      PROVE  Lifecycle!UserEdits(p)
  <2>1. PICK k \in UserKeys, v \in UserValues : UserWrites(p, [pods[p].ann EXCEPT !.limit[k] = v])
    BY <1>2 DEF UserEditsLimit
  <2> DEFINE ann == [pods[p].ann EXCEPT !.limit[k] = v]
  <2>2. k \in LimitKeys /\ v \in Nat \cup {None} /\ pods[p].ann \in Annotations
    BY ConstantsOK DEF TypeOK, PodObject
  <2>3. /\ ann \in Annotations /\ ann.triggeredBy = pods[p].ann.triggeredBy
        /\ ann.removed = pods[p].ann.removed
    BY <2>2 DEF Annotations
  <2> QED BY <1>1, <2>1, <2>3
<1>3. ASSUME NEW p \in Pods, UserEditsApp(p)
      PROVE  Lifecycle!UserEdits(p)
  <2> DEFINE ann == [pods[p].ann EXCEPT !.app = @ + 1]
  <2>1. UserWrites(p, ann) /\ pods[p].ann \in Annotations
    BY <1>3 DEF UserEditsApp, TypeOK, PodObject
  <2>2. /\ ann \in Annotations /\ ann.triggeredBy = pods[p].ann.triggeredBy
        /\ ann.removed = pods[p].ann.removed
    BY <2>1 DEF Annotations
  <2> HIDE DEF ann
  <2> QED BY <1>1, <2>1, <2>2
<1> QED BY <1>2, <1>3 DEF Users

\* Every other step but Tick leaves all that the abstract specification shows.
LEMMA Hidden ==
    ASSUME TypeOK, [Next]_vars, ~UpdatePod, ~Users, ~Tick
    PROVE  pods' = pods /\ sinceWrite' = sinceWrite /\ used'.edits = used.edits
<1>1. pods' = pods
  BY Writers
<1>2. \A b \in {"failures", "crashes", "swings", "cleanups"} : \A n :
        [used EXCEPT ![b] = n].edits = used.edits
  <2>1. used \in Budgets
    BY DEF TypeOK
  <2> QED BY <2>1 DEF Budgets
<1>3. CASE MonitorRound \/ MonitorRoundBlind
  <2>1. sinceWrite' = sinceWrite
    BY <1>3 DEF MonitorRound, MonitorRoundBlind, Round
  <2>2. \E n : used' = [used EXCEPT !.swings = n] \/ used' = [used EXCEPT !.failures = n]
    BY <1>3 DEF MonitorRound, MonitorRoundBlind
  <2> QED BY <1>1, <1>2, <2>1, <2>2
<1>4. CASE \E k \in Filed : Judge(k)
  BY <1>1, <1>4 DEF Judge, Skip, KeepLimit, BeginRemove, BeginApply, Call
<1>5. CASE GetPod \/ UpdateConflict \/ CallFails \/ UpdateLimitStatus
  BY <1>1, <1>2, <1>5 DEF GetPod, UpdateConflict, CallFails, UpdateLimitStatus
<1>6. CASE Restoration
  BY <1>1, <1>2, <1>6 DEF Restoration, RestoreList, RestoreListFails, RestoreEnds, RestoreContainer
<1>7. CASE CleanupHistory \/ (\E c \in Containers : ContainerExits(c)) \/ Restart \/ UNCHANGED vars
  BY <1>1, <1>2, <1>7 DEF CleanupHistory, ContainerExits, Restart, vars
<1> QED BY <1>3, <1>4, <1>5, <1>6, <1>7 DEF Next, Monitor

\* However slow its calls are and whoever writes in between, where every pod has one
\* key of its own the manager keeps what LimitLifecycle promises to the owner of a pod.
THEOREM Implements ==
    ASSUME SoleKey
    PROVE  Spec => KeepsPromise
<1>1. Init => Lifecycle!Init
  BY DEF Init, Lifecycle!Init
<1>2. ASSUME DelayInv, CopyCurrent, [Next]_vars
      PROVE  [Lifecycle!Next]_(Lifecycle!vars)
  <2>1. CASE UpdatePod
    BY <1>2, <2>1, WriteIsAtomic DEF Lifecycle!Next
  <2>2. CASE Users
    BY <1>2, <2>2, EditIsAtomic DEF Lifecycle!Next, DelayInv
  <2>3. CASE Tick
    <3>1. sinceWrite' = [p \in Pods |-> Older(sinceWrite[p], RemoveDelay)]
      BY <2>3, Zenon DEF Tick
    <3>2. pods' = pods /\ used' = used
      BY <2>3, Zenon DEF Tick
    <3>3. Lifecycle!Tick
      BY <3>1, <3>2 DEF Older, Lifecycle!Tick
    <3> QED BY <3>3 DEF Lifecycle!Next
  <2>4. CASE ~UpdatePod /\ ~Users /\ ~Tick
    BY <1>2, <2>4, Hidden DEF Lifecycle!vars, DelayInv
  <2> QED BY <2>1, <2>2, <2>3, <2>4
<1> QED BY <1>1, <1>2, DelayInvariant, CopyInvariant, PTL DEF Spec, KeepsPromise, Lifecycle!Spec

----
(***************************************************************************)
(* What the daemon knows of.  A limit that the annotations announce is in  *)
(* the manager's memory, or UpdatePod has just written it and              *)
(* updateLimitStatus is next, or restoration listed its pod with it and    *)
(* has yet to come to its container.  A conflict, a refused call and the   *)
(* cleanup each break this (the entry goes, the annotation stays), so it   *)
(* is claimed for the time until the first of them, and for containers     *)
(* that rounds and restoration alike know by their ids: where rounds read  *)
(* the summary it is false.                                                *)
(***************************************************************************)
\* Restoration will come to c, and what it listed announces the limit.
ToRestore(c) ==
    \/ rstage = "list"
    \/ rstage = "restore" /\ c \in rtodo /\ Announces(rsnap[PodOf[c]])

Known ==
    \A c \in running :
        PodOf[c] \in Monitored /\ Announces(pods[PodOf[c]].ann)
        => Limited(c) \/ Unrecorded(c) \/ ToRestore(c)

\* A removal is recorded when the annotations no longer announce the limit.
Removed == step = "commit" /\ decision = None => ~Announces(pods[cur.pod].ann)

CopyExact == step = "put" => copy = pods[cur.pod]

\* In kubelet mode no write ever comes about.
NeverWrites ==
    KubeletMode => /\ step # "put"
                   /\ \A p \in Pods : ~Announces(pods[p].ann)

TrackInv == Undisturbed => Known /\ Removed /\ CopyExact /\ NeverWrites

\* What is disturbed stays disturbed.
LEMMA StillUndisturbed ==
    ASSUME TypeOK, [Next]_vars, Undisturbed'
    PROVE  /\ Undisturbed
           /\ ~Users /\ ~CleanupHistory /\ ~MonitorRoundBlind /\ ~RestoreListFails
           /\ CallFails => KubeletMode
<1> DEFINE Bumped(field) == used' = [used EXCEPT ![field] = @ + 1]
<1>1. used \in Budgets
  BY DEF TypeOK
<1>2. \A field \in {"edits", "failures", "cleanups"} : ~Bumped(field)
  BY <1>1 DEF Undisturbed, Budgets
<1>3. Users => Bumped("edits")
  BY DEF Users, UserEditsLimit, UserEditsApp, UserWrites
<1>4. CleanupHistory => Bumped("cleanups")
  BY DEF CleanupHistory
<1>5. MonitorRoundBlind \/ RestoreListFails \/ (CallFails /\ ~KubeletMode) => Bumped("failures")
  BY DEF MonitorRoundBlind, RestoreListFails, CallFails
<1>6. ~Users /\ ~CleanupHistory /\ ~MonitorRoundBlind /\ ~RestoreListFails /\ (CallFails => KubeletMode)
  BY <1>2, <1>3, <1>4, <1>5
<1>7. CASE UNCHANGED used
  BY <1>6, <1>7 DEF Undisturbed
<1>8. CASE MonitorRound
  BY <1>1, <1>6, <1>8 DEF MonitorRound, Undisturbed, Budgets
<1>9. CASE Restart
  BY <1>1, <1>6, <1>9 DEF Restart, Undisturbed, Budgets
<1>10. UNCHANGED used \/ MonitorRound \/ Restart
  <2>1. CASE Monitor
    <3>1. CASE GetPod \/ UpdatePod \/ UpdateConflict \/ UpdateLimitStatus
      BY <3>1 DEF GetPod, UpdatePod, UpdateConflict, UpdateLimitStatus
    <3>2. CASE CallFails
      BY <1>6, <3>2 DEF CallFails
    <3>3. ASSUME NEW k \in Filed, Judge(k) PROVE UNCHANGED used
      BY <3>3 DEF Judge, Skip, KeepLimit, BeginRemove, BeginApply, Call
    <3> QED BY <1>6, <2>1, <3>1, <3>2, <3>3 DEF Monitor
  <2>2. CASE Restoration
    BY <1>6, <2>2 DEF Restoration, RestoreList, RestoreEnds, RestoreContainer
  <2>3. CASE Tick \/ (\E c \in Containers : ContainerExits(c)) \/ UNCHANGED vars
    BY <2>3 DEF Tick, ContainerExits, vars
  <2> QED BY <1>6, <2>1, <2>2, <2>3 DEF Next
<1> QED BY <1>6, <1>7, <1>8, <1>9, <1>10

\* What UpdatePod leaves on a pod when it removes a limit announces none.
LEMMA ReleaseIsSilent ==
    ASSUME NEW ann \in Annotations
    PROVE  ~Announces(ReleasedAnnotations(ann))
BY DEF Annotations, ReleasedAnnotations, Announces

\* The copy about to be written is the pod itself, so no update is a conflict.
LEMMA WriterStep ==
    ASSUME TypeOK, [Next]_vars, Undisturbed, Undisturbed', Removed, CopyExact, NeverWrites
    PROVE  /\ Removed' /\ CopyExact' /\ NeverWrites'
           /\ ~UpdateConflict
<1>1. ~UpdateConflict
  BY DEF UpdateConflict, Accepts, CopyExact
<1> DEFINE Held == pods' = pods /\ cur' = cur /\ decision' = decision /\ copy' = copy
<1>2. CASE Held /\ step' = step
  BY <1>1, <1>2 DEF Removed, CopyExact, NeverWrites, Announces
<1>3. CASE step' \in {"scan", "get"} /\ pods' = pods
  BY <1>1, <1>3 DEF Removed, CopyExact, NeverWrites, Announces
<1>4. CASE GetPod
  BY <1>1, <1>4 DEF GetPod, Removed, CopyExact, NeverWrites, Announces
<1>5. CASE UpdatePod
  <2> DEFINE p == cur.pod
  <2>1. p \in Pods /\ copy \in PodObject
    BY <1>5, ConstantsOK DEF UpdatePod, TypeOK
  <2>2. decision = None => pods'[p].ann = ReleasedAnnotations(copy.ann)
    BY <1>5, <2>1 DEF UpdatePod, TypeOK
  <2>3. decision = None => ~Announces(pods'[p].ann)
    BY <2>1, <2>2, ReleaseIsSilent DEF PodObject
  <2> QED BY <1>1, <1>5, <2>3 DEF UpdatePod, Removed, CopyExact, NeverWrites, Announces
<1>6. CASE CallFails
  <2>1. KubeletMode /\ pods' = pods /\ cur' = cur /\ step' = "commit"
    BY <1>6, StillUndisturbed DEF CallFails
  <2>2. cur.pod \in Pods
    BY <1>6, ConstantsOK DEF CallFails, TypeOK
  <2> QED BY <1>1, <2>1, <2>2 DEF Removed, CopyExact, NeverWrites, Announces
<1>7. CASE MonitorRound \/ UpdateLimitStatus \/ Restart
  <2>1. pods' = pods /\ step' = "scan"
    BY <1>7 DEF MonitorRound, Round, UpdateLimitStatus, Restart
  <2> QED BY <2>1, <1>3
<1>8. ASSUME NEW k \in Filed, Judge(k)
      PROVE  pods' = pods /\ step' \in {"scan", "get"}
  BY <1>8 DEF Judge, Skip, KeepLimit, BeginRemove, BeginApply, Turn, Call
<1>9. CASE Restoration \/ Tick \/ (\E c \in Containers : ContainerExits(c)) \/ UNCHANGED vars
  <2>1. CASE Restoration
    BY <2>1, <1>2 DEF Restoration, RestoreList, RestoreListFails, RestoreContainer, RestoreEnds, monitor
  <2>2. CASE Tick \/ (\E c \in Containers : ContainerExits(c)) \/ UNCHANGED vars
    BY <2>2, <1>2 DEF Tick, ContainerExits, vars, memory, monitor
  <2> QED BY <1>9, <2>1, <2>2
<1> QED BY <1>1, <1>3, <1>4, <1>5, <1>6, <1>7, <1>8, <1>9, StillUndisturbed DEF Next, Monitor

\* Rounds and restoration know every container by its id, and no pod has two.
KnownByIds == SoleKey /\ Sources = {"cadvisor"} /\ ~LabelSelector

LEMMA IdsAreKeys ==
    ASSUME KnownByIds
    PROVE  Filed = Containers /\ StatusKeys = Containers /\ \A c \in Containers : FiledAs(c) = {c}
<1>1. \A c \in Containers : FiledAs(c) = {c}
  BY DEF KnownByIds, FiledAs, Key
<1>2. Filed = Containers
  BY <1>1 DEF Filed
<1> QED BY <1>1, <1>2 DEF StatusKeys

LEMMA KnownStep ==
    ASSUME KnownByIds, TypeOK, Owned, [Next]_vars, Undisturbed, Undisturbed',
           Known, Removed, CopyExact, NeverWrites
    PROVE  Known'
<1> SUFFICES ASSUME NEW c \in running', PodOf[c] \in Monitored,
                    Announces(pods'[PodOf[c]].ann)
             PROVE  Limited(c)' \/ Unrecorded(c)' \/ ToRestore(c)'
  BY DEF Known
<1> DEFINE p == PodOf[c]
<1>0. /\ c \in running /\ c \in Containers /\ p \in Pods
      /\ status \in [Containers -> LimitStatus \cup {None}]
      /\ StatusKeys = Containers /\ Filed = Containers
  <2>1. running' \subseteq running
    <3>1. CASE Monitor
      BY <3>1, StillUndisturbed DEF Monitor, MonitorRound, Round, Judge, Skip, KeepLimit, BeginRemove, BeginApply,
                        Call, GetPod, UpdatePod, UpdateConflict, CallFails, UpdateLimitStatus
    <3>2. CASE Restoration \/ Tick \/ (\E d \in Containers : ContainerExits(d)) \/ Restart \/ UNCHANGED vars
      BY <3>2 DEF Restoration, RestoreList, RestoreListFails, RestoreContainer, RestoreEnds,
                  Tick, ContainerExits, Restart, vars
    <3> QED BY <3>1, <3>2, StillUndisturbed DEF Next
  <2> QED BY <2>1, IdsAreKeys, ConstantsOK DEF TypeOK
<1>1. /\ Announces(pods[p].ann) => Limited(c) \/ Unrecorded(c) \/ ToRestore(c)
      /\ step # "scan" /\ cur.key = c => cur.pod = p
  BY <1>0, IdsAreKeys DEF Known, Owned
<1>2. CASE /\ pods' = pods /\ restoration' = restoration
           /\ Limited(c) => Limited(c)'
           /\ Unrecorded(c) => Unrecorded(c)'
  BY <1>1, <1>2 DEF ToRestore, restoration
<1>3. CASE MonitorRound
  BY <1>2, <1>3 DEF MonitorRound, Round, Limited, Unrecorded
<1>4. ASSUME NEW d \in Filed, Judge(d)
      PROVE  /\ pods' = pods /\ restoration' = restoration
             /\ Limited(c) => Limited(c)'
             /\ Unrecorded(c) => Unrecorded(c)'
  <2>1. KeepLimit(d) => (Limited(c) => Limited(c)')
    <3> DEFINE s == status[d]
    <3>1. s \in LimitStatus => /\ [s EXCEPT !.checked = 0] \in LimitStatus
                               /\ [s EXCEPT !.checked = 0].isLimited = s.isLimited
      BY DEF LimitStatus
    <3>2. KeepLimit(d) /\ d = c => status'[c] = [s EXCEPT !.checked = 0] /\ s \in LimitStatus
      BY <1>0 DEF KeepLimit, Limited
    <3>3. KeepLimit(d) /\ d # c => status'[c] = status[c]
      BY <1>0 DEF KeepLimit
    <3> QED BY <3>1, <3>2, <3>3, NoneIsNoRecord DEF Limited
  <2> QED BY <1>4, <2>1 DEF Judge, Skip, KeepLimit, BeginRemove, BeginApply, Turn, Call, Limited, Unrecorded
<1>5. CASE GetPod
  BY <1>2, <1>5 DEF GetPod, Limited, Unrecorded
<1>6. CASE UpdatePod
  <2>1. CASE cur.key = c
    <3>1. CASE decision = None
      BY <1>1, <1>6, <2>1, <3>1, WriterStep DEF UpdatePod, Removed
    <3>2. CASE decision # None
      BY <1>6, <2>1, <3>2 DEF UpdatePod, Unrecorded
    <3> QED BY <3>1, <3>2
  <2>2. CASE cur.key # c
    <3>1. cur.pod # p
      <4>1. cur.key \in Containers /\ step = "put"
        BY <1>0, <1>6 DEF UpdatePod, TypeOK
      <4>2. cur.pod = PodOf[cur.key]
        BY <4>1, IdsAreKeys DEF Owned
      <4>3. cur.key \in FiledAs(cur.key) /\ c \in FiledAs(c)
        BY <1>0, <4>1, IdsAreKeys
      <4> QED BY <1>0, <2>2, <4>1, <4>2, <4>3, OneKey DEF KnownByIds
    <3>2. pods'[p] = pods[p]
      BY <1>0, <1>6, <3>1 DEF UpdatePod, TypeOK
    <3> QED BY <1>1, <1>6, <2>2, <3>2 DEF UpdatePod, Limited, Unrecorded, ToRestore, restoration
  <2> QED BY <2>1, <2>2
<1>7. CASE CallFails
  BY <1>0, <1>7, StillUndisturbed DEF CallFails, NeverWrites
<1>8. CASE UpdateLimitStatus
  <2>1. CASE cur.key = c
    <3>1. decision # None
      BY <1>1, <1>8, <2>1 DEF UpdateLimitStatus, Removed
    <3>2. status'[c] = Recorded(status[c], decision)
      BY <1>0, <1>8, <2>1 DEF UpdateLimitStatus
    <3>3. Recorded(status[c], decision) \in LimitStatus
      BY <1>0, RecordedType DEF TypeOK
    <3>4. Recorded(status[c], decision).isLimited
      BY <3>1 DEF Recorded
    <3> QED BY <3>2, <3>3, <3>4, NoneIsNoRecord DEF Limited
  <2>2. CASE cur.key # c
    BY <1>0, <1>2, <1>8, <2>2 DEF UpdateLimitStatus, Limited, Unrecorded
  <2> QED BY <2>1, <2>2
<1>9. CASE RestoreList
  BY <1>0, <1>9 DEF RestoreList, shouldMonitorPod, KnownByIds, ToRestore
<1>10. CASE RestoreEnds
  BY <1>1, <1>10 DEF RestoreEnds, ToRestore, Limited, Unrecorded, monitor
<1>11. ASSUME NEW d \in Containers, RestoreContainer(d)
       PROVE  Limited(c)' \/ Unrecorded(c)' \/ ToRestore(c)'
  <2>1. CASE d = c
    <3>1. CASE Announces(rsnap[p])
      <4>1. status'[c] = Recorded(status[c], RestoredResult(rsnap[p]))
        BY <1>0, <1>11, <2>1, <3>1 DEF RestoreContainer, Restorable, Announces
      <4>2. RestoredResult(rsnap[p]) \in LimitResult
        BY <1>0, <1>11, <2>1, <3>1 DEF RestoreContainer, Announces, TypeOK, Annotations, RestoredResult, LimitResult, Rates
      <4> HIDE DEF p
      <4>3. Recorded(status[c], RestoredResult(rsnap[p])) \in LimitStatus
        BY <1>0, <4>2, RecordedType
      <4>4. RestoredResult(rsnap[p]) # None
        BY <4>2, NoneIsNoRecord
      <4>5. Recorded(status[c], RestoredResult(rsnap[p])).isLimited
        BY <4>4 DEF Recorded
      <4> QED BY <4>1, <4>3, <4>5, NoneIsNoRecord DEF Limited
    <3>2. CASE ~Announces(rsnap[p])
      BY <1>1, <1>11, <2>1, <3>2 DEF RestoreContainer, Restorable, Announces, ToRestore, Limited, Unrecorded, monitor
    <3> QED BY <3>1, <3>2
  <2>2. CASE d # c
    <3>1. Limited(c) => Limited(c)'
      BY <1>0, <1>11, <2>2 DEF RestoreContainer, Limited
    <3> QED BY <1>1, <1>11, <2>2, <3>1 DEF RestoreContainer, ToRestore, Unrecorded, monitor
  <2> QED BY <2>1, <2>2
<1>12. CASE Tick
  <2>1. Limited(c) => Limited(c)'
    <3> DEFINE s == status[c]
               a == Older(s.applied, RemoveDelay)
               k == Older(s.checked, CheckHorizon)
    <3>1. s \in LimitStatus => [s EXCEPT !.applied = a, !.checked = k].isLimited = s.isLimited
      BY DEF LimitStatus
    <3>2. s # None => status'[c] = [s EXCEPT !.applied = a, !.checked = k]
      BY <1>0, <1>12 DEF Tick
    <3>3. s # None => [s EXCEPT !.applied = a, !.checked = k] \in LimitStatus
      <4>1. s # None => s \in LimitStatus
        BY <1>0
      <4>2. s \in LimitStatus => a \in Nat /\ k \in Nat
        BY ConstantsOK DEF LimitStatus, Older, CheckHorizon
      <4> QED BY <4>1, <4>2 DEF LimitStatus
    <3>4. Limited(c) => s # None /\ s \in LimitStatus /\ s.isLimited
      BY <1>0 DEF Limited
    <3>5. Limited(c) => status'[c] \in LimitStatus /\ status'[c].isLimited
      <4> HIDE DEF s, a, k
      <4> QED BY <3>1, <3>2, <3>3, <3>4
    <3> QED BY <3>5, NoneIsNoRecord DEF Limited
  <2> QED BY <1>2, <1>12, <2>1 DEF Tick, monitor, restoration, Unrecorded
<1>13. CASE Restart
  BY <1>13 DEF Restart, ToRestore
<1>14. CASE (\E d \in Containers : ContainerExits(d)) \/ UNCHANGED vars
  BY <1>2, <1>14 DEF ContainerExits, vars, memory, monitor, restoration, Limited, Unrecorded
<1>15. ~Users /\ ~CleanupHistory /\ ~MonitorRoundBlind /\ ~RestoreListFails /\ ~UpdateConflict
  BY StillUndisturbed, WriterStep
<1>16. CASE Monitor
  BY <1>2, <1>3, <1>4, <1>5, <1>6, <1>7, <1>8, <1>15, <1>16 DEF Monitor
<1>17. CASE Restoration
  BY <1>9, <1>10, <1>11, <1>15, <1>17 DEF Restoration
<1> QED BY <1>12, <1>13, <1>14, <1>15, <1>16, <1>17 DEF Next

LEMMA TrackInvariant ==
    ASSUME KnownByIds
    PROVE  Spec => [](TypeOK /\ TrackInv)
<1>1. Init => TypeOK /\ TrackInv
  BY InitTyped DEF Init, TrackInv, Known, ToRestore, Removed, CopyExact, NeverWrites, Announces
<1>2. TypeOK /\ Owned /\ TrackInv /\ [Next]_vars => TypeOK' /\ TrackInv'
  BY NextTyped, StillUndisturbed, WriterStep, KnownStep DEF TrackInv
<1>3. SoleKey
  BY DEF KnownByIds
<1>4. DelayInv => Owned
  BY DEF DelayInv
<1> QED BY <1>1, <1>2, <1>3, <1>4, DelayInvariant, PTL DEF Spec

\* As long as no write was refused, no user interfered and the cleanup did not run,
\* the manager at rest knows of every limit announced, wherever it was killed, where
\* its rounds read cAdvisor: by the id, which is also what restoration goes by.
THEOREM KnownUntilDisturbed ==
    ASSUME KnownByIds
    PROVE  Spec => []Tracked
<1>1. TypeOK /\ TrackInv => Tracked
  <2> SUFFICES ASSUME TypeOK, TrackInv, Quiet, Undisturbed, NEW c \in running,
                      PodOf[c] \in Monitored, Announces(pods[PodOf[c]].ann)
               PROVE  \E k \in FiledAs(c) : Limited(k)
    BY DEF Tracked
  <2>1. Limited(c)
    BY DEF TrackInv, Known, Quiet, ToRestore, Unrecorded
  <2> QED BY <2>1, IdsAreKeys DEF TypeOK
<1> QED BY <1>1, TrackInvariant, PTL

----
(***************************************************************************)
(* What the annotations say.  Where users leave the limit annotations      *)
(* alone, a pod that names a window bears every limit this window imposes, *)
(* one that names none bears no limit, and no limit is "0", the value that *)
(* the manager takes for an exemption.                                     *)
(***************************************************************************)
Bears(ann) ==
    /\ \A k \in LimitKeys : ann.limit[k] # 0
    /\ IF ann.triggeredBy = None THEN \A k \in LimitKeys : ann.limit[k] = None
       ELSE LET imposed == Imposed(WindowResult(ann.triggeredBy))
            IN  \A k \in LimitKeys : imposed[k] > 0 => ann.limit[k] = imposed[k]

\* The decision is taken from the configuration, and the copy read bears what the
\* pods do: the write may come long after both.
Written ==
    /\ decision # None => decision = WindowResult(decision.triggeredBy)
    /\ \A p \in Pods : Bears(pods[p].ann)
    /\ step = "put" => Bears(copy.ann)

LEMMA GradedByWindow ==
    ASSUME NEW t, NEW r, r = shouldApplyLimitGraded(t), r # None
    PROVE  r = WindowResult(r.triggeredBy)
<1>1. PICK w : r = WindowResult(w)
  BY DEF shouldApplyLimitGraded
<1>2. r.triggeredBy = w
  BY <1>1 DEF WindowResult
<1> QED BY <1>1, <1>2

\* A limited pod bears what the window imposes: an item that it does not limit
\* keeps what it was.
LEMMA LimitedBears ==
    ASSUME NEW ann \in Annotations, Bears(ann), NEW r \in LimitResult, r = WindowResult(r.triggeredBy)
    PROVE  Bears(LimitedAnnotations(ann, r))
<1> DEFINE new == LimitedAnnotations(ann, r)
<1>1. new.triggeredBy = r.triggeredBy /\ r.triggeredBy # None
  BY NoneIsNoValue DEF LimitedAnnotations, Annotations, LimitResult
<1>2. \A k \in LimitKeys : new.limit[k] = IF ann.limit[k] = 0 \/ Imposed(r)[k] = 0 THEN ann.limit[k] ELSE Imposed(r)[k]
  BY DEF LimitedAnnotations, Annotations
<1>3. \A k \in LimitKeys : ann.limit[k] # 0
  BY DEF Bears
<1> HIDE DEF new
<1>4. Bears(new)
  BY <1>1, <1>2, <1>3 DEF Bears
<1> QED BY <1>4 DEF new

LEMMA ReleasedBears ==
    ASSUME NEW ann \in Annotations
    PROVE  Bears(ReleasedAnnotations(ann))
BY NoneIsNoValue DEF Bears, ReleasedAnnotations, Annotations

LEMMA WrittenStep ==
    ASSUME TypeOK, Written, UserKeys = {}, [Next]_vars
    PROVE  Written'
<1>0. TypeOK'
  BY NextTyped
<1>1. CASE UpdatePod
  <2>1. cur.pod \in Pods /\ copy \in PodObject /\ Bears(copy.ann) /\ decision \in LimitResult \cup {None}
    BY <1>1, ConstantsOK DEF UpdatePod, TypeOK, Written
  <2> DEFINE ann == IF decision = None THEN ReleasedAnnotations(copy.ann) ELSE LimitedAnnotations(copy.ann, decision)
  <2>2. Bears(ann)
    BY <2>1, LimitedBears, ReleasedBears DEF PodObject, Written
  <2>3. \A p \in Pods : pods'[p].ann = IF p = cur.pod THEN ann ELSE pods[p].ann
    BY <1>1, <2>1 DEF UpdatePod, TypeOK
  <2> HIDE DEF ann
  <2>4. \A p \in Pods : Bears(pods'[p].ann)
    BY <2>2, <2>3 DEF Written
  <2> QED BY <1>1, <2>4 DEF UpdatePod, Written
<1>2. CASE Users
  <2>1. PICK p \in Pods : UserEditsApp(p)
    BY <1>2 DEF Users, UserEditsLimit
  <2>2. pods[p] \in PodObject /\ pods' = [pods EXCEPT ![p] = [rv |-> @.rv + 1, ann |-> [pods[p].ann EXCEPT !.app = @ + 1]]]
        /\ UNCHANGED <<step, copy, decision>>
    BY <2>1 DEF UserEditsApp, UserWrites, TypeOK, memory
  <2>3. \A q \in Pods : pods'[q].ann.limit = pods[q].ann.limit /\ pods'[q].ann.triggeredBy = pods[q].ann.triggeredBy
    BY <2>2 DEF TypeOK, PodObject, Annotations
  <2> QED BY <2>2, <2>3 DEF Written, Bears
<1>3. CASE GetPod
  <2>1. cur.pod \in Pods
    BY <1>3, ConstantsOK DEF GetPod, TypeOK
  <2> QED BY <1>3, <2>1 DEF GetPod, Written
<1>4. ASSUME NEW k \in Filed, Judge(k) PROVE Written'
  <2>1. pods' = pods /\ copy' = copy /\ (step' = "put" => step = "put")
    BY <1>4 DEF Judge, Skip, KeepLimit, BeginRemove, BeginApply, Call
  <2>2. CASE Skip(k) \/ KeepLimit(k)
    BY <2>1, <2>2 DEF Skip, KeepLimit, Written
  <2>3. CASE BeginRemove(k)
    BY <2>1, <2>3 DEF BeginRemove, Call, Written
  <2>4. CASE BeginApply(k)
    <3>1. decision' = shouldApplyLimitGraded(trend[k])
      BY <2>4 DEF BeginApply, Call
    <3> QED BY <2>1, <3>1, GradedByWindow DEF Written
  <2> QED BY <1>4, <2>2, <2>3, <2>4 DEF Judge
<1>5. CASE UpdateConflict \/ CallFails \/ UpdateLimitStatus \/ Restart
  BY <1>5 DEF UpdateConflict, CallFails, UpdateLimitStatus, Restart, Written
<1>6. CASE \/ MonitorRound \/ MonitorRoundBlind \/ Restoration \/ Tick \/ CleanupHistory
           \/ (\E c \in Containers : ContainerExits(c)) \/ UNCHANGED vars
  <2>1. UNCHANGED <<pods, step, copy, decision>>
    BY <1>6 DEF MonitorRound, MonitorRoundBlind, Round, Restoration, RestoreList, RestoreListFails, RestoreEnds, RestoreContainer,
       Tick, CleanupHistory, ContainerExits, vars, memory, monitor
  <2> QED BY <2>1 DEF Written
<1> QED BY <1>1, <1>2, <1>3, <1>4, <1>5, <1>6 DEF Next, Monitor

LEMMA InitWritten == Init => Written
BY NoneIsNoValue DEF Init, Written, Bears

\* A step changes one pod.
LEMMA OnePodChanges ==
    ASSUME TypeOK, [Next]_vars, pods' # pods
    PROVE  \E p \in Pods : pods' = [pods EXCEPT ![p] = pods'[p]]
<1>1. CASE UpdatePod
  <2>1. cur.pod \in Pods
    BY <1>1, ConstantsOK DEF UpdatePod, TypeOK
  <2> QED BY <1>1, <2>1 DEF UpdatePod, TypeOK
<1>2. CASE Users
  BY <1>2 DEF Users, UserEditsLimit, UserEditsApp, UserWrites, TypeOK
<1> QED BY <1>1, <1>2, Writers

\* What else changes a pod changes its version only.
LEMMA VersionKeeps ==
    ASSUME TypeOK, Written, NEW p \in Pods, pods' = [pods EXCEPT ![p].rv = @ + 1],
           UNCHANGED <<running, trend, memory, sinceWrite, used>>
    PROVE  TypeOK' /\ Written'
<1>1. pods' \in [Pods -> PodObject] /\ \A q \in Pods : pods'[q].ann = pods[q].ann
  BY DEF TypeOK, PodObject
<1> QED BY <1>1 DEF TypeOK, Written, memory

\* Whatever was read, decided, refused or lost in between: an annotated pod bears
\* the limits of the window it names, any other pod none (smartlimit.go:587-632).
THEOREM AnnotationsBearTheirWindow ==
    ASSUME UserKeys = {}
    PROVE  Spec => [](\A p \in Pods : Bears(pods[p].ann))
<1>1. TypeOK /\ Written /\ [Next]_vars => Written'
  BY WrittenStep
<1>2. Written => \A p \in Pods : Bears(pods[p].ann)
  BY DEF Written
<1> QED BY <1>1, <1>2, InitWritten, TypeCorrect, PTL DEF Spec
====
