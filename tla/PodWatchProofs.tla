---- MODULE PodWatchProofs ----
(***************************************************************************)
(* Proofs about the annotation parser, the cgroup writes and the pod watch *)
(* service, for all annotations, configurations and bounds.                *)
(***************************************************************************)
EXTENDS PodWatch, FiniteSetTheorems, TLAPS

(***************************************************************************)
(* The parser.                                                             *)
(***************************************************************************)

\* Whatever the annotations hold, the parser returns a number for every item.
LEMMA LimitsAreNumbers ==
    ASSUME NEW ann \in PodAnnotations
    PROVE  Limits(ann) \in [LimitKeys -> Int]
<1>1. Defaults \in [LimitKeys -> Int]
  BY DefaultsOK
<1>2. \A a, b : b \in Int => Number(a, b) \in Int
  BY DEF Number
<1> QED BY <1>1, <1>2 DEF Limits

\* The removed marker lifts all four limits (service.go:319-321, 547-549).
LEMMA RemovedLiftsAll ==
    ASSUME NEW ann \in PodAnnotations, ann.removed
    PROVE  Limits(ann) = Unlimited
BY DEF Limits, Unlimited, Items, LimitKeys

\* A number under the key that sets both wins over the read and write keys.
LEMMA BothKeyWins ==
    ASSUME NEW ann \in PodAnnotations, ~ann.removed,
           NEW k \in LimitKeys, ann.smart[Both(k)] \in Int
    PROVE  Limits(ann)[k] = ann.smart[Both(k)]
<1>1. Both(k) \in Keys
  BY DEF Both, Keys, BothKeys
<1>2. ann.smart[Both(k)] # None
  BY DefaultsOK
<1>3. Chosen(ann) = ann.smart
  BY <1>1, <1>2 DEF Chosen, hasSmartLimitAnnotation
<1> QED BY <1>3 DEF Limits, Number

\* One key with the prefix, even a malformed one, and no legacy key counts.
LEMMA LegacyOnlyAlone ==
    ASSUME NEW ann \in PodAnnotations, NEW k \in Keys, ann.smart[k] # None,
           NEW legacy \in [Keys -> Values]
    PROVE  Limits([ann EXCEPT !.legacy = legacy]) = Limits(ann)
<1> DEFINE other == [ann EXCEPT !.legacy = legacy]
<1>1. other.smart = ann.smart /\ other.removed = ann.removed
  BY DEF PodAnnotations
<1>2. Chosen(other) = ann.smart /\ Chosen(ann) = ann.smart
  BY <1>1 DEF Chosen, hasSmartLimitAnnotation
<1> HIDE DEF other
<1>3. Limits(other) = Limits(ann)
  BY <1>1, <1>2 DEF Limits
<1> QED BY <1>3 DEF other

(***************************************************************************)
(* The cgroup files.                                                       *)
(***************************************************************************)

LEMMA PositiveType ==
    ASSUME NEW limits \in [Items -> Int]
    PROVE  Positive(limits) \in Files
BY DEF Positive, Files

LEMMA AfterWritesType ==
    ASSUME NEW files \in Files, NEW limits \in [Items -> Int], NEW n \in Nat
    PROVE  AfterWrites(files, limits, n) \in Files
<1>1. Positive(limits) \in Files
  BY PositiveType
<1> QED BY <1>1 DEF AfterWrites, Files

LEMMA AfterLineType ==
    ASSUME NEW files \in Files, NEW limits \in [Items -> Int]
    PROVE  AfterLine(files, limits) \in Files
BY DEF AfterLine, Files, Unlimited

LEMMA CgroupType ==
    ASSUME NEW files \in Files, NEW limits \in [Items -> Int], NEW v
    PROVE  /\ SetLimits(v, files, limits) \in Files
           /\ ResetLimits(v, files) \in Files
           /\ Interrupted(v, files, limits) \subseteq Files
<1>1. Unlimited \in [Items -> Int] /\ Unlimited \in Files
  BY DEF Unlimited, Files
<1> QED BY <1>1, AfterWritesType, AfterLineType DEF SetLimits, ResetLimits, Interrupted

\* cgroup v1 ends up with exactly the limits asked for, whatever was there before.
LEMMA SetLimitsV1 ==
    ASSUME NEW files, NEW limits
    PROVE  SetLimits("v1", files, limits) = Positive(limits)
<1>1. \A k \in Items : Position[k] <= 4
  BY DEF Position, Items
<1> QED BY <1>1 DEF SetLimits, AfterWrites, Positive

\* cgroup v2 ends up with every positive limit asked for, and with what was there
\* before of the others, unless none is positive.
LEMMA SetLimitsV2 ==
    ASSUME NEW files \in Files, NEW limits \in [Items -> Int], NEW k \in Items
    PROVE  /\ limits[k] > 0 => SetLimits("v2", files, limits)[k] = limits[k]
           /\ Positive(limits) = Unlimited => SetLimits("v2", files, limits) = Unlimited
<1>1. limits[k] > 0 => Positive(limits)[k] # Unlimited[k]
  BY DEF Positive, Unlimited
<1> QED BY <1>1 DEF SetLimits, AfterLine

(***************************************************************************)
(* Type correctness.                                                       *)
(***************************************************************************)

LEMMA ObjectType ==
    ASSUME TypeOK, NEW p \in Existing
    PROVE  ObjectOf(p) \in Object
<1>1. pods[p] \in Pod
  BY DEF TypeOK, Existing
<1> QED BY <1>1 DEF ObjectOf, Object, Pod, TypeOK

LEMMA SpendType ==
    ASSUME TypeOK, NEW max, Spend("edits", max) \/ Spend("restarts", max) \/ Spend("recreations", max)
                            \/ Spend("failures", max) \/ Spend("ends", max)
    PROVE  used' \in Budgets
<1>1. /\ used \in [edits: Nat, restarts: Nat, recreations: Nat, failures: Nat, ends: Nat]
      /\ \A n \in Nat : n + 1 \in Nat
  BY DEF TypeOK, Budgets
<1>2. used.edits \in Nat /\ used.restarts \in Nat /\ used.recreations \in Nat
      /\ used.failures \in Nat /\ used.ends \in Nat
  BY <1>1
<1>3. CASE Spend("edits", max)
  BY <1>1, <1>2, <1>3 DEF Spend, Budgets
<1>4. CASE Spend("restarts", max)
  BY <1>1, <1>2, <1>4 DEF Spend, Budgets
<1>5. CASE Spend("recreations", max)
  BY <1>1, <1>2, <1>5 DEF Spend, Budgets
<1>6. CASE Spend("failures", max)
  BY <1>1, <1>2, <1>6 DEF Spend, Budgets
<1>7. CASE Spend("ends", max)
  BY <1>1, <1>2, <1>7 DEF Spend, Budgets
<1> QED BY <1>3, <1>4, <1>5, <1>6, <1>7

LEMMA InitTyped == Init => TypeOK
<1> SUFFICES ASSUME Init PROVE TypeOK
  OBVIOUS
<1>1. pods \in [Pods -> Pod \cup {None}]
  <2>1. [ann: Choices, ready: {TRUE}] \subseteq Pod
    BY ServiceConstantsOK DEF Pod
  <2> QED BY <2>1 DEF Init
<1>2. cgroup \in [Containers -> Files]
  BY DEF Init, Unlimited, Files
<1>3. used \in Budgets
  BY DEF Init, Budgets
<1>4. queue \in Seq(Event)
  BY DEF Init
<1> QED BY <1>1, <1>2, <1>3, <1>4 DEF Init, TypeOK

\* The first list, and the ways in which it ends.
LEMMA ListTyped ==
    ASSUME TypeOK, List \/ ListFails \/ OpenWatchFails \/ \E w \in listed : SkipListed(w) \/ BeginListed(w)
    PROVE  TypeOK'
<1>1. CASE List
  <2>1. listed' \subseteq Work
    BY <1>1, ObjectType DEF List, Work, Existing
  <2> QED BY <1>1, <2>1 DEF List, TypeOK, node, apart, process
<1>2. CASE ListFails
  <2>1. used' \in Budgets
    BY <1>2, SpendType DEF ListFails
  <2>2. at' \in {"list", "apply", "loop", "exited", "parked"}
    BY <1>2 DEF ListFails, Quit
  <2> QED BY <1>2, <2>1, <2>2 DEF ListFails, TypeOK, node, apart, process, ghosts
<1>3. CASE OpenWatchFails
  <2>1. used' \in Budgets
    BY <1>3, SpendType DEF OpenWatchFails, TypeOK
  <2>2. at' \in {"list", "apply", "loop", "exited", "parked"}
    BY <1>3 DEF OpenWatchFails, Quit
  <2> QED BY <1>3, <2>1, <2>2 DEF OpenWatchFails, TypeOK, node, apart, process, ghosts
<1>4. ASSUME NEW w \in listed, SkipListed(w) PROVE TypeOK'
  BY <1>4 DEF SkipListed, TypeOK, node, apart, process, ghosts
<1>5. ASSUME NEW w \in listed, BeginListed(w) PROVE TypeOK'
  <2>1. w \in Work /\ w # None
    BY NoneIsNoObject DEF TypeOK, Work
  <2>2. work' = w /\ todo' = ContainersOf(w.pod) \ Excluded /\ listed' \subseteq listed
    BY <1>5 DEF BeginListed, Begin
  <2> QED BY <1>5, <2>1, <2>2 DEF BeginListed, TypeOK, node, apart, ghosts
<1> QED BY <1>1, <1>2, <1>3, <1>4, <1>5

LEMMA ProcessTyped ==
    ASSUME TypeOK, Process
    PROVE  TypeOK'
<1>1. ASSUME work # None PROVE work.obj \in Object /\ Wanted \in [Items -> Int]
  <2>1. work \in Work
    BY <1>1 DEF TypeOK
  <2>2. work.obj \in Object /\ work.obj.ann \in PodAnnotations
    BY <2>1 DEF Work, Object
  <2> QED BY <2>2, LimitsAreNumbers DEF Wanted, Items, LimitKeys
<1>2. ASSUME NEW c \in Containers, SetContainer(c) PROVE TypeOK'
  <2>1. cgroup' \in [Containers -> Files]
    <3>1. cgroup[c] \in Files /\ Wanted \in [Items -> Int]
      BY <1>1, <1>2 DEF SetContainer, TypeOK
    <3>2. ResetLimits(version, cgroup[c]) \in Files /\ SetLimits(version, cgroup[c], Wanted) \in Files
      BY <3>1, CgroupType
    <3> QED BY <1>2, <3>2 DEF SetContainer, TypeOK
  <2> QED BY <1>2, <2>1 DEF SetContainer, TypeOK, node, apart, run
<1>3. ASSUME NEW c \in Containers, SetContainerFails(c) PROVE TypeOK'
  <2>1. cgroup' \in [Containers -> Files]
    <3>1. cgroup[c] \in Files /\ Wanted \in [Items -> Int]
      BY <1>1, <1>3 DEF SetContainerFails, TypeOK
    <3>2. Interrupted(version, cgroup[c], Wanted) \subseteq Files
      BY <3>1, CgroupType
    <3> QED BY <1>3, <3>2 DEF SetContainerFails, TypeOK
  <2>2. used' \in Budgets
    BY <1>3, SpendType DEF SetContainerFails
  <2> QED BY <1>3, <2>1, <2>2 DEF SetContainerFails, TypeOK, node, apart, run
<1>4. CASE Remember
  <2>1. work \in Work /\ work.pod \in Pods /\ work.obj.ann \in PodAnnotations
    BY <1>4 DEF Remember, TypeOK, Work, Object
  <2>2. cache' \in [Pods -> PodAnnotations \cup {None}]
    BY <1>4, <2>1 DEF Remember, TypeOK
  <2> QED BY <1>4, <2>2 DEF Remember, TypeOK, node, apart, ghosts
<1> QED BY <1>2, <1>3, <1>4 DEF Process

LEMMA OpenWatchTyped ==
    ASSUME TypeOK, OpenWatch
    PROVE  TypeOK'
<1>1. Cardinality(Existing) \in Nat
  <2>1. IsFiniteSet(Existing)
    BY ServiceConstantsOK, FS_Subset DEF Existing
  <2> QED BY <2>1, FS_CardinalityType
<1>2. {Initial(p) : p \in Existing} \subseteq Event
  BY ObjectType DEF Initial, Event, Existing
<1>3. queue' \in [1 .. Cardinality(Existing) -> {Initial(p) : p \in Existing}]
  BY DEF OpenWatch
<1>4. queue' \in Seq(Event)
  BY <1>1, <1>2, <1>3
<1> QED BY <1>4 DEF OpenWatch, TypeOK, node, apart, process, ghosts

LEMMA LoopTyped ==
    ASSUME TypeOK, Loop
    PROVE  TypeOK'
<1>1. ASSUME queue # <<>>
      PROVE  /\ Tail(queue) \in Seq(Event)
             /\ Received \in Work /\ Received # None
             /\ Received.pod \in Pods
  <2>1. Head(queue) \in Event /\ Tail(queue) \in Seq(Event)
    BY <1>1 DEF TypeOK
  <2>2. Received \in Work
    BY <2>1 DEF Received, Event, Work
  <2> QED BY <2>1, <2>2, NoneIsNoObject DEF Work
<1>2. CASE IgnoreAdded \/ IgnoreUnready \/ IgnoreUnchanged
  BY <1>1, <1>2 DEF IgnoreAdded, IgnoreUnready, IgnoreUnchanged, Receive, TypeOK, node, apart, process
<1>3. CASE BeginModified
  <2>1. queue # <<>> /\ work' = Received /\ todo' = ContainersOf(Received.pod) \ Excluded
        /\ queue' = Tail(queue) /\ unseen' \subseteq unseen
    BY <1>3 DEF BeginModified, Receive, Begin
  <2> QED BY <1>1, <1>3, <2>1 DEF BeginModified, Receive, TypeOK, node, apart
<1>4. CASE Forget
  <2>1. cache' \in [Pods -> PodAnnotations \cup {None}]
    BY <1>4 DEF Forget, TypeOK
  <2> QED BY <1>1, <1>4, <2>1 DEF Forget, Receive, TypeOK, node, apart, process
<1>5. CASE Exit
  BY <1>5 DEF Exit, TypeOK, node, apart, process, ghosts
<1> QED BY <1>2, <1>3, <1>4, <1>5 DEF Loop

\* An event joins the queue of an open watch, or is lost.
LEMMA NotifyTyped ==
    ASSUME TypeOK, NEW p \in Pods, NEW obj \in Object, NEW type \in {"Added", "Modified", "Deleted"},
           Notify(type, p, obj)
    PROVE  queue' \in Seq(Event) /\ unseen' \subseteq Pods
<1>1. [type |-> type, pod |-> p, obj |-> obj] \in Event
  BY DEF Event
<1>2. queue \in Seq(Event) /\ unseen \subseteq Pods
  BY DEF TypeOK
<1>3. \A e \in Event : Append(queue, e) \in Seq(Event)
  BY <1>2
<1>4. CASE watching
  BY <1>1, <1>2, <1>3, <1>4 DEF Notify
<1>5. CASE ~watching
  BY <1>2, <1>5 DEF Notify
<1> QED BY <1>4, <1>5

\* The new object of a pod that changed.
LEMMA NewObjectType ==
    ASSUME TypeOK, NEW p \in Pods, NEW pod \in Pod, pods' = [pods EXCEPT ![p] = pod],
           instance' \in [Containers -> Nat]
    PROVE  /\ ObjectOf(p)' \in Object
           /\ pods' \in [Pods -> Pod \cup {None}]
<1>1. pods' \in [Pods -> Pod \cup {None}] /\ pods'[p] = pod
  BY DEF TypeOK
<1> QED BY <1>1 DEF ObjectOf, Object, Pod

LEMMA PodChangesTyped ==
    ASSUME TypeOK, NEW p \in Pods, NEW pod \in Pod, PodChanges(p, pod),
           instance' \in [Containers -> Nat], cgroup' \in [Containers -> Files],
           cleared' \subseteq Containers, failed' \subseteq Containers, used' \in Budgets
    PROVE  TypeOK'
<1>1. pods' = [pods EXCEPT ![p] = pod] /\ Notify("Modified", p, ObjectOf(p)')
  BY DEF PodChanges
<1>2. ObjectOf(p)' \in Object /\ pods' \in [Pods -> Pod \cup {None}]
  BY <1>1, NewObjectType
<1>3. queue' \in Seq(Event) /\ unseen' \subseteq Pods
  <2> DEFINE obj == ObjectOf(p)'
  <2>1. obj \in Object /\ Notify("Modified", p, obj)
    BY <1>1, <1>2
  <2> HIDE DEF obj
  <2> QED BY <2>1, NotifyTyped
<1> QED BY <1>2, <1>3 DEF PodChanges, TypeOK, apart, run, process

\* The state of a process that has just been started.
LEMMA StartTyped ==
    ASSUME TypeOK, StartAgain, used' \in Budgets
    PROVE  TypeOK'
<1>1. queue' \in Seq(Event)
  BY DEF StartAgain
<1>2. listed' \subseteq Work
  BY DEF StartAgain
<1>3. cache' \in [Pods -> PodAnnotations \cup {None}]
  BY DEF StartAgain
<1>4. work' \in Work \cup {None} /\ (work' = None /\ todo' = {})
  BY DEF StartAgain
<1>5. at' \in {"list", "apply", "loop", "exited", "parked"} /\ watching' \in BOOLEAN
  BY DEF StartAgain
<1>6. UNCHANGED <<version, resetting, pods, instance, cgroup, unseen, cleared, failed>>
  BY DEF StartAgain, node, apart, ghosts
<1> QED BY <1>1, <1>2, <1>3, <1>4, <1>5, <1>6 DEF TypeOK

LEMMA EnvironmentTyped ==
    ASSUME TypeOK, Environment
    PROVE  TypeOK'
<1>1. ASSUME NEW p \in Pods, UserAnnotates(p) PROVE TypeOK'
  <2>1. used' \in Budgets
    BY <1>1, SpendType DEF UserAnnotates
  <2>2. PICK a \in Choices \ {pods[p].ann} : PodChanges(p, [pods[p] EXCEPT !.ann = a])
    BY <1>1 DEF UserAnnotates
  <2>3. [pods[p] EXCEPT !.ann = a] \in Pod
    BY <1>1, ServiceConstantsOK DEF UserAnnotates, Existing, TypeOK, Pod
  <2>4. UNCHANGED <<instance, cgroup, cleared, failed>>
    BY <1>1 DEF UserAnnotates
  <2>5. /\ instance' \in [Containers -> Nat] /\ cgroup' \in [Containers -> Files]
        /\ cleared' \subseteq Containers /\ failed' \subseteq Containers
    BY <2>4 DEF TypeOK
  <2> HIDE DEF TypeOK
  <2> QED BY <2>1, <2>2, <2>3, <2>5, PodChangesTyped
<1>2. ASSUME NEW p \in Pods, PodGetsReady(p) PROVE TypeOK'
  <2>1. UNCHANGED <<instance, cgroup, cleared, failed, used>>
        /\ PodChanges(p, [pods[p] EXCEPT !.ready = TRUE])
    BY <1>2 DEF PodGetsReady
  <2>2. [pods[p] EXCEPT !.ready = TRUE] \in Pod
    BY <1>2 DEF PodGetsReady, Existing, TypeOK, Pod
  <2>3. /\ instance' \in [Containers -> Nat] /\ cgroup' \in [Containers -> Files]
        /\ cleared' \subseteq Containers /\ failed' \subseteq Containers /\ used' \in Budgets
    BY <2>1 DEF TypeOK
  <2> QED BY <2>1, <2>2, <2>3, PodChangesTyped
<1>3. ASSUME NEW c \in Containers, ContainerRestarts(c) PROVE TypeOK'
  <2>1. PodOf[c] \in Pods /\ pods[PodOf[c]] \in Pod
    BY <1>3, ServiceConstantsOK DEF ContainerRestarts, Existing, TypeOK
  <2>2. [pods[PodOf[c]] EXCEPT !.ready = FALSE] \in Pod
    BY <2>1 DEF Pod
  <2>3. PodChanges(PodOf[c], [pods[PodOf[c]] EXCEPT !.ready = FALSE])
    BY <1>3 DEF ContainerRestarts
  <2>4. instance' \in [Containers -> Nat] /\ cgroup' \in [Containers -> Files]
    <3>1. Unlimited \in Files
      BY DEF Unlimited, Files
    <3> QED BY <1>3, <3>1 DEF ContainerRestarts, TypeOK
  <2>5. cleared' \subseteq Containers /\ failed' \subseteq Containers
    BY <1>3 DEF ContainerRestarts, TypeOK
  <2>6. used' \in Budgets
    BY <1>3, SpendType DEF ContainerRestarts
  <2> QED BY <2>1, <2>2, <2>3, <2>4, <2>5, <2>6, PodChangesTyped
<1>4. ASSUME NEW p \in Pods, PodDeleted(p) PROVE TypeOK'
  <2>1. ObjectOf(p) \in Object
    BY <1>4, ObjectType DEF PodDeleted
  <2>2. queue' \in Seq(Event) /\ unseen' \subseteq Pods
    BY <1>4, <2>1, NotifyTyped DEF PodDeleted
  <2>3. used' \in Budgets
    BY <1>4, SpendType DEF PodDeleted
  <2>4. pods' \in [Pods -> Pod \cup {None}]
    BY <1>4 DEF PodDeleted, TypeOK
  <2>5. instance' \in [Containers -> Nat] /\ cgroup' \in [Containers -> Files]
    <3>1. Unlimited \in Files
      BY DEF Unlimited, Files
    <3> QED BY <1>4, <3>1 DEF PodDeleted, TypeOK
  <2> QED BY <1>4, <2>2, <2>3, <2>4, <2>5 DEF PodDeleted, TypeOK, apart, run, process
<1>5. ASSUME NEW p \in Pods, PodCreated(p) PROVE TypeOK'
  <2>1. PICK a \in Choices : pods' = [pods EXCEPT ![p] = [ann |-> a, ready |-> FALSE]]
    BY <1>5 DEF PodCreated
  <2>2. [ann |-> a, ready |-> FALSE] \in Pod
    BY ServiceConstantsOK DEF Pod
  <2>3. instance' \in [Containers -> Nat]
    BY <1>5 DEF PodCreated, TypeOK
  <2>4. ObjectOf(p)' \in Object /\ pods' \in [Pods -> Pod \cup {None}]
    BY <2>1, <2>2, <2>3, NewObjectType
  <2>5. queue' \in Seq(Event) /\ unseen' \subseteq Pods
    <3> DEFINE obj == ObjectOf(p)'
    <3>1. obj \in Object /\ Notify("Added", p, obj)
      BY <1>5, <2>4 DEF PodCreated
    <3> HIDE DEF obj
    <3> QED BY <3>1, NotifyTyped
  <2> QED BY <1>5, <2>4, <2>5 DEF PodCreated, TypeOK, apart, run, process
<1>6. CASE WatchCloses
  <2>1. used' \in Budgets
    BY <1>6, SpendType DEF WatchCloses
  <2> QED BY <1>6, <2>1 DEF WatchCloses, TypeOK, node, apart, process, ghosts
<1>7. CASE Crash
  <2>1. used' \in Budgets
    BY <1>7, SpendType DEF Crash
  <2> QED BY <1>7, <2>1, StartTyped DEF Crash
<1> QED BY <1>1, <1>2, <1>3, <1>4, <1>5, <1>6, <1>7 DEF Environment

LEMMA ResetTyped ==
    ASSUME TypeOK, Reset
    PROVE  TypeOK'
<1>1. CASE ResetAllContainersIOPSLimit
  <2>1. used' \in Budgets
    BY <1>1, SpendType DEF ResetAllContainersIOPSLimit
  <2>2. resetting' \subseteq Target
    BY <1>1 DEF ResetAllContainersIOPSLimit, Target, TypeOK
  <2> QED BY <1>1, <2>1, <2>2 DEF ResetAllContainersIOPSLimit, TypeOK, run, process, ghosts
<1>2. ASSUME NEW t \in resetting
      PROVE  /\ t.c \in Containers /\ cgroup[t.c] \in Files
             /\ Unlimited \in [Items -> Int]
  BY <1>2 DEF TypeOK, Target, Unlimited
<1>3. ASSUME NEW t \in resetting, ResetContainer(t) PROVE TypeOK'
  <2>1. ResetLimits(version, cgroup[t.c]) \in Files
    BY <1>2, CgroupType
  <2>2. cgroup' \in [Containers -> Files] /\ cleared' \subseteq Containers
    BY <1>2, <1>3, <2>1 DEF ResetContainer, TypeOK
  <2> QED BY <1>3, <2>2 DEF ResetContainer, TypeOK, run, process
<1>4. ASSUME NEW t \in resetting, ResetContainerFails(t) PROVE TypeOK'
  <2>1. Interrupted(version, cgroup[t.c], Unlimited) \subseteq Files
    BY <1>2, CgroupType
  <2>2. cgroup' \in [Containers -> Files] /\ cleared' \subseteq Containers
    BY <1>2, <1>4, <2>1 DEF ResetContainerFails, TypeOK
  <2>3. used' \in Budgets
    BY <1>4, SpendType DEF ResetContainerFails
  <2> QED BY <1>4, <2>2, <2>3 DEF ResetContainerFails, TypeOK, run, process
<1> QED BY <1>1, <1>3, <1>4 DEF Reset

LEMMA StepTyped == TypeOK /\ [Next]_vars => TypeOK'
<1> SUFFICES ASSUME TypeOK, [Next]_vars PROVE TypeOK'
  OBVIOUS
<1>1. CASE Service
  BY <1>1, ListTyped, OpenWatchTyped, ProcessTyped, LoopTyped DEF Service
<1>2. CASE Restart
  BY <1>2, StartTyped DEF Restart, TypeOK
<1>3. CASE UNCHANGED vars
  BY <1>3 DEF vars, node, apart, run, process, ghosts, TypeOK
<1> QED BY <1>1, <1>2, <1>3, EnvironmentTyped, ResetTyped DEF Next

\* Whatever users, the kubelet and the API server do and wherever the service fails
\* or ends, its state stays well typed: a cgroup file always holds a natural number,
\* also where the annotation was negative or malformed, and there are containers to
\* do only for the pod in work, never an excluded one.
THEOREM ServiceTyped == Spec => []TypeOK
BY InitTyped, StepTyped, PTL DEF Spec
====
