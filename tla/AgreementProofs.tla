---- MODULE AgreementProofs ----
(***************************************************************************)
(* The pod watch service, once idle, has brought the cgroups into line     *)
(* with the annotations: a theorem for any pods, annotations and bounds.   *)
(* The invariant follows what a pod asks for on its way from the API       *)
(* server, through the list or the queue of the watch, to the cgroups.     *)
(***************************************************************************)
EXTENDS PodWatchProofs

Phases ==
    /\ watching => at = "loop"
    /\ at # "loop" => queue = <<>>
    /\ at = "list" => work = None /\ cache = [p \in Pods |-> None]

\* What changes is either heard of or noted in unseen.
Current == at = "apply" \/ watching

IsCurrent(w) == w.pod \in Existing /\ w.obj = ObjectOf(w.pod)

\* What was listed is how a pod still is, if it is not unseen.
Lists == at = "apply" =>
    /\ \A w \in listed : w.pod \notin unseen => IsCurrent(w)
    /\ work # None /\ work.pod \notin unseen => IsCurrent(work)

\* The last event of a pod is a Modified event that shows it as it is, unless only
\* Added events are left of it.
IsLast(i) == \A j \in DOMAIN queue : j > i => queue[j].pod # queue[i].pod

LastShows == watching =>
    \A i \in DOMAIN queue : queue[i].type = "Modified" /\ IsLast(i) => IsCurrent(queue[i])

LastModified == watching =>
    \A p \in Pods : Serves(p) /\ (\E i \in DOMAIN queue : queue[i].pod = p /\ queue[i].type # "Added") =>
      \E i \in DOMAIN queue : queue[i].pod = p /\ queue[i].type = "Modified" /\ IsLast(i)

\* The runtime ids of a container grow from the work to the events and to the node.
Ids ==
    /\ \A w \in listed : \A c \in ContainersOf(w.pod) : w.obj.id[c] <= instance[c]
    /\ work # None => \A c \in ContainersOf(work.pod) : work.obj.id[c] <= instance[c]
    /\ \A i, j \in DOMAIN queue : i <= j /\ queue[i].pod = queue[j].pod =>
         \A c \in ContainersOf(queue[j].pod) : queue[i].obj.id[c] <= queue[j].obj.id[c]
    /\ \A i \in DOMAIN queue, c \in Containers :
         queue[i].pod = PodOf[c] => queue[i].obj.id[c] <= instance[c]
    /\ work # None => \A i \in DOMAIN queue : queue[i].pod = work.pod =>
         \A c \in ContainersOf(work.pod) : work.obj.id[c] <= queue[i].obj.id[c]

\* The deletion of p, or of the pod of that name before it, is still to be heard of.
DeletedFrom(p, i) == \E j \in DOMAIN queue : j >= i /\ queue[j].type = "Deleted" /\ queue[j].pod = p

\* Unless it was restarted in place, a container has the id that it is known by.
Instances == Current =>
    /\ \A i \in DOMAIN queue : ~DeletedFrom(queue[i].pod, i) =>
         \A c \in ContainersOf(queue[i].pod) \ cleared : queue[i].obj.id[c] = instance[c]
    /\ work # None /\ work.pod \notin unseen /\ ~DeletedFrom(work.pod, 1) =>
         \A c \in ContainersOf(work.pod) \ cleared : work.obj.id[c] = instance[c]

\* The files say what the limits ask for.
Matches(v, files, limits) ==
    /\ \A k \in Items : limits[k] > 0 => files[k] = limits[k]
    /\ v = "v1" \/ limits = Unlimited => \A k \in Items : limits[k] <= 0 => files[k] = 0

FollowsAnn(c, ann) == Matches(version, cgroup[c], Limits(ann))

WorksFor(p) == work # None /\ work.pod = p

\* What was applied is what the work, or else the cache, says.
Applied == Current =>
    \A p \in Pods \ unseen : ~DeletedFrom(p, 1) =>
      \A c \in ContainersOf(p) \ (Excluded \cup cleared \cup failed) :
        IF WorksFor(p) THEN c \in todo \/ FollowsAnn(c, work.obj.ann)
        ELSE cache[p] # None => FollowsAnn(c, cache[p])

\* What a pod asks for is known, or about to be.
Known == Current =>
    \A p \in Pods \ unseen : Serves(p) =>
      \/ at = "apply" /\ \E w \in listed : w.pod = p
      \/ \E i \in DOMAIN queue : queue[i].type = "Modified" /\ queue[i].pod = p
      \/ pods[p].ann = IF WorksFor(p) THEN work.obj.ann ELSE cache[p]

Rest == Phases /\ Lists /\ LastShows /\ LastModified /\ Ids /\ Instances /\ Applied /\ Known
AInv == TypeOK /\ Rest

(***************************************************************************)
(* The queue.                                                              *)
(***************************************************************************)
LEMMA Events ==
    ASSUME TypeOK
    PROVE  /\ DOMAIN queue = 1 .. Len(queue) /\ Len(queue) \in Nat
           /\ \A i \in DOMAIN queue : i \in Nat /\ queue[i] \in Event /\ queue[i].pod \in Pods
                                      /\ queue[i].obj \in Object
<1>1. queue \in Seq(Event)
  BY DEF TypeOK
<1>2. \A i \in DOMAIN queue : i \in Nat /\ queue[i] \in Event
  BY <1>1
<1> QED BY <1>1, <1>2 DEF Event

LEMMA TailEvents ==
    ASSUME TypeOK, queue # <<>>, queue' = Tail(queue)
    PROVE  /\ 1 \in DOMAIN queue /\ Head(queue) = queue[1]
           /\ DOMAIN queue' = 1 .. Len(queue) - 1
           /\ \A i \in DOMAIN queue' : i + 1 \in DOMAIN queue /\ queue'[i] = queue[i + 1]
           /\ \A i \in DOMAIN queue : i > 1 => i - 1 \in DOMAIN queue' /\ queue'[i - 1] = queue[i]
BY DEF TypeOK

LEMMA AppendEvents ==
    ASSUME TypeOK, NEW e \in Event, queue' = Append(queue, e)
    PROVE  /\ DOMAIN queue' = DOMAIN queue \cup {Len(queue) + 1}
           /\ \A i \in DOMAIN queue : i < Len(queue) + 1 /\ queue'[i] = queue[i]
           /\ queue'[Len(queue) + 1] = e
BY DEF TypeOK

LEMMA SameObject ==
    ASSUME NEW p, pods'[p] = pods[p], \A c \in ContainersOf(p) : instance'[c] = instance[c]
    PROVE  ObjectOf(p)' = ObjectOf(p)
BY DEF ObjectOf, ContainersOf

(***************************************************************************)
(* The process starts, lists and ends.                                     *)
(***************************************************************************)
LEMMA Absent ==
    ASSUME Ids, UNCHANGED instance, listed' \subseteq listed, work' \in {work, None},
           queue' = <<>>, ~watching', at' # "apply",
           at' = "list" => work' = None /\ cache' = [p \in Pods |-> None]
    PROVE  Rest'
<1>1. DOMAIN queue' = {}
  OBVIOUS
<1>2. Ids'
  BY <1>1 DEF Ids, ContainersOf
<1> QED BY <1>1, <1>2 DEF Rest, Phases, Lists, LastShows, LastModified, Instances, Applied, Known, Current

LEMMA InitAInv == Init => AInv
<1> SUFFICES ASSUME Init PROVE AInv
  OBVIOUS
<1>1. queue = <<>> /\ DOMAIN queue = {} /\ ~watching /\ at = "list" /\ work = None /\ listed = {} /\ cache = [p \in Pods |-> None]
  BY DEF Init
<1>2. Rest
  BY <1>1 DEF Rest, Phases, Lists, LastShows, LastModified, Ids, Instances, Applied, Known, Current
<1> QED BY <1>2, InitTyped DEF AInv

LEMMA EndKeeps ==
    ASSUME AInv, ListFails \/ OpenWatchFails \/ Exit \/ Restart \/ Crash
    PROVE  Rest'
<1>1. CASE ListFails \/ OpenWatchFails
  BY <1>1, Absent DEF AInv, Rest, Phases, ListFails, OpenWatchFails, Quit, node, process
<1>2. CASE Exit
  BY <1>2, Absent DEF AInv, Rest, Exit, node, process
<1>3. CASE Restart \/ Crash
  BY <1>3, Absent DEF AInv, Rest, Restart, Crash, StartAgain, node
<1> QED BY <1>1, <1>2, <1>3

LEMMA CloseKeeps ==
    ASSUME AInv, WatchCloses
    PROVE  Rest'
<1>1. at = "loop"
  BY DEF AInv, Rest, Phases, WatchCloses
<1> QED BY <1>1 DEF AInv, Rest, WatchCloses, Phases, Lists, LastShows, LastModified, Ids, Instances, Applied, Known,
             Current, node, process

LEMMA ListKeeps ==
    ASSUME AInv, List
    PROVE  Rest'
<1>1. /\ at' = "apply" /\ ~watching' /\ queue' = <<>> /\ DOMAIN queue' = {} /\ work' = None
      /\ \A p \in Pods : cache'[p] = None
      /\ listed' = {[pod |-> p, obj |-> ObjectOf(p)] : p \in Existing}
      /\ UNCHANGED <<pods, instance>>
  BY DEF AInv, Rest, Phases, List, node, process
<1>2. Lists'
  BY <1>1 DEF Lists, IsCurrent, Existing, ObjectOf
<1>3. Known'
  <2>1. \A p \in Existing : \E w \in listed' : w.pod = p
    <3> SUFFICES ASSUME NEW p \in Existing PROVE \E w \in listed' : w.pod = p
      OBVIOUS
    <3> DEFINE w == [pod |-> p, obj |-> ObjectOf(p)]
    <3>1. w \in listed' /\ w.pod = p
      BY <1>1
    <3> QED BY <3>1
  <2> QED BY <1>1, <2>1 DEF Known, Serves, Existing
<1>4. Applied'
  BY <1>1 DEF Applied, WorksFor
<1>5. Ids'
  <2>1. ASSUME NEW p \in Existing, NEW c \in ContainersOf(p) PROVE ObjectOf(p).id[c] <= instance[c]
    BY <2>1 DEF AInv, TypeOK, ObjectOf, ContainersOf
  <2> QED BY <1>1, <2>1 DEF Ids, ContainersOf
<1> QED BY <1>1, <1>2, <1>3, <1>4, <1>5 DEF Rest, Phases, LastShows, LastModified, Instances

(***************************************************************************)
(* What was listed, or read from the queue, is applied.                    *)
(***************************************************************************)
LEMMA SkipKeeps ==
    ASSUME AInv, NEW w \in listed, SkipListed(w)
    PROVE  Rest'
<1>1. at = "apply" /\ listed' = listed \ {w} /\ ~ShouldProcessPod(w)
      /\ UNCHANGED <<version, pods, instance, cgroup, at, watching, cache, work, todo, queue, unseen, cleared, failed>>
  BY DEF SkipListed, node, apart, process, ghosts
<1>2. Known'
  <2> SUFFICES ASSUME Current', NEW p \in Pods \ unseen, Serves(p)
               PROVE  \/ at = "apply" /\ \E v \in listed' : v.pod = p
                      \/ \E i \in DOMAIN queue : queue[i].type = "Modified" /\ queue[i].pod = p
                      \/ pods[p].ann = IF WorksFor(p) THEN work.obj.ann ELSE cache[p]
    BY <1>1 DEF Known, Serves, Existing, WorksFor, ContainersOf
  <2>1. w.pod # p
    <3> SUFFICES ASSUME w.pod = p PROVE FALSE
      OBVIOUS
    <3>1. w.obj = ObjectOf(p)
      BY <1>1 DEF AInv, Rest, Lists, IsCurrent
    <3>2. w.obj.ready
      BY <3>1 DEF ObjectOf, Serves
    <3> QED BY <1>1, <3>2 DEF ShouldProcessPod, Serves
  <2>2. Current
    BY <1>1 DEF Current
  <2> QED BY <1>1, <2>1, <2>2 DEF AInv, Rest, Known
<1>3. Lists'
  BY <1>1 DEF AInv, Rest, Lists, IsCurrent, Existing, ObjectOf
<1> QED BY <1>1, <1>2, <1>3 DEF AInv, Rest, Phases, LastShows, IsLast, IsCurrent, ObjectOf, Existing, LastModified, Ids,
             Instances, DeletedFrom, Applied, WorksFor, FollowsAnn, Current

\* The work for p starts with what p asks for, and no container done.
LEMMA BeginListedKeeps ==
    ASSUME AInv, NEW w \in listed, BeginListed(w)
    PROVE  Rest'
<1>1. /\ at = "apply" /\ work = None /\ queue = <<>> /\ DOMAIN queue = {} /\ ~watching
      /\ listed' = listed \ {w} /\ work' = w /\ todo' = ContainersOf(w.pod) \ Excluded
      /\ UNCHANGED <<version, pods, instance, cgroup, at, watching, cache, queue, unseen, cleared, failed>>
  BY DEF BeginListed, Begin, node, apart, ghosts, AInv, Rest, Phases
<1>2. w \in Work /\ w # None /\ w.pod \in Pods
  BY NoneIsNoObject DEF AInv, TypeOK, Work
<1>3. w.pod \notin unseen => IsCurrent(w)
  BY <1>1 DEF AInv, Rest, Lists
<1>4. Lists'
  BY <1>1, <1>3 DEF AInv, Rest, Lists, IsCurrent, Existing, ObjectOf
<1>5. Instances'
  BY <1>1, <1>3 DEF Instances, IsCurrent, ObjectOf, ContainersOf
<1>6. Applied'
  BY <1>1, <1>2 DEF AInv, Rest, Applied, WorksFor, FollowsAnn, Current, DeletedFrom
<1>7. Known'
  <2> SUFFICES ASSUME NEW p \in Pods \ unseen, Serves(p)
               PROVE  \/ at = "apply" /\ \E v \in listed' : v.pod = p
                      \/ pods[p].ann = IF w.pod = p THEN w.obj.ann ELSE cache[p]
    BY <1>1, <1>2 DEF Known, Serves, Existing, WorksFor
  <2>1. CASE w.pod = p
    BY <1>3, <2>1 DEF IsCurrent, ObjectOf
  <2>2. CASE w.pod # p
    BY <1>1, <2>2 DEF AInv, Rest, Known, Current, WorksFor
  <2> QED BY <2>1, <2>2
<1> QED BY <1>1, <1>4, <1>5, <1>6, <1>7 DEF AInv, Rest, Phases, LastShows, LastModified, Ids

\* What a write leaves is what it was asked for.
LEMMA SetMatches ==
    ASSUME NEW files \in Files, NEW limits \in [Items -> Int], NEW v \in {"v1", "v2"}
    PROVE  Matches(v, IF limits = Unlimited THEN ResetLimits(v, files) ELSE SetLimits(v, files, limits), limits)
<1>1. ResetLimits(v, files) = Unlimited
  <2>1. \A k \in Items : Position[k] <= 4
    BY DEF Position, Items
  <2> QED BY <2>1 DEF ResetLimits, AfterWrites, Positive, Unlimited
<1>2. CASE limits = Unlimited
  BY <1>1, <1>2 DEF Matches, Unlimited
<1>3. CASE limits # Unlimited /\ v = "v1"
  BY <1>3, SetLimitsV1 DEF Matches, Positive
<1>4. CASE limits # Unlimited /\ v = "v2"
  BY <1>4, SetLimitsV2 DEF Matches
<1> QED BY <1>2, <1>3, <1>4

\* Steps that touch nothing but cgroups, one at c.
LEMMA OneCgroup ==
    ASSUME AInv, NEW c \in Containers,
           UNCHANGED <<version, pods, instance, at, watching, listed, cache, work, queue, unseen>>,
           \A d \in Containers \ {c} : /\ cgroup'[d] = cgroup[d] /\ (d \in todo' <=> d \in todo)
                                       /\ (d \in cleared' <=> d \in cleared) /\ (d \in failed' <=> d \in failed),
           \A i \in DOMAIN queue :
             Current /\ queue[i].pod = PodOf[c] /\ ~DeletedFrom(PodOf[c], i) /\ c \notin cleared' =>
             queue[i].obj.id[c] = instance[c],
           Current /\ WorksFor(PodOf[c]) /\ PodOf[c] \notin unseen /\ ~DeletedFrom(PodOf[c], 1) /\ c \notin cleared' =>
             work.obj.id[c] = instance[c],
           Current /\ PodOf[c] \notin unseen /\ ~DeletedFrom(PodOf[c], 1) /\ c \notin Excluded \cup cleared' \cup failed' =>
             IF WorksFor(PodOf[c]) THEN c \in todo' \/ FollowsAnn(c, work.obj.ann)'
             ELSE cache[PodOf[c]] # None => FollowsAnn(c, cache[PodOf[c]])'
    PROVE  Rest'
<1>1. Instances'
  BY DEF AInv, Rest, Instances, ContainersOf, Current, DeletedFrom, WorksFor
<1>2. Applied'
  BY DEF AInv, Rest, Applied, ContainersOf, Current, DeletedFrom, WorksFor, FollowsAnn
<1> QED BY <1>1, <1>2 DEF AInv, Rest, Phases, Lists, LastShows, IsLast, IsCurrent, ObjectOf, Existing, LastModified, Ids,
            Known, Serves, WorksFor, Current

LEMMA SetKeeps ==
    ASSUME AInv, NEW c \in Containers, SetContainer(c) \/ SetContainerFails(c)
    PROVE  Rest'
<1>1. /\ work # None /\ c \in todo /\ todo' = todo \ {c}
      /\ UNCHANGED <<version, pods, instance, at, watching, listed, cache, work, queue, unseen>>
  BY DEF SetContainer, SetContainerFails, node, apart, run
<1>2. /\ work \in Work /\ work.pod = PodOf[c] /\ WorksFor(PodOf[c]) /\ c \notin Excluded /\ PodOf[c] \in Pods
      /\ c \in ContainersOf(PodOf[c])
  BY <1>1, ServiceConstantsOK DEF AInv, TypeOK, ContainersOf, WorksFor
<1>3. work.obj.id[c] \in Nat /\ instance[c] \in Nat /\ Wanted \in [Items -> Int]
  BY <1>2, LimitsAreNumbers DEF AInv, TypeOK, Work, Object, Wanted, Items, LimitKeys
<1>4. /\ \A d \in Containers \ {c} : /\ cgroup'[d] = cgroup[d] /\ (d \in todo' <=> d \in todo)
                                     /\ (d \in cleared' <=> d \in cleared) /\ (d \in failed' <=> d \in failed)
  BY <1>1 DEF SetContainer, SetContainerFails, AInv, TypeOK
\* Only the container that is alive is not cleared any more.
<1>5. c \notin cleared' => c \notin cleared \/ Alive(c)
  BY DEF SetContainer, SetContainerFails
<1>6. \A i \in DOMAIN queue : Current /\ queue[i].pod = PodOf[c] /\ ~DeletedFrom(PodOf[c], i) /\ c \notin cleared' =>
        queue[i].obj.id[c] = instance[c]
  <2> SUFFICES ASSUME NEW i \in DOMAIN queue, Current, queue[i].pod = PodOf[c], ~DeletedFrom(PodOf[c], i),
                      c \notin cleared'
               PROVE  queue[i].obj.id[c] = instance[c]
    OBVIOUS
  <2>1. CASE c \notin cleared
    BY <1>2, <2>1 DEF AInv, Rest, Instances
  <2>2. CASE Alive(c)
    <3>1. queue[i].obj.id[c] \in Nat
      BY Events DEF AInv, Object
    <3>2. work.obj.id[c] <= queue[i].obj.id[c] /\ queue[i].obj.id[c] <= instance[c]
      BY <1>1, <1>2 DEF AInv, Rest, Ids
    <3> QED BY <1>3, <2>2, <3>1, <3>2 DEF Alive
  <2> QED BY <1>5, <2>1, <2>2
<1>7. Current /\ PodOf[c] \notin unseen /\ ~DeletedFrom(PodOf[c], 1) /\ c \notin cleared' => Alive(c)
  BY <1>1, <1>2, <1>5 DEF AInv, Rest, Instances, Alive
<1>8. Alive(c) /\ c \notin failed' => FollowsAnn(c, work.obj.ann)'
  <2> SUFFICES ASSUME Alive(c), c \notin failed' PROVE FollowsAnn(c, work.obj.ann)'
    OBVIOUS
  <2>1. cgroup'[c] = IF Wanted = Unlimited THEN ResetLimits(version, cgroup[c])
                     ELSE SetLimits(version, cgroup[c], Wanted)
    BY DEF SetContainer, SetContainerFails, AInv, TypeOK
  <2>2. cgroup[c] \in Files /\ version \in {"v1", "v2"}
    BY DEF AInv, TypeOK
  <2>3. Matches(version, cgroup'[c], Wanted)
    BY <1>3, <2>1, <2>2, SetMatches
  <2> QED BY <1>1, <2>3 DEF FollowsAnn, Wanted
<1> QED BY <1>1, <1>2, <1>4, <1>6, <1>7, <1>8, OneCgroup DEF Alive

LEMMA ResetKeeps ==
    ASSUME AInv, Reset
    PROVE  Rest'
<1>1. CASE ResetAllContainersIOPSLimit
  BY <1>1 DEF AInv, Rest, ResetAllContainersIOPSLimit, run, process, ghosts, Phases, Lists, LastShows, IsLast, IsCurrent,
     ObjectOf, Existing, LastModified, Ids, Instances, DeletedFrom, Applied, FollowsAnn, Known, Serves, WorksFor, Current
<1>2. ASSUME NEW t \in resetting, ResetContainer(t) \/ ResetContainerFails(t)
      PROVE  Rest'
  <2>1. t.c \in Containers /\ UNCHANGED <<version, pods, instance, at, watching, listed, cache, work, queue, unseen, todo, failed>>
    BY <1>2 DEF AInv, TypeOK, Target, ResetContainer, ResetContainerFails, run, process
  <2>2. CASE UNCHANGED <<cgroup, cleared>>
    BY <2>1, <2>2 DEF AInv, Rest, Phases, Lists, LastShows, IsLast, IsCurrent, ObjectOf, Existing, LastModified, Ids,
       Instances, DeletedFrom, Applied, FollowsAnn, Known, Serves, WorksFor, Current
  <2>3. CASE cleared' = cleared \cup {t.c} /\ \A d \in Containers \ {t.c} : cgroup'[d] = cgroup[d]
    BY <2>1, <2>3, OneCgroup
  <2>4. \/ UNCHANGED <<cgroup, cleared>>
        \/ cleared' = cleared \cup {t.c} /\ \A d \in Containers \ {t.c} : cgroup'[d] = cgroup[d]
    BY <1>2 DEF AInv, TypeOK, ResetContainer, ResetContainerFails
  <2> QED BY <2>2, <2>3, <2>4
<1> QED BY <1>1, <1>2 DEF Reset

LEMMA RememberKeeps ==
    ASSUME AInv, Remember
    PROVE  Rest'
<1>1. /\ work # None /\ todo = {} /\ work' = None
      /\ UNCHANGED <<version, pods, instance, cgroup, at, watching, listed, todo, queue, unseen, cleared, failed>>
  BY DEF Remember, node, apart, ghosts
<1>2. work.pod \in Pods /\ \A p \in Pods : cache'[p] = IF p = work.pod THEN work.obj.ann ELSE cache[p]
  BY <1>1 DEF Remember, AInv, TypeOK, Work
<1>3. \A p \in Pods : (IF WorksFor(p) THEN work.obj.ann ELSE cache[p]) = cache'[p]
  BY <1>1, <1>2 DEF WorksFor
<1>4. Applied'
  BY <1>1, <1>2, <1>3 DEF AInv, Rest, Applied, WorksFor, FollowsAnn, Current, DeletedFrom
<1>5. Known'
  BY <1>1, <1>3 DEF AInv, Rest, Known, WorksFor, Current, Serves, Existing
<1>6. at # "list"
  BY <1>1 DEF AInv, Rest, Phases
<1> QED BY <1>1, <1>4, <1>5, <1>6 DEF AInv, Rest, Phases, Lists, LastShows, IsLast, IsCurrent, ObjectOf, Existing, LastModified,
            Serves, Ids, Instances, DeletedFrom, Current

(***************************************************************************)
(* An event is taken from the queue.                                       *)
(***************************************************************************)
LEMMA TailKeeps ==
    ASSUME AInv, TypeOK', NEW type, Receive(type)
    PROVE  /\ LastShows' /\ LastModified'
           /\ \A i, j \in DOMAIN queue' : i <= j /\ queue'[i].pod = queue'[j].pod =>
                \A c \in ContainersOf(queue'[j].pod) : queue'[i].obj.id[c] <= queue'[j].obj.id[c]
           /\ \A i \in DOMAIN queue', c \in Containers :
                queue'[i].pod = PodOf[c] => queue'[i].obj.id[c] <= instance[c]
           /\ \A p : \A i \in DOMAIN queue : DeletedFrom(p, i)' <=> DeletedFrom(p, i + 1)
           /\ \A p : DeletedFrom(p, 1) <=> DeletedFrom(p, 1)' \/ (type = "Deleted" /\ Received.pod = p)
           /\ Current => \A p : \A i \in DOMAIN queue' : queue'[i].pod = p /\ ~DeletedFrom(p, i)' =>
                \A c \in ContainersOf(p) \ cleared : queue'[i].obj.id[c] = instance[c]
<1>1. queue # <<>> /\ queue' = Tail(queue) /\ Head(queue).type = type
      /\ UNCHANGED <<version, pods, instance, cgroup, at, watching, listed, cleared, failed>>
  BY DEF Receive, node, apart
<1>2. /\ 1 \in DOMAIN queue /\ Head(queue) = queue[1] /\ DOMAIN queue = 1 .. Len(queue) /\ Len(queue) \in Nat
      /\ DOMAIN queue' = 1 .. Len(queue) - 1
      /\ \A i \in DOMAIN queue' : i + 1 \in DOMAIN queue /\ queue'[i] = queue[i + 1]
      /\ \A i \in DOMAIN queue : i > 1 => i - 1 \in DOMAIN queue' /\ queue'[i - 1] = queue[i]
  BY <1>1, TailEvents, Events DEF AInv
<1>3. \A i \in DOMAIN queue' : IsLast(i)' => IsLast(i + 1)
  <2> SUFFICES ASSUME NEW i \in DOMAIN queue', IsLast(i)', NEW j \in DOMAIN queue, j > i + 1
               PROVE  queue[j].pod # queue[i + 1].pod
    BY DEF IsLast
  <2>1. j - 1 \in DOMAIN queue' /\ queue'[j - 1] = queue[j] /\ j - 1 > i /\ queue'[i] = queue[i + 1]
    BY <1>2
  <2> QED BY <2>1 DEF IsLast
<1>4. LastShows'
  BY <1>1, <1>2, <1>3 DEF AInv, Rest, LastShows, IsCurrent, ObjectOf, Existing
<1>5. LastModified'
  <2> SUFFICES ASSUME watching, NEW p \in Pods, Serves(p),
                      NEW i \in DOMAIN queue', queue'[i].pod = p, queue'[i].type # "Added"
               PROVE  \E k \in DOMAIN queue' : queue'[k].pod = p /\ queue'[k].type = "Modified" /\ IsLast(k)'
    BY <1>1 DEF LastModified, Serves, Existing
  <2>1. i + 1 \in DOMAIN queue /\ queue'[i] = queue[i + 1] /\ i + 1 > 1
    BY <1>2
  <2>2. PICK k \in DOMAIN queue : queue[k].pod = p /\ queue[k].type = "Modified" /\ IsLast(k)
    BY <2>1 DEF AInv, Rest, LastModified
  <2>3. k > 1
    BY <1>2, <2>1, <2>2 DEF IsLast
  <2>4. k - 1 \in DOMAIN queue' /\ queue'[k - 1] = queue[k]
    BY <1>2, <2>3
  <2>5. IsLast(k - 1)'
    <3> SUFFICES ASSUME NEW j \in DOMAIN queue', j > k - 1 PROVE queue'[j].pod # queue'[k - 1].pod
      BY DEF IsLast
    <3>1. j + 1 \in DOMAIN queue /\ queue'[j] = queue[j + 1] /\ j + 1 > k
      BY <1>2
    <3> QED BY <2>2, <2>4, <3>1 DEF IsLast
  <2> QED BY <2>2, <2>4, <2>5
<1>6. \A i, j \in DOMAIN queue' : i <= j /\ queue'[i].pod = queue'[j].pod =>
        \A c \in ContainersOf(queue'[j].pod) : queue'[i].obj.id[c] <= queue'[j].obj.id[c]
  <2> SUFFICES ASSUME NEW i \in DOMAIN queue', NEW j \in DOMAIN queue', i <= j, queue'[i].pod = queue'[j].pod,
                      NEW c \in ContainersOf(queue'[j].pod)
               PROVE  queue'[i].obj.id[c] <= queue'[j].obj.id[c]
    OBVIOUS
  <2>1. i + 1 \in DOMAIN queue /\ j + 1 \in DOMAIN queue /\ i + 1 <= j + 1
        /\ queue'[i] = queue[i + 1] /\ queue'[j] = queue[j + 1]
    BY <1>2
  <2> QED BY <2>1 DEF AInv, Rest, Ids
<1>7. \A i \in DOMAIN queue', c \in Containers :
        queue'[i].pod = PodOf[c] => queue'[i].obj.id[c] <= instance[c]
  BY <1>2 DEF AInv, Rest, Ids
<1>8. \A p : \A i \in DOMAIN queue : DeletedFrom(p, i)' <=> DeletedFrom(p, i + 1)
  <2> SUFFICES ASSUME NEW p, NEW i \in DOMAIN queue PROVE DeletedFrom(p, i)' <=> DeletedFrom(p, i + 1)
    OBVIOUS
  <2>1. ASSUME NEW j \in DOMAIN queue', j >= i, queue'[j].type = "Deleted", queue'[j].pod = p
        PROVE  DeletedFrom(p, i + 1)
    <3>1. j + 1 \in DOMAIN queue /\ j + 1 >= i + 1 /\ queue[j + 1] = queue'[j]
      BY <1>2, <2>1
    <3> QED BY <2>1, <3>1 DEF DeletedFrom
  <2>2. ASSUME NEW j \in DOMAIN queue, j >= i + 1, queue[j].type = "Deleted", queue[j].pod = p
        PROVE  DeletedFrom(p, i)'
    <3>1. j - 1 \in DOMAIN queue' /\ j - 1 >= i /\ queue'[j - 1] = queue[j]
      BY <1>2, <2>2
    <3> QED BY <2>2, <3>1 DEF DeletedFrom
  <2> QED BY <2>1, <2>2 DEF DeletedFrom
<1>9. \A p : DeletedFrom(p, 1) <=> DeletedFrom(p, 1)' \/ (type = "Deleted" /\ Received.pod = p)
  <2>1. \A p : DeletedFrom(p, 1)' <=> DeletedFrom(p, 2)
    BY <1>2, <1>8
  <2>2. \A p : DeletedFrom(p, 1) <=> DeletedFrom(p, 2) \/ (queue[1].type = "Deleted" /\ queue[1].pod = p)
    BY <1>2 DEF DeletedFrom
  <2> QED BY <1>1, <1>2, <2>1, <2>2 DEF Received
<1>10. Current => \A p : \A i \in DOMAIN queue' : queue'[i].pod = p /\ ~DeletedFrom(p, i)' =>
         \A c \in ContainersOf(p) \ cleared : queue'[i].obj.id[c] = instance[c]
  <2> SUFFICES ASSUME Current, NEW p, NEW i \in DOMAIN queue', queue'[i].pod = p, ~DeletedFrom(p, i)',
                      NEW c \in ContainersOf(p) \ cleared
               PROVE  queue'[i].obj.id[c] = instance[c]
    OBVIOUS
  <2>1. i \in DOMAIN queue /\ i + 1 \in DOMAIN queue /\ queue'[i] = queue[i + 1]
    BY <1>2
  <2>2. queue[i + 1].pod = p /\ ~DeletedFrom(p, i + 1)
    BY <1>8, <2>1
  <2> QED BY <2>1, <2>2 DEF AInv, Rest, Instances
<1> QED BY <1>4, <1>5, <1>6, <1>7, <1>8, <1>9, <1>10


\* An event of a pod that is served shows it as it is, or there is more to come.
LEMMA MoreToCome ==
    ASSUME AInv, watching, NEW type, type # "Added", Receive(type), Serves(Received.pod)
    PROVE  \/ \E i \in DOMAIN queue' : queue'[i].type = "Modified" /\ queue'[i].pod = Received.pod
           \/ type = "Modified" /\ IsCurrent(Received)
<1>1. /\ queue # <<>> /\ queue' = Tail(queue) /\ queue[1].type = type /\ 1 \in DOMAIN queue
      /\ queue[1].pod = Received.pod /\ queue[1].obj = Received.obj
      /\ \A i \in DOMAIN queue : i > 1 => i - 1 \in DOMAIN queue' /\ queue'[i - 1] = queue[i]
      /\ \A i \in DOMAIN queue : i \in Nat /\ i >= 1
      /\ Received.pod \in Pods
  BY TailEvents, Events DEF AInv, Receive, Received
<1>2. PICK k \in DOMAIN queue : queue[k].pod = Received.pod /\ queue[k].type = "Modified" /\ IsLast(k)
  BY <1>1 DEF AInv, Rest, LastModified
<1>3. CASE k = 1
  BY <1>1, <1>2, <1>3 DEF AInv, Rest, LastShows, IsCurrent
<1>4. CASE k > 1
  BY <1>1, <1>2, <1>4
<1> QED BY <1>1, <1>3, <1>4

LEMMA LoopKeeps ==
    ASSUME AInv, TypeOK', Loop, ~Exit
    PROVE  Rest'
<1>1. PICK type \in {"Added", "Modified", "Deleted"} : Receive(type) /\ (type = "Deleted" <=> Forget) /\ (type = "Added" <=> IgnoreAdded)
  BY DEF Loop, IgnoreAdded, IgnoreUnready, IgnoreUnchanged, BeginModified, Forget, Receive
<1>2. /\ at = "loop" /\ work = None /\ queue # <<>> /\ queue' = Tail(queue) /\ Head(queue).type = type
      /\ UNCHANGED <<version, pods, instance, cgroup, at, watching, listed, cleared, failed>>
  BY <1>1 DEF Receive, node, apart
<1>3. /\ Received \in Work /\ Received # None /\ Received.pod \in Pods /\ 1 \in DOMAIN queue
      /\ queue[1].pod = Received.pod /\ queue[1].obj = Received.obj /\ queue[1].type = type
      /\ \A i \in DOMAIN queue : i \in Nat /\ i >= 1
      /\ \A i \in DOMAIN queue : i > 1 => i - 1 \in DOMAIN queue' /\ queue'[i - 1] = queue[i]
      /\ \A i \in DOMAIN queue' : i + 1 \in DOMAIN queue /\ queue'[i] = queue[i + 1] /\ 1 <= i + 1
  BY <1>2, TailEvents, Events, NoneIsNoObject DEF AInv, Received, Work
<1>4. /\ IF BeginModified THEN work' = Received /\ unseen' = unseen \ {Received.pod} /\ todo' = ContainersOf(Received.pod) \ Excluded
                                /\ type = "Modified"
         ELSE UNCHANGED <<work, unseen, todo>>
      /\ \A p \in Pods : cache'[p] = IF type = "Deleted" /\ p = Received.pod THEN None ELSE cache[p]
  BY <1>1 DEF Loop, IgnoreAdded, IgnoreUnready, IgnoreUnchanged, BeginModified, Begin, Forget, Receive, process, AInv, TypeOK
<1>5. Phases' /\ Lists'
  BY <1>2 DEF AInv, Rest, Phases, Lists
<1>10. \A p : DeletedFrom(p, 1) <=> DeletedFrom(p, 1)' \/ (type = "Deleted" /\ Received.pod = p)
  BY <1>1, TailKeeps
<1>6. Ids'
  <2>1. ASSUME BeginModified, NEW i \in DOMAIN queue', queue'[i].pod = Received.pod, NEW c \in ContainersOf(Received.pod)
        PROVE  Received.obj.id[c] <= queue'[i].obj.id[c]
    BY <1>3, <2>1 DEF AInv, Rest, Ids
  <2>2. BeginModified => \A c \in ContainersOf(Received.pod) : Received.obj.id[c] <= instance[c]
    BY <1>3 DEF AInv, Rest, Ids, ContainersOf
  <2>3. /\ \A w \in listed' : \A c \in ContainersOf(w.pod) : w.obj.id[c] <= instance[c]
        /\ work' # None => \A c \in ContainersOf(work'.pod) : work'.obj.id[c] <= instance[c]
    BY <1>2, <1>4, <2>2 DEF AInv, Rest, Ids
  <2>4. work' # None => \A i \in DOMAIN queue' : queue'[i].pod = work'.pod =>
          \A c \in ContainersOf(work'.pod) : work'.obj.id[c] <= queue'[i].obj.id[c]
    BY <1>2, <1>4, <2>1
  <2>5. /\ \A i, j \in DOMAIN queue' : i <= j /\ queue'[i].pod = queue'[j].pod =>
             \A c \in ContainersOf(queue'[j].pod) : queue'[i].obj.id[c] <= queue'[j].obj.id[c]
        /\ \A i \in DOMAIN queue', c \in Containers : queue'[i].pod = PodOf[c] => queue'[i].obj.id[c] <= instance[c]
    BY <1>1, TailKeeps
  <2> QED BY <1>2, <2>3, <2>4, <2>5 DEF Ids, ContainersOf
<1>7. Instances'
  <2>1. PICK p \in Pods : p = Received.pod
    BY <1>3
  <2>2. ASSUME BeginModified, Current, ~DeletedFrom(p, 1)', NEW c \in ContainersOf(p) \ cleared
        PROVE  Received.obj.id[c] = instance[c]
    <3>1. ~DeletedFrom(p, 1)
      BY <1>4, <1>10, <2>2
    <3> QED BY <1>3, <2>1, <2>2, <3>1 DEF AInv, Rest, Instances
  <2>3. Current' <=> Current
    BY <1>2 DEF Current
  <2>4. Current => \A q : \A i \in DOMAIN queue' : queue'[i].pod = q /\ ~DeletedFrom(q, i)' =>
          \A c \in ContainersOf(q) \ cleared : queue'[i].obj.id[c] = instance[c]
    BY <1>1, TailKeeps
  <2>5. Current => \A i \in DOMAIN queue' : (~DeletedFrom(queue[i].pod, i) =>
           \A c \in ContainersOf(queue[i].pod) \ cleared : queue[i].obj.id[c] = instance[c])'
    <3> SUFFICES ASSUME Current, NEW i \in DOMAIN queue', ~DeletedFrom(queue[i].pod, i)',
                        NEW c \in ContainersOf(queue'[i].pod) \ cleared
                 PROVE  queue'[i].obj.id[c] = instance[c]
      BY <1>2 DEF ContainersOf
    <3>1. PICK q : q = queue'[i].pod
      OBVIOUS
    <3>2. ~DeletedFrom(q, i)'
      BY <3>1 DEF DeletedFrom
    <3> QED BY <2>4, <3>1, <3>2
  <2>6. Current => (work # None /\ work.pod \notin unseen /\ ~DeletedFrom(work.pod, 1) =>
           \A c \in ContainersOf(work.pod) \ cleared : work.obj.id[c] = instance[c])'
    <3>1. CASE BeginModified
      <4>1. work' = Received /\ work'.pod = p
        BY <1>4, <2>1, <3>1
      <4>2. DeletedFrom(work.pod, 1)' <=> DeletedFrom(p, 1)'
        BY <4>1 DEF DeletedFrom
      <4> QED BY <1>2, <2>2, <3>1, <4>1, <4>2 DEF ContainersOf
    <3>2. CASE ~BeginModified
      BY <1>2, <1>4, <3>2
    <3> QED BY <3>1, <3>2
  <2> QED BY <2>3, <2>5, <2>6 DEF Instances
<1>8. Applied'
  <2> SUFFICES ASSUME Current, NEW p \in Pods \ unseen', ~DeletedFrom(p, 1)',
                      NEW c \in ContainersOf(p) \ (Excluded \cup cleared \cup failed)
               PROVE  IF WorksFor(p)' THEN (c \in todo \/ FollowsAnn(c, work.obj.ann))'
                      ELSE cache'[p] # None => FollowsAnn(c, cache[p])'
    BY <1>2 DEF Applied, Current
  <2>1. ~WorksFor(p)
    BY <1>2 DEF WorksFor
  <2>2. CASE p = Received.pod /\ BeginModified
    BY <1>3, <1>4, <2>2 DEF WorksFor
  <2>3. CASE p = Received.pod /\ type = "Deleted"
    BY <1>2, <1>4, <2>3 DEF WorksFor
  <2>4. CASE ~(p = Received.pod /\ (BeginModified \/ type = "Deleted"))
    <3>1. p \notin unseen /\ ~DeletedFrom(p, 1) /\ ~WorksFor(p)' /\ cache'[p] = cache[p]
      BY <1>2, <1>4, <1>10, <2>4 DEF WorksFor
    <3> QED BY <1>2, <2>1, <3>1 DEF AInv, Rest, Applied, FollowsAnn
  <2> QED BY <2>2, <2>3, <2>4
<1>9. Known'
  <2> SUFFICES ASSUME Current, watching, NEW p \in Pods \ unseen', Serves(p),
                      ~\E i \in DOMAIN queue' : queue'[i].type = "Modified" /\ queue'[i].pod = p
               PROVE  pods[p].ann = IF WorksFor(p)' THEN work'.obj.ann ELSE cache'[p]
    BY <1>2 DEF Known, Current, Serves, Existing
  <2>1. CASE p # Received.pod
    <3>1. p \notin unseen /\ ~WorksFor(p) /\ ~WorksFor(p)' /\ cache'[p] = cache[p]
      BY <1>2, <1>4, <2>1 DEF WorksFor
    <3>2. ~\E i \in DOMAIN queue : queue[i].type = "Modified" /\ queue[i].pod = p
      BY <1>3, <2>1
    <3> QED BY <1>2, <3>1, <3>2 DEF AInv, Rest, Known
  <2>2. CASE p = Received.pod /\ type = "Added"
    <3>1. p \notin unseen /\ ~WorksFor(p) /\ ~WorksFor(p)' /\ cache'[p] = cache[p]
      BY <1>2, <1>4, <2>2 DEF WorksFor
    <3>2. ~\E i \in DOMAIN queue : queue[i].type = "Modified" /\ queue[i].pod = p
      BY <1>3, <2>2
    <3> QED BY <1>2, <3>1, <3>2 DEF AInv, Rest, Known
  <2>3. CASE p = Received.pod /\ type # "Added"
    <3>1. type = "Modified" /\ IsCurrent(Received)
      BY <1>1, <2>3, MoreToCome
    <3>2. Received.obj.ann = pods[p].ann /\ Received.obj.ready /\ ShouldProcessPod(Received)
      BY <2>3, <3>1 DEF IsCurrent, ObjectOf, Serves, ShouldProcessPod
    <3>3. CASE BeginModified
      BY <1>3, <1>4, <2>3, <3>2, <3>3 DEF WorksFor
    <3>4. CASE IgnoreUnchanged
      BY <1>2, <1>4, <2>3, <3>1, <3>2, <3>4 DEF WorksFor, IgnoreUnchanged, BeginModified
    <3> QED BY <1>1, <3>1, <3>2, <3>3, <3>4 DEF Loop, IgnoreUnready
  <2> QED BY <2>1, <2>2, <2>3
<1> QED BY <1>1, <1>5, <1>6, <1>7, <1>8, <1>9, TailKeeps DEF Rest

LEMMA OpenKeeps ==
    ASSUME AInv, TypeOK', OpenWatch
    PROVE  Rest'
<1>1. /\ at = "apply" /\ at' = "loop" /\ work = None /\ listed = {} /\ queue = <<>> /\ DOMAIN queue = {} /\ watching'
      /\ UNCHANGED <<version, pods, instance, cgroup, listed, cache, work, todo, unseen, cleared, failed>>
  BY DEF OpenWatch, node, apart, process, ghosts, AInv, Rest, Phases
<1>2. /\ DOMAIN queue' = 1 .. Cardinality(Existing)
      /\ \A i \in DOMAIN queue' : \E p \in Existing : queue'[i] = Initial(p)
  BY DEF OpenWatch
<1>3. \A i \in DOMAIN queue' : queue'[i].type = "Added" /\ queue'[i].pod \in Existing /\ queue'[i].obj = ObjectOf(queue'[i].pod)
  BY <1>2 DEF Initial
<1>4. \A i \in DOMAIN queue' : \A c \in ContainersOf(queue'[i].pod) : queue'[i].obj.id[c] = instance[c]
  <2> SUFFICES ASSUME NEW i \in DOMAIN queue', NEW c \in ContainersOf(queue'[i].pod)
               PROVE  queue'[i].obj.id[c] = instance[c]
    OBVIOUS
  <2>1. c \in Containers /\ PodOf[c] = queue'[i].pod
    BY DEF ContainersOf
  <2>2. queue'[i].obj = ObjectOf(PodOf[c])
    BY <1>3, <2>1
  <2> QED BY <2>1, <2>2 DEF ObjectOf
<1>5. \A c \in Containers : instance[c] <= instance[c]
  BY DEF AInv, TypeOK
<1>6. Ids'
  BY <1>1, <1>4, <1>5 DEF Ids, ContainersOf
<1>7. Instances'
  BY <1>1, <1>4 DEF Instances, ContainersOf
<1>8. LastShows' /\ LastModified'
  BY <1>3 DEF LastShows, LastModified
<1>9. Current /\ Current' /\ \A p : ~DeletedFrom(p, 1) /\ ~DeletedFrom(p, 1)'
  BY <1>1, <1>3 DEF Current, DeletedFrom
<1>10. Applied'
  BY <1>1, <1>9 DEF AInv, Rest, Applied, WorksFor, FollowsAnn
<1>11. Known'
  BY <1>1, <1>9 DEF AInv, Rest, Known, WorksFor, Serves, Existing
<1> QED BY <1>1, <1>6, <1>7, <1>8, <1>10, <1>11 DEF Rest, Phases, Lists

(***************************************************************************)
(* A pod changes, and is heard of or unseen.                               *)
(***************************************************************************)
LEMMA AppendLast ==
    ASSUME TypeOK, NEW e \in Event, queue' = Append(queue, e), NEW n \in Nat, n = Len(queue) + 1
    PROVE  /\ DOMAIN queue' = DOMAIN queue \cup {n}
           /\ \A i \in DOMAIN queue : i \in Nat /\ i < n /\ queue'[i] = queue[i]
           /\ queue'[n] = e
           /\ \A i \in DOMAIN queue : IsLast(i)' <=> IsLast(i) /\ queue[i].pod # e.pod
           /\ IsLast(n)'
           /\ \A p : \A i \in DOMAIN queue \cup {1} : DeletedFrom(p, i)' <=> DeletedFrom(p, i) \/ (e.type = "Deleted" /\ e.pod = p)
           /\ \A p : DeletedFrom(p, n)' <=> e.type = "Deleted" /\ e.pod = p
<1>1. /\ DOMAIN queue' = DOMAIN queue \cup {n} /\ DOMAIN queue = 1 .. Len(queue) /\ Len(queue) \in Nat
      /\ \A i \in DOMAIN queue : i \in Nat /\ i < n /\ queue'[i] = queue[i]
      /\ queue'[n] = e
  BY AppendEvents, Events
<1>2. n \in DOMAIN queue' /\ n >= 1 /\ \A i \in DOMAIN queue : n >= i /\ i \in DOMAIN queue'
  BY <1>1
<1>3. \A i \in DOMAIN queue : IsLast(i)' <=> IsLast(i) /\ queue[i].pod # e.pod
  BY <1>1, <1>2 DEF IsLast
<1>4. IsLast(n)'
  BY <1>1 DEF IsLast
<1>5. \A p : \A i \in DOMAIN queue \cup {1} : DeletedFrom(p, i)' <=> DeletedFrom(p, i) \/ (e.type = "Deleted" /\ e.pod = p)
  BY <1>1, <1>2 DEF DeletedFrom
<1>6. \A p : DeletedFrom(p, n)' <=> e.type = "Deleted" /\ e.pod = p
  BY <1>1, <1>2 DEF DeletedFrom
<1> QED BY <1>1, <1>3, <1>4, <1>5, <1>6

LEMMA EventKeeps ==
    ASSUME AInv, TypeOK', NEW p \in Pods, NEW e \in Event, e.pod = p,
           UNCHANGED <<version, at, watching, listed, cache, work, todo>>,
           IF watching THEN queue' = Append(queue, e) /\ unseen' = unseen
           ELSE queue' = queue /\ unseen' = unseen \cup {p},
           \A q \in Pods \ {p} : pods'[q] = pods[q],
           \A c \in Containers : PodOf[c] # p \/ (e.type # "Deleted" /\ c \notin cleared') =>
             /\ instance'[c] = instance[c] /\ cgroup'[c] = cgroup[c]
             /\ (c \in cleared' <=> c \in cleared) /\ (c \in failed' <=> c \in failed),
           \A c \in ContainersOf(p) : instance[c] <= instance'[c],
           e.type = "Modified" => p \in Existing' /\ e.obj = ObjectOf(p)',
           e.type # "Modified" => ~Serves(p)',
           \A c \in ContainersOf(p) : e.obj.id[c] = IF e.type = "Deleted" THEN instance[c] ELSE instance'[c]
    PROVE  Rest'
<1>1. \A q \in Pods \ {p} : ObjectOf(q)' = ObjectOf(q) /\ (q \in Existing' <=> q \in Existing) /\ (Serves(q)' <=> Serves(q))
  BY SameObject DEF ContainersOf, Existing, Serves
<1>2. Phases'
  BY DEF AInv, Rest, Phases
<1>3. Lists'
  BY <1>1 DEF AInv, Rest, Lists, IsCurrent, Phases, TypeOK, Work
<1>4. Current' <=> Current
  BY DEF Current
<1>5. \A c \in Containers : instance[c] \in Nat /\ instance'[c] \in Nat /\ instance[c] <= instance'[c]
  <2>1. \A c \in Containers : instance[c] \in Nat /\ instance'[c] \in Nat
    BY DEF AInv, TypeOK
  <2>2. \A c \in Containers : c \in ContainersOf(p) \/ PodOf[c] # p
    BY DEF ContainersOf
  <2> QED BY <2>1, <2>2
<1>6. CASE ~watching
  <2>1. LastShows' /\ LastModified'
    BY <1>6 DEF LastShows, LastModified
  <2>2. Current => at = "apply" /\ DOMAIN queue = {} /\ DOMAIN queue' = {}
    BY <1>6 DEF Current, AInv, Rest, Phases
  <2>3. Instances'
    BY <1>4, <1>6, <2>2 DEF AInv, Rest, Instances, DeletedFrom, ContainersOf
  <2>4. Applied'
    BY <1>4, <1>6, <2>2 DEF AInv, Rest, Applied, DeletedFrom, ContainersOf, WorksFor, FollowsAnn
  <2>5. Known'
    BY <1>1, <1>4, <1>6, <2>2 DEF AInv, Rest, Known, WorksFor
  <2>6. Ids'
    BY <1>5, <1>6, Events DEF AInv, Rest, Ids, TypeOK, Work, Object, ContainersOf
  <2> QED BY <1>2, <1>3, <2>1, <2>3, <2>4, <2>5, <2>6 DEF Rest
<1>7. CASE watching
  <2>1. PICK n \in Nat : n = Len(queue) + 1
    BY Events DEF AInv
  <2>2. queue' = Append(queue, e) /\ unseen' = unseen
    BY <1>7
  <2>3. /\ DOMAIN queue' = DOMAIN queue \cup {n} /\ queue'[n] = e
        /\ \A i \in DOMAIN queue : i \in Nat /\ i < n /\ queue'[i] = queue[i]
    BY <2>1, <2>2, AppendLast DEF AInv
  <2>4. IsLast(n)' /\ \A i \in DOMAIN queue : IsLast(i)' <=> IsLast(i) /\ queue[i].pod # p
    BY <2>1, <2>2, AppendLast DEF AInv
  <2>5. \A q : \A i \in DOMAIN queue \cup {1} : DeletedFrom(q, i)' <=> DeletedFrom(q, i) \/ (e.type = "Deleted" /\ p = q)
    BY <2>1, <2>2, AppendLast DEF AInv
  <2>6. \A q : DeletedFrom(q, n)' <=> e.type = "Deleted" /\ p = q
    BY <2>1, <2>2, AppendLast DEF AInv
  <2>7. \A i \in DOMAIN queue : queue[i].pod \in Pods /\ queue[i].obj.id \in [Containers -> Nat]
    BY Events DEF AInv, Object
  <2>8. LastShows'
    <3>1. ASSUME NEW i \in DOMAIN queue, queue[i].type = "Modified", IsLast(i)'
          PROVE  IsCurrent(queue[i])'
      <4>1. IsCurrent(queue[i]) /\ queue[i].pod \in Pods \ {p}
        BY <1>7, <2>4, <2>7, <3>1 DEF AInv, Rest, LastShows
      <4>2. PICK q \in Pods \ {p} : q = queue[i].pod
        BY <4>1
      <4>3. q \in Existing' /\ queue[i].obj = ObjectOf(q)'
        BY <1>1, <4>1, <4>2 DEF IsCurrent
      <4>4. ObjectOf(queue[i].pod)' = ObjectOf(q)'
        BY <2>3, <4>2 DEF ObjectOf
      <4> QED BY <2>3, <4>2, <4>3, <4>4 DEF IsCurrent
    <3>2. e.type = "Modified" => IsCurrent(queue[n])'
      BY <2>3 DEF IsCurrent, ObjectOf
    <3>3. \A i \in DOMAIN queue' : queue'[i].type = "Modified" /\ IsLast(i)' => IsCurrent(queue[i])'
      BY <2>3, <3>1, <3>2
    <3> QED BY <3>3 DEF LastShows
  <2>9. LastModified'
    <3> SUFFICES ASSUME NEW q \in Pods, Serves(q)',
                        NEW i \in DOMAIN queue', queue'[i].pod = q, queue'[i].type # "Added"
                 PROVE  \E k \in DOMAIN queue' : queue'[k].pod = q /\ queue'[k].type = "Modified" /\ IsLast(k)'
      BY DEF LastModified
    <3>1. CASE q = p
      BY <2>3, <2>4, <3>1, Events DEF Event
    <3>2. CASE q # p
      <4>1. i \in DOMAIN queue /\ queue[i].pod = q /\ queue[i].type # "Added" /\ Serves(q)
        BY <1>1, <2>3, <3>2
      <4>2. PICK k \in DOMAIN queue : queue[k].pod = q /\ queue[k].type = "Modified" /\ IsLast(k)
        BY <1>7, <4>1 DEF AInv, Rest, LastModified
      <4> QED BY <2>3, <2>4, <3>2, <4>2
    <3> QED BY <3>1, <3>2
  <2>10. Ids'
    <3>1. \A c \in ContainersOf(p) : instance[c] <= e.obj.id[c] /\ e.obj.id[c] <= instance'[c] /\ e.obj.id[c] \in Nat
      BY <1>5 DEF ContainersOf
    <3>2. \A i \in DOMAIN queue', c \in Containers : queue'[i].pod = PodOf[c] => queue'[i].obj.id[c] <= instance'[c]
      <4>1. ASSUME NEW i \in DOMAIN queue, NEW c \in Containers, queue[i].pod = PodOf[c]
            PROVE  queue[i].obj.id[c] <= instance'[c]
        <5>1. queue[i].obj.id[c] <= instance[c] /\ queue[i].obj.id[c] \in Nat
          BY <2>7, <4>1 DEF AInv, Rest, Ids
        <5> QED BY <1>5, <5>1
      <4> QED BY <2>3, <3>1, <4>1 DEF ContainersOf
    <3>3. ASSUME NEW i \in DOMAIN queue', NEW j \in DOMAIN queue', i <= j, queue'[i].pod = queue'[j].pod,
                 NEW c \in ContainersOf(queue'[j].pod)
          PROVE  queue'[i].obj.id[c] <= queue'[j].obj.id[c]
      <4>1. CASE j \in DOMAIN queue
        <5>1. i \in DOMAIN queue
          BY <2>1, <2>3, <3>3, <4>1
        <5> QED BY <2>3, <3>3, <4>1, <5>1 DEF AInv, Rest, Ids
      <4>2. CASE j = n /\ i = n
        BY <2>3, <3>1, <3>3, <4>2
      <4>3. CASE j = n /\ i \in DOMAIN queue
        <5>1. c \in Containers /\ PodOf[c] = p /\ queue[i].pod = p /\ c \in ContainersOf(p)
          BY <2>3, <3>3, <4>3 DEF ContainersOf
        <5>2. queue[i].obj.id[c] <= instance[c] /\ queue[i].obj.id[c] \in Nat
          BY <2>7, <4>3, <5>1 DEF AInv, Rest, Ids
        <5> QED BY <1>5, <2>3, <3>1, <4>3, <5>1, <5>2
      <4> QED BY <2>3, <4>1, <4>2, <4>3
    <3>4. \A w \in listed : \A c \in ContainersOf(w.pod) : w.obj.id[c] <= instance'[c]
      BY <1>5 DEF AInv, Rest, Ids, TypeOK, Work, Object, ContainersOf
    <3>5. work # None => \A c \in ContainersOf(work.pod) : work.obj.id[c] <= instance[c] /\ work.obj.id[c] \in Nat
                                                           /\ work.obj.id[c] <= instance'[c]
      BY <1>5 DEF AInv, Rest, Ids, TypeOK, Work, Object, ContainersOf
    <3>6. work # None => \A i \in DOMAIN queue' : queue'[i].pod = work.pod =>
            \A c \in ContainersOf(work.pod) : work.obj.id[c] <= queue'[i].obj.id[c]
      <4> SUFFICES ASSUME work # None, NEW i \in DOMAIN queue', queue'[i].pod = work.pod, NEW c \in ContainersOf(work.pod)
                   PROVE  work.obj.id[c] <= queue'[i].obj.id[c]
        OBVIOUS
      <4>1. CASE i \in DOMAIN queue
        BY <2>3, <4>1 DEF AInv, Rest, Ids
      <4>2. CASE i = n
        <5>1. c \in Containers /\ PodOf[c] = p /\ c \in ContainersOf(p)
          BY <2>3, <4>2 DEF ContainersOf
        <5> QED BY <1>5, <2>3, <3>1, <3>5, <4>2, <5>1
      <4> QED BY <2>3, <4>1, <4>2
    <3> QED BY <3>2, <3>3, <3>4, <3>5, <3>6 DEF Ids, ContainersOf
  <2>11. \A c \in Containers : (PodOf[c] # p \/ e.type # "Deleted") /\ c \notin cleared' =>
           c \notin cleared /\ instance'[c] = instance[c] /\ cgroup'[c] = cgroup[c] /\ (c \in failed' <=> c \in failed)
    OBVIOUS
  <2>12. Instances'
    <3>1. ASSUME NEW q \in Pods, NEW i \in DOMAIN queue', queue'[i].pod = q, Current, ~DeletedFrom(q, i)',
                 NEW c \in ContainersOf(q) \ cleared'
          PROVE  queue'[i].obj.id[c] = instance'[c]
      <4>1. c \in Containers /\ PodOf[c] = q
        BY DEF ContainersOf
      <4>2. CASE i \in DOMAIN queue
        <5>1. queue[i].pod = q /\ ~DeletedFrom(q, i) /\ (PodOf[c] # p \/ e.type # "Deleted") /\ queue'[i] = queue[i]
          BY <2>3, <2>5, <3>1, <4>1, <4>2
        <5>2. c \notin cleared /\ instance'[c] = instance[c]
          BY <2>11, <3>1, <4>1, <5>1
        <5> QED BY <3>1, <4>2, <5>1, <5>2 DEF AInv, Rest, Instances
      <4>3. CASE i = n
        BY <2>3, <2>6, <3>1, <4>3
      <4> QED BY <2>3, <4>2, <4>3
    <3>2. ASSUME NEW q \in Pods, work # None, work.pod = q, q \notin unseen, Current, ~DeletedFrom(q, 1)',
                 NEW c \in ContainersOf(q) \ cleared'
          PROVE  work.obj.id[c] = instance'[c]
      <4>1. c \in Containers /\ PodOf[c] = q
        BY DEF ContainersOf
      <4>2. ~DeletedFrom(q, 1) /\ (PodOf[c] # p \/ e.type # "Deleted")
        BY <2>5, <3>2, <4>1
      <4>3. c \notin cleared /\ instance'[c] = instance[c]
        BY <2>11, <3>2, <4>1, <4>2
      <4> QED BY <3>2, <4>2, <4>3 DEF AInv, Rest, Instances
    <3>3. \A i \in DOMAIN queue' : Current => (~DeletedFrom(queue[i].pod, i) =>
            \A c \in ContainersOf(queue[i].pod) \ cleared : queue[i].obj.id[c] = instance[c])'
      <4> SUFFICES ASSUME NEW i \in DOMAIN queue', Current, ~DeletedFrom(queue[i].pod, i)',
                          NEW c \in ContainersOf(queue'[i].pod) \ cleared'
                   PROVE  queue'[i].obj.id[c] = instance'[c]
        BY DEF ContainersOf
      <4>1. PICK q \in Pods : q = queue'[i].pod
        BY <2>3, <2>7
      <4>2. ~DeletedFrom(q, i)'
        BY <4>1 DEF DeletedFrom
      <4> QED BY <3>1, <4>1, <4>2
    <3>4. Current => (work # None /\ work.pod \notin unseen /\ ~DeletedFrom(work.pod, 1) =>
            \A c \in ContainersOf(work.pod) \ cleared : work.obj.id[c] = instance[c])'
      <4> SUFFICES ASSUME Current, work # None, work.pod \notin unseen, ~DeletedFrom(work.pod, 1)',
                          NEW c \in ContainersOf(work.pod) \ cleared'
                   PROVE  work.obj.id[c] = instance'[c]
        BY <2>2 DEF ContainersOf
      <4>1. PICK q \in Pods : q = work.pod
        BY DEF AInv, TypeOK, Work
      <4>2. ~DeletedFrom(q, 1)'
        BY <4>1 DEF DeletedFrom
      <4> QED BY <3>2, <4>1, <4>2
    <3> QED BY <1>4, <3>3, <3>4 DEF Instances
  <2>13. Applied'
    <3> SUFFICES ASSUME Current, NEW q \in Pods \ unseen, ~DeletedFrom(q, 1)',
                        NEW c \in ContainersOf(q) \ (Excluded \cup cleared' \cup failed')
                 PROVE  IF WorksFor(q) THEN c \in todo \/ FollowsAnn(c, work.obj.ann)'
                        ELSE cache[q] # None => FollowsAnn(c, cache[q])'
      BY <1>4, <2>2 DEF Applied, ContainersOf, WorksFor
    <3>1. c \in Containers /\ PodOf[c] = q
      BY DEF ContainersOf
    <3>2. ~DeletedFrom(q, 1) /\ (PodOf[c] # p \/ e.type # "Deleted")
      BY <2>5, <3>1
    <3>3. c \notin cleared /\ c \notin failed /\ cgroup'[c] = cgroup[c]
      BY <2>11, <3>1, <3>2
    <3> QED BY <3>2, <3>3 DEF AInv, Rest, Applied, FollowsAnn
  <2>14. Known'
    <3> SUFFICES ASSUME Current, NEW q \in Pods \ unseen, Serves(q)'
                 PROVE  \/ \E i \in DOMAIN queue' : queue'[i].type = "Modified" /\ queue'[i].pod = q
                        \/ pods'[q].ann = IF WorksFor(q) THEN work.obj.ann ELSE cache[q]
      BY <1>4, <2>2 DEF Known, WorksFor
    <3>1. CASE q = p
      BY <2>3, <3>1
    <3>2. CASE q # p
      BY <1>1, <1>7, <2>3, <3>2 DEF AInv, Rest, Known, Phases
    <3> QED BY <3>1, <3>2
  <2> QED BY <1>2, <1>3, <2>8, <2>9, <2>10, <2>12, <2>13, <2>14 DEF Rest
<1> QED BY <1>6, <1>7

LEMMA ChangeKeeps ==
    ASSUME AInv, TypeOK', NEW p \in Pods, NEW pod \in Pod, PodChanges(p, pod),
           \A c \in Containers : PodOf[c] # p \/ c \notin cleared' =>
             /\ instance'[c] = instance[c] /\ cgroup'[c] = cgroup[c]
             /\ (c \in cleared' <=> c \in cleared) /\ (c \in failed' <=> c \in failed),
           \A c \in ContainersOf(p) : instance[c] <= instance'[c]
    PROVE  Rest'
<1>1. pods' = [pods EXCEPT ![p] = pod] /\ Notify("Modified", p, ObjectOf(p)')
      /\ UNCHANGED <<version, at, watching, listed, cache, work, todo>>
  BY DEF PodChanges, apart, run, process
<1>2. PICK obj : obj = ObjectOf(p)'
  OBVIOUS
<1>3. instance' \in [Containers -> Nat]
  BY DEF TypeOK
<1>4. obj \in Object
  BY <1>1, <1>2, <1>3, NewObjectType DEF AInv
<1> DEFINE e == [type |-> "Modified", pod |-> p, obj |-> obj]
<1>5. e \in Event /\ e.pod = p /\ e.type = "Modified" /\ e.obj = obj
  BY <1>4 DEF Event
<1>6. IF watching THEN queue' = Append(queue, e) /\ unseen' = unseen
      ELSE queue' = queue /\ unseen' = unseen \cup {p}
  BY <1>1, <1>2 DEF Notify
<1>7. p \in Existing' /\ \A q \in Pods \ {p} : pods'[q] = pods[q]
  BY <1>1, NoneIsNoObject DEF Existing, AInv, TypeOK
<1>8. \A c \in ContainersOf(p) : obj.id[c] = instance'[c]
  BY <1>2 DEF ObjectOf, ContainersOf
<1> HIDE DEF e
<1> QED BY <1>1, <1>2, <1>5, <1>6, <1>7, <1>8, EventKeeps

\* A change of a pod that leaves its containers alone.
LEMMA EditKeeps ==
    ASSUME AInv, NEW p \in Pods, NEW pod \in Pod, PodChanges(p, pod),
           UNCHANGED <<instance, cgroup, cleared, failed, used>>
    PROVE  AInv'
<1>1. TypeOK'
  BY PodChangesTyped DEF AInv, TypeOK
<1>2. \A c \in Containers : instance[c] \in Nat
  BY DEF AInv, TypeOK
<1> QED BY <1>1, <1>2, ChangeKeeps DEF AInv, ContainersOf

LEMMA EnvironmentKeeps ==
    ASSUME AInv, TypeOK', Environment
    PROVE  Rest'
<1>0. \A c \in Containers : instance[c] \in Nat /\ instance[c] <= instance[c] /\ instance[c] <= instance[c] + 1
  BY DEF AInv, TypeOK
<1>1. ASSUME NEW p \in Pods, UserAnnotates(p) \/ PodGetsReady(p)
      PROVE  Rest'
  <2>1. p \in Existing /\ UNCHANGED <<instance, cgroup, cleared, failed>>
    BY <1>1 DEF UserAnnotates, PodGetsReady
  <2>2. PICK pod \in Pod : PodChanges(p, pod)
    <3>1. pods[p] \in Pod
      BY <2>1 DEF AInv, TypeOK, Existing
    <3>2. CASE UserAnnotates(p)
      <4>1. PICK a \in Choices : PodChanges(p, [pods[p] EXCEPT !.ann = a])
        BY <3>2 DEF UserAnnotates
      <4>2. [pods[p] EXCEPT !.ann = a] \in Pod
        BY <3>1, ServiceConstantsOK DEF Pod
      <4> QED BY <4>1, <4>2
    <3>3. CASE PodGetsReady(p)
      <4>1. [pods[p] EXCEPT !.ready = TRUE] \in Pod
        BY <3>1 DEF Pod
      <4> QED BY <3>3, <4>1 DEF PodGetsReady
    <3> QED BY <1>1, <3>2, <3>3
  <2> QED BY <1>0, <2>1, <2>2, ChangeKeeps DEF ContainersOf
<1>2. ASSUME NEW c \in Containers, ContainerRestarts(c)
      PROVE  Rest'
  <2>1. PodOf[c] \in Pods /\ pods[PodOf[c]] \in Pod
    BY <1>2, ServiceConstantsOK DEF ContainerRestarts, AInv, TypeOK, Existing
  <2>2. [pods[PodOf[c]] EXCEPT !.ready = FALSE] \in Pod
    BY <2>1 DEF Pod
  <2>3. /\ instance' = [instance EXCEPT ![c] = @ + 1] /\ cgroup' = [cgroup EXCEPT ![c] = Unlimited]
        /\ cleared' = cleared \cup {c} /\ failed' = failed
        /\ PodChanges(PodOf[c], [pods[PodOf[c]] EXCEPT !.ready = FALSE])
    BY <1>2 DEF ContainerRestarts
  <2>4. \A d \in Containers : instance[d] <= instance'[d]
                              /\ (d # c => instance'[d] = instance[d] /\ cgroup'[d] = cgroup[d])
    BY <1>0, <2>3 DEF AInv, TypeOK
  <2> QED BY <2>1, <2>2, <2>3, <2>4, ChangeKeeps DEF ContainersOf
<1>3. ASSUME NEW p \in Pods, PodDeleted(p)
      PROVE  Rest'
  <2>1. ObjectOf(p) \in Object
    BY <1>3, ObjectType DEF PodDeleted, AInv
  <2> DEFINE e == [type |-> "Deleted", pod |-> p, obj |-> ObjectOf(p)]
  <2>2. e \in Event /\ e.pod = p /\ e.type = "Deleted" /\ e.obj = ObjectOf(p)
    BY <2>1 DEF Event
  <2>3. IF watching THEN queue' = Append(queue, e) /\ unseen' = unseen
        ELSE queue' = queue /\ unseen' = unseen \cup {p}
    BY <1>3 DEF PodDeleted, Notify
  <2>4. /\ UNCHANGED <<version, at, watching, listed, cache, work, todo>>
        /\ \A q \in Pods \ {p} : pods'[q] = pods[q]
        /\ ~Serves(p)'
    BY <1>3 DEF PodDeleted, apart, run, process, AInv, TypeOK, Serves, Existing
  <2>5. \A c \in Containers : PodOf[c] # p =>
             /\ instance'[c] = instance[c] /\ cgroup'[c] = cgroup[c]
             /\ (c \in cleared' <=> c \in cleared) /\ (c \in failed' <=> c \in failed)
    BY <1>3 DEF PodDeleted, ContainersOf
  <2>6. \A c \in ContainersOf(p) : instance[c] <= instance'[c] /\ ObjectOf(p).id[c] = instance[c]
    BY <1>0, <1>3 DEF PodDeleted, ContainersOf, ObjectOf
  <2> HIDE DEF e
  <2> QED BY <2>2, <2>3, <2>4, <2>5, <2>6, EventKeeps
<1>4. ASSUME NEW p \in Pods, PodCreated(p)
      PROVE  Rest'
  <2>1. PICK a \in Choices : pods' = [pods EXCEPT ![p] = [ann |-> a, ready |-> FALSE]]
    BY <1>4 DEF PodCreated
  <2>2. [ann |-> a, ready |-> FALSE] \in Pod
    BY ServiceConstantsOK DEF Pod
  <2>3. PICK obj : obj = ObjectOf(p)'
    OBVIOUS
  <2>4. obj \in Object
    BY <2>1, <2>2, <2>3, NewObjectType DEF AInv, TypeOK
  <2> DEFINE e == [type |-> "Added", pod |-> p, obj |-> obj]
  <2>5. e \in Event /\ e.pod = p /\ e.type = "Added" /\ e.obj = obj
    BY <2>4 DEF Event
  <2>6. IF watching THEN queue' = Append(queue, e) /\ unseen' = unseen
        ELSE queue' = queue /\ unseen' = unseen \cup {p}
    BY <1>4, <2>3 DEF PodCreated, Notify
  <2>7. /\ UNCHANGED <<version, at, watching, listed, cache, work, todo, instance, cgroup, cleared, failed>>
        /\ \A q \in Pods \ {p} : pods'[q] = pods[q]
        /\ ~Serves(p)'
    BY <1>4, <2>1 DEF PodCreated, apart, run, process, AInv, TypeOK, Serves
  <2>8. \A c \in ContainersOf(p) : instance[c] <= instance'[c] /\ obj.id[c] = instance'[c]
    BY <1>0, <2>3, <2>7 DEF ContainersOf, ObjectOf
  <2> HIDE DEF e
  <2> QED BY <2>5, <2>6, <2>7, <2>8, EventKeeps
<1> QED BY <1>1, <1>2, <1>3, <1>4, CloseKeeps, EndKeeps DEF Environment

LEMMA NextAInv == AInv /\ [Next]_vars => AInv'
<1> SUFFICES ASSUME AInv, [Next]_vars PROVE AInv'
  OBVIOUS
<1>1. TypeOK'
  BY StepTyped DEF AInv
<1>2. CASE Service
  BY <1>1, <1>2, ListKeeps, EndKeeps, OpenKeeps, SkipKeeps, BeginListedKeeps, SetKeeps, RememberKeeps, LoopKeeps
     DEF Service, Process, Loop, AInv
<1>3. CASE UNCHANGED vars
  BY <1>1, <1>3 DEF AInv, vars, node, apart, run, process, ghosts, Rest, Phases, Lists, LastShows, LastModified, IsLast, IsCurrent,
     ObjectOf, Existing, Serves, Ids, Instances, DeletedFrom, Applied, FollowsAnn, Known, WorksFor, Current
<1> QED BY <1>1, <1>2, <1>3, EndKeeps, EnvironmentKeeps, ResetKeeps DEF Next, AInv

LEMMA IdleFollows == AInv => Agreement
<1> SUFFICES ASSUME AInv, Idle, NEW c \in Containers \ Excluded,
                    Serves(PodOf[c]), PodOf[c] \notin unseen, c \notin cleared \cup failed
             PROVE  Follows(c)
  BY DEF Agreement
<1>1. PodOf[c] \in Pods /\ c \in ContainersOf(PodOf[c])
  BY ServiceConstantsOK DEF ContainersOf
<1>2. at = "loop" /\ watching /\ ~WorksFor(PodOf[c]) /\ DOMAIN queue = {} /\ Current
  BY DEF Idle, WorksFor, Current
<1>3. ~DeletedFrom(PodOf[c], 1)
  BY <1>2 DEF DeletedFrom
<1>4. pods[PodOf[c]].ann = cache[PodOf[c]]
  BY <1>1, <1>2 DEF AInv, Rest, Known
<1>5. cache[PodOf[c]] # None
  <2>1. pods[PodOf[c]] \in Pod
    BY <1>1 DEF AInv, TypeOK, Serves, Existing
  <2> QED BY <1>4, <2>1, NoneIsNoObject DEF Pod
<1>6. FollowsAnn(c, pods[PodOf[c]].ann)
  BY <1>1, <1>2, <1>3, <1>4, <1>5 DEF AInv, Rest, Applied
<1> QED BY <1>6 DEF FollowsAnn, Matches, Follows

\* Once the service is idle the cgroups follow the annotations: whatever edits,
\* deletions, recreations, closed watches, failed writes and ends of the process it
\* went through, for any pods and annotations; the exceptions are those that
\* Agreement names (service.go:377-479).
THEOREM IdleAgrees == Spec => []Agreement
BY InitAInv, NextAInv, IdleFollows, PTL DEF Spec
====
