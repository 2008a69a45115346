---- MODULE IOHistory ----
(***************************************************************************)
(* How the manager collects the I/O of the containers and what trends it   *)
(* computes from it.  In each round it takes the counters of the kubelet's *)
(* summary, filed by nothing but the name of the container, so that those  *)
(* of one name in two pods share a history, or, when there is no summary,  *)
(* asks cAdvisor's metrics once for each container and files the rates of  *)
(* the calculator by the container's id.                                   *)
(***************************************************************************)
EXTENDS Calculator, FiniteSets

CONSTANTS
    Containers,       \* of all pods of the node
    Names,            \* the names they may have in their pods
    Monitored,        \* those whose namespace is not excluded
    LabelSelector,    \* ExcludeLabelSelector is set
    Windows,          \* the lengths of the windows of a trend
    HistoryWindow,    \* SmartLimitHistoryWindow
    RateWindow,       \* the window asked of the calculator
    Period,           \* SmartLimitMonitorInterval
    Sources,          \* where a round may find its numbers
    Loads,            \* I/O of a container in one unit of time
    MaxTime, MaxChanges, MaxRestarts     \* bounds

ASSUME HistoryConstantsOK ==
    /\ Windows \subseteq Nat /\ Loads \subseteq Nat
    /\ {HistoryWindow, RateWindow, Period, MaxTime, MaxChanges, MaxRestarts} \subseteq Nat
    /\ Sources \subseteq {"summary", "cadvisor"}
    /\ Monitored \subseteq Containers /\ LabelSelector \in BOOLEAN

VARIABLES
    now,
    next,        \* when the monitor's next round is due
    todo,        \* the containers it has still to ask cAdvisor for
    pending,     \* those of the summary it has still to file
    nameOf,      \* the name of each container
    reading,     \* the reading of each counter the summary had last
    byName,      \* history of the counters of the summary, for each name
    updated,     \* LastUpdate of these histories
    byId,        \* history of the rates of the calculator
    points,      \* the calculator's points
    named,       \* the cgroups have the names extractContainerID expects
    counter,     \* the I/O of each container since it started
    load,        \* the I/O it does now in one unit of time
    log,         \* history variable: the I/O of every unit of time
    restarted,   \* history variable: when the container last started
    used         \* how much of each bound is used up

histories == <<byName, updated, byId, points>>
containers == <<nameOf, named, counter, load, restarted, used>>
vars == <<now, next, todo, pending, reading, histories, containers, log>>

Init ==
    /\ now = 0 /\ next = 0 /\ todo = {} /\ pending = {}
    /\ nameOf \in [Containers -> Names]
    /\ reading = [c \in Containers |-> [t |-> 0, v |-> 0]]
    /\ byName = [n \in Names |-> <<>>] /\ updated = [n \in Names |-> 0]
    /\ byId = [c \in Containers |-> <<>>] /\ points = byId
    /\ counter = [c \in Containers |-> 0] /\ restarted = counter
    /\ load \in [Containers -> Loads] /\ named \in BOOLEAN
    /\ log = byId
    /\ used = [changes |-> 0, restarts |-> 0]

----
(***************************************************************************)
(* addIOStats and the trends.                                              *)
(***************************************************************************)

\* Faulty: goes on to the last sample that has not expired.
Cleaned_NoBreak(stats, cutoff) ==
    LET fresh == {i \in DOMAIN stats : stats[i].t > cutoff} IN
    IF fresh = {} THEN stats ELSE SubSeq(stats, Max(fresh), Len(stats))

\* Faulty: drops nothing.
Cleaned_None(stats, cutoff) == stats

\* From the first sample that has not expired; all of them if there is none.
Cleaned(stats, cutoff) ==
    LET fresh == {i \in DOMAIN stats : stats[i].t > cutoff} IN
    IF fresh = {} THEN stats ELSE SubSeq(stats, Min(fresh), Len(stats))

addIOStats(stats, sample) == Cleaned(Append(stats, sample), now - HistoryWindow)

\* The samples of a window that are some time after the one before.
Steps(stats, cutoff) ==
    {i \in 2 .. Len(stats) : stats[i].t > cutoff /\ stats[i].t > stats[i - 1].t}

\* Faulty: takes the difference for the rate.
Slope_PerSample(stats, i) == stats[i].v - stats[i - 1].v

Slope(stats, i) == Truncated(stats[i].v - stats[i - 1].v, stats[i].t - stats[i - 1].t)

\* The mean of a window is Total divided by the number of its steps, 0 without one.
Total(stats, cutoff) ==
    LET total[i \in 0 .. Len(stats)] ==
          IF i = 0 THEN 0
          ELSE total[i - 1] + (IF i \in Steps(stats, cutoff) THEN Slope(stats, i) ELSE 0)
    IN  total[Len(stats)]

----
(***************************************************************************)
(* A round of the monitor.                                                 *)
(***************************************************************************)
\* A label selector excludes every pod, but only where the pods are listed.
shouldMonitorPod(c) == c \in Monitored /\ ~LabelSelector

\* The containers whose counters are in the metrics under their own id; a name with
\* another prefix is left out, one with a suffix (.scope) makes another id.
ParseCadvisorMetrics == IF named THEN Containers ELSE {}

Begins == now = next /\ todo = {} /\ pending = {} /\ next' = now + Period

\* The summary has the kubelet's last reading of some containers, a fresh one of some
\* of these; the rest do no disk I/O that the kubelet knows of.
SummaryRound(seen, fresh) ==
    /\ "summary" \in Sources /\ Begins
    /\ seen \subseteq Monitored /\ fresh \subseteq seen
    /\ pending' = seen
    /\ reading' = [c \in Containers |-> IF c \in fresh THEN [t |-> now, v |-> counter[c]] ELSE reading[c]]
    /\ UNCHANGED <<now, todo, histories, containers, log>>

\* The summary is gone through container by container, in the order of its pods.
FileReading(c) ==
    /\ c \in pending
    /\ pending' = pending \ {c}
    /\ byName' = [byName EXCEPT ![nameOf[c]] = addIOStats(@, reading[c])]
    /\ updated' = [updated EXCEPT ![nameOf[c]] = now]
    /\ UNCHANGED <<now, next, todo, reading, byId, points, containers, log>>

CadvisorRound ==
    /\ "cadvisor" \in Sources /\ Begins
    /\ todo' = {c \in Containers : shouldMonitorPod(c)}
    /\ UNCHANGED <<now, pending, reading, histories, containers, log>>

\* Neither the summary nor the metrics can be had.
NoRound ==
    /\ Begins
    /\ UNCHANGED <<now, todo, pending, reading, histories, containers, log>>

\* The metrics are fetched anew for every container, a point of each container is
\* added, and the rate of this one is a sample, if there is one.
ConvertCadvisorToIOStats(c) ==
    /\ c \in todo
    /\ \A d \in Containers : points[d] # <<>> => points[d][Len(points[d])].t < now
    /\ todo' = todo \ {c}
    /\ points' = [d \in Containers |-> IF d \in ParseCadvisorMetrics
                                       THEN AddMetricPoint(points[d], now, counter[d]) ELSE points[d]]
    /\ LET cutoff == now - RateWindow IN
       byId' = IF HasRate(points'[c], cutoff)
               THEN [byId EXCEPT ![c] =
                       addIOStats(@, [t |-> now, v |-> CalculateIORate(points'[c], cutoff)])]
               ELSE byId
    /\ UNCHANGED <<now, next, pending, reading, byName, updated, containers, log>>

GetCadvisorMetricsFails(c) ==
    /\ c \in todo
    /\ todo' = todo \ {c}
    /\ UNCHANGED <<now, next, pending, reading, histories, containers, log>>

----
(***************************************************************************)
(* The containers and the clock.                                           *)
(***************************************************************************)
Tick ==
    /\ now < MaxTime /\ pending = {}
    /\ IF todo = {} THEN now < next ELSE now + 1 < next
    /\ now' = now + 1
    /\ counter' = [c \in Containers |-> counter[c] + load[c]]
    /\ log' = [c \in Containers |-> Append(log[c], load[c])]
    /\ UNCHANGED <<next, todo, pending, reading, histories, nameOf, named, load, restarted, used>>

LoadChanges(c) ==
    /\ pending = {} /\ used.changes < MaxChanges
    /\ \E l \in Loads \ {load[c]} : load' = [load EXCEPT ![c] = l]
    /\ used' = [used EXCEPT !.changes = @ + 1]
    /\ UNCHANGED <<now, next, todo, pending, reading, histories, nameOf, named, counter, log, restarted>>

\* A container is started again under the same name with a new id.
ContainerRestarts(c) ==
    /\ todo = {} /\ pending = {} /\ used.restarts < MaxRestarts
    /\ counter' = [counter EXCEPT ![c] = 0]
    /\ byId' = [byId EXCEPT ![c] = <<>>]
    /\ points' = [points EXCEPT ![c] = <<>>]
    /\ restarted' = [restarted EXCEPT ![c] = now]
    /\ used' = [used EXCEPT !.restarts = @ + 1]
    /\ UNCHANGED <<now, next, todo, pending, reading, byName, updated, nameOf, named, load, log>>

Next ==
    \/ \E seen, fresh \in SUBSET Containers : SummaryRound(seen, fresh)
    \/ CadvisorRound \/ NoRound \/ Tick
    \/ \E c \in Containers : \/ FileReading(c) \/ ConvertCadvisorToIOStats(c)
                             \/ GetCadvisorMetricsFails(c)
                             \/ LoadChanges(c) \/ ContainerRestarts(c)

Spec == Init /\ [][Next]_vars

----
(***************************************************************************)
(* What the numbers must be worth.                                         *)
(***************************************************************************)

\* Every variable has its type; the calculator keeps no more points than it may and
\* no rate it gives is negative.
TypeOK ==
    /\ {now, next} \subseteq Nat /\ todo \cup pending \subseteq Containers
    /\ nameOf \in [Containers -> Names] /\ reading \in [Containers -> Point]
    /\ byName \in [Names -> Seq(Point)] /\ byId \in [Containers -> Seq(Point)]
    /\ points \in [Containers -> Seq(Point)]
    /\ \A c \in Containers : Len(points[c]) <= MaxPoints
    /\ updated \in [Names -> Nat] /\ restarted \in [Containers -> Nat]
    /\ named \in BOOLEAN /\ counter \in [Containers -> Nat] /\ load \in [Containers -> Loads]
    /\ log \in [Containers -> Seq(Nat)]
    /\ used \in [changes: Nat, restarts: Nat]

\* No other container of the node has the name of c.
SoleName(c) == \A d \in Containers : nameOf[d] = nameOf[c] => d = c

\* The I/O of c in the units of time between two points of time.
Done(c, from, to) == {log[c][i] : i \in from + 1 .. to}

\* Of a container whose name no other has, the mean of a window is not above the
\* highest load of the time it stands for, whatever readings are missing or repeated
\* and however often the container started anew, and not below the lowest one if it
\* did not (metrics_collector.go:61-112, metrics_analysis.go:50-79).
MeanWithinLoad ==
    \A c \in {d \in Containers : SoleName(d)}, w \in Windows :
      LET stats == byName[nameOf[c]]
          steps == Steps(stats, now - w)
          from == stats[Min(steps) - 1].t
          done == Done(c, from, stats[Max(steps)].t)
      IN steps # {} =>
           /\ Total(stats, now - w) <= Max(done) * Cardinality(steps)
           /\ restarted[c] = 0 \/ restarted[c] < from => Total(stats, now - w) >= Min(done) * Cardinality(steps)

\* A rate of the calculator lies between the lowest and the highest load of the
\* window it was asked for (calculator.go:81-128).
RateWithinLoad ==
    \A c \in Containers : \A i \in DOMAIN byId[c] :
      LET sample == byId[c][i]
          done == Done(c, Max({0, sample.t - RateWindow}), sample.t)
      IN Min(done) <= sample.v /\ sample.v <= Max(done)

\* A history of one container holds no expired sample when its last one had not
\* expired as it was added (metrics_collector.go:140-157).
ExpiredDropped ==
    \A c \in {d \in Containers : SoleName(d)} : byName[nameOf[c]] # <<>> =>
      LET stats == byName[nameOf[c]]
          cutoff == updated[nameOf[c]] - HistoryWindow
      IN stats[Len(stats)].t > cutoff => \A i \in DOMAIN stats : stats[i].t > cutoff

\* No step takes away a sample that has not expired, whoever shares the history,
\* unless its container is gone.
FreshKept ==
    [][/\ \A n \in Names : \A i \in DOMAIN byName[n] : byName[n][i].t > now - HistoryWindow =>
            \E j \in DOMAIN byName'[n] : byName'[n][j] = byName[n][i]
       /\ \A c \in Containers : restarted'[c] = restarted[c] =>
            \A i \in DOMAIN byId[c] : byId[c][i].t > now - HistoryWindow =>
              \E j \in DOMAIN byId'[c] : byId'[c][j] = byId[c][i]]_vars
====
