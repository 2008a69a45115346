# KubeDiskGuard in TLA+

KubeDiskGuard is a node daemon (a DaemonSet, one process per node) that limits the
disk I/O of containers. This directory models it in TLA+, checks the models with TLC
on small instances, and proves what matters most with TLAPS for every instance.

## 1. The system

| Component | Code | State | Operations | Talks to | Module |
|---|---|---|---|---|---|
| Smart-limit manager | `pkg/smartlimit/smartlimit.go` | `limitStatus`, `history`, `containerLimits`, a ticker | one round per tick: collect, analyse, and for each container limit, update, keep or release; hourly cleanup | API server (GetPod, UpdatePod), kubelet | `SmartLimit`, `LimitLifecycle` |
| State restoration | `state_recovery.go`, `utils.go` | fills `limitStatus` | one pass at start-up over the pods' annotations | kubelet or API server (list) | `SmartLimit` |
| Metrics and trends | `metrics_collector.go`, `metrics_analysis.go` | `history`: samples per key, a container's name or its id | add a sample, drop expired ones, means over 15, 30 and 60 minutes | kubelet summary, cAdvisor | `IOHistory` |
| cAdvisor calculator | `pkg/cadvisor/calculator.go` | up to 100 points per container | add points, rate over a window, cleanup | | `Calculator` |
| HTTP API | `pkg/api/*.go` | none | read-only views of the manager's maps, under its locks | manager | `StatusAPI` |
| Pod watch service | `pkg/service/service.go` | `podAnnotations`, the last applied annotations of each pod | list and apply, then watch and apply what changed; reset-all | kubelet or API server (list, watch), runtimes | `PodWatch` |
| Annotation parser | `service.go`, `annotationkeys/keys.go` | none | four limits from a pod's annotations and the defaults | | `Annotations` |
| Cgroup manager | `pkg/cgroup/cgroup.go` | the kernel's throttle files | set or reset the limits of a container, v1 or v2 | kernel | `Cgroup`, `Node` |
| Runtimes, detection | `pkg/runtime/*.go`, `pkg/detector`, `pkg/device` | none | look up a container and build its cgroup path; find out what the node has | docker, containerd, host | `Runtime`, `Node` |
| Configuration | `pkg/config` | the configuration | defaults and environment, once at start-up | | `Config` |
| Main | `main.go`, constructor in `service.go` | two goroutines of a process | start the daemon or reset-all, serve HTTP, end | all of the above | `Node` |
| Kubelet and API client | `pkg/kubeclient/*.go` | HTTP clients | get, list, watch, update, metrics | kubelet, API server | steps of the others |

The two halves of the daemon communicate only through the API server: the manager
writes limits into the annotations of a pod; the service sees the pod change and
writes the limits into the cgroups of its containers. Users write the same
annotations. `DiskGuard` composes the two halves.

What makes this hard:

* three goroutines of the manager (monitor, cleanup, restore) run concurrently with
  each other, with the service's goroutine, with the HTTP handlers that read the same
  maps, and with every writer of the pods;
* the manager reads a pod, rebuilds its annotations and writes it back: between the
  two calls anybody may edit the pod;
* calls fail, and errors are logged and swallowed;
* the daemon's memory is lost in a crash and rebuilt from the annotations, while the
  monitor is already working;
* one container has two keys: the summary files it by its bare name, cAdvisor and
  restoration by its id;
* a limit is lifted only after delays counted from time stamps that several places
  refresh;
* reset-all is a second process that writes the same files and wants the same port.

What each component must get right:

* manager: never undo what a user wrote; honour exemptions; a limit is neither lifted
  too early nor kept for ever;
* restoration: every limit the annotations announce is known after a restart, where the
  rounds will look for it;
* metrics: a trend reflects the samples of its window;
* HTTP API: no answer mixes two states, no request hangs, nothing deadlocks;
* pod watch: when it is idle the cgroups say what the annotations say;
* both halves together: what the manager remembers is in the kernel's files;
* parser: the priority of the keys; cgroup manager: the files end up with the
  requested limits, whatever was there before; runtimes: a container's limits are
  never written to another cgroup;
* main: whatever comes up first and however often a watch is closed, the daemon runs
  again; reset-all lifts all limits and ends.

## 2. Plan

Done: `SmartLimit` with `LimitLifecycle`, the abstract specification it implements;
`Annotations`, `Cgroup`, `PodWatch`; `Calculator`, `IOHistory`; `DiskGuard`, the
composition of `SmartLimit` and `PodWatch`; `StatusAPI`; `Runtime`, `Config`, `Node`;
and the proofs in `SmartLimitProofs`, `PodWatchProofs`, `AgreementProofs`,
`StatusAPIProofs`, `IOHistoryProofs`, `NodeProofs` and `DiskGuardProofs`. Every invariant
and every action property that a passing run checks is a theorem.

Next, in this order:

1. `PodWatch` with a kubelet whose list lags behind the API server.
2. `Agreed` of `DiskGuard` as a theorem for a manager that no call fails and that is not
   restarted. It is not enough that nothing disturbs it: the restorer may list a pod,
   and rebuild from that list an entry that the monitor has removed since.

## 3. SmartLimit, LimitLifecycle

### State

| Variable | Code |
|---|---|
| `pods` | the objects the API server holds: resource version and annotations |
| `status` | `limitStatus`, keyed by names and ids (`StatusKeys`) |
| `hist` | the entries of `history` (`Filed` are the keys): the age of `LastUpdate`, and the pod the entry was made for |
| `sinceTick`, `due` | the monitor's ticker and its channel of capacity one |
| `todo`, `step`, `cur`, `decision`, `copy` | where the monitor goroutine is: keys left in this round, the call it is about to make, the key and the pod of its entry, the `LimitResult` (`None` for a removal), the pod GetPod returned |
| `rstage`, `rtodo`, `rsnap` | where the restore goroutine is, and the list it works through |
| `running`, `trend` | the node: which containers report metrics; the trend of each key |
| `sinceWrite` | history variable for `RemovalDelayed`: age of the last limit written on the pod |
| `used` | how much of each bound is used up |

Annotations keep the four limits the manager writes, `triggered-by`, the
`limit-removed` marker and `app`, which stands for any annotation without the
prefix. Reasons and time stamps are left out: nothing reads them. The `*-limit` keys
that restoration reads are left out as well: nothing writes them, so each value it
restores is 0 (`RestoredResult`).

Time stamps are ages that saturate one past the longest delay they are compared with.
One unit is a minute unless a configuration says otherwise; differences below one unit are
not modelled, so a check interval equal to the monitor's period counts as elapsed.

### Actions

`MonitorRound` is a tick: every container that its source reports gets a sample, all trends
are computed, and the keys with a history are judged by that snapshot one after the other.
`Sources` says what a round may read: the summary, which files a container under its name
and is filtered by namespace alone, or cAdvisor, which files it under its id and is filtered
by `shouldMonitorPod`, as restoration is (`Key`, `Collected`). Containers of one name share
the entry, which keeps the pod it was made for: that pod is the one `GetPod` and `UpdatePod`
are called with (`Call`). `Skip`, `KeepLimit`, `BeginRemove` and `BeginApply` are the
branches of `applyLimitForContainer`; the last two go on through `GetPod`, `UpdatePod` (or
`UpdateConflict`, `CallFails`) and `UpdateLimitStatus`. An update that succeeds and whose
answer is lost has the same effects as one that succeeds. `CleanupHistory` runs at any phase
of its hourly ticker. `RestoreList`, `RestoreContainer`, `RestoreEnds` are the restore
goroutine. `Tick`, `UserEditsLimit`, `UserEditsApp`, `ContainerExits` and `Restart` are the
environment; `Restart` stands for a crash as well as for a stop, since neither leaves
anything behind but the annotations.

A user who forges `triggered-by` or the marker is not modelled. The trends are any of
the constant `Trends`; how the code computes them is `IOHistory`. With `KubeletMode`
(`SmartLimitUseKubeletAPI`) there is no client of the API server: `GetPod` and
`UpdatePod` always fail, and restoration lists from the kubelet.

### Runs

| Run | Expectation | Shows |
|---|---|---|
| `smartlimit_safety` | pass | `TypeOK`, `Tracked`, `UserDataSurvives`, `ExemptionSurvives`, `KeepsPromise`, `RemovalDelayed`: any two of a user's edit (two at most), a failed call (one), a crash (two) and a cleanup (one), at any point, while the load changes twice among three trends; rounds read cAdvisor |
| `smartlimit_names` | violation of `Tracked` | rounds read the summary: the limit restored after one restart is filed by id, and no round finds it |
| `smartlimit_liveness` | pass | `HotGetsLimited`, `CalmGetsReleased` under `FairSpec`, without failures and restarts, whichever source each round reads |

`Tracked` asks that a limit which the annotations announce is known by a key that some
round looks up; it holds with ids only (section 9). `ExemptionSurvives` is about a `0` that
is on the pod when a limit is written; a `0` that a removal has taken off before is lost
(section 9).

`KeepsPromise` is the refinement of `LimitLifecycle`, which is what the owner of a pod
sees: users edit, the manager imposes a limit on the current annotations, passing over
exempted items and staying below the maximum, or releases the pod after the delay. Reads, refused
updates, failures, restarts and restoration are stutters. The mapping takes
the annotations of `pods`, `sinceWrite` and the count of edits.

Bounds. One container in one pod. Where rounds read cAdvisor, containers of different pods
share nothing but the goroutine that serves them; two in one pod share annotations, and two
of one name share an entry where rounds read the summary: section 9 has both. Two
disturbances (`MaxDisturbances`, in the state constraint `FewDisturbances`) let one edit
fall before the read and one between read and write, the second
restart hit the restoration after the first, and a crash or an edit follow a failed call. Two
changes of load cover limited, released, and limited again or by another window. The trends
take the first window (`Spike`), the later ones without the first (`Fading`) and none; the
liveness run leaves out `Spike`, since the switch that passes on to a later window is
what could fail to limit. The thresholds, limits and trend values keep only the order that
the comparisons need. The 60m window has no limit of its own, so the container's default
applies.

Fairness. `FairSpec` is weak fairness of time, of the monitor goroutine and of the
restore goroutine: the Go scheduler runs every runnable goroutine and every call
returns or fails. No user, failure, crash or change of load has to happen.

## 4. PodWatch, Annotations, Cgroup

`Annotations` holds the parser as operators: `Limits(ann)` is what
`ParseIopsLimitFromAnnotations` and `ParseBpsLimitFromAnnotations` return together. A
value is an integer, `Malformed` (refused by Atoi or RAMInBytes) or `None` (no such
key); `other` stands for whatever else a pod is annotated with, since the service
compares whole annotations. `Cgroup` holds what the writes leave in the files:
`SetLimits` and `ResetLimits` when they succeed, `Interrupted` when they do not (v1
stops at the file that could not be written). A limit of 0 in a file means none.

### State

| Variable | Code |
|---|---|
| `version` | the cgroup version, chosen at start-up |
| `pods`, `instance` | the API server's pods and the runtime id of each container |
| `cgroup` | the throttle files of the current instance |
| `at` | where `Run` is: before the list, applying it, in the event loop, ended, or blocked for ever (`parked`) |
| `watching`, `queue` | the watch and the events on their way to `ResultChan` |
| `listed`, `work`, `todo` | the list still to be applied, the pod `processPodContainers` works for as it was read, its containers still to do |
| `cache` | `podAnnotations`; the limits it also holds are a function of the annotations |
| `resetting` | what a reset-all process has still to do |
| `unseen`, `cleared`, `failed` | history variables for the exceptions of `Agreement` |

### Actions

`List`, `SkipListed`, `BeginListed` and `OpenWatch` are `Run`; `ListFails` and
`OpenWatchFails` end the process, or park it when `KubeletMode` holds. `SetContainer`,
`SetContainerFails` and `Remember` are `processPodContainers`, one container at a time, with
the environment free to act between any two. `IgnoreAdded`, `IgnoreUnready`,
`IgnoreUnchanged`, `BeginModified` and `Forget` are the cases of `watchPodEvents`; `Exit` is
its end when the channel closes, with which main ends too. `ResetAllContainersIOPSLimit`,
`ResetContainer` and `ResetContainerFails` are the program run once more with the reset-all
option; it may stop at any point, since nothing makes it go on. The environment edits,
deletes and recreates pods, restarts containers in place, closes the watch and kills the
daemon; `Restart` is the kubelet starting it again.

The list shows the state of the API server; a kubelet that lags behind it makes the gap
before the watch longer and nothing else. Containers of a pod are written in any order.
The four files of v1 are written in one step unless one of them fails: nobody else
writes them, except a reset-all that falls into the very same call, which is not
modelled. A bare `max`, which the code writes to `io.max`, is taken to be accepted
as the code takes it; a kernel that refuses it is `SetContainerFails`. Phase and
`Started` are one flag, `ready`; namespaces, labels and keywords are the constants
`Accepted` and `Excluded`.

### Properties and runs

| Run | Expectation | Shows |
|---|---|---|
| `podwatch` | pass | `Agreement`, `CatchesUp`, `TypeOK`: two containers of one pod; one edit, one restart in place, one deletion with recreation, one failure, and one end of the watch, end of the process or reset-all, at any point |
| `podwatch_gap` | violation of `AgreementSinceList` | an edit between list and watch is lost |

`Agreement` is what the code does guarantee: once the service is idle, the cgroups of every
container it serves follow the annotations, except for pods changed before the watch was
open, containers restarted in place or reset and containers whose write failed.
`podwatch_gap` shows that the first exception is needed; `Follows` does not ask v2 to lift a
single item, which it does not do (section 9). The others follow from the code:
`watchPodEvents` compares annotations only (service.go:461), so the fresh cgroup of a
restarted container stays without limits; reset-all leaves the service's cache as it is;
`Remember` is taken whatever the writes returned.

Bounds. Pods share no state but the queue, the cache's map and the one goroutine, so
one pod with two containers has the interleavings: a half-done pod when it is edited,
recreated or when the daemon dies. Each event of the environment happens once and in
any order; two in a row of one kind give no new situation, since one event already
makes the work, the cache and the queue all disagree. Of the two annotations one
limits a single item, beside a negative number and a malformed one, and one lifts
everything; `podwatch_gap` has the defaults instead.

Fairness. Weak fairness of the service's goroutine and of the kubelet that restarts it.
No event of the environment has to happen. The budgets make the environment stop some
day, without which a stream of edits could keep the queue full for ever; `CatchesUp`
says that the service then becomes idle whatever came before, including the closed
watch and the daemon that has to be started again.
`CHECK_DEADLOCK FALSE`: an idle service waits for the next
event, and the budgets of the environment run out.

## 5. Calculator, IOHistory

`Calculator` holds what `AddMetricPoint` and `CalculateIORate` do with the points of one
container, as operators. `IOHistory` is a round of the monitor as far as it collects:
`collectIOStatsFromKubelet`, `collectIOStatsFromCadvisor`, the histories they fill and
the means `AnalyzeContainerTrend` computes. The four items of a sample are treated
alike, so one stands for all; a mean is kept as its total and the number of its steps.
A window is the set of the positions of its points, a total a recursive function: the
proofs of section 10 can reason about either.

| Variable | Code |
|---|---|
| `now`, `next` | the clock, the monitor's ticker |
| `todo` | the containers a cAdvisor round has still to ask for |
| `pending`, `reading` | the containers of the summary that are still to be filed; the last reading the kubelet has of each |
| `byName`, `updated` | `history` as the summary fills it, keyed by `nameOf` the container alone, with `LastUpdate` |
| `byId` | `history` as a cAdvisor round fills it, keyed by the container's id |
| `points` | the calculator's points of the current id |
| `named` | whether the node's cgroups have the names `extractContainerID` looks for |
| `counter`, `load` | the I/O a container has done since it started, and does in one unit of time |
| `log`, `restarted` | history variables: the I/O of every unit of time, the last start |

`SummaryRound` gets a new reading of some containers, the last one again of others (the
kubelet caches) and none of the rest; `FileReading` files them one after the other, in any
order, under the names of the containers, so that two of one name fill one history.
`CadvisorRound` asks for each container with `ConvertCadvisorToIOStats`, which fetches the
metrics anew, adds a point of every container and files the rate of this one;
`GetCadvisorMetricsFails` is the failure of that call and `NoRound` the failure of both
sources. The calls of a round are at different times, before the next round is due. `Tick`,
`LoadChanges`, `ContainerRestarts` are the containers; a restart gives a new id, so that
only the history by name goes on, with a counter that starts from 0. A container restarts
between two rounds.

| Run | Expectation | Shows |
|---|---|---|
| `iohistory` | pass | `MeanWithinLoad`, `RateWithinLoad`, `ExpiredDropped`, `FreshKept`, `TypeOK`, for two containers of two names or of one, with any mixture of sources, missing and repeated readings, one restart and one change of load |

`MeanWithinLoad` is about the containers whose name no other one has (`SoleName`): where two
share a history the mean may be anything (section 9). It compares each mean with the loads
of the time it stands for, which `log` records: it is never above the highest one, also
across a counter that starts anew, and not below the lowest one if none did. A restart may
pull the mean down, below 0 even: docs/CADVISOR_IO_CALCULATION.md:252-259 shows a
calculation that skips such steps, which neither the trends nor the calculator do.
`ExpiredDropped` has the same condition, `FreshKept` has none. `MeanWithinLoad` speaks of
`byName` only, because `byId` holds rates (section 9). With `named` false, which is what
`extractContainerID` makes of names with a suffix such as `.scope`, a cAdvisor round leaves
no samples at all; and with `ExcludeLabelSelector` set it asks for no container
(`shouldMonitorPod`), while the summary ignores that option.

Bounds. Time is in units of a third of the monitor's period; the rate window (2) is
shorter than the period (3) as the code's 15 seconds are shorter than a minute, so that
the rates come from the calls of one round; the history window (5) expires the samples
of the round before last; one mean has a shorter window, one a longer one than the
history. Three rounds are the fewest in which a sample expires beside a fresh one. The
cap of three points instead of 100 is reached. The two containers are symmetric, and
so are the two names.
`CHECK_DEADLOCK FALSE`: time is bounded.

## 6. DiskGuard

The whole daemon: an instance of `SmartLimit` and one of `PodWatch` in one process. Each
keeps its own view of the pods, `objects` (annotations by name, resource version) and
`pods` (what the parser sees, phase), and every step changes both or none: `Propagate`
turns what the manager or a user wrote into a change of the pod that the service gets
an event of, `StatusChanges` (a restart in place, a pod that becomes ready) raises the
resource version under the manager's hands. `Seen` is the one place where
the two spellings of the marker meet: the manager writes `limit-removed`, the parser
looks for `removed`, so what it sees of a release is that the limits are gone.
`StartAgain` ends and starts both halves together; `Alive` stops the manager's goroutines
when `Run` has ended.

| Run | Expectation | Shows |
|---|---|---|
| `diskguard` | pass | `MemoryEnforced`: when both halves are at rest, the files of a container hold what the manager remembers of it |
| `diskguard_liveness` | pass | `HotGetsThrottled`, `CalmGetsLifted`: from the load to the files and back |
| `diskguard_kubelet` | violation of `HotGetsLimited` | in kubelet mode, the default, a hot container is never limited |

`MemoryEnforced` has two exceptions, each of which one half has a run or an account of:
`Served`, the exceptions of `Agreement`, and `Agreed`, memory and annotations that disagree
after a failed call or a conflict, or by a key that no round looks up (section 9). The
liveness properties ask the same of the containers for good. `Throttled` compares the files
with the limits the window imposes, not with the annotations, so an error in between is
seen. Section 10 has the theorem, for any number of pods, containers and disturbances.

Bounds. One container, because what two share is in the runs of the halves;
one disturbance of any kind (edit, failed call, failed write, conflict by a status
change, restart, closed watch, cleanup) at any point, since two of the same half are in its own
runs and what is new here is one half in any state while the other one works. Two trends, of
which one falls through to the second window. The defaults are as shipped: IOPS limited,
bytes not. Rounds read cAdvisor, and in `diskguard_kubelet` the summary.

Fairness. Weak fairness of each goroutine, of time and of the restart, as in the halves;
the watch, which is fair in `PodWatch`, is part of `ServiceStep`. `CHECK_DEADLOCK FALSE`,
because the budgets run out.

## 7. StatusAPI

`SmartLimit` takes each access to the manager's maps as one step. `StatusAPI` cuts them
at every lock and at every read that takes none, for the monitor, the restorer, the
cleaner and the handlers of the HTTP API.

| Variable | Code |
|---|---|
| `mu` | `m.mu`: the readers inside and the writer that owns or awaits it |
| `history`, `status` | the keys of `history`, the entries of `limitStatus` |
| `pc`, `todo`, `cur`, `trends` | where each goroutine is, in the loop it is in |
| `fetched`, `orphan` | the pointer `getLimitStatus` returned; the entry it leads to once the cleaner has deleted it |
| `result` | the limit result a goroutine works with |
| `request` | what a handler serves |
| `steady` | history variable for `SteadyHasTrend` |

The lock is Go's `sync.RWMutex`: a waiting writer keeps new readers out. The monitor's
round is `addIOStats` for each container, the analysis, and per container
`getLimitStatus`, `Decide`, then `shouldRemoveLimit` (`RemoveOrKeep`), the three reads of
`shouldUpdateLimit`, `getOrInitContainerLimit`, and the three writes of
`updateLimitStatus`. The handlers are the routes that `RegisterRoutes` registers, the two
that name a container as one (`AnswerOne`).

Reductions. No goroutine acquires anything while it holds the lock of an entry, so a section
under such a lock is one step, except two that others may read half done: the writes of
`updateLimitStatus`, and the renewal of `LastCheckAt`, which is the place `renewing` between
`RemoveOrKeep` and `LastCheckRenewed`. What the times are is left out. What a handler lists
of its copies (namespace, pod, number) involves nothing shared. Which entries are stale and
what the trends call for are left open.

| Run | Expectation | Shows |
|---|---|---|
| `status` | pass | `TypeOK`, `NeverAsksHolding`, `NilNeverFollowed`, `SteadyHasTrend`, `StatusesWhole`, `EveryRequestAnswered` |

`StatusesWhole` says that whether there is a limit, which and on account of which window are
answered as one `updateLimitStatus` wrote them. It holds although `GetAllLimitStatus` takes
no entry's lock, because these writes also hold `m.mu`. The renewal of `LastCheckAt`
(smartlimit.go:174-178) does not, so of that field nothing is claimed: section 9.
`NilNeverFollowed` holds because a fresh entry, which is limited before it has a result, is
tested for nil, and nobody but the monitor itself sets a result back to nil. A change of
either would break them.

Bounds. Two containers, of which one is judged and announced, and one connection: readers do
not exclude each other, so a second handler adds no blocking that a writer does not. Of the
routes, one for each way of using the lock. Everything else runs without a bound.

Fairness. Weak for the three background goroutines: each can go on whenever it may. Strong
for a handler, because Go's RWMutex lets waiting readers in when a writer leaves:
a handler that asks again and again finds the lock readable infinitely often. No client
has to ask.

## 8. Node, Runtime, Config

`Node` is one node with the processes of the program on it: the daemon, which the kubelet
starts again whenever it ends, and reset-all, which an administrator runs beside it.

| Variable | Code |
|---|---|
| `node`, `env` | what the node is like (runtime, cgroup version and driver, where the pods' cgroups hang, what is installed in the image, the forms of `max` the kernel takes, the network), the environment variables |
| `up`, `running`, `files` | the runtime's socket, the cgroups and their throttle files |
| `at`, `http`, `conf`, `code` | per program: where `main` is, its server, its configuration, how its last process ended |
| `todo` | the containers reset-all has still to do |
| `call`, `returned` | per program: the `SetLimits` or `ResetLimits` in progress, what the last one returned |
| `listed`, `failed`, `touched` | history variables for `ResetAllLifts`; the field `alone` of a call is one too |

The start of a process is `Start` (configuration from the environment, `LoadFromEnv`),
`Detect`, `NewRuntime`, `NewClient`, each with its failure (`log.Fatalf`), and the
server's goroutine (`Listen`, `ListenFails`), whose failure ends the process wherever main is;
then the daemon runs (or panics, `TickerPanics`) and reset-all lists and resets. In API mode
`Run` returns when the list or the watch fails or a watch is closed, and main ends with it
(`RunReturns`); a failed list and a failed watch of kubelet mode, and a daemon without a
client, block for ever instead. A call
is `Prepare` (look the container up, find the device, build the path; one step, since all
of them only read), under v2 the test whether the path exists, and the writes one by one:
four files under v1, one under v2, where a reset tries up to three forms of `max`.
`Runtime` holds the paths: what the runtimes report, what `getCgroupPath` and
`convertSystemdCgroupPath` make of it, and where the cgroups really are.

Two simplifications: a server with a port of its own listens at once, and when reset-all
ends its history variables are cleared.

| Run | Expectation | Shows |
|---|---|---|
| `node` | pass | `TypeOK`, `OnlyItsOwn`, `NilMeansDone`, `ResetAllLifts`, `ComesUp`, `ResetAllEnds` |
| `node_systemd` | violation of `Found` | on a kubeadm node (v2, systemd driver) the path built for a container does not exist |

`OnlyItsOwn` is about the worst that a wrong path could do: limit a neighbour or the pod.
`NilMeansDone` and `ResetAllLifts` relate what a program claims to what is in the files,
through exits, refusals and the other program. `ComesUp` says that the daemon runs again and
again, and for good where `Run` does not return: the API server closes every watch sooner or
later, so in API mode no daemon runs for good. It asks for a configuration that
fits the node (`Sound`): a runtime of the node, a positive interval, the node's name in
API mode, and no client of another runtime in the image, which detection would take for
the node's while its socket is down.

Bounds. Six cases pair a node with an environment and containers, so that each runtime,
version, driver, each kind of kernel and each way in which a start fails occurs; every state
of one case is explored, with one reset-all and one outage or kill. Two containers in one
case, which is where one could be taken for the other. The limits asked for set one item of
two.

Fairness. Weak fairness of both goroutines of each program, of the kubelet that starts the
daemon and of the runtime that comes up. No kill, outage or closed watch has to happen. Kills
and outages are bounded, without which nothing could be promised to come up; the returns of
`Run` are not. A call of the runtime returns or fails: one that hangs, which has no
timeout in the code, is not modelled. Which pods `ShouldProcessPod` accepts is left open, all
or none.
`CHECK_DEADLOCK FALSE`: an idle daemon waits.

## 9. Known disagreements

Where the code does something else than its documents say, or than one would expect. Four
have a run that shows it (`podwatch_gap`, `diskguard_kubelet`, `node_systemd`,
`smartlimit_names`). The others can be shown by changing
the constants of a run as said, or follow from the lines named:

* Names and ids. A round that reads the summary, which the collector tries first, files a
  container by its bare name (metrics_collector.go:52, 61), restoration files it by its id
  (state_recovery.go:36-37). After a restart the restored entry is one that no round looks
  up: a container that is calm keeps its limit, one that is hot is limited anew
  (`smartlimit_names`). docs/STATUS_RESTORATION_GUIDE.md:193 says that no limit is lost. Where
  some rounds read the summary and some cAdvisor, one container has an entry by each key,
  which know nothing of each other: with `Sources = {"summary", "cadvisor"}` in
  `SmartLimitSafety.cfg`, `RemovalDelayed` and `KeepsPromise` are violated.
* Two pods with containers of one name. Where rounds read the summary they share history,
  status and, since addIOStats names the pod when it makes an entry
  (metrics_collector.go:116-127), the pod that is limited: the one that came first, even
  after it is gone, and the second one is never limited. Their counters alternate in one
  history, so the means may be anything: without `SoleName`, `MeanWithinLoad` is violated in
  `IOHistory.cfg`, and so is `ExpiredDropped`, since the second one's sample is filed behind
  a fresh one.
* Exclusion by label. With `ExcludeLabelSelector` set, `shouldMonitorPod` excludes every pod
  (utils.go:67-70): rounds that read the summary, which do not ask it
  (metrics_collector.go:42), impose limits that restoration then passes over
  (state_recovery.go:24).
* Exemptions. A removal drops every annotation with the prefix, a user's `0` among them
  (smartlimit.go:393-397), so the limit that comes next is imposed on the exempted item too:
  an exemption lasts until the first removal. `ExemptionSurvives` says nothing of it.
* `LastCheckAt`. The monitor renews it under the entry's lock alone (smartlimit.go:174-178),
  `GetAllLimitStatus` copies it under `m.mu` alone (676-688): a data race, although the comment
  there says that the copy avoids such (“创建副本以避免并发问题”). Add `ChecksWhole` to
  `StatusAPI.cfg`: it is violated.
* The marker. `removeSmartLimit` writes `limit-removed` (smartlimit.go:401), no later
  limit clears it (586-629), and restoration skips the pod (state_recovery.go:52): after a
  restart that limit is never lifted. docs/STATUS_RESTORATION_GUIDE.md:193 says that no
  limit is lost. Set `Sources = {"cadvisor"}`, `MaxCrashes = 1`, `MaxSwings = 3`,
  `Trends <- TwoTrends` in `SmartLimitLiveness.cfg`: `CalmGetsReleased` is violated.
* Two containers of one pod. Memory is per container, annotations are per pod: the release of one
  strips the limit of the other for good (smartlimit.go:391-407, 469-489), against
  docs/SMART_LIMIT_GUIDE.md:58. There set `Sources = {"cadvisor"}`,
  `Containers = {c1, c2}`, `Trends <- TwoTrends`, `MaxSwings = 1`,
  with `c2` declared in `MCSmartLimit`: `HotGetsLimited` is violated.
* The check interval. Each round that keeps a limit renews `LastCheckAt`
  (smartlimit.go:174-178, 334-337), so with a monitor's period below the check interval,
  as docs/SMART_LIMIT_GUIDE.md:270 recommends, no limit is ever lifted (64-65 says it is). There set
  `Sources = {"cadvisor"}`, `CheckInterval = 2`, `Trends <- TwoTrends`, `MaxSwings = 1`:
  `CalmGetsReleased` is violated.
* Failed calls. Errors of `GetPod` and `UpdatePod` are swallowed and memory is updated all
  the same (smartlimit.go:169-171, 194-207): memory and annotations disagree from then on,
  against docs/STATUS_RESTORATION_GUIDE.md:194. A restoration that works through an old list
  has the same effect. `Agreed` of `DiskGuard` names this state.
* Windows. `shouldRemoveLimit` looks at the window that triggered the limit only
  (smartlimit.go:341-358); docs/SMART_LIMIT_GUIDE.md:56-58 asks for all three.
* Rates from cAdvisor. `ConvertCadvisorToIOStats` returns rates (kubelet.go:380-394), the
  collector files them like counters (metrics_collector.go:100-103), and the trend takes
  their differences (metrics_analysis.go:60-70): 0 under any steady load.
* Zero under v2. `SetLimits` leaves an item of value 0 out of the line it writes
  (cgroup.go:236-248), so the kernel keeps its old limit unless all are 0; cgroup.go:185
  and docs/USER_GUIDE.md:46 say it is lifted.
* Failed writes. `processPodContainers` swallows errors and the annotations are remembered
  as applied (service.go:468): they are not tried again until they change.
* The routes with `{id}` (server.go:40, 44) ask for a parameter `containerID`
  (server.go:99-102), so they always answer 400, against docs/HTTP_API_GUIDE.md:38-46 and 71-79.
* reset-all with the default configuration, in which smart limits are disabled, has no
  client and panics (service.go:482, main.go:25); main.go:77 reports success although the
  errors of single containers were logged only. `Node` has both (`ListPodsPanics`, `Done`).
* A monitor interval of 0 or less panics in `time.NewTicker` (`TickerPanics`).

Of the priority of the keys, docs/DEV_GUIDE.md:91 and README.md:171 state the reverse of
`BothKeyWins` (section 10).

## 10. Proofs

`SmartLimitProofs` proves, for any constants that satisfy `ConstantsOK` and
`NoneIsNoValue`:

* `TypeCorrect`: `Spec => []TypeOK`, by one lemma for each group of actions. `TypeOK`
  is inductive because it ties `copy` and `cur` to the monitor's `step`.
* `UserDataIsSafe` and `ExemptionIsSafe`: only `UpdatePod` writes annotations without a user
  (`Writers`), and what it writes is derived from the current annotations of the pod. That
  is the inductive invariant `CopyCurrent`: the copy in the monitor's hands has a version no
  newer than the pod's, and if it has the pod's version, which is the only case in which the
  API server accepts it, it has the pod's annotations. `ExemptionIsSafe` is about the `0`
  that is on the pod when the limit is written, and no more.
* `RemovalIsDelayed`: under the assumption `SoleKey` (all that is filed of a pod, whatever
  source a round reads, is filed by one key, and by that of no other pod), by the invariant
  that an entry of the status of a limited container is never older than the last write to
  its pod, and that a removal in progress was due when it was decided. `Owned` says that
  every entry of the history, and the work that goes on for it, names the pod of its
  containers, which two pods with containers of one name would break.
* `Implements`: under `SoleKey`, `Spec => KeepsPromise`. The initial states
  are the same; `WriteIsAtomic` maps an accepted update to `Impose` or `Release`, using
  `CopyCurrent` and, for the delay, the invariant of `RemovalIsDelayed`; `EditIsAtomic`
  maps the users' edits, `Hidden` the rest.
* `KnownUntilDisturbed`: under `KnownByIds`, which is `SoleKey`, rounds that read cAdvisor and
  no label selector, `Spec => []Tracked`: as long as no user edited, no call failed and no
  cleanup ran, every limit announced is known, across any number of restarts. With
  rounds that read the summary it is false (`smartlimit_names`). `Tracked` says nothing of a
  restoration or a removal in progress, so it is not inductive. `TrackInv` adds what is to
  be restored: `Known` (a limit on a pod is known, or the restorer has still to come to
  it, or the monitor has it in hand), `Removed` (an entry without a limit belongs to a pod
  that announces none), `CopyExact` (what the monitor read is what the pod has) and
  `NeverWrites` (in kubelet mode it never gets to write), all as long as `Undisturbed`. The
  condition is needed: each of the disturbances breaks what `Tracked` asks, and section 9
  says how.

* `AnnotationsBearTheirWindow`: where users do not write limits (`UserKeys = {}`), a pod
  that names a window bears every limit the window imposes, any other pod none. A write
  comes long after the decision and the read it is made of, so the inductive invariant
  `Written` says the same of the copy in the monitor's hands, and of the decision that
  it is what the window's configuration gives.

`PodWatchProofs` proves, for any constants that satisfy `DefaultsOK`,
`ServiceConstantsOK` and `NoneIsNoObject`:

* `LimitsAreNumbers`, `RemovedLiftsAll`, `BothKeyWins`, `LegacyOnlyAlone` about the
  parser.
* `SetLimitsV1` and `SetLimitsV2`: what a successful write leaves in the files. For v2
  it says nothing of an item of value 0 beside a positive one (section 9).
* `ServiceTyped`: `Spec => []TypeOK`, by one lemma for each group of actions. `TypeOK` is
  inductive as it stands: it ties `todo` to `work`, and the parser and cgroup lemmas
  show that a file holds a natural number whatever the annotations are.

`AgreementProofs` extends `PodWatchProofs` and proves, under the same assumptions,

* `IdleAgrees`: `Spec => []Agreement`. What a pod asks for is followed from the API server
  to the files. `AInv` is `TypeOK` and eight parts, all needed together:
  * `Phases`: which of list, watch and queue there is where `Run` is;
  * `Lists`: what was listed is how the pod still is, unless it is in `unseen`;
  * `LastShows`, `LastModified`: the last event of a pod that is served is a Modified
    event, and shows the pod as it is, unless only Added events of it are left (which the
    service ignores);
  * `Ids`: the runtime ids of a container grow from the work along the queue to the node;
  * `Instances`: they are the current ones, unless a deletion is still to be heard of or
    the container was restarted in place. Without this part `SetContainer` might have
    written the files of a container that is no more;
  * `Applied`: a container that is not to do, cleared or failed follows the annotations of
    the work in progress, or else of the cache;
  * `Known`: what a served pod asks for is in the list, in the queue, in the work or in
    the cache.

`StatusAPIProofs` proves, for any constants that satisfy the assumptions of `StatusAPI` (any
number of handlers and containers):

* `NoSelfDeadlock`: `Spec => []NeverAsksHolding`, from `LockInv`: every goroutine is at one
  of its own places, and a writer inside excludes everybody else who is inside.
* `TypeCorrect`, `NilIsNeverFollowed`, `SteadyHasItsTrend`, `AnswersAreWhole`, from one
  inductive invariant `IInv`: `TypeOK`, `LockInv`, `Holds` (what a goroutine has in hand at
  each place), `Points` (the pointer of `getLimitStatus` stays what it was tested to be,
  whether the cleaner deletes the entry or not), `Rewritten` (of limit, result and window an
  entry is whole, or one goroutine inside `m.mu` is between its three writes to it) and
  `Stays` (what is never deleted during an analysis is still to do or has its trend).

`IOHistoryProofs` proves, for any constants that satisfy `MaxPointsOK` and
`HistoryConstantsOK` (any loads, windows, periods, any number of containers, missed
rounds and restarts, and containers that share names):

* Lemmas about the operators: `TruncatedWithin` (the truncated quotient), `AddedAtTheEnd`
  (what `addIOStats` returns is an end of the history with the sample at its end; it has
  every sample that had not expired, and begins with such a one unless the new one had
  expired itself), `PointAtTheEnd` (the same of `AddMetricPoint`, with its cap),
  `TotalWithin` (slopes within bounds have a total within them).
* `TypeCorrect`, `ExpiredAreDropped`, `FreshAreKept`, `RateIsWithinLoad`,
  `MeanIsWithinLoad`, from `IOInv`; `MeanIsWithinLoad` and `ExpiredAreDropped` say nothing
  of containers that share a name. The properties compare numbers with the least and the
  greatest load of a stretch of time. The invariant has no sum of loads and no extreme one:
  `AtMost` and `AtLeast` say of a rise that for *every* number m that bounds the load of
  each unit it is bounded by m times the units. `Readings` asks this between any two
  readings, and from each of them to the present counter, which is what makes it inductive;
  readings older than the container's start are exempt from `AtLeast`. `Rates` says the same
  of what the calculator returned, `Younger` that nothing filed by an id is older than its
  container, `Clock` that the log has one entry for each unit of time.

Induction. The provers cannot use the library's induction theorems, which take an
operator. Where a lemma needs it (`LogBounded`, `MaxOfNumbers`, `SumExists`, `SumWithin`)
the proof takes the set of the numbers that refute the claim and its least element
(`LeastNumber`, from the well-foundedness of Nat), which is impossible.

`NodeProofs` proves, for any constants that satisfy `NodeConstantsOK` and `CasesOK` (no
directory above a container has the name of a container), that is for any set of nodes,
environments and containers:

* `PathsApart`: the path built for a container is neither where another container's cgroup
  is nor where the pod's is. The argument is the last component: all places of containers
  end in their own name, and the glued and converted paths do not end in another's.
  `PathFound` names the nodes on which the path is right: those with the cgroupfs driver,
  and containerd with v2, the systemd driver and the pods below `kubelet.slice`.
* `TypeCorrect`: `Spec => []TypeOK`.
* `OnlyItsOwn`, `NilMeansDone`, `ResetAllLifts` (`OwnLimitsOnly`, `NilIsDone`,
  `ResetLifts`), from one inductive invariant `IInv`: `TypeOK`, and
  * `Configured`: both programs of a node end up with the same cgroup version, so that
    they build the same path for a container;
  * `Elsewhere`: a container that is not at its path is never written;
  * `Counted`: a call that has not come to its writes has made none;
  * `Kept`: a call that was alone so far has left what it wrote so far in the files,
    which under v1 is one file more after each write;
  * `Lifting`: of what reset-all listed, each container is still to do, in progress,
    gone, failed, written by the daemon since, or unlimited.

`DiskGuardProofs` proves, for any constants that satisfy the assumptions of both halves,

* `MemoryIsEnforced`: `Spec => []MemoryEnforced`. The invariant `DInv` puts the halves
  together: the manager's `TypeOK` and `Written`, the service's `AInv`, and
  * `Paired`: no pod is gone, and what the service is shown of a pod is `Seen` of the
    annotations the manager knows.

  A step of the manager is no step of `PodWatch`, so `AInv` needs a lemma of its own for it
  (`EditKeeps` of `AgreementProofs`: a change of a pod that leaves its containers alone), and
  `Paired` needs that such a step changes one pod only (`OnePodChanges` of
  `SmartLimitProofs`). At rest, `ParserReads` says that the parser reads what the manager
  wrote, and the defaults where it wrote nothing; with `Written` and `Agreement` this takes
  the memory to the files. `M` and `A` are the halves once more, as instances of their proof
  modules; `SameManager` and `SameService` say that their actions are those of `DiskGuard`.

The inductive invariants of this section (`TrackInv`, `AInv`, `IInv`, `IOInv`, `DInv`) were
checked with TLC on the instances of the runs before they were proved.

Model-checked only: the liveness properties (fairness and ENABLED are beyond the
prover) and the violations.

## 11. What is not modelled

* The HTTP client of the kubelet, its TLS and authentication: I/O. `NewKubeClient` is
  called by the examples only; `CreateEvent` writes events nothing reads.
* Text: the parsing of the metrics and of quantities beyond what it accepts, JSON, logs,
  names, labels and images of containers.
* Code that nothing in the daemon reaches: `applySmartLimit` (a decision to limit
  always carries a result), `SetIOPSLimit`, `SetBPSLimit` and their resets (tests only),
  `ProcessExistingContainers`, `WatchPodEvents`, the calculator's `CleanupOldData`, averages and
  statistics, `handleGetContainerTrend`, `handleGetContainerStatus` and `metrics_api.go`
  (no route), and the option `CONTAINER_IOPS_LIMIT` of README.md:201.
* Tools, examples, scripts and manifests.
