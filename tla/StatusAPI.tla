---- MODULE StatusAPI ----
(***************************************************************************)
(* The manager's memory as its goroutines share it.  The monitor and the   *)
(* restorer write it, the cleaner deletes from it, and the handlers of the *)
(* HTTP API (pkg/api) read it at any time, under the RWMutex m.mu and one  *)
(* lock in each entry.  SmartLimit takes each of these accesses as one     *)
(* step; here they are cut at every lock and at every read without one.    *)
(*                                                                         *)
(* No goroutine acquires anything while it holds the lock of an entry, so  *)
(* a section under such a lock is one step, except the two whose writes    *)
(* others may read half done: updateLimitStatus, and the monitor's renewal *)
(* of LastCheckAt, the one write to an entry outside of m.mu.  Which       *)
(* entries are stale, and what the trends call for, is left open.          *)
(***************************************************************************)
EXTENDS Integers, FiniteSets

CONSTANTS
    Containers, None,
    Handlers,      \* goroutines that serve a connection each
    Requests,      \* the routes that clients use
    Judged,        \* the limit results the monitor may come to for each container
    Announced,     \* the containers whose pods announce a limit at the start,
    Restored       \* and the limit result the restorer parses for each

Background == {"monitor", "restorer", "cleaner"}
Threads == Background \cup Handlers

LimitResult == [triggeredBy: {"15m", "30m", "60m"}, limit: Nat]
LimitStatus == [isLimited: BOOLEAN, result: LimitResult \cup {None},
                triggeredBy: {"15m", "30m", "60m"} \cup {None}]
Blank == [isLimited |-> FALSE, result |-> None, triggeredBy |-> None]

\* The routes, /containers with and without include_trend; "one" is either of the
\* routes that name a container.
Routes == {"containers", "containers+trend", "limit-status", "info", "one"}

ASSUME StatusConstantsOK ==
    /\ Handlers \cap Background = {}
    /\ IsFiniteSet(Containers)
    /\ Judged \in [Containers -> SUBSET LimitResult]
    /\ Announced \subseteq Containers
    /\ Restored \in [Announced -> LimitResult]
    /\ Requests \subseteq Routes

ASSUME NoneIsNotUsed ==
    None \notin Nat \cup LimitResult \cup LimitStatus \cup Threads \cup Containers

VARIABLES
    mu,        \* m.mu: its readers, and the writer that owns or awaits it
    history,   \* m.history: the containers with an entry
    status,    \* m.limitStatus: the LimitStatus of each container, None when there is none
    pc,        \* where each goroutine is
    todo,      \* the containers its loop has still to visit
    cur,       \* the one it is at
    fetched,   \* the monitor got a LimitStatus from getLimitStatus, not a nil pointer,
    orphan,    \* and this is it when the cleaner has deleted it from the map since
    result,    \* the limit result it works with
    trends,    \* the containers whose trends AnalyzeAllContainerTrends has for it
    request,   \* the route of the request a handler serves
    steady     \* history variable: the containers filed ever since a request for
               \* trends arrived, or since their histories were copied for it
memory == <<history, status>>
pointer == <<fetched, orphan>>
serving == <<request, steady>>
vars == <<mu, memory, pc, todo, cur, pointer, result, trends, serving>>

Init ==
    /\ mu = [readers |-> {}, writer |-> None]
    /\ history = {}
    /\ status = [c \in Containers |-> None]
    /\ pc = [t \in Threads |-> "idle"]
    /\ todo = [t \in Threads |-> {}]
    /\ cur = [t \in Threads |-> None]
    /\ fetched = FALSE /\ orphan = None
    /\ result = [t \in Threads |-> None]
    /\ trends = [t \in Threads |-> {}]
    /\ request = [h \in Handlers |-> None]
    /\ steady = [h \in Handlers |-> {}]
----
(***************************************************************************)
(* sync.RWMutex: a writer waits for the readers inside, and no new reader  *)
(* enters while one waits.                                                 *)
(***************************************************************************)
Readable == mu.writer = None
Owns(t) == mu.writer = t /\ mu.readers = {}

Goto(t, place) == pc' = [pc EXCEPT ![t] = place]

\* A goroutine is done with the container it was at.
Leave(t) ==
    /\ cur' = [cur EXCEPT ![t] = None] /\ result' = [result EXCEPT ![t] = None]
    /\ IF t = "monitor" THEN fetched' = FALSE /\ orphan' = None ELSE UNCHANGED pointer
At(t, place) == pc[t] = place

Lock(t, place) ==
    /\ mu.writer = None
    /\ mu' = [mu EXCEPT !.writer = t]
    /\ Goto(t, place)

Unlock == mu' = [mu EXCEPT !.writer = None]

\* A goroutine holds the lock of c's entry: it is between the writes of updateLimitStatus,
Writing(c) == \E t \in Background : pc[t] \in {"result", "window"} /\ cur[t] = c

\* or the monitor is writing LastCheckAt, in an entry that is still in the map.
Renewing(c) == At("monitor", "renewing") /\ cur["monitor"] = c /\ orphan = None

(***************************************************************************)
(* AnalyzeAllContainerTrends, for the monitor and for the handlers: m.mu   *)
(* is taken again for each container and is free in between.               *)
(***************************************************************************)
ListContainers(t) ==
    /\ At(t, "list") /\ Readable
    /\ todo' = [todo EXCEPT ![t] = history]
    /\ trends' = [trends EXCEPT ![t] = {}]
    /\ Goto(t, "look")
    /\ UNCHANGED <<mu, memory, cur, pointer, result, serving>>

\* Faulty: gives up at a container that is gone.
LookUp_Stop(t) ==
    \E c \in todo[t] :
        /\ At(t, "look") /\ Readable
        /\ IF c \in history THEN cur' = [cur EXCEPT ![t] = c] /\ Goto(t, "copy") /\ UNCHANGED todo
           ELSE todo' = [todo EXCEPT ![t] = {}] /\ UNCHANGED <<pc, cur>>
        /\ UNCHANGED <<mu, memory, pointer, result, trends, serving>>

\* Faulty: waits for a container that is gone to come back.
LookUp_Wait(t) ==
    \E c \in todo[t] :
        /\ At(t, "look") /\ Readable /\ c \in history
        /\ cur' = [cur EXCEPT ![t] = c] /\ Goto(t, "copy")
        /\ UNCHANGED <<mu, memory, todo, pointer, result, trends, serving>>

LookUp(t) ==
    \E c \in todo[t] :
        /\ At(t, "look") /\ Readable
        /\ IF c \in history THEN cur' = [cur EXCEPT ![t] = c] /\ Goto(t, "copy") /\ UNCHANGED todo
           ELSE todo' = [todo EXCEPT ![t] = @ \ {c}] /\ UNCHANGED <<pc, cur>>
        /\ UNCHANGED <<mu, memory, pointer, result, trends, serving>>

CopyStats(t) ==
    /\ At(t, "copy")
    /\ trends' = [trends EXCEPT ![t] = @ \cup {cur[t]}]
    /\ todo' = [todo EXCEPT ![t] = @ \ {cur[t]}]
    /\ Goto(t, "look") /\ Leave(t)
    /\ UNCHANGED <<mu, memory, serving>>

\* The monitor goes on to judge what it analysed, a handler to answer.
Analysed(t) ==
    /\ At(t, "look") /\ todo[t] = {}
    /\ IF t = "monitor"
       THEN /\ todo' = [todo EXCEPT ![t] = trends[t]]
            /\ trends' = [trends EXCEPT ![t] = {}] /\ Goto(t, "judge")
       ELSE Goto(t, "answer") /\ UNCHANGED <<todo, trends>>
    /\ UNCHANGED <<mu, memory, cur, pointer, result, serving>>

Analyze(t) == ListContainers(t) \/ LookUp(t) \/ CopyStats(t) \/ Analysed(t)

(***************************************************************************)
(* The monitor: addIOStats for each container that is reported, the        *)
(* analysis, then applyLimitForContainer for each trend.                   *)
(***************************************************************************)
BeginRound ==
    /\ At("monitor", "idle")
    /\ todo' = [todo EXCEPT !["monitor"] = Containers]
    /\ Goto("monitor", "add")
    /\ UNCHANGED <<mu, memory, cur, pointer, result, trends, serving>>

LockToAdd ==
    /\ At("monitor", "add")
    /\ \E c \in todo["monitor"] : cur' = [cur EXCEPT !["monitor"] = c]
    /\ Lock("monitor", "adding")
    /\ UNCHANGED <<memory, todo, pointer, result, trends, serving>>

addIOStats ==
    LET c == cur["monitor"] IN
    /\ At("monitor", "adding") /\ Owns("monitor")
    /\ history' = history \cup {c}
    /\ todo' = [todo EXCEPT !["monitor"] = @ \ {c}]
    /\ Unlock /\ Goto("monitor", "add") /\ Leave("monitor")
    /\ UNCHANGED <<status, trends, serving>>

Collected ==
    /\ At("monitor", "add") /\ todo["monitor"] = {}
    /\ Goto("monitor", "list")
    /\ UNCHANGED <<mu, memory, todo, cur, pointer, result, trends, serving>>

FindHistory(c) ==
    /\ At("monitor", "judge") /\ c \in todo["monitor"] /\ Readable
    /\ todo' = [todo EXCEPT !["monitor"] = @ \ {c}]
    /\ IF c \in history THEN cur' = [cur EXCEPT !["monitor"] = c] /\ Goto("monitor", "find")
       ELSE UNCHANGED <<pc, cur>>
    /\ UNCHANGED <<mu, memory, pointer, result, trends, serving>>

\* Faulty: does not ask whether there is an entry.
getLimitStatus_Unchecked ==
    /\ At("monitor", "find") /\ Readable
    /\ fetched' = TRUE /\ UNCHANGED orphan
    /\ \E r \in Judged[cur["monitor"]] \cup {None} : result' = [result EXCEPT !["monitor"] = r]
    /\ Goto("monitor", "decide")
    /\ UNCHANGED <<mu, memory, todo, cur, trends, serving>>

\* getLimitStatus, and what shouldApplyLimitGraded makes of the trend.
getLimitStatus ==
    /\ At("monitor", "find") /\ Readable
    /\ fetched' = (status[cur["monitor"]] # None) /\ UNCHANGED orphan
    /\ \E r \in Judged[cur["monitor"]] \cup {None} : result' = [result EXCEPT !["monitor"] = r]
    /\ Goto("monitor", "decide")
    /\ UNCHANGED <<mu, memory, todo, cur, trends, serving>>

\* The object the monitor fetched, as it is now: no lock is held to read it.
Fetched == IF orphan = None THEN status[cur["monitor"]] ELSE orphan
Fixed == <<mu, memory, todo, trends, serving>>

Step(place) == Goto("monitor", place) /\ UNCHANGED <<Fixed, cur, pointer, result>>
NextContainer == Goto("monitor", "judge") /\ Leave("monitor") /\ UNCHANGED Fixed

Decide ==
    LET limited == fetched /\ Fetched.isLimited
        wanted == result["monitor"] # None
    IN
    /\ At("monitor", "decide")
    /\ CASE wanted /\ limited -> Step("compare")
         [] wanted /\ ~limited -> Step("limit")
         [] ~wanted /\ limited -> Step("remove")
         [] OTHER -> NextContainer

\* shouldRemoveLimit, under the entry's lock: a limit that goes is recorded as gone, and
\* for one that stays the monitor takes that lock again, without m.mu, to renew LastCheckAt.
RemoveOrKeep ==
    /\ At("monitor", "remove")
    /\ (orphan = None => ~Writing(cur["monitor"]))
    /\ Step("renewing") \/ (Fetched.triggeredBy # None /\ Step("lock"))

LastCheckRenewed == At("monitor", "renewing") /\ NextContainer

\* Faulty: the nil check is left out.
CheckForNil_Skipped == At("monitor", "compare") /\ Step("trigger")

\* shouldUpdateLimit, one read of the entry after another: LimitResult, TriggeredBy,
\* and what LimitResult points to.
CheckForNil ==
    /\ At("monitor", "compare")
    /\ IF Fetched.result = None THEN NextContainer ELSE Step("trigger")

CompareTrigger ==
    /\ At("monitor", "trigger")
    /\ Step(IF Fetched.triggeredBy # result["monitor"].triggeredBy THEN "limit" ELSE "values")

CompareValues ==
    /\ At("monitor", "values") /\ Fetched.result # None
    /\ IF Fetched.result.limit # result["monitor"].limit THEN Step("limit") ELSE NextContainer

\* getOrInitContainerLimit, when the pod was found: a short stay in m.mu as writer.
getOrInitContainerLimit ==
    /\ At("monitor", "limit")
    /\ mu.writer = None /\ mu.readers = {}
    /\ Step("lock")

PodNotFound == At("monitor", "limit") /\ Step("lock")

RoundEnds ==
    /\ At("monitor", "judge") /\ todo["monitor"] = {}
    /\ Goto("monitor", "idle")
    /\ UNCHANGED <<mu, memory, todo, cur, pointer, result, trends, serving>>

(***************************************************************************)
(* updateLimitStatus, for the monitor and for the restorer, under m.mu and *)
(* the entry's lock: its fields are written one after the other.           *)
(***************************************************************************)
LockToUpdate(t) ==
    /\ At(t, "lock") /\ Lock(t, "update")
    /\ UNCHANGED <<memory, todo, cur, pointer, result, trends, serving>>

WriteIsLimited(t) ==
    LET old == IF status[cur[t]] = None THEN Blank ELSE status[cur[t]] IN
    /\ At(t, "update") /\ Owns(t) /\ ~Renewing(cur[t])
    /\ status' = [status EXCEPT ![cur[t]] = [old EXCEPT !.isLimited = (result[t] # None)]]
    /\ Goto(t, "result")
    /\ UNCHANGED <<mu, history, todo, cur, pointer, result, trends, serving>>

WriteLimitResult(t) ==
    /\ At(t, "result")
    /\ status' = [status EXCEPT ![cur[t]].result = result[t]]
    /\ Goto(t, "window")
    /\ UNCHANGED <<mu, history, todo, cur, pointer, result, trends, serving>>

WriteTriggeredBy(t) ==
    /\ At(t, "window")
    /\ status' = IF result[t] = None THEN status
                 ELSE [status EXCEPT ![cur[t]].triggeredBy = result[t].triggeredBy]
    /\ Unlock /\ Goto(t, IF t = "monitor" THEN "judge" ELSE "restore") /\ Leave(t)
    /\ UNCHANGED <<history, todo, trends, serving>>

UpdateLimitStatus(t) ==
    LockToUpdate(t) \/ WriteIsLimited(t) \/ WriteLimitResult(t) \/ WriteTriggeredBy(t)

\* restoreLimitStatus: the containers whose pods announce a limit, one by one.
ListPods ==
    /\ At("restorer", "idle")
    /\ todo' = [todo EXCEPT !["restorer"] = Announced]
    /\ Goto("restorer", "restore")
    /\ UNCHANGED <<mu, memory, cur, pointer, result, trends, serving>>

RestoreContainer(c) ==
    /\ At("restorer", "restore") /\ c \in todo["restorer"]
    /\ todo' = [todo EXCEPT !["restorer"] = @ \ {c}]
    /\ cur' = [cur EXCEPT !["restorer"] = c]
    /\ result' = [result EXCEPT !["restorer"] = Restored[c]]
    /\ Goto("restorer", "lock")
    /\ UNCHANGED <<mu, memory, pointer, trends, serving>>

RestoreEnds ==
    /\ At("restorer", "restore") /\ todo["restorer"] = {}
    /\ Goto("restorer", "done")
    /\ UNCHANGED <<mu, memory, todo, cur, pointer, result, trends, serving>>

(***************************************************************************)
(* cleanupHistory: both maps are swept in one stay in m.mu, with the lock  *)
(* of every entry in turn.                                                 *)
(***************************************************************************)
LockToClean ==
    /\ At("cleaner", "idle") /\ Lock("cleaner", "clean")
    /\ UNCHANGED <<memory, todo, cur, pointer, result, trends, serving>>

cleanupHistory(stale, unchecked) ==
    /\ At("cleaner", "clean") /\ Owns("cleaner")
    /\ \A c \in Containers : ~Renewing(c)
    /\ history' = history \ stale
    /\ status' = [c \in Containers |-> IF c \in unchecked THEN None ELSE status[c]]
    /\ steady' = [h \in Handlers |-> steady[h] \ stale]
    /\ orphan' = IF fetched /\ orphan = None /\ cur["monitor"] \in unchecked
                 THEN status[cur["monitor"]] ELSE orphan
    /\ Unlock /\ Goto("cleaner", "idle")
    /\ UNCHANGED <<todo, cur, fetched, result, trends, request>>

(***************************************************************************)
(* The handlers.  What is listed of the copies they take, by namespace,    *)
(* pod and number, is left out: it involves nothing that is shared.        *)
(***************************************************************************)
Arrive(h, route) ==
    /\ pc[h] \in {"idle", "ok", "refused"}
    /\ request' = [request EXCEPT ![h] = route]
    /\ steady' = [steady EXCEPT ![h] = IF route = "info" THEN history ELSE {}]
    /\ Goto(h, CASE route = "info" -> "list"
                 [] route = "containers+trend" -> "containers"
                 [] OTHER -> route)
    /\ UNCHANGED <<mu, memory, todo, cur, pointer, result, trends>>

Answer(h, outcome) ==
    /\ Goto(h, outcome)
    /\ request' = [request EXCEPT ![h] = None]
    /\ trends' = [trends EXCEPT ![h] = {}]
    /\ steady' = [steady EXCEPT ![h] = {}]
    /\ UNCHANGED <<mu, memory, todo, cur, pointer, result>>

\* Faulty: m.mu is not taken.
GetAllLimitStatus_Unlocked(h) == At(h, "limit-status") /\ Answer(h, "ok")

\* Copies every entry in one stay in m.mu, and takes the lock of none.
GetAllLimitStatus(h) == At(h, "limit-status") /\ Readable /\ Answer(h, "ok")

\* GetAllContainerHistory holds m.mu while it takes the lock of each entry in turn.
LockHistory(h) ==
    /\ At(h, "containers") /\ Readable
    /\ mu' = [mu EXCEPT !.readers = @ \cup {h}]
    /\ Goto(h, "copyall")
    /\ UNCHANGED <<memory, todo, cur, pointer, result, trends, serving>>

CopyAll(h) ==
    /\ At(h, "copyall")
    /\ steady' = [steady EXCEPT ![h] = IF request[h] = "containers" THEN {} ELSE history]
    /\ Goto(h, IF request[h] = "containers+trend" THEN "list" ELSE "answer")
    /\ UNCHANGED <<memory, todo, cur, pointer, result, trends, request>>

\* Faulty: returns without the RUnlock.
GetAllContainerHistory_KeepLock(h) == CopyAll(h) /\ UNCHANGED mu

GetAllContainerHistory(h) == CopyAll(h) /\ mu' = [mu EXCEPT !.readers = @ \ {h}]

AnswerCopied(h) == At(h, "answer") /\ Answer(h, "ok")

\* The routes of one container bind {id}, and getContainerIDFromPath asks for
\* "containerID": it is always empty, and the answer 400.
AnswerOne(h) == At(h, "one") /\ Answer(h, "refused")

----
Monitor ==
    \/ BeginRound \/ LockToAdd \/ addIOStats \/ Collected \/ Analyze("monitor")
    \/ (\E c \in Containers : FindHistory(c))
    \/ getLimitStatus \/ Decide \/ RemoveOrKeep \/ LastCheckRenewed
    \/ CheckForNil \/ CompareTrigger \/ CompareValues
    \/ getOrInitContainerLimit \/ PodNotFound \/ UpdateLimitStatus("monitor") \/ RoundEnds

Restorer ==
    \/ ListPods \/ (\E c \in Announced : RestoreContainer(c))
    \/ UpdateLimitStatus("restorer") \/ RestoreEnds

Cleaner == LockToClean \/ \E stale, unchecked \in SUBSET Containers : cleanupHistory(stale, unchecked)

Serve(h) ==
    \/ GetAllLimitStatus(h) \/ LockHistory(h) \/ GetAllContainerHistory(h)
    \/ Analyze(h) \/ AnswerCopied(h) \/ AnswerOne(h)

Next ==
    \/ Monitor \/ Restorer \/ Cleaner
    \/ \E h \in Handlers : Serve(h) \/ \E q \in Requests : Arrive(h, q)

Spec == Init /\ [][Next]_vars

\* The scheduler runs every goroutine that can run, and an RWMutex lets the waiting
\* readers in whenever a writer leaves: no stream of writers passes them over.
\* Nothing obliges a client to ask.
FairSpec ==
    /\ Spec
    /\ WF_vars(Monitor) /\ WF_vars(Restorer) /\ WF_vars(Cleaner)
    /\ \A h \in Handlers : SF_vars(Serve(h))

----
(***************************************************************************)
(* What the sharing must get right.                                        *)
(***************************************************************************)

\* Every variable has its type, and the pointer that the monitor takes for a
\* LimitStatus leads to one, deleted or not.
TypeOK ==
    /\ mu \in [readers: SUBSET Threads, writer: Threads \cup {None}]
    /\ history \subseteq Containers
    /\ status \in [Containers -> LimitStatus \cup {None}]
    /\ todo \in [Threads -> SUBSET Containers] /\ trends \in [Threads -> SUBSET Containers]
    /\ cur \in [Threads -> Containers \cup {None}]
    /\ fetched \in BOOLEAN /\ orphan \in LimitStatus \cup {None}
    /\ fetched => cur["monitor"] \in Containers /\ Fetched \in LimitStatus
    /\ result \in [Threads -> LimitResult \cup {None}]
    /\ request \in [Handlers -> Routes \cup {None}]
    /\ steady \in [Handlers -> SUBSET Containers]

\* Where a goroutine asks for m.mu.
Asking == {"list", "look", "add", "judge", "find", "limit", "lock", "limit-status", "containers"}

\* A reader that asks for m.mu again deadlocks with a writer that came in between:
\* no goroutine asks for the lock while it holds it, on any path through the
\* manager (metrics_analysis.go:9-30, smartlimit.go:227-254, 635-764).
NeverAsksHolding ==
    \A t \in Threads : pc[t] \in Asking => t \notin mu.readers /\ mu.writer # t

Whole(s) ==
    /\ s.isLimited <=> s.result # None
    /\ s.result # None => s.triggeredBy = s.result.triggeredBy

\* The entries are copied field by field without their locks, while the monitor
\* and the restorer rewrite them: whether there is a limit, which and on account of
\* which window are answered as updateLimitStatus wrote them together.  Of LastCheckAt
\* nothing is claimed: see ChecksWhole (smartlimit.go:635-692).
StatusesWhole ==
    [][\A h \in Handlers, c \in Containers :
         At(h, "limit-status") /\ pc'[h] = "ok" /\ status[c] # None => Whole(status[c])]_vars

\* LastCheckAt is answered as it was written.  It is not: the monitor renews it under the
\* entry's lock alone, the answer copies it under m.mu alone (smartlimit.go:174-178, 676-688).
ChecksWhole ==
    [][\A h \in Handlers, c \in Containers :
         At(h, "limit-status") /\ pc'[h] = "ok" => ~Renewing(c)]_vars

\* shouldUpdateLimit reads the entry without its lock, LimitResult twice, and the
\* restorer may rewrite it in between: it never follows a nil LimitResult
\* (smartlimit.go:469-489).
NilNeverFollowed == At("monitor", "values") => Fetched.result # None

\* The analysis lets m.mu go between containers, and the cleaner may delete some of
\* them: one that stays filed all along still has its trend in the answer
\* (metrics_analysis.go:9-30, handlers.go:51-121).
SteadyHasTrend ==
    \A h \in Handlers :
        At(h, "answer") => steady[h] \subseteq trends[h]

\* However writers and the cleaner keep coming, no request is left without an answer.
Busy(h) == pc[h] \notin {"idle", "ok", "refused"}
EveryRequestAnswered == \A h \in Handlers : Busy(h) ~> ~Busy(h)
====
