---- MODULE StatusAPIProofs ----
(***************************************************************************)
(* Theorems about StatusAPI, for any containers, any number of             *)
(* connections and any limits the monitor and the restorer come to.        *)
(***************************************************************************)
EXTENDS StatusAPI, TLAPS

(***************************************************************************)
(* Where a goroutine may be, and that m.mu excludes.                       *)
(***************************************************************************)
UpdatePlaces == {"lock", "update", "result", "window"}
JudgePlaces == {"decide", "remove", "renewing", "compare", "trigger", "values", "limit"} \cup UpdatePlaces
AnalysisPlaces == {"list", "look", "copy"}

PlacesOf(t) ==
    CASE t = "monitor" -> {"idle", "add", "adding", "judge", "find"} \cup AnalysisPlaces \cup JudgePlaces
      [] t = "restorer" -> {"idle", "restore", "done"} \cup UpdatePlaces
      [] t = "cleaner" -> {"idle", "clean"}
      [] OTHER -> {"idle", "ok", "refused", "limit-status", "containers", "copyall", "one", "answer"}
                  \cup AnalysisPlaces

Places == UNION {PlacesOf(t) : t \in Threads}
Placed == pc \in [Threads -> Places] /\ \A t \in Threads : pc[t] \in PlacesOf(t)

\* Where a goroutine has asked for m.mu as a writer, and not yet given it back.
Inside == {"adding", "update", "result", "window", "clean"}

Excluded ==
    /\ mu \in [readers: SUBSET Threads, writer: Threads \cup {None}]
    /\ \A t \in Threads : t \in mu.readers <=> t \in Handlers /\ pc[t] = "copyall"
    /\ \A t \in Threads : mu.writer = t <=> pc[t] \in Inside
    /\ \A t \in Threads : pc[t] \in {"result", "window"} => mu.readers = {}

LockInv == Placed /\ Excluded

LEMMA HandlersApart ==
    /\ Threads = Handlers \cup {"monitor", "restorer", "cleaner"}
    /\ "monitor" \notin Handlers /\ "restorer" \notin Handlers /\ "cleaner" \notin Handlers
    /\ None \notin Threads
  BY StatusConstantsOK, NoneIsNotUsed DEF Threads, Background

LEMMA InitLock == Init => LockInv
  <1> SUFFICES ASSUME Init PROVE LockInv
    OBVIOUS
  <1>1. \A t \in Threads : pc[t] = "idle"
    BY DEF Init
  <1>2. Placed
    <2>1. \A t \in Threads : "idle" \in PlacesOf(t)
      BY DEF PlacesOf
    <2>2. pc \in [Threads -> Places]
      BY <2>1 DEF Init, Places
    <2> QED
      BY <1>1, <2>1, <2>2 DEF Placed
  <1>3. mu = [readers |-> {}, writer |-> None]
    BY DEF Init
  <1>4. Excluded
    BY <1>1, <1>3, HandlersApart DEF Excluded, Inside
  <1> QED
    BY <1>2, <1>4 DEF LockInv

LEMMA Moves ==
  ASSUME Placed, NEW t \in Threads, NEW q \in PlacesOf(t), Goto(t, q)
  PROVE  Placed' /\ pc'[t] = q /\ \A u \in Threads \ {t} : pc'[u] = pc[u]
  <1>1. q \in Places
    BY DEF Places
  <1> QED
    BY <1>1 DEF Placed, Goto

\* A step outside of m.mu.
LEMMA StaysOut ==
  ASSUME LockInv, NEW t \in Threads, NEW q \in PlacesOf(t), Goto(t, q), UNCHANGED mu,
         pc[t] \notin Inside \cup {"copyall"}, q \notin Inside \cup {"copyall"}
  PROVE  LockInv'
  BY Moves DEF LockInv, Excluded, Inside

\* From one write to the next, inside.
LEMMA StaysIn ==
  ASSUME LockInv, NEW t \in Threads, NEW q \in PlacesOf(t), Goto(t, q), UNCHANGED mu,
         pc[t] \in Inside, q \in Inside, mu.readers = {}
  PROVE  LockInv'
  BY Moves, HandlersApart DEF LockInv, Excluded, Inside

LEMMA ComesIn ==
  ASSUME LockInv, NEW t \in Threads, NEW q \in PlacesOf(t), Lock(t, q),
         pc[t] \notin Inside \cup {"copyall"}, q \in {"adding", "update", "clean"}
  PROVE  LockInv'
  <1>1. Goto(t, q) /\ mu.writer = None /\ mu'.readers = mu.readers /\ mu'.writer = t
        /\ mu' \in [readers: SUBSET Threads, writer: Threads \cup {None}]
    BY DEF Lock, LockInv, Excluded
  <1> QED
    BY <1>1, Moves, HandlersApart DEF LockInv, Excluded, Inside

LEMMA GoesOut ==
  ASSUME LockInv, NEW t \in Threads, NEW q \in PlacesOf(t), Goto(t, q), Unlock,
         pc[t] \in Inside, q \notin Inside \cup {"copyall"}
  PROVE  LockInv'
  <1>1. mu'.readers = mu.readers /\ mu'.writer = None
        /\ mu' \in [readers: SUBSET Threads, writer: Threads \cup {None}]
    BY DEF Unlock, LockInv, Excluded
  <1> QED
    BY <1>1, Moves, HandlersApart DEF LockInv, Excluded, Inside

\* Readers are handlers that copy.
LEMMA ReadersMove ==
  ASSUME LockInv, NEW h \in Handlers, NEW q \in PlacesOf(h), Goto(h, q),
         \/ /\ pc[h] \notin Inside \cup {"copyall"} /\ q = "copyall"
            /\ Readable /\ mu' = [mu EXCEPT !.readers = @ \cup {h}]
         \/ /\ pc[h] = "copyall" /\ q \notin Inside \cup {"copyall"}
            /\ mu' = [mu EXCEPT !.readers = @ \ {h}]
  PROVE  LockInv'
  <1>1. h \in Threads
    BY HandlersApart
  <1>2. Placed' /\ pc'[h] = q /\ \A u \in Threads \ {h} : pc'[u] = pc[u]
    BY <1>1, Moves DEF LockInv
  <1>3. mu'.writer = mu.writer /\ mu' \in [readers: SUBSET Threads, writer: Threads \cup {None}]
    BY <1>1 DEF LockInv, Excluded
  <1>4. CASE q = "copyall"
    <2>1. \A t \in Threads : pc[t] \notin Inside
      BY <1>4, HandlersApart DEF LockInv, Excluded, Readable, Inside
    <2>2. mu'.readers = mu.readers \cup {h}
      BY <1>4 DEF LockInv, Excluded
    <2> QED
      BY <1>1, <1>2, <1>3, <1>4, <2>1, <2>2, HandlersApart DEF LockInv, Excluded, Inside, Readable
  <1>5. CASE q # "copyall"
    <2>1. mu'.readers = mu.readers \ {h}
      BY <1>5 DEF LockInv, Excluded
    <2> QED
      BY <1>1, <1>2, <1>3, <1>5, <2>1, HandlersApart DEF LockInv, Excluded, Inside
  <1> QED
    BY <1>4, <1>5

LEMMA AnalyzeLock ==
  ASSUME LockInv, NEW t \in Handlers \cup {"monitor"}, Analyze(t)
  PROVE  LockInv'
  <1>1. t \in Threads /\ t # "restorer" /\ t # "cleaner"
    BY HandlersApart
  <1>2. {"list", "look", "copy"} \subseteq PlacesOf(t)
    BY <1>1 DEF PlacesOf, AnalysisPlaces
  <1>3. CASE ListContainers(t)
    BY <1>1, <1>2, <1>3, StaysOut DEF ListContainers, At, Inside
  <1>4. CASE LookUp(t)
    <2>1. CASE UNCHANGED pc
      BY <1>4, <2>1 DEF LookUp, LockInv, Placed, Excluded
    <2>2. CASE Goto(t, "copy")
      BY <1>1, <1>2, <1>4, <2>2, StaysOut DEF LookUp, At, Inside
    <2> QED
      BY <1>4, <2>1, <2>2 DEF LookUp
  <1>5. CASE CopyStats(t)
    BY <1>1, <1>2, <1>5, StaysOut DEF CopyStats, At, Inside
  <1>6. CASE Analysed(t)
    <2>1. CASE t = "monitor"
      <3>1. "judge" \in PlacesOf(t)
        BY <2>1 DEF PlacesOf
      <3> QED
        BY <1>1, <1>6, <2>1, <3>1, StaysOut DEF Analysed, At, Inside
    <2>2. CASE t # "monitor"
      <3>1. "answer" \in PlacesOf(t)
        BY <1>1, <2>2 DEF PlacesOf
      <3> QED
        BY <1>1, <1>6, <2>2, <3>1, StaysOut DEF Analysed, At, Inside
    <2> QED
      BY <2>1, <2>2
  <1> QED
    BY <1>3, <1>4, <1>5, <1>6 DEF Analyze

LEMMA UpdateLock ==
  ASSUME LockInv, NEW t \in {"monitor", "restorer"}, UpdateLimitStatus(t)
  PROVE  LockInv'
  <1>1. t \in Threads
    BY HandlersApart
  <1>2. UpdatePlaces \subseteq PlacesOf(t)
    BY DEF PlacesOf, JudgePlaces
  <1>3. CASE LockToUpdate(t)
    BY <1>1, <1>2, <1>3, ComesIn DEF LockToUpdate, At, Inside, UpdatePlaces
  <1>4. CASE WriteIsLimited(t)
    BY <1>1, <1>2, <1>4, StaysIn DEF WriteIsLimited, Owns, At, Inside, UpdatePlaces
  <1>5. CASE WriteLimitResult(t)
    <2>1. mu.readers = {}
      BY <1>1, <1>5 DEF WriteLimitResult, At, LockInv, Excluded
    <2> QED
      BY <1>1, <1>2, <1>5, <2>1, StaysIn DEF WriteLimitResult, At, Inside, UpdatePlaces
  <1>6. CASE WriteTriggeredBy(t)
    <2>1. (IF t = "monitor" THEN "judge" ELSE "restore") \in PlacesOf(t)
      BY DEF PlacesOf
    <2> QED
      BY <1>1, <1>6, <2>1, GoesOut DEF WriteTriggeredBy, At, Inside
  <1> QED
    BY <1>3, <1>4, <1>5, <1>6 DEF UpdateLimitStatus

LEMMA MonitorLock ==
  ASSUME LockInv, Monitor
  PROVE  LockInv'
  <1>1. "monitor" \in Threads /\ PlacesOf("monitor") =
          {"idle", "add", "adding", "judge", "find"} \cup AnalysisPlaces \cup JudgePlaces
    BY HandlersApart DEF PlacesOf
  <1>2. {"idle", "add", "adding", "judge", "find", "list", "decide", "remove", "renewing", "compare",
         "trigger", "values", "limit", "lock"} \subseteq PlacesOf("monitor")
    BY <1>1 DEF AnalysisPlaces, JudgePlaces, UpdatePlaces
  <1>3. CASE UNCHANGED <<pc, mu>>
    BY <1>3 DEF LockInv, Placed, Excluded
  <1>4. ASSUME NEW q \in PlacesOf("monitor"), Goto("monitor", q), UNCHANGED mu,
               pc["monitor"] \notin Inside, q \notin Inside \cup {"copyall"},
               pc["monitor"] # "copyall"
        PROVE  LockInv'
    BY <1>1, <1>4, StaysOut
  <1> USE DEF At, Step, NextContainer, Fixed, Inside
  <1>5. CASE BeginRound \/ Collected \/ RoundEnds
    BY <1>2, <1>4, <1>5 DEF BeginRound, Collected, RoundEnds
  <1>6. CASE LockToAdd
    BY <1>1, <1>2, <1>6, ComesIn DEF LockToAdd
  <1>7. CASE addIOStats
    BY <1>1, <1>2, <1>7, GoesOut DEF addIOStats
  <1>8. ASSUME NEW c \in Containers, FindHistory(c)
        PROVE  LockInv'
    BY <1>2, <1>3, <1>4, <1>8 DEF FindHistory
  <1>9. CASE getLimitStatus
    BY <1>2, <1>4, <1>9 DEF getLimitStatus
  <1>10. CASE Decide
    BY <1>2, <1>4, <1>10 DEF Decide
  <1>11. CASE RemoveOrKeep \/ LastCheckRenewed
    BY <1>2, <1>4, <1>11 DEF RemoveOrKeep, LastCheckRenewed
  <1>12. CASE CheckForNil \/ CompareTrigger \/ CompareValues
    BY <1>2, <1>4, <1>12 DEF CheckForNil, CompareTrigger, CompareValues
  <1>13. CASE getOrInitContainerLimit \/ PodNotFound
    BY <1>2, <1>4, <1>13 DEF getOrInitContainerLimit, PodNotFound
  <1> QED
    BY <1>5, <1>6, <1>7, <1>8, <1>9, <1>10, <1>11, <1>12, <1>13, AnalyzeLock, UpdateLock DEF Monitor

LEMMA RestorerLock ==
  ASSUME LockInv, Restorer
  PROVE  LockInv'
  <1>1. "restorer" \in Threads /\ {"restore", "lock", "done"} \subseteq PlacesOf("restorer")
    BY HandlersApart DEF PlacesOf, UpdatePlaces
  <1>2. CASE ListPods
    BY <1>1, <1>2, StaysOut DEF ListPods, At, Inside
  <1>3. ASSUME NEW c \in Announced, RestoreContainer(c)
        PROVE  LockInv'
    BY <1>1, <1>3, StaysOut DEF RestoreContainer, At, Inside
  <1>4. CASE RestoreEnds
    BY <1>1, <1>4, StaysOut DEF RestoreEnds, At, Inside
  <1> QED
    BY <1>2, <1>3, <1>4, UpdateLock DEF Restorer

LEMMA CleanerLock ==
  ASSUME LockInv, Cleaner
  PROVE  LockInv'
  <1>1. "cleaner" \in Threads /\ {"idle", "clean"} \subseteq PlacesOf("cleaner")
    BY HandlersApart DEF PlacesOf
  <1>2. CASE LockToClean
    BY <1>1, <1>2, ComesIn DEF LockToClean, At, Inside
  <1>3. ASSUME NEW stale, NEW unchecked, cleanupHistory(stale, unchecked)
        PROVE  LockInv'
    BY <1>1, <1>3, GoesOut DEF cleanupHistory, At, Inside
  <1> QED
    BY <1>2, <1>3 DEF Cleaner

LEMMA HandlerLock ==
  ASSUME LockInv, NEW h \in Handlers, Serve(h) \/ \E q \in Requests : Arrive(h, q)
  PROVE  LockInv'
  <1>1. /\ h \in Threads
        /\ PlacesOf(h) = {"idle", "ok", "refused", "limit-status", "containers", "copyall", "one", "answer"}
                         \cup AnalysisPlaces
    BY HandlersApart DEF PlacesOf
  <1>2. CASE GetAllLimitStatus(h) \/ AnswerCopied(h) \/ AnswerOne(h)
    BY <1>1, <1>2, StaysOut DEF GetAllLimitStatus, AnswerCopied, AnswerOne, Answer, At, Inside
  <1>3. CASE LockHistory(h)
    BY <1>1, <1>3, ReadersMove DEF LockHistory, At, Inside
  <1>4. CASE GetAllContainerHistory(h)
    <2>1. (IF request[h] = "containers+trend" THEN "list" ELSE "answer")
            \in PlacesOf(h) \ (Inside \cup {"copyall"})
      BY <1>1 DEF AnalysisPlaces, Inside
    <2> QED
      BY <1>4, <2>1, ReadersMove DEF GetAllContainerHistory, CopyAll, At
  <1>5. ASSUME NEW q \in Requests, Arrive(h, q)
        PROVE  LockInv'
    <2> DEFINE place == CASE q = "info" -> "list"
                          [] q = "containers+trend" -> "containers"
                          [] OTHER -> q
    <2>1. q \in Routes
      BY StatusConstantsOK
    <2>2. place \in PlacesOf(h) \ (Inside \cup {"copyall"})
      BY <1>1, <2>1 DEF Routes, AnalysisPlaces, Inside
    <2>3. Goto(h, place) /\ UNCHANGED mu /\ pc[h] \in {"idle", "ok", "refused"}
      BY <1>5 DEF Arrive
    <2> HIDE DEF place
    <2> QED
      BY <1>1, <2>2, <2>3, StaysOut DEF Inside
  <1> QED
    BY <1>2, <1>3, <1>4, <1>5, AnalyzeLock DEF Serve

LEMMA NextLock == LockInv /\ [Next]_vars => LockInv'
  <1> SUFFICES ASSUME LockInv, [Next]_vars PROVE LockInv'
    OBVIOUS
  <1>1. CASE UNCHANGED vars
    BY <1>1 DEF vars, LockInv, Placed, Excluded
  <1> QED
    BY <1>1, MonitorLock, RestorerLock, CleanerLock, HandlerLock DEF Next

\* m.mu excludes: a goroutine that writes under it is alone inside.
LEMMA LockInvariant == Spec => []LockInv
  BY InitLock, NextLock, PTL DEF Spec

\* No goroutine asks for m.mu while it holds it, on any path through the manager
\* and the handlers (metrics_analysis.go:9-30, smartlimit.go:227-254, 635-764).
THEOREM NoSelfDeadlock == Spec => []NeverAsksHolding
  <1>1. LockInv => NeverAsksHolding
    BY DEF LockInv, Excluded, NeverAsksHolding, Asking, Inside
  <1> QED
    BY <1>1, LockInvariant, PTL

(***************************************************************************)
(* What a goroutine holds at each place.                                   *)
(***************************************************************************)
Writers == {"monitor", "restorer"}

Holds ==
    /\ pc["monitor"] \in {"adding", "find"} \cup JudgePlaces => cur["monitor"] \in Containers
    /\ \A t \in Threads : pc[t] = "copy" => cur[t] \in todo[t]
    /\ pc["restorer"] \in UpdatePlaces => cur["restorer"] \in Containers /\ result["restorer"] # None

\* The pointer from getLimitStatus: it is gone when the monitor leaves the container,
\* and the result it was tested for stays.
Points ==
    /\ fetched => pc["monitor"] \in JudgePlaces
    /\ orphan # None => fetched
    /\ pc["monitor"] \in {"remove", "renewing", "compare", "trigger", "values"} => fetched
    /\ pc["monitor"] \in {"trigger", "values"} => Fetched.result # None

\* An entry is whole, or a goroutine inside m.mu is rewriting it.
Rewriting(t, c) == pc[t] \in {"result", "window"} /\ cur[t] = c

Rewritten ==
    /\ \A c \in Containers :
         status[c] # None => Whole(status[c]) \/ \E t \in Writers : Rewriting(t, c)
    /\ \A t \in Writers, c \in Containers : Rewriting(t, c) =>
         /\ status[c] # None
         /\ status[c].isLimited <=> result[t] # None
         /\ pc[t] = "window" => status[c].result = result[t]

\* What stays filed is still on the way to the answer.
Kept(h) ==
    /\ steady[h] \subseteq history
    /\ pc[h] \in {"containers", "copyall"} => request[h] \in {"containers", "containers+trend"}
    /\ pc[h] \in {"look", "copy"} => steady[h] \subseteq todo[h] \cup trends[h]
    /\ pc[h] = "answer" => steady[h] \subseteq trends[h]

Stays == \A h \in Handlers : Kept(h)

IInv == TypeOK /\ LockInv /\ Holds /\ Points /\ Rewritten /\ Stays

\* A step of t leaves the other goroutines where they are, with what they hold.
Alone(t) ==
    \A u \in Threads \ {t} :
      /\ pc'[u] = pc[u] /\ cur'[u] = cur[u] /\ result'[u] = result[u]
      /\ todo'[u] = todo[u] /\ trends'[u] = trends[u]

LEMMA AnalyzeAlone ==
  ASSUME TypeOK, LockInv, NEW t \in Threads, Analyze(t)
  PROVE  Alone(t)
  BY DEF TypeOK, LockInv, Placed, Alone, Analyze, ListContainers, LookUp, CopyStats, Analysed, Goto, Leave

LEMMA UpdateAlone ==
  ASSUME TypeOK, LockInv, NEW t \in Threads, UpdateLimitStatus(t)
  PROVE  Alone(t)
  BY DEF TypeOK, LockInv, Placed, Alone, UpdateLimitStatus, LockToUpdate, WriteIsLimited, WriteLimitResult,
         WriteTriggeredBy, Lock, Goto, Leave

LEMMA MonitorAlone ==
  ASSUME TypeOK, LockInv, Monitor
  PROVE  Alone("monitor")
  <1>1. CASE BeginRound \/ LockToAdd \/ addIOStats \/ Collected \/ RoundEnds \/ \E c \in Containers : FindHistory(c)
    BY <1>1 DEF TypeOK, LockInv, Placed, Alone, BeginRound, LockToAdd, addIOStats, Collected, RoundEnds,
                FindHistory, Lock, Goto, Leave
  <1>2. CASE getLimitStatus \/ Decide \/ RemoveOrKeep \/ LastCheckRenewed \/ getOrInitContainerLimit \/ PodNotFound
             \/ CheckForNil \/ CompareTrigger \/ CompareValues
    BY <1>2 DEF TypeOK, LockInv, Placed, Alone, getLimitStatus, Decide, RemoveOrKeep, LastCheckRenewed, getOrInitContainerLimit,
                PodNotFound, CheckForNil, CompareTrigger, CompareValues, Step, NextContainer, Fixed, Goto, Leave
  <1> QED
    BY <1>1, <1>2, AnalyzeAlone, UpdateAlone, HandlersApart DEF Monitor

LEMMA RestorerAlone ==
  ASSUME TypeOK, LockInv, Restorer
  PROVE  Alone("restorer")
  <1>1. CASE ListPods \/ RestoreEnds \/ \E c \in Announced : RestoreContainer(c)
    BY <1>1 DEF TypeOK, LockInv, Placed, Alone, ListPods, RestoreEnds, RestoreContainer, Goto
  <1> QED
    BY <1>1, UpdateAlone, HandlersApart DEF Restorer

LEMMA CleanerAlone ==
  ASSUME TypeOK, LockInv, Cleaner
  PROVE  Alone("cleaner")
  BY DEF TypeOK, LockInv, Placed, Alone, Cleaner, LockToClean, cleanupHistory, Lock, Goto

LEMMA HandlerAlone ==
  ASSUME TypeOK, LockInv, NEW h \in Handlers, Serve(h) \/ \E q \in Requests : Arrive(h, q)
  PROVE  Alone(h) /\ \A g \in Handlers \ {h} : request'[g] = request[g] /\ steady'[g] = steady[g]
  <1>1. CASE Analyze(h)
    BY <1>1, AnalyzeAlone, HandlersApart DEF Analyze, ListContainers, LookUp, CopyStats, Analysed, serving
  <1>2. CASE GetAllLimitStatus(h) \/ LockHistory(h) \/ GetAllContainerHistory(h) \/ AnswerCopied(h) \/ AnswerOne(h)
    BY <1>2 DEF TypeOK, LockInv, Placed, Alone, GetAllLimitStatus, LockHistory, GetAllContainerHistory, CopyAll,
                AnswerCopied, AnswerOne, Answer, Goto, serving
  <1>3. ASSUME NEW q \in Requests, Arrive(h, q)
        PROVE  Alone(h) /\ \A g \in Handlers \ {h} : request'[g] = request[g] /\ steady'[g] = steady[g]
    BY <1>3 DEF TypeOK, LockInv, Placed, Alone, Arrive, Goto
  <1> QED
    BY <1>1, <1>2, <1>3 DEF Serve

(***************************************************************************)
(* Types, and what a goroutine holds.                                      *)
(***************************************************************************)
LEMMA Fields ==
  ASSUME NEW s \in LimitStatus, NEW r \in LimitResult \cup {None}
  PROVE  /\ [s EXCEPT !.isLimited = (r # None)] \in LimitStatus
         /\ [s EXCEPT !.result = r] \in LimitStatus
         /\ r # None => [s EXCEPT !.triggeredBy = r.triggeredBy] \in LimitStatus
  BY NoneIsNotUsed DEF LimitStatus, LimitResult

\* The three writes of updateLimitStatus, each to the entry of one container.
LEMMA Writes ==
  ASSUME TypeOK, LockInv, Holds, Rewritten, NEW t \in Writers,
         WriteIsLimited(t) \/ WriteLimitResult(t) \/ WriteTriggeredBy(t)
  PROVE  /\ cur[t] \in Containers /\ status' \in [Containers -> LimitStatus \cup {None}]
         /\ status'[cur[t]] # None
         /\ \A c \in Containers \ {cur[t]} : status'[c] = status[c]
  <1>1. t \in Threads /\ cur[t] \in Containers /\ result[t] \in LimitResult \cup {None}
    BY HandlersApart DEF Writers, TypeOK, Holds, WriteIsLimited, WriteLimitResult, WriteTriggeredBy, At,
                         UpdatePlaces, JudgePlaces
  <1>2. None \notin LimitStatus
    BY NoneIsNotUsed DEF LimitStatus
  <1>3. CASE WriteIsLimited(t)
    <2> DEFINE old == IF status[cur[t]] = None THEN Blank ELSE status[cur[t]]
    <2>1. old \in LimitStatus
      BY <1>1 DEF TypeOK, LimitStatus, Blank
    <2>2. [old EXCEPT !.isLimited = (result[t] # None)] \in LimitStatus
      BY <1>1, <2>1, Fields
    <2>3. status' = [status EXCEPT ![cur[t]] = [old EXCEPT !.isLimited = (result[t] # None)]]
      BY <1>3 DEF WriteIsLimited
    <2> HIDE DEF old
    <2> QED
      BY <1>1, <1>2, <2>2, <2>3 DEF TypeOK
  <1>4. ASSUME status[cur[t]] # None PROVE status[cur[t]] \in LimitStatus
    BY <1>1, <1>4 DEF TypeOK
  <1>5. CASE WriteLimitResult(t)
    <2>1. status[cur[t]] \in LimitStatus
      BY <1>1, <1>4, <1>5 DEF Rewritten, Rewriting, WriteLimitResult, At
    <2>2. status' = [status EXCEPT ![cur[t]] = [status[cur[t]] EXCEPT !.result = result[t]]]
      BY <1>5 DEF WriteLimitResult
    <2>3. [status[cur[t]] EXCEPT !.result = result[t]] \in LimitStatus
      BY <1>1, <2>1, Fields
    <2> QED
      BY <1>1, <1>2, <2>2, <2>3 DEF TypeOK
  <1>6. CASE WriteTriggeredBy(t)
    <2>1. status[cur[t]] \in LimitStatus
      BY <1>1, <1>4, <1>6 DEF Rewritten, Rewriting, WriteTriggeredBy, At
    <2>2. status' = IF result[t] = None THEN status
                    ELSE [status EXCEPT ![cur[t]] = [status[cur[t]] EXCEPT !.triggeredBy = result[t].triggeredBy]]
      BY <1>6 DEF WriteTriggeredBy
    <2>3. CASE result[t] = None
      BY <1>1, <1>2, <2>1, <2>2, <2>3 DEF TypeOK
    <2>4. CASE result[t] # None
      <3>1. [status[cur[t]] EXCEPT !.triggeredBy = result[t].triggeredBy] \in LimitStatus
        BY <1>1, <2>1, <2>4, Fields
      <3> QED
        BY <1>1, <1>2, <2>2, <2>4, <3>1 DEF TypeOK
    <2> QED
      BY <2>3, <2>4
  <1> QED
    BY <1>3, <1>5, <1>6

LEMMA AnalyzeTypes ==
  ASSUME TypeOK, LockInv, Holds, NEW t \in Handlers \cup {"monitor"}, Analyze(t), Points
  PROVE  TypeOK'
  <1>1. t \in Threads
    BY HandlersApart
  <1>2. t = "monitor" => ~fetched
    BY DEF Points, Analyze, ListContainers, LookUp, CopyStats, Analysed, At, JudgePlaces, UpdatePlaces
  <1>3. mu' \in [readers: SUBSET Threads, writer: Threads \cup {None}]
    BY AnalyzeLock DEF LockInv, Excluded
  <1>4. UNCHANGED <<history, status, request, steady, orphan>>
        /\ (IF t = "monitor" THEN fetched' = FALSE ELSE fetched' = fetched)
        /\ cur["monitor"]' = IF t = "monitor" THEN cur'["monitor"] ELSE cur["monitor"]
    BY <1>1, <1>2, AnalyzeAlone, HandlersApart DEF TypeOK, Points, Analyze, ListContainers, LookUp, CopyStats, Analysed, Leave, memory,
       pointer, serving, Alone
  <1>5. (fetched => cur["monitor"] \in Containers /\ Fetched \in LimitStatus)'
    BY <1>2, <1>4 DEF TypeOK, Fetched
  <1> USE DEF TypeOK
  <1>6. CASE ListContainers(t)
    BY <1>1, <1>3, <1>4, <1>5, <1>6 DEF ListContainers
  <1>7. ASSUME NEW c \in todo[t], LookUp(t)
        PROVE  todo' \in [Threads -> SUBSET Containers] /\ cur' \in [Threads -> Containers \cup {None}]
               /\ UNCHANGED <<trends, result>>
    BY <1>1, <1>7 DEF LookUp
  <1>8. CASE CopyStats(t)
    BY <1>1, <1>3, <1>4, <1>5, <1>8 DEF CopyStats, Leave, At, Holds
  <1>9. CASE Analysed(t)
    <2>1. trends[t] \subseteq Containers
      BY <1>1
    <2>2. /\ todo' \in [Threads -> SUBSET Containers] /\ trends' \in [Threads -> SUBSET Containers]
          /\ UNCHANGED <<cur, result>>
      BY <1>1, <1>9, <2>1 DEF Analysed
    <2> QED
      BY <1>3, <1>4, <1>5, <2>2
  <1> QED
    BY <1>3, <1>4, <1>5, <1>6, <1>7, <1>8, <1>9 DEF Analyze, LookUp

\* What the monitor does outside of the analysis and of updateLimitStatus.
LEMMA MonitorKeeps ==
  ASSUME IInv, Monitor, ~Analyze("monitor"), ~UpdateLimitStatus("monitor")
  PROVE  TypeOK' /\ Holds' /\ Points'
  <1>1. Alone("monitor") /\ "monitor" \in Threads /\ "restorer" \in Threads \ {"monitor"}
    BY MonitorAlone, HandlersApart DEF IInv
  <1>2. mu' \in [readers: SUBSET Threads, writer: Threads \cup {None}]
    BY MonitorLock DEF IInv, LockInv, Excluded
  <1>3. pc \in [Threads -> Places]
    BY DEF IInv, LockInv, Placed
  <1>4. pc["monitor"] \notin JudgePlaces => ~fetched
    BY DEF IInv, Points
  <1> USE DEF IInv, TypeOK, Holds, Points, At, Goto, JudgePlaces, UpdatePlaces, memory, pointer, serving, Fetched, Alone
  <1>5. CASE BeginRound
    BY <1>1, <1>2, <1>3, <1>4, <1>5 DEF BeginRound
  <1>6. CASE LockToAdd
    BY <1>1, <1>2, <1>3, <1>4, <1>6 DEF LockToAdd, Lock
  <1>7. CASE addIOStats
    BY <1>1, <1>2, <1>3, <1>4, <1>7 DEF addIOStats, Leave
  <1>8. CASE Collected \/ RoundEnds
    BY <1>1, <1>2, <1>3, <1>4, <1>8 DEF Collected, RoundEnds
  <1>9. ASSUME NEW c \in Containers, FindHistory(c)
        PROVE  TypeOK' /\ Holds' /\ Points'
    BY <1>1, <1>2, <1>3, <1>4, <1>9 DEF FindHistory
  <1>10. CASE getLimitStatus
    BY <1>1, <1>2, <1>3, <1>4, <1>10, StatusConstantsOK DEF getLimitStatus
  <1>11. ASSUME NEW q \in JudgePlaces, Step(q), pc["monitor"] \in JudgePlaces,
                q \in {"remove", "renewing", "compare", "trigger", "values"} => fetched,
                q \in {"trigger", "values"} => Fetched.result # None
         PROVE  TypeOK' /\ Holds' /\ Points'
    <2>1. pc'["monitor"] = q /\ UNCHANGED <<memory, todo, cur, pointer, result, trends, serving>>
      BY <1>1, <1>3, <1>11 DEF Step, Fixed, memory
    <2> QED
      BY <1>1, <1>2, <1>11, <2>1
  <1>12. ASSUME NextContainer
         PROVE  TypeOK' /\ Holds' /\ Points'
    BY <1>1, <1>2, <1>3, <1>12 DEF NextContainer, Fixed, Leave
  <1>13. CASE Decide
    BY <1>1, <1>11, <1>12, <1>13 DEF Decide
  <1>14. CASE RemoveOrKeep \/ LastCheckRenewed
    BY <1>1, <1>11, <1>12, <1>14 DEF RemoveOrKeep, LastCheckRenewed
  <1>15. CASE CheckForNil
    BY <1>1, <1>11, <1>12, <1>15 DEF CheckForNil
  <1>16. CASE CompareTrigger
    BY <1>1, <1>11, <1>12, <1>16 DEF CompareTrigger
  <1>17. CASE CompareValues
    BY <1>1, <1>11, <1>12, <1>17 DEF CompareValues
  <1>18. CASE getOrInitContainerLimit \/ PodNotFound
    BY <1>1, <1>11, <1>18 DEF getOrInitContainerLimit, PodNotFound
  <1> QED
    BY <1>5, <1>6, <1>7, <1>8, <1>9, <1>10, <1>13, <1>14, <1>15, <1>16, <1>17, <1>18 DEF Monitor

LEMMA AnalyzeKeeps ==
  ASSUME IInv, NEW t \in Handlers \cup {"monitor"}, Analyze(t)
  PROVE  TypeOK' /\ Holds' /\ Points'
  <1>1. t \in Threads /\ Alone(t) /\ t # "restorer" /\ {"monitor", "restorer"} \subseteq Threads
    BY AnalyzeAlone, HandlersApart DEF IInv
  <1>2. TypeOK'
    BY AnalyzeTypes DEF IInv
  <1>3. t = "monitor" => ~fetched /\ orphan = None
    BY DEF IInv, Points, Analyze, ListContainers, LookUp, CopyStats, Analysed, At, JudgePlaces, UpdatePlaces
  <1>4. UNCHANGED <<status, orphan>> /\ (IF t = "monitor" THEN ~fetched' ELSE fetched' = fetched)
        /\ pc'[t] \in {"look", "copy", "judge", "answer"} /\ (pc'[t] = "copy" => cur'[t] \in todo'[t])
    <2>1. CASE ListContainers(t) \/ Analysed(t)
      BY <1>1, <1>3, <2>1 DEF IInv, LockInv, Placed, ListContainers, Analysed, Goto, memory, pointer
    <2>2. ASSUME NEW c \in todo[t], LookUp(t)
          PROVE  \/ UNCHANGED <<memory, todo, pointer>> /\ pc'[t] = "copy" /\ cur'[t] \in todo[t]
                 \/ UNCHANGED <<memory, pc, pointer>> /\ pc[t] = "look"
      BY <1>1, <2>2 DEF IInv, LockInv, Placed, TypeOK, LookUp, Goto, At
    <2>3. CASE CopyStats(t)
      BY <1>1, <1>3, <2>3 DEF IInv, LockInv, Placed, CopyStats, Goto, Leave, memory, pointer
    <2> QED
      BY <1>3, <2>1, <2>2, <2>3 DEF Analyze, LookUp, memory, pointer
  <1>5. Holds'
    BY <1>1, <1>4 DEF IInv, Holds, Alone, JudgePlaces, UpdatePlaces
  <1>6. Points'
    BY <1>1, <1>3, <1>4 DEF IInv, Points, Alone, Fetched, JudgePlaces, UpdatePlaces
  <1> QED
    BY <1>2, <1>5, <1>6

LEMMA UpdateKeeps ==
  ASSUME IInv, NEW t \in Writers, UpdateLimitStatus(t)
  PROVE  TypeOK' /\ Holds' /\ Points'
  <1>1. t \in Threads /\ Alone(t) /\ {"monitor", "restorer"} \subseteq Threads /\ None \notin LimitStatus
    BY UpdateAlone, HandlersApart, NoneIsNotUsed DEF IInv, Writers
  <1>2. mu' \in [readers: SUBSET Threads, writer: Threads \cup {None}]
    BY UpdateLock DEF IInv, LockInv, Excluded, Writers
  <1>3. pc \in [Threads -> Places]
    BY DEF IInv, LockInv, Placed
  <1>4. CASE LockToUpdate(t)
    BY <1>1, <1>2, <1>3, <1>4 DEF LockToUpdate, IInv, TypeOK, Holds, Points, At, Lock, Goto, JudgePlaces, UpdatePlaces,
       memory, pointer, serving, Fetched, Alone, Writers
  <1>5. CASE WriteIsLimited(t) \/ WriteLimitResult(t) \/ WriteTriggeredBy(t)
    <2>1. /\ cur[t] \in Containers /\ status' \in [Containers -> LimitStatus \cup {None}]
          /\ status'[cur[t]] # None
          /\ \A c \in Containers \ {cur[t]} : status'[c] = status[c]
      BY <1>5, Writes DEF IInv
    <2>2. CASE t = "monitor"
      <3>1. pc'["monitor"] \in {"result", "window", "judge"}
            /\ UNCHANGED <<history, todo, trends, request, steady>>
        BY <1>1, <1>3, <1>5, <2>2 DEF WriteIsLimited, WriteLimitResult, WriteTriggeredBy, Goto, serving
      <3>2. cur' \in [Threads -> Containers \cup {None}] /\ result' \in [Threads -> LimitResult \cup {None}]
            /\ fetched' \in BOOLEAN /\ orphan' \in LimitStatus \cup {None}
            /\ (pc'["monitor"] = "judge" => ~fetched' /\ orphan' = None)
            /\ (pc'["monitor"] # "judge" => UNCHANGED <<cur, fetched, orphan>>)
        BY <1>1, <1>3, <1>5, <2>2 DEF WriteIsLimited, WriteLimitResult, WriteTriggeredBy, Goto, Leave, pointer, IInv, TypeOK
      <3>3. TypeOK'
        BY <1>1, <1>2, <2>1, <2>2, <3>1, <3>2 DEF IInv, TypeOK, Fetched
      <3> QED
        BY <1>1, <2>2, <3>1, <3>2, <3>3, <1>5 DEF IInv, Holds, Points, Alone, JudgePlaces, UpdatePlaces,
           WriteIsLimited, WriteLimitResult, WriteTriggeredBy, At
    <2>3. CASE t = "restorer"
      <3>1. pc'["restorer"] \in {"result", "window", "restore"}
            /\ UNCHANGED <<history, todo, trends, request, steady, fetched, orphan>>
            /\ (pc'["restorer"] # "restore" => UNCHANGED <<cur, result>>)
        BY <1>1, <1>3, <1>5, <2>3 DEF WriteIsLimited, WriteLimitResult, WriteTriggeredBy, Goto, serving, Leave, pointer
      <3>2. cur' \in [Threads -> Containers \cup {None}] /\ result' \in [Threads -> LimitResult \cup {None}]
        BY <1>1, <1>3, <1>5, <2>3 DEF WriteIsLimited, WriteLimitResult, WriteTriggeredBy, Leave, IInv, TypeOK
      <3>3. TypeOK'
        BY <1>1, <1>2, <2>1, <2>3, <3>1, <3>2 DEF IInv, TypeOK, Fetched, Alone
      <3>4. Holds'
        BY <1>1, <1>5, <2>3, <3>1 DEF IInv, Holds, Alone, JudgePlaces, UpdatePlaces,
           WriteIsLimited, WriteLimitResult, WriteTriggeredBy, At
      <3>5. status[cur["restorer"]] # None => status'[cur["restorer"]].result \in {status[cur["restorer"]].result, result["restorer"]}
        BY <1>5, <2>1, <2>3 DEF IInv, TypeOK, LimitStatus, WriteIsLimited, WriteLimitResult, WriteTriggeredBy
      <3>6. result["restorer"] # None
        BY <1>5, <2>3 DEF IInv, Holds, UpdatePlaces, WriteIsLimited, WriteLimitResult, WriteTriggeredBy, At
      <3>7. fetched /\ orphan = None /\ status[cur["monitor"]].result # None => status'[cur["monitor"]].result # None
        <4>1. fetched /\ orphan = None => cur["monitor"] \in Containers /\ status[cur["monitor"]] # None
          BY <1>1 DEF IInv, TypeOK, Fetched
        <4>2. CASE cur["monitor"] = cur["restorer"]
          BY <3>5, <3>6, <4>1, <4>2
        <4>3. CASE cur["monitor"] # cur["restorer"]
          BY <2>1, <2>3, <4>1, <4>3
        <4> QED
          BY <4>2, <4>3
      <3> QED
        BY <1>1, <2>3, <3>1, <3>3, <3>4, <3>7 DEF IInv, Points, Alone, Fetched, JudgePlaces, UpdatePlaces
    <2> QED
      BY <2>2, <2>3 DEF Writers
  <1> QED
    BY <1>4, <1>5 DEF UpdateLimitStatus

LEMMA RestorerKeeps ==
  ASSUME IInv, Restorer, ~UpdateLimitStatus("restorer")
  PROVE  TypeOK' /\ Holds' /\ Points'
  <1>1. Alone("restorer") /\ "restorer" \in Threads /\ "monitor" \in Threads /\ pc \in [Threads -> Places]
    BY RestorerAlone, HandlersApart DEF IInv, LockInv, Placed
  <1> USE DEF IInv, TypeOK, Holds, Points, At, Goto, JudgePlaces, UpdatePlaces, memory, pointer, serving, Fetched, Alone
  <1>2. CASE ListPods \/ RestoreEnds
    BY <1>1, <1>2, StatusConstantsOK DEF ListPods, RestoreEnds
  <1>3. ASSUME NEW c \in Announced, RestoreContainer(c)
        PROVE  TypeOK' /\ Holds' /\ Points'
    <2>1. c \in Containers /\ Restored[c] \in LimitResult /\ Restored[c] # None
      BY StatusConstantsOK, NoneIsNotUsed
    <2> QED
      BY <1>1, <1>3, <2>1 DEF RestoreContainer
  <1> QED
    BY <1>2, <1>3 DEF Restorer

\* The cleaner hands the object over to the monitor that fetched it.
LEMMA CleanerKeeps ==
  ASSUME IInv, Cleaner
  PROVE  TypeOK' /\ Holds' /\ Points'
  <1>1. /\ Alone("cleaner") /\ {"cleaner", "restorer"} \subseteq Threads /\ "monitor" \in Threads \ {"cleaner"}
        /\ pc \in [Threads -> Places]
    BY CleanerAlone, HandlersApart DEF IInv, LockInv, Placed
  <1>2. mu' \in [readers: SUBSET Threads, writer: Threads \cup {None}]
    BY CleanerLock DEF IInv, LockInv, Excluded
  <1>3. CASE LockToClean
    BY <1>1, <1>2, <1>3 DEF LockToClean, IInv, TypeOK, Holds, Points, At, Lock, Goto, JudgePlaces, UpdatePlaces,
       memory, pointer, serving, Fetched, Alone
  <1>4. ASSUME NEW stale \in SUBSET Containers, NEW unchecked \in SUBSET Containers, cleanupHistory(stale, unchecked)
        PROVE  TypeOK' /\ Holds' /\ Points'
    <2>1. pc'["cleaner"] = "idle" /\ UNCHANGED <<todo, cur, fetched, result, trends, request>>
      BY <1>1, <1>4 DEF cleanupHistory, Goto
    <2>2. /\ history' \subseteq Containers /\ steady' \in [Handlers -> SUBSET Containers]
          /\ status' \in [Containers -> LimitStatus \cup {None}]
          /\ \A c \in Containers : status'[c] = IF c \in unchecked THEN None ELSE status[c]
      BY <1>4 DEF cleanupHistory, IInv, TypeOK
    <2>3. fetched => cur["monitor"] \in Containers /\ Fetched' = Fetched
          /\ orphan' \in {orphan, Fetched}
      <3> SUFFICES ASSUME fetched PROVE cur["monitor"] \in Containers /\ Fetched' = Fetched /\ orphan' \in {orphan, Fetched}
        OBVIOUS
      <3>1. cur["monitor"] \in Containers /\ Fetched \in LimitStatus /\ None \notin LimitStatus
        BY NoneIsNotUsed DEF IInv, TypeOK
      <3>2. orphan' = IF orphan = None /\ cur["monitor"] \in unchecked THEN status[cur["monitor"]] ELSE orphan
        BY <1>4 DEF cleanupHistory
      <3> QED
        BY <2>1, <2>2, <3>1, <3>2 DEF Fetched
    <2>4. ~fetched => orphan' = orphan
      BY <1>4 DEF cleanupHistory
    <2>5. TypeOK'
      BY <1>1, <1>2, <2>1, <2>2, <2>3, <2>4 DEF IInv, TypeOK
    <2>6. Holds'
      BY <1>1, <2>1 DEF IInv, Holds, Alone, JudgePlaces, UpdatePlaces
    <2>7. Points'
      BY <1>1, <2>1, <2>3, <2>4 DEF IInv, Points, Alone
    <2> QED
      BY <2>5, <2>6, <2>7
  <1> QED
    BY <1>3, <1>4 DEF Cleaner

LEMMA HandlerKeeps ==
  ASSUME IInv, NEW h \in Handlers, Serve(h) \/ \E q \in Requests : Arrive(h, q), ~Analyze(h)
  PROVE  TypeOK' /\ Holds' /\ Points'
  <1>1. Alone(h) /\ h \in Threads /\ {"monitor", "restorer"} \subseteq Threads \ {h} /\ pc \in [Threads -> Places]
    BY HandlerAlone, HandlersApart DEF IInv, LockInv, Placed
  <1>2. mu' \in [readers: SUBSET Threads, writer: Threads \cup {None}]
    BY HandlerLock DEF IInv, LockInv, Excluded
  <1>3. /\ UNCHANGED <<memory, cur, pointer, result, todo>> /\ trends' \in [Threads -> SUBSET Containers]
        /\ request' \in [Handlers -> Routes \cup {None}] /\ steady' \in [Handlers -> SUBSET Containers]
    <2>1. CASE GetAllLimitStatus(h) \/ AnswerCopied(h) \/ AnswerOne(h)
      BY <1>1, <2>1 DEF GetAllLimitStatus, AnswerCopied, AnswerOne, Answer, IInv, TypeOK
    <2>2. CASE LockHistory(h) \/ GetAllContainerHistory(h)
      BY <1>1, <2>2 DEF LockHistory, GetAllContainerHistory, CopyAll, IInv, TypeOK, serving
    <2>3. ASSUME NEW q \in Requests, Arrive(h, q)
          PROVE  UNCHANGED <<memory, cur, pointer, result, todo>> /\ trends' \in [Threads -> SUBSET Containers]
                 /\ request' \in [Handlers -> Routes \cup {None}] /\ steady' \in [Handlers -> SUBSET Containers]
      BY <1>1, <2>3, StatusConstantsOK DEF Arrive, IInv, TypeOK
    <2> QED
      BY <2>1, <2>2, <2>3 DEF Serve
  <1>4. pc'[h] # "copy"
    <2>1. CASE Serve(h)
      BY <1>1, <2>1 DEF Serve, GetAllLimitStatus, AnswerCopied, AnswerOne, Answer, LockHistory, GetAllContainerHistory, CopyAll, Goto
    <2>2. ASSUME NEW q \in Requests, Arrive(h, q)
          PROVE  pc'[h] # "copy"
      BY <1>1, <2>2, StatusConstantsOK DEF Arrive, Goto, Routes
    <2> QED
      BY <2>1, <2>2
  <1>5. TypeOK'
    BY <1>2, <1>3 DEF IInv, TypeOK, memory, pointer, Fetched
  <1>6. Holds' /\ Points'
    BY <1>1, <1>3, <1>4 DEF IInv, Holds, Points, Alone, memory, pointer, Fetched, JudgePlaces, UpdatePlaces
  <1> QED
    BY <1>5, <1>6

(***************************************************************************)
(* An entry is whole unless it is being rewritten.                         *)
(***************************************************************************)
LEMMA OffRewriting ==
  ASSUME Rewritten, UNCHANGED status,
         \A t \in Writers : \/ UNCHANGED <<pc[t], cur[t], result[t]>>
                            \/ pc[t] \notin {"result", "window"} /\ pc'[t] \notin {"result", "window"}
  PROVE  Rewritten'
  <1>1. \A t \in Writers, c \in Containers : Rewriting(t, c)' <=> Rewriting(t, c)
    BY DEF Rewriting
  <1>2. \A t \in Writers, c \in Containers : Rewriting(t, c)' => UNCHANGED <<pc[t], result[t]>>
    BY DEF Rewriting
  <1>3. \A c \in Containers : Whole(status[c])' <=> Whole(status[c])
    BY DEF Whole
  <1> QED
    BY <1>1, <1>2, <1>3 DEF Rewritten

\* The two that rewrite are never inside at once.
LEMMA OneRewrites ==
  ASSUME LockInv, NEW t \in Threads, pc[t] \in Inside, NEW u \in Threads \ {t}
  PROVE  pc[u] \notin {"result", "window"}
  BY HandlersApart DEF LockInv, Excluded, Inside

LEMMA UpdateRewrites ==
  ASSUME IInv, NEW t \in Writers, UpdateLimitStatus(t)
  PROVE  Rewritten'
  <1>1. t \in Threads /\ Writers \subseteq Threads /\ Alone(t) /\ pc \in [Threads -> Places]
        /\ None \notin LimitStatus /\ result[t] \in LimitResult \cup {None}
    BY UpdateAlone, HandlersApart, NoneIsNotUsed DEF IInv, Writers, LockInv, Placed, TypeOK
  <1>2. CASE LockToUpdate(t)
    <2>1. pc[t] \notin {"result", "window"} /\ pc'[t] \notin {"result", "window"}
      BY <1>1, <1>2 DEF LockToUpdate, Lock, At, Goto
    <2> QED
      BY <1>1, <1>2, <2>1, OffRewriting DEF LockToUpdate, memory, IInv, Alone
  <1>3. ASSUME WriteIsLimited(t) \/ WriteLimitResult(t) \/ WriteTriggeredBy(t)
        PROVE  /\ cur[t] \in Containers /\ status' \in [Containers -> LimitStatus \cup {None}]
               /\ status'[cur[t]] # None
               /\ \A c \in Containers \ {cur[t]} : status'[c] = status[c]
               /\ \A u \in Writers \ {t} : pc[u] \notin {"result", "window"} /\ pc'[u] \notin {"result", "window"}
    BY <1>1, <1>3, Writes, OneRewrites DEF IInv, Alone, Inside, WriteIsLimited, WriteLimitResult, WriteTriggeredBy, At
  <1>4. ASSUME WriteIsLimited(t) \/ WriteLimitResult(t),
               status'[cur[t]].isLimited <=> result[t] # None,
               pc'[t] = "window" => status'[cur[t]].result = result[t]
        PROVE  Rewritten'
    <2>1. pc'[t] \in {"result", "window"} /\ UNCHANGED <<cur, result>> /\ (pc[t] = "update" \/ pc[t] = "result")
      BY <1>1, <1>4 DEF WriteIsLimited, WriteLimitResult, Goto, At
    <2>2. \A c \in Containers \ {cur[t]} : status[c] # None => Whole(status[c])
      BY <1>3, <1>4, <2>1 DEF IInv, Rewritten, Rewriting
    <2> QED
      BY <1>3, <1>4, <2>1, <2>2 DEF Rewritten, Rewriting, Whole
  <1>5. CASE WriteIsLimited(t)
    <2> DEFINE old == IF status[cur[t]] = None THEN Blank ELSE status[cur[t]]
    <2>1. old \in LimitStatus
      BY <1>3, <1>5 DEF IInv, TypeOK, LimitStatus, Blank
    <2>2. status' = [status EXCEPT ![cur[t]] = [old EXCEPT !.isLimited = (result[t] # None)]] /\ pc'[t] = "result"
      BY <1>1, <1>5 DEF WriteIsLimited, Goto
    <2>3. status'[cur[t]].isLimited <=> result[t] # None
      <3> HIDE DEF old
      <3> QED
        BY <1>3, <1>5, <2>1, <2>2 DEF IInv, TypeOK, LimitStatus
    <2> QED
      BY <1>4, <1>5, <2>2, <2>3
  <1>6. CASE WriteLimitResult(t)
    <2>1. status[cur[t]] \in LimitStatus /\ (status[cur[t]].isLimited <=> result[t] # None)
      BY <1>1, <1>3, <1>6 DEF IInv, Rewritten, Rewriting, WriteLimitResult, At, TypeOK
    <2>2. status' = [status EXCEPT ![cur[t]] = [status[cur[t]] EXCEPT !.result = result[t]]]
      BY <1>6 DEF WriteLimitResult
    <2>3. (status'[cur[t]].isLimited <=> result[t] # None) /\ status'[cur[t]].result = result[t]
      BY <1>3, <1>6, <2>1, <2>2 DEF IInv, TypeOK, LimitStatus
    <2> QED
      BY <1>4, <1>6, <2>3
  <1>7. CASE WriteTriggeredBy(t)
    <2>1. /\ status[cur[t]] \in LimitStatus /\ (status[cur[t]].isLimited <=> result[t] # None)
          /\ status[cur[t]].result = result[t]
      BY <1>1, <1>3, <1>7 DEF IInv, Rewritten, Rewriting, WriteTriggeredBy, At, TypeOK
    <2>2. status' = IF result[t] = None THEN status
                    ELSE [status EXCEPT ![cur[t]] = [status[cur[t]] EXCEPT !.triggeredBy = result[t].triggeredBy]]
      BY <1>7 DEF WriteTriggeredBy
    <2>3. Whole(status'[cur[t]])
      <3>1. CASE result[t] = None
        BY <2>1, <2>2, <3>1 DEF Whole
      <3>2. CASE result[t] # None
        BY <1>3, <1>7, <2>1, <2>2, <3>2 DEF IInv, TypeOK, LimitStatus, Whole
      <3> QED
        BY <3>1, <3>2
    <2>4. \A c \in Containers \ {cur[t]} : status'[c] = status[c] /\ (status[c] # None => Whole(status[c]))
      BY <1>3, <1>7 DEF IInv, Rewritten, Rewriting
    <2>5. \A u \in Writers : pc'[u] \notin {"result", "window"}
      BY <1>1, <1>3, <1>7 DEF WriteTriggeredBy, Goto
    <2> QED
      BY <2>3, <2>4, <2>5 DEF Rewritten, Rewriting
  <1> QED
    BY <1>2, <1>5, <1>6, <1>7 DEF UpdateLimitStatus

LEMMA OthersRewrite ==
  ASSUME IInv, Next, ~UpdateLimitStatus("monitor"), ~UpdateLimitStatus("restorer")
  PROVE  Rewritten'
  <1>1. Writers \subseteq Threads /\ pc \in [Threads -> Places]
    BY HandlersApart DEF Writers, IInv, LockInv, Placed
  <1>2. CASE Monitor
    <2>1. UNCHANGED status
      BY <1>2 DEF Monitor, Analyze, ListContainers, LookUp, CopyStats, Analysed, BeginRound, LockToAdd, addIOStats, Collected,
         FindHistory, getLimitStatus, Decide, RemoveOrKeep, LastCheckRenewed, CheckForNil, CompareTrigger, CompareValues,
         getOrInitContainerLimit, PodNotFound, RoundEnds, Step, NextContainer, Fixed, memory
    <2>2. pc["monitor"] \notin {"result", "window"}
      BY <1>2 DEF Monitor, Analyze, ListContainers, LookUp, CopyStats, Analysed, BeginRound, LockToAdd, addIOStats, Collected,
         FindHistory, getLimitStatus, Decide, RemoveOrKeep, LastCheckRenewed, CheckForNil, CompareTrigger, CompareValues,
         getOrInitContainerLimit, PodNotFound, RoundEnds, At
    <2>3. pc'["monitor"] \notin {"result", "window"}
      BY <1>1, <1>2, <2>2 DEF Writers, Monitor, Analyze, ListContainers, LookUp, CopyStats, Analysed, BeginRound, LockToAdd, addIOStats,
         Collected, FindHistory, getLimitStatus, Decide, RemoveOrKeep, LastCheckRenewed, CheckForNil, CompareTrigger, CompareValues,
         getOrInitContainerLimit, PodNotFound, RoundEnds, Step, NextContainer, Fixed, Lock, Goto
    <2> QED
      BY <1>1, <1>2, <2>1, <2>2, <2>3, MonitorAlone, OffRewriting DEF IInv, Alone, Writers
  <1>3. CASE Restorer
    <2>1. UNCHANGED status /\ pc["restorer"] \notin {"result", "window"} /\ pc'["restorer"] \notin {"result", "window"}
      BY <1>1, <1>3 DEF Writers, Restorer, ListPods, RestoreContainer, RestoreEnds, Goto, At, memory
    <2> QED
      BY <1>1, <1>3, <2>1, RestorerAlone, OffRewriting DEF IInv, Alone, Writers
  <1>4. CASE Cleaner
    <2>1. CASE LockToClean
      BY <1>1, <1>4, <2>1, CleanerAlone, OffRewriting, HandlersApart DEF IInv, Alone, Writers, LockToClean, memory
    <2>2. ASSUME NEW stale, NEW unchecked, cleanupHistory(stale, unchecked)
          PROVE  Rewritten'
      <3>1. \A t \in Writers : pc[t] \notin {"result", "window"} /\ pc'[t] \notin {"result", "window"}
        BY <1>1, <1>4, <2>2, OneRewrites, CleanerAlone, HandlersApart DEF IInv, Inside, Alone, Writers, cleanupHistory, At
      <3>2. \A c \in Containers : status'[c] # None => status'[c] = status[c]
        BY <2>2 DEF cleanupHistory
      <3>3. \A c \in Containers : status[c] # None => Whole(status[c])
        BY <3>1 DEF IInv, Rewritten, Rewriting
      <3> QED
        BY <3>1, <3>2, <3>3 DEF Rewritten, Rewriting, Whole
    <2> QED
      BY <1>4, <2>1, <2>2 DEF Cleaner
  <1>5. ASSUME NEW h \in Handlers, Serve(h) \/ \E q \in Requests : Arrive(h, q)
        PROVE  Rewritten'
    <2>1. UNCHANGED status
      BY <1>5 DEF Serve, Arrive, GetAllLimitStatus, LockHistory, GetAllContainerHistory, CopyAll, AnswerCopied, AnswerOne, Answer,
         Analyze, ListContainers, LookUp, CopyStats, Analysed, memory
    <2> QED
      BY <1>1, <1>5, <2>1, HandlerAlone, OffRewriting, HandlersApart DEF IInv, Alone, Writers
  <1> QED
    BY <1>2, <1>3, <1>4, <1>5 DEF Next

(***************************************************************************)
(* What stays filed is on the way to the answer.                           *)
(***************************************************************************)
LEMMA BackgroundStays ==
  ASSUME Stays, UNCHANGED request,
         \A h \in Handlers : UNCHANGED <<pc[h], todo[h], trends[h]>>
                             /\ steady'[h] \subseteq steady[h] /\ steady'[h] \subseteq history'
  PROVE  Stays'
  BY DEF Stays, Kept

LEMMA BackgroundSteps ==
  ASSUME IInv, Monitor \/ Restorer \/ Cleaner
  PROVE  Stays'
  <1>1. Alone("monitor") \/ Alone("restorer") \/ Alone("cleaner")
    BY MonitorAlone, RestorerAlone, CleanerAlone DEF IInv
  <1>2. \A h \in Handlers : UNCHANGED <<pc[h], todo[h], trends[h]>>
    BY <1>1, HandlersApart DEF Alone
  <1>3. UNCHANGED request
        /\ \A h \in Handlers : steady'[h] \subseteq steady[h] /\ steady'[h] \subseteq history'
    <2>1. \A h \in Handlers : steady[h] \subseteq history
      BY DEF IInv, Stays, Kept
    <2>2. CASE Cleaner
      BY <2>1, <2>2 DEF Cleaner, LockToClean, cleanupHistory, serving, memory
    <2>3. CASE Monitor
      BY <2>1, <2>3 DEF Monitor, Analyze, ListContainers, LookUp, CopyStats, Analysed, BeginRound, LockToAdd, addIOStats, Collected,
         FindHistory, getLimitStatus, Decide, RemoveOrKeep, LastCheckRenewed, CheckForNil, CompareTrigger, CompareValues,
         getOrInitContainerLimit, PodNotFound, RoundEnds, Step, NextContainer, Fixed, UpdateLimitStatus, LockToUpdate,
         WriteIsLimited, WriteLimitResult, WriteTriggeredBy, memory, serving
    <2>4. CASE Restorer
      BY <2>1, <2>4 DEF Restorer, ListPods, RestoreContainer, RestoreEnds, UpdateLimitStatus, LockToUpdate,
         WriteIsLimited, WriteLimitResult, WriteTriggeredBy, memory, serving
    <2> QED
      BY <2>2, <2>3, <2>4
  <1> QED
    BY <1>2, <1>3, BackgroundStays DEF IInv

LEMMA HandlerSteps ==
  ASSUME IInv, NEW h \in Handlers, Serve(h) \/ \E q \in Requests : Arrive(h, q)
  PROVE  Stays'
  <1>1. /\ Alone(h) /\ h \in Threads /\ Handlers \subseteq Threads /\ pc \in [Threads -> Places]
        /\ \A g \in Handlers \ {h} : request'[g] = request[g] /\ steady'[g] = steady[g]
    BY HandlerAlone, HandlersApart DEF IInv, LockInv, Placed
  <1>2. UNCHANGED history
    BY DEF Serve, Arrive, GetAllLimitStatus, LockHistory, GetAllContainerHistory, CopyAll, AnswerCopied, AnswerOne, Answer,
       Analyze, ListContainers, LookUp, CopyStats, Analysed, memory
  <1>3. \A g \in Handlers \ {h} : Kept(g)'
    BY <1>1, <1>2 DEF IInv, Stays, Kept, Alone
  <1>4. Kept(h)
    BY DEF IInv, Stays
  <1>5. ASSUME ListContainers(h)
        PROVE  Kept(h)'
    BY <1>1, <1>2, <1>4, <1>5 DEF ListContainers, At, Goto, serving, IInv, TypeOK, Kept
  <1>6. ASSUME NEW c \in todo[h], LookUp(h)
        PROVE  Kept(h)'
    BY <1>1, <1>2, <1>4, <1>6 DEF LookUp, At, Goto, serving, IInv, TypeOK, Kept
  <1>7. ASSUME CopyStats(h)
        PROVE  Kept(h)'
    BY <1>1, <1>2, <1>4, <1>7 DEF CopyStats, At, Goto, serving, IInv, TypeOK, Kept
  <1>8. ASSUME Analysed(h)
        PROVE  Kept(h)'
    BY <1>1, <1>2, <1>4, <1>8, HandlersApart DEF Analysed, At, Goto, serving, IInv, TypeOK, Kept
  <1>9. ASSUME GetAllLimitStatus(h) \/ AnswerCopied(h) \/ AnswerOne(h)
        PROVE  Kept(h)'
    BY <1>1, <1>2, <1>4, <1>9 DEF GetAllLimitStatus, AnswerCopied, AnswerOne, Answer, Goto, IInv, TypeOK, Kept
  <1>10. ASSUME LockHistory(h)
        PROVE  Kept(h)'
    BY <1>1, <1>2, <1>4, <1>10 DEF LockHistory, At, Goto, serving, Kept
  <1>11. ASSUME GetAllContainerHistory(h)
        PROVE  Kept(h)'
    BY <1>1, <1>2, <1>4, <1>11 DEF GetAllContainerHistory, CopyAll, At, Goto, IInv, TypeOK, Kept
  <1>12. ASSUME NEW q \in Requests, Arrive(h, q)
         PROVE  Kept(h)'
    BY <1>1, <1>2, <1>4, <1>12, StatusConstantsOK DEF Arrive, Goto, Routes, IInv, TypeOK, Kept
  <1>13. Kept(h)'
    BY <1>5, <1>6, <1>7, <1>8, <1>9, <1>10, <1>11, <1>12 DEF Serve, Analyze, LookUp
  <1> QED
    BY <1>3, <1>13 DEF Stays

LEMMA InitIInv == Init => IInv
  <1> SUFFICES ASSUME Init PROVE IInv
    OBVIOUS
  <1>1. \A t \in Threads : pc[t] = "idle"
    BY DEF Init
  <1>2. "monitor" \in Threads /\ "restorer" \in Threads /\ Writers \subseteq Threads
    BY HandlersApart DEF Writers
  <1>3. TypeOK
    BY DEF Init, TypeOK
  <1>4. Holds /\ Points
    BY <1>1, <1>2 DEF Init, Holds, Points, JudgePlaces, UpdatePlaces
  <1>5. Rewritten
    BY <1>1, <1>2 DEF Init, Rewritten, Rewriting
  <1>6. Stays
    BY <1>1, HandlersApart DEF Init, Stays, Kept
  <1> QED
    BY <1>3, <1>4, <1>5, <1>6, InitLock DEF IInv

LEMMA NextIInv == IInv /\ [Next]_vars => IInv'
  <1> SUFFICES ASSUME IInv, [Next]_vars PROVE IInv'
    OBVIOUS
  <1>1. CASE UNCHANGED vars
    BY <1>1 DEF vars, memory, pointer, serving, IInv, TypeOK, Fetched, LockInv, Placed, Excluded, Holds, Points,
       Rewritten, Rewriting, Whole, Stays, Kept
  <1>2. CASE Next
    <2>1. LockInv'
      BY NextLock DEF IInv
    <2>2. TypeOK' /\ Holds' /\ Points'
      BY <1>2, MonitorKeeps, AnalyzeKeeps, UpdateKeeps, RestorerKeeps, CleanerKeeps, HandlerKeeps DEF Next, Writers
    <2>3. Rewritten'
      BY <1>2, UpdateRewrites, OthersRewrite DEF Writers
    <2>4. Stays'
      BY <1>2, BackgroundSteps, HandlerSteps DEF Next
    <2> QED
      BY <2>1, <2>2, <2>3, <2>4 DEF IInv
  <1> QED
    BY <1>1, <1>2

LEMMA Invariance == Spec => []IInv
  BY InitIInv, NextIInv, PTL DEF Spec

(***************************************************************************)
(* What follows.                                                           *)
(***************************************************************************)

\* Every variable keeps its type, and the pointer that the monitor took from
\* getLimitStatus leads to a LimitStatus, whatever the cleaner deletes meanwhile
\* (smartlimit.go:227-254, 635-692).
THEOREM TypeCorrect == Spec => []TypeOK
  <1>1. IInv => TypeOK
    BY DEF IInv
  <1> QED
    BY <1>1, Invariance, PTL

\* shouldUpdateLimit never follows a nil LimitResult, although the restorer may
\* rewrite the entry between its two reads (smartlimit.go:469-489).
THEOREM NilIsNeverFollowed == Spec => []NilNeverFollowed
  <1>1. IInv => NilNeverFollowed
    BY DEF IInv, Points, NilNeverFollowed, At
  <1> QED
    BY <1>1, Invariance, PTL

\* A container that stays filed while a request is analysed has its trend in the
\* answer (metrics_analysis.go:9-30, handlers.go:51-121).
THEOREM SteadyHasItsTrend == Spec => []SteadyHasTrend
  <1>1. IInv => SteadyHasTrend
    BY DEF IInv, Stays, Kept, SteadyHasTrend, At
  <1> QED
    BY <1>1, Invariance, PTL

\* Whether there is a limit, which and on account of which window are answered as
\* updateLimitStatus wrote them together, although the entries are copied without their
\* locks.  LastCheckAt is left out: its renewal does not hold m.mu (smartlimit.go:174-178,
\* 635-692), and ChecksWhole is false.
THEOREM AnswersAreWhole == Spec => StatusesWhole
  <1> DEFINE P == \A h \in Handlers, c \in Containers :
                    At(h, "limit-status") /\ pc'[h] = "ok" /\ status[c] # None => Whole(status[c])
  <1>1. IInv /\ Next => P
    <2> SUFFICES ASSUME IInv, Next, NEW h \in Handlers, NEW c \in Containers,
                        At(h, "limit-status"), pc'[h] = "ok", status[c] # None
                 PROVE  Whole(status[c])
      OBVIOUS
    <2>1. h \in Threads /\ pc \in [Threads -> Places] /\ h \notin Background
      BY HandlersApart DEF IInv, LockInv, Placed, Background
    <2>2. \A t \in Threads : Alone(t) /\ t # h => pc'[h] = "limit-status"
      BY <2>1 DEF Alone, At
    <2>3. ~Monitor /\ ~Restorer /\ ~Cleaner
      BY <2>1, <2>2, MonitorAlone, RestorerAlone, CleanerAlone, HandlersApart DEF IInv, Background
    <2>4. Serve(h)
      <3>1. PICK g \in Handlers : Serve(g) \/ \E q \in Requests : Arrive(g, q)
        BY <2>3 DEF Next
      <3>2. g = h
        BY <2>2, <3>1, HandlerAlone, HandlersApart DEF IInv
      <3> QED
        BY <3>1, <3>2 DEF Arrive, At
    <2>5. Readable
      BY <2>4 DEF Serve, GetAllLimitStatus, LockHistory, GetAllContainerHistory, CopyAll, AnswerCopied, AnswerOne,
         Analyze, ListContainers, LookUp, CopyStats, Analysed, At
    <2>6. \A t \in Writers : pc[t] \notin {"result", "window"}
      BY <2>5, HandlersApart DEF Readable, IInv, LockInv, Excluded, Inside, Writers
    <2> QED
      BY <2>6 DEF IInv, Rewritten, Rewriting
  <1>2. IInv /\ [Next]_vars => [P]_vars
    BY <1>1
  <1>3. Spec => [][P]_vars
    BY <1>2, Invariance, PTL DEF Spec
  <1> QED
    BY <1>3 DEF StatusesWhole
====
