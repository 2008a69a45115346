---- MODULE Calculator ----
(***************************************************************************)
(* The calculator of I/O rates from cAdvisor's counters (pkg/cadvisor).    *)
(* The four counters of a container are treated alike: a point has the     *)
(* time at which it was added and the value of one of them.                *)
(***************************************************************************)
EXTENDS Integers, Sequences, FiniteSetsExt

CONSTANT MaxPoints     \* how many points of a container are kept

ASSUME MaxPointsOK == MaxPoints \in Nat \ {0, 1}

Point == [t: Nat, v: Nat]

\* Faulty: keeps every point.
AddMetricPoint_NoCap(points, t, v) == Append(points, [t |-> t, v |-> v])

\* The last MaxPoints points, this one included.
AddMetricPoint(points, t, v) ==
    LET all == Append(points, [t |-> t, v |-> v]) IN
    IF Len(all) > MaxPoints THEN SubSeq(all, Len(all) - MaxPoints + 1, Len(all)) ELSE all

\* int64 of a quotient: towards zero.
Truncated(a, b) == IF a >= 0 THEN a \div b ELSE -((-a) \div b)

\* Faulty: takes all points for those of the window.
Window_All(points, cutoff) == DOMAIN points

\* Where the points of the window are.
Window(points, cutoff) == {i \in DOMAIN points : points[i].t > cutoff}

\* There is a rate if two points of the window are some time apart.
HasRate(points, cutoff) ==
    LET window == Window(points, cutoff) IN
    window # {} /\ points[Max(window)].t > points[Min(window)].t

\* From the first to the last point of the window.
CalculateIORate(points, cutoff) ==
    LET latest == points[Max(Window(points, cutoff))]
        earliest == points[Min(Window(points, cutoff))]
    IN Truncated(latest.v - earliest.v, latest.t - earliest.t)
====
