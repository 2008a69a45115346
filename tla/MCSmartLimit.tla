---- MODULE MCSmartLimit ----
(***************************************************************************)
(* Small instances of SmartLimit for TLC.  One unit of time is a minute of *)
(* the code's; rates and thresholds keep only their order.                 *)
(***************************************************************************)
EXTENDS SmartLimit

Flat(x) == [k \in LimitKeys |-> x]
Shape(a, b, c) == [w \in Windows |-> CASE w = "15m" -> Flat(a) [] w = "30m" -> Flat(b) [] w = "60m" -> Flat(c)]

\* 0 is calm, 3 is above every threshold.
CalmTrend == Shape(0, 0, 0)
Spike == Shape(3, 0, 0)
Fading == Shape(0, 3, 3)

MCWindows(x) == [w \in Windows |-> x]
MCThreshold == MCWindows(2)
\* The 60m window has no limit of its own: the default limits apply.
MCIOPSLimit == [w \in Windows |-> CASE w = "15m" -> 3 [] w = "30m" -> 9 [] w = "60m" -> 0]
MCBPSLimit == [w \in Windows |-> CASE w = "15m" -> 4 [] w = "30m" -> 5 [] w = "60m" -> 0]

TwoTrends == {CalmTrend, Spike}
LateTrends == {CalmTrend, Fading}
ThreeTrends == {CalmTrend, Spike, Fading}

CONSTANTS c1, p1, n1
OnePod == [c \in Containers |-> p1]
OneName == [c \in Containers |-> n1]

CONSTANT MaxDisturbances     \* bound on edits, failures, restarts and cleanups together

\* A behaviour is followed until it has had more disturbances than that.
Disturbances == used.edits + used.failures + used.crashes + used.cleanups

FewDisturbances == Disturbances <= MaxDisturbances
====
