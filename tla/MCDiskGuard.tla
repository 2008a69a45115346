---- MODULE MCDiskGuard ----
(***************************************************************************)
(* Small instances of DiskGuard for TLC.                                   *)
(***************************************************************************)
EXTENDS DiskGuard

CONSTANTS p1, c1, n1

OnePod == [c \in Containers |-> p1]
OneName == [c \in Containers |-> n1]

\* The names of the windows and of the keys, as SmartLimit and Annotations have them.
Windows == {"15m", "30m", "60m"}
IOPSKeys == {"read-iops", "write-iops"}
LimitKeys == IOPSKeys \cup {"read-bps", "write-bps"}

Shape(a, b, c) ==
    [w \in Windows |-> [k \in LimitKeys |->
       CASE w = "15m" -> a [] w = "30m" -> b [] w = "60m" -> c]]

\* 0 is calm, 3 is above every threshold.
MCTrends == {Shape(0, 0, 0), Shape(0, 3, 3)}

MCThreshold == [w \in Windows |-> 2]
\* The 15m window limits more than the 30m window.
MCIOPSLimit == [w \in Windows |-> CASE w = "15m" -> 3 [] w = "30m" -> 9 [] w = "60m" -> 0]
MCBPSLimit == [w \in Windows |-> CASE w = "15m" -> 4 [] w = "30m" -> 5 [] w = "60m" -> 0]

\* As shipped, IOPS are limited and bytes are not.
MCDefaults == [k \in LimitKeys |-> IF k \in IOPSKeys THEN 5 ELSE 0]
====
