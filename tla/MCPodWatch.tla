---- MODULE MCPodWatch ----
(***************************************************************************)
(* Small instances of PodWatch for TLC.                                    *)
(***************************************************************************)
EXTENDS PodWatch

CONSTANTS p1, c1, c2

Nothing == [k \in Keys |-> None]
Plain == [removed |-> FALSE, smart |-> Nothing, legacy |-> Nothing, other |-> 0]

\* Only the write limit is kept, beside a negative number and a value that is no
\* number; everything is lifted by the keys that set both.
WriteOnly == [Plain EXCEPT !.smart["read-iops"] = 0, !.smart["write-iops"] = 4,
                           !.smart["read-bps"] = -1, !.smart["write-bps"] = Malformed]
Lifted == [Plain EXCEPT !.smart["iops"] = 0, !.smart["bps"] = 0]

LimitedOrLifted == {WriteOnly, Lifted}
DefaultsOrLimited == {Plain, WriteOnly}
MCDefaults == [k \in LimitKeys |-> IF k \in {"read-iops", "write-iops"} THEN 5 ELSE 0]
OnePod == [c \in Containers |-> p1]
====
