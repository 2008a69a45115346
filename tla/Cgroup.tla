---- MODULE Cgroup ----
(***************************************************************************)
(* What the writes of the cgroup manager leave in the throttle files of a  *)
(* container (SetLimits, ResetLimits).  The files are a function from the  *)
(* four items to their limit, 0 when there is none.                        *)
(***************************************************************************)
EXTENDS Integers

Items == {"read-iops", "write-iops", "read-bps", "write-bps"}
Files == [Items -> Nat]
Unlimited == [k \in Items |-> 0]

\* The order in which cgroup v1 writes its four files.
Position == [k \in Items |-> CASE k = "read-iops" -> 1 [] k = "write-iops" -> 2
                               [] k = "read-bps" -> 3 [] k = "write-bps" -> 4]

\* Faulty: writes a negative limit as it is.
Positive_Raw(limits) == limits

\* A limit that is not positive is written as 0.
Positive(limits) == [k \in Items |-> IF limits[k] > 0 THEN limits[k] ELSE 0]

\* v1: the files after the first n of the four writes.
AfterWrites(files, limits, n) ==
    [k \in Items |-> IF Position[k] <= n THEN Positive(limits)[k] ELSE files[k]]

\* v2: one line in io.max.  It names the positive items and the kernel leaves the
\* others as they are; with no positive item it is "max", which clears all four.
AfterLine(files, limits) ==
    IF Positive(limits) = Unlimited THEN Unlimited
    ELSE [k \in Items |-> IF limits[k] > 0 THEN limits[k] ELSE files[k]]

SetLimits(version, files, limits) ==
    IF version = "v1" THEN AfterWrites(files, limits, 4) ELSE AfterLine(files, limits)

\* ResetLimits writes 0 to each v1 file; for v2 it tries three forms of "max" until
\* one is accepted, and does nothing when the cgroup is gone.
ResetLimits(version, files) ==
    IF version = "v1" THEN AfterWrites(files, Unlimited, 4) ELSE Unlimited

\* What a call that returns an error may leave behind: v1 stops at the file that
\* could not be written.
Interrupted(version, files, limits) ==
    IF version = "v1" THEN {AfterWrites(files, limits, n) : n \in 0 .. 3} ELSE {files}
====
