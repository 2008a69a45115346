---- MODULE Annotations ----
(***************************************************************************)
(* How the pod watch reads limits from the annotations of a pod            *)
(* (ParseIopsLimitFromAnnotations, ParseBpsLimitFromAnnotations).  The two *)
(* functions differ in their keys and in the notation of a number only.    *)
(***************************************************************************)
EXTENDS Integers

CONSTANTS
    None,        \* the key is missing
    Malformed,   \* a value that Atoi, or RAMInBytes, refuses
    Defaults     \* the limits of a container whose pod says nothing

LimitKeys == {"read-iops", "write-iops", "read-bps", "write-bps"}
BothKeys == {"iops", "bps"}
Keys == LimitKeys \cup BothKeys

ASSUME DefaultsOK ==
    /\ Defaults \in [LimitKeys -> Int]
    /\ None \notin Int /\ Malformed \notin Int /\ None # Malformed

Values == Int \cup {None, Malformed}

\* The annotations the parser looks at: the removed marker, the keys with the
\* prefix, and the legacy keys (nvme-iops-read stands at legacy["read-iops"]).
\* other is whatever else the pod is annotated with.
PodAnnotations == [removed: BOOLEAN, smart: [Keys -> Values], legacy: [Keys -> Values], other: Nat]

\* The key that sets the read and the write limit at once.
Both(k) == IF k \in {"read-iops", "write-iops"} THEN "iops" ELSE "bps"

hasSmartLimitAnnotation(ann) == \E k \in Keys : ann.smart[k] # None

\* The legacy keys count only if there is no key with the prefix.
Chosen(ann) == IF hasSmartLimitAnnotation(ann) THEN ann.smart ELSE ann.legacy

\* a if it is a number, otherwise b.
Number(a, b) == IF a \in Int THEN a ELSE b

\* The limit of every item: a malformed value counts as missing.
Limits(ann) ==
    [k \in LimitKeys |-> IF ann.removed THEN 0
                         ELSE Number(Chosen(ann)[Both(k)], Number(Chosen(ann)[k], Defaults[k]))]
====
