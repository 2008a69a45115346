---- MODULE LimitLifecycle ----
(***************************************************************************)
(* What the smart limits promise to the owner of a pod, as the owner sees  *)
(* it: in the annotations.  Nothing is said of rounds, calls, failures and *)
(* restarts.  Every write of the manager is one atomic step upon the       *)
(* annotations as they are: it imposes a limit below the maximum, passing  *)
(* over exempted items, or it releases the pod, not too soon.              *)
(***************************************************************************)
EXTENDS Integers

CONSTANTS
    Pods, Windows, LimitKeys,
    None,        \* a missing annotation
    Maximum,     \* [LimitKeys -> Nat]: no limit is above it
    Delay        \* for how long a limit is not lifted

VARIABLES
    ann,      \* [Pods -> annotations]: limit, triggeredBy, removed, app
    held,     \* time since a limit was last imposed on the pod, up to Delay
    edits     \* the edits that users made so far

vars == <<ann, held, edits>>

Init ==
    /\ \A p \in Pods : ann[p].triggeredBy = None /\ ~ann[p].removed
    /\ held = [p \in Pods |-> Delay]
    /\ edits = 0

\* Users edit limits and annotations of their own.
UserEdits(p) ==
    /\ ann' = [ann EXCEPT ![p].limit = ann'[p].limit, ![p].app = ann'[p].app]
    /\ edits' = edits + 1
    /\ UNCHANGED held

Impose(p) ==
    /\ ann' = [ann EXCEPT ![p].limit = ann'[p].limit, ![p].triggeredBy = ann'[p].triggeredBy]
    /\ ann'[p].triggeredBy \in Windows
    /\ \A k \in LimitKeys :
         \/ ann'[p].limit[k] = ann[p].limit[k]
         \/ ann[p].limit[k] # 0 /\ ann'[p].limit[k] \in 1 .. Maximum[k]
    /\ held' = [held EXCEPT ![p] = 0]
    /\ UNCHANGED edits

Release(p) ==
    /\ ann[p].triggeredBy # None => held[p] >= Delay
    /\ ann' = [ann EXCEPT ![p].limit = [k \in LimitKeys |-> None],
                          ![p].triggeredBy = None, ![p].removed = TRUE]
    /\ UNCHANGED <<held, edits>>

Tick ==
    /\ held' = [p \in Pods |-> IF held[p] < Delay THEN held[p] + 1 ELSE Delay]
    /\ UNCHANGED <<ann, edits>>

Next == Tick \/ \E p \in Pods : UserEdits(p) \/ Impose(p) \/ Release(p)

Spec == Init /\ [][Next]_vars
====
