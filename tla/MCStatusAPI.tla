---- MODULE MCStatusAPI ----
(***************************************************************************)
(* Two containers, only one of which is ever limited, and one connection.  *)
(* The restorer records the zeros it parsed, the monitor the limits of its *)
(* windows.                                                                *)
(***************************************************************************)
EXTENDS StatusAPI

CONSTANTS c1, c2, h1

MCJudged == [c \in Containers |->
               IF c \in Announced THEN {[triggeredBy |-> "15m", limit |-> 5]} ELSE {}]
MCRestored == [c \in Announced |-> [triggeredBy |-> "30m", limit |-> 0]]
====
