------------------------- MODULE MCAdaptiveScheduler -------------------------
(* Small instances of the scheduler.  One hour is two ticks, so that an      *)
(* event goes through the 1-6 h band, the last hour and its start in a run.  *)
EXTENDS AdaptiveScheduler

CONSTANTS p1, p2, e1, e2

MCIntervals == [gt24h |-> 4, h6to24 |-> 3, h1to6 |-> 2, lt1h |-> 1]
\* The last backoff step outlasts the cooldown, so a probe must override it.
MCBackoff == <<1, 3>>
MCProviderOf == [e \in Event |-> IF e = e2 /\ p2 \in Provider THEN p2 ELSE p1]
=============================================================================
