-------------------------- MODULE SchedulingPolicy --------------------------
(***************************************************************************)
(* The pure rules of the collection agenda                                 *)
(*   apps/odds-service/src/modules/collection/scheduling-policy.ts         *)
(* Instants and durations are whole ticks of an abstract clock.            *)
(***************************************************************************)
EXTENDS Integers, Sequences

CONSTANTS
  Hour,             \* ticks in an hour
  DetailIntervals,  \* [gt24h, h6to24, h1to6, lt1h |-> ticks]
  BackoffSteps,     \* the waits after the 1st, 2nd, ... failure in a row
  None              \* null

ASSUME PolicyAssumption ==
  /\ Hour \in Nat \ {0}
  /\ DetailIntervals \in [{"gt24h", "h6to24", "h1to6", "lt1h"} -> Nat \ {0}]
  /\ BackoffSteps \in Seq(Nat \ {0})
  /\ BackoffSteps # <<>>
  /\ None \notin Int

\* Exact 24 h and 6 h belong to the longer band, exact 1 h to 1-6 h.
getDetailInterval(startsAt, now) ==
  LET remaining == startsAt - now
  IN  CASE remaining <= 0         -> None
        [] remaining > 24 * Hour  -> DetailIntervals.gt24h
        [] /\ remaining >= 6 * Hour
           /\ remaining <= 24 * Hour -> DetailIntervals.h6to24
        [] /\ remaining >= Hour
           /\ remaining < 6 * Hour -> DetailIntervals.h1to6
        [] OTHER                  -> DetailIntervals.lt1h

\* The last step repeats for ever.
backoff(failures) ==
  BackoffSteps[IF failures < 1 THEN 1
               ELSE IF failures > Len(BackoffSteps) THEN Len(BackoffSteps)
               ELSE failures]
=============================================================================
