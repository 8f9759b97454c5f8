--------------------------- MODULE MCMonitorLive ---------------------------
(***************************************************************************)
(* MonitorLive for TLC: two events of one provider that a publication may  *)
(* match, reprice, suspend or drop.                                        *)
(***************************************************************************)
EXTENDS MonitorLive, TLC

Quote(market, suspended, odds) == market :> [suspended |-> suspended, odds |-> "s" :> odds]

MCTogether == {{"overview"}, {"events"}, {"issues"}, {"detail", "history"}}
MCOften == [publications |-> 2, expiries |-> 1, faults |-> 1, drops |-> 1, clicks |-> 2]

Unmatched == [e \in Event |-> Null]
MCFirst ==
  [batch |-> "e1" :> Quote("m", "no", 190), match |-> Unmatched, issues |-> {"e1"}]
MCPublication ==
  {[batch |-> "e1" :> Quote("m", "no", 200), match |-> Unmatched, issues |-> {"e1"}],
   [batch |-> "e1" :> (Quote("m", "yes", 180) @@ Quote("n", "no", 120))
                @@ "e2" :> Quote("m", "unknown", 150),
    match |-> [e \in Event |-> "canonical"], issues |-> {"e2"}]}
=============================================================================
