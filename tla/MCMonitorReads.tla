--------------------------- MODULE MCMonitorReads ---------------------------
(***************************************************************************)
(* MonitorReads for TLC: three providers, one game whose price may change, *)
(* lose a side, be offered under another selection, be offered twice, go   *)
(* live or be suspended, and two publications while a request is answered. *)
(* One incomplete event counts, as three do in the code.                   *)
(***************************************************************************)
EXTENDS MonitorReads, TLC

MCProvider == 1..3
MCSelection == {"a", "b", "b2"}
MCSideOf == [s \in MCSelection |-> IF s = "a" THEN "teamA" ELSE "teamB"]

Quote(play, odds) == [play |-> play, odds |-> odds]
Says(play, markets) == [play |-> play, markets |-> markets]
One(odds) == Says("open", "m1" :> Quote("open", odds))

Even == ("a" :> 190 @@ "b" :> 190)
Long == ("a" :> 240 @@ "b" :> 160)
Moved == ("a" :> 160 @@ "b2" :> 240)

MCOpening ==
  {<<One(Even), One(Even), One(Long)>>,
   <<One(Even), One(Long), Unpublished>>, <<One(Even), Unpublished, Unpublished>>,
   <<Unpublished, Unpublished, Unpublished>>}
MCContent ==
  {One(Moved), One("a" :> 240),
   Says("open", "m1" :> Quote("suspended", Long)),
   Says("live", << >>),
   Says("open", "m1" :> Quote("open", Even) @@ "m2" :> Quote("open", Long))}
=============================================================================
