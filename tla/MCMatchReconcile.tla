-------------------------- MODULE MCMatchReconcile --------------------------
(* One game as three bookmakers tell it.  b1 and s1 differ by a spelling, e1  *)
(* names the teams the other way round in another tournament, b2 is a second  *)
(* event of b for the same game.                                              *)
EXTENDS MatchReconcile

CONSTANTS x, y, yy, b1, b2, s1, e1, bet, sup, est

MCProviderOf == [r \in Row |-> CASE r \in {b1, b2} -> bet [] r = s1 -> sup
                                 [] OTHER -> est]
MCReviewed == [n \in Name |-> n]
MCSimilar == {<<y, yy>>, <<yy, y>>}
MCRank == [n \in Name |-> CASE n = x -> 1 [] n = y -> 2 [] n = yy -> 3]
MCSiteOf == [s \in Scope |-> s]

Says(r, a, b, start, tournament) ==
  [row |-> r, a |-> a, b |-> b, start |-> start, tournament |-> tournament,
   prematch |-> TRUE]

B1 == Says(b1, x, y, 10, "A")
B2 == Says(b2, x, y, 10, "A")
S1 == Says(s1, x, yy, 12, "A")
E1 == Says(e1, y, x, 10, "B")

MCListings ==
  [s \in Scope |->
     CASE s = bet -> {<<B1>>, <<B1, B2>>}
       [] s = sup -> {<<>>, <<S1>>}
       [] s = est -> {<<E1>>}]

=============================================================================
