-------------------------- MODULE MCIngestionCommit --------------------------
(* Two runs of one provider that commit, one of them twice as the service's  *)
(* own test does, and a third run that may begin and supersede them.         *)
EXTENDS IngestionCommit

CONSTANTS p1, r1, r2, r3, c1, c2, c3

MCProviderOf == [r \in Run |-> p1]
MCRunOf == [c \in Call |-> IF c = c1 THEN r1 ELSE r2]
MCItems == [c \in Call |-> IF c = c2 THEN 2 ELSE 1]
=============================================================================
