-------------------------- MODULE MCServerIngestion --------------------------
(* Two list scopes of one bookmaker that share a journal scope, and the detail *)
(* scope of an event.  l1 and l2 follow one another, t2 is the other list at   *)
(* the time of l2, d a detail between them, and x carries the run of l1 with   *)
(* another content, at the time of l2.                                         *)
EXTENDS ServerIngestion

CONSTANTS l1, l2, t2, d, x, main, tabs, detail, e1, board, coupon, q1, q2

MCRunOf == [p \in Publication |-> IF p = x THEN l1 ELSE p]
MCScopeOf ==
  [p \in Publication |-> CASE p = t2 -> tabs [] p = d -> detail [] OTHER -> main]
MCAt == [p \in Publication |-> CASE p = l1 -> 1 [] p = d -> 2 [] OTHER -> 3]
MCHashOf == [p \in Publication |-> p]
MCEventsIn == [p \in Publication |-> IF p = l2 THEN {} ELSE {e1}]
MCJournalOf == [s \in Scope |-> IF s = detail THEN coupon ELSE board]
=============================================================================
