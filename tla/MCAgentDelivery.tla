--------------------------- MODULE MCAgentDelivery ---------------------------
(* An agent that observes a list, the detail of an event on it, and a list     *)
(* without that event.                                                         *)
EXTENDS AgentDelivery

CONSTANTS l1, d, l2, main, detail, e1, board, coupon, q1, q2

MCRunOf == [p \in Publication |-> p]
MCScopeOf == [p \in Publication |-> IF p = d THEN detail ELSE main]
MCAt == [p \in Publication |-> CASE p = l1 -> 1 [] p = d -> 2 [] p = l2 -> 3]
MCHashOf == [p \in Publication |-> p]
MCEventsIn == [p \in Publication |-> IF p = l2 THEN {} ELSE {e1}]
MCJournalOf == [s \in Scope |-> IF s = detail THEN coupon ELSE board]
=============================================================================
