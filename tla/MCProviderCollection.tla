------------------------- MODULE MCProviderCollection -------------------------
(* Two esports, and one event of the first.                                    *)
EXTENDS ProviderCollection

CONSTANTS cs2, lol, match

MCEsportOf == [v \in Event |-> cs2]
MCEsports == <<cs2, lol>>
=============================================================================
