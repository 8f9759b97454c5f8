------------------------- MODULE MCExtensionCollector -------------------------
(* The extension with two providers and three captures; how many popups ask is  *)
(* up to the configuration.                                                    *)
EXTENDS ExtensionCollector

CONSTANTS b, h, c1, c2, c3, a1, a2, s1
=============================================================================
