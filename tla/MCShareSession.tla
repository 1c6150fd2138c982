--------------------------- MODULE MCShareSession ---------------------------
(* Small instances of ShareSession for TLC.                                *)
EXTENDS ShareSession, TLC

CONSTANTS s1, s2, h1, h2

OneSession == {s1}
TwoSessions == {s1, s2}
OneHandler == {h1}
TwoHandlers == {h1, h2}

\* Handlers are interchangeable: no action or property names one.
HandlerSymmetry == Permutations(TwoHandlers)
=============================================================================
