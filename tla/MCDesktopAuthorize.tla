------------------------- MODULE MCDesktopAuthorize -------------------------
(* Instances of DesktopAuthorize for TLC. *)
EXTENDS DesktopAuthorize, TLC

CONSTANTS s1, s2

OneSession == {s1}
TwoSessions == {s1, s2}
=============================================================================
