-------------------------- MODULE MCShellApproval --------------------------
(***************************************************************************)
(* The instance of ShellApproval for TLC: sessions without a mirror, whose *)
(* requests the backend never hears of.  MCDesktopAi has one that is       *)
(* mirrored.                                                               *)
(***************************************************************************)
EXTENDS ShellApproval, TLC

CONSTANTS r1, r2, ui, cli, tuiEndpoint

TwoRequests == {r1, r2}
ThreeEndpoints == {tuiEndpoint, ui, cli}

NoBackend == ~connected /\ stream = <<>> /\ ~receiver.busy /\ phone = {}

LocalSpec == Init /\ [][Next /\ NoBackend']_vars /\ Fairness
=============================================================================
