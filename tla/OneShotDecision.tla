--------------------------- MODULE OneShotDecision ---------------------------
(***************************************************************************)
(* What the approval of a command promises, however many windows, prompts  *)
(* and programs may answer it: one decision is made, whoever makes it; that *)
(* and no other is acknowledged; and the agent is told it, once.  Only the *)
(* agent's own user may stop the agent instead, or too late for that.      *)
(*                                                                         *)
(* ShellApproval implements this when the session is not mirrored to the   *)
(* backend.                                                                *)
(***************************************************************************)
EXTENDS Integers, Sequences

CONSTANTS
  Requests,   \* what is asked
  Decision,   \* what may be answered
  None        \* not decided

VARIABLES
  chosen,        \* the decision on a request
  acknowledged,  \* the decisions somebody was told had succeeded
  obeyed         \* what the agent was told, in order; it takes the first

vars == <<chosen, acknowledged, obeyed>>

Init ==
  /\ chosen = [r \in Requests |-> None]
  /\ acknowledged = [r \in Requests |-> {}]
  /\ obeyed = [r \in Requests |-> <<>>]

\* Whether the agent was told a decision.
Decided(r) == \E i \in 1..Len(obeyed[r]) : obeyed[r][i] \in Decision

Tell(r, d) == obeyed' = [obeyed EXCEPT ![r] = Append(@, d)]

\* The agent's own interface may be the one that decides.
Choose(r, d) ==
  /\ chosen[r] = None
  /\ chosen' = [chosen EXCEPT ![r] = d]
  /\ acknowledged' = [acknowledged EXCEPT ![r] = {d}]
  /\ Tell(r, d) \/ UNCHANGED obeyed

Obey(r) ==
  /\ chosen[r] # None
  /\ ~Decided(r)
  /\ Tell(r, chosen[r])
  /\ UNCHANGED <<chosen, acknowledged>>

\* Nobody decides here, and the request may still be decided afterwards.
Abort(r) ==
  /\ Tell(r, "abort")
  /\ UNCHANGED <<chosen, acknowledged>>

Next == \E r \in Requests : Obey(r) \/ Abort(r) \/ \E d \in Decision : Choose(r, d)

Spec == Init /\ [][Next]_vars
=============================================================================
