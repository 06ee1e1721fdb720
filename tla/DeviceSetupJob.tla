--------------------------- MODULE DeviceSetupJob ---------------------------
(***************************************************************************)
(* What one device setup job promises, whoever works on it: it is created  *)
(* once, its account appears while authorization is awaited, every         *)
(* reviewed selection gets exactly one outcome, in order, and a settled    *)
(* job changes no more until it is deleted.  DeviceSetup.tla shows that    *)
(* servers which crash, lose leases and overlap still give this.           *)
(***************************************************************************)
EXTENDS Naturals, Sequences

CONSTANT Selections   \* routing_selections_json: how many were reviewed

VARIABLES
    status,    \* device_setup_jobs.status; "absent" and "deleted": no row
    outcomes,  \* routing_outcomes_json
    account    \* whether the preallocated account is in accounts

vars == <<status, outcomes, account>>

Outcome == {"joined", "action-required"}
Terminal == {"complete", "complete_with_actions", "authorization_error"}
Claimable == {"awaiting_authorization", "account_committed", "reconciling"}
Status == {"absent", "deleted"} \cup Terminal \cup Claimable

\* The terminal status the outcomes stand for.
Verdict(decided) ==
    IF \A i \in DOMAIN decided : decided[i] = "joined"
    THEN "complete" ELSE "complete_with_actions"

Init == status = "absent" /\ outcomes = <<>> /\ account = FALSE

Create ==
    /\ status = "absent"
    /\ status' = "awaiting_authorization"
    /\ UNCHANGED <<outcomes, account>>

Insert ==
    /\ status = "awaiting_authorization"
    /\ account' = TRUE
    /\ UNCHANGED <<status, outcomes>>

Reject ==
    /\ status = "awaiting_authorization"
    /\ status' = "authorization_error"
    /\ UNCHANGED <<outcomes, account>>

Commit ==
    /\ status = "awaiting_authorization" /\ account
    /\ status' = "account_committed"
    /\ UNCHANGED <<outcomes, account>>

Reconcile ==
    /\ status = "account_committed"
    /\ status' = "reconciling"
    /\ UNCHANGED <<outcomes, account>>

Decide ==
    /\ status = "reconciling" /\ Len(outcomes) < Selections
    /\ \E o \in Outcome : outcomes' = Append(outcomes, o)
    /\ UNCHANGED <<status, account>>

Settle ==
    /\ status = "reconciling" /\ Len(outcomes) = Selections
    /\ status' = Verdict(outcomes)
    /\ UNCHANGED <<outcomes, account>>

Delete ==
    /\ status \in Terminal
    /\ status' = "deleted"
    /\ UNCHANGED <<outcomes, account>>

Next == Create \/ Insert \/ Reject \/ Commit \/ Reconcile \/ Decide \/ Settle
        \/ Delete

Spec == Init /\ [][Next]_vars

=============================================================================
