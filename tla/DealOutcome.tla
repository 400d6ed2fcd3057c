---------------------------- MODULE DealOutcome ----------------------------
(***************************************************************************)
(* What a closing room promises: a deal that is open ends at most once,    *)
(* closed or broken, and stays so.  Closing needs the LPAC's agreement to  *)
(* that deal and uses up a justification no other close has used.          *)
(***************************************************************************)
CONSTANTS Deals, Justifications

VARIABLES outcome,  \* outcome[d]: "open", "closed" or "broken"
          agreed,   \* deals the LPAC agreed to
          used      \* justifications used up

OutcomeInit ==
  /\ outcome = [d \in Deals |-> "open"]
  /\ agreed = {}
  /\ used = {}

Agree(d) ==
  /\ outcome[d] = "open"
  /\ agreed' = agreed \cup {d}
  /\ UNCHANGED <<outcome, used>>

\* A justification may also be used up by a check that closes nothing.
UseUp(j) ==
  /\ j \notin used
  /\ used' = used \cup {j}
  /\ UNCHANGED <<outcome, agreed>>

Settle(d, j) ==
  /\ outcome[d] = "open"
  /\ d \in agreed
  /\ j \notin used
  /\ outcome' = [outcome EXCEPT ![d] = "closed"]
  /\ used' = used \cup {j}
  /\ UNCHANGED agreed

Abandon(d) ==
  /\ outcome[d] = "open"
  /\ outcome' = [outcome EXCEPT ![d] = "broken"]
  /\ UNCHANGED <<agreed, used>>

OutcomeNext ==
  \/ \E d \in Deals : Agree(d) \/ Abandon(d)
  \/ \E j \in Justifications : UseUp(j)
  \/ \E d \in Deals, j \in Justifications : Settle(d, j)

OutcomeSpec == OutcomeInit /\ [][OutcomeNext]_<<outcome, agreed, used>>
=============================================================================
