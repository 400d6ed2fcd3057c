------------------------------ MODULE Parties ------------------------------
(* The parties of the ledger.  One GP party signs for the sponsor, the old    *)
(* fund and the vehicle, and administers the registry (the project's party    *)
(* model); everyone else is an independent party.                             *)
CONSTANTS Party, Admin

ASSUME PartiesAssumption == Admin \in Party
=============================================================================
