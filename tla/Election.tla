------------------------------ MODULE Election ------------------------------
(* A partner's sealed election between rolling and selling its position      *)
(* (Continuum/Election.daml).  The partner files it and may amend it.        *)
EXTENDS Integers, FiniteSets

CONSTANTS Elector,    \* limited partners that elect
          ElectionId, \* tells the elections of a partner apart
          Positions,  \* the NAV a partner's position may have
          Splits      \* the amounts the election form may hold

ASSUME ElectionAssumption == Positions \subseteq Nat /\ Splits \subseteq Int

VARIABLES elections   \* active LPElection contracts

LPElection == [lp : Elector, id : ElectionId, positionNav : Nat, rollNav : Nat, sellNav : Nat]

\* Slip: only the sum is checked.
ElectionEnsure_SumOnly(e) == e.rollNav + e.sellNav = e.positionNav

ElectionEnsure(e) ==
  /\ e.rollNav >= 0 /\ e.sellNav >= 0
  /\ e.rollNav + e.sellNav = e.positionNav

ElectionInit == elections = {}

\* Nothing keeps a partner from filing a second election beside its first.
FileElection(e) ==
  /\ ElectionEnsure(e)
  /\ \A other \in elections : <<other.lp, other.id>> # <<e.lp, e.id>>
  /\ elections' = elections \cup {e}

\* Archives the election and creates it anew: the ensure is checked again.
Amend(e, roll, sell) ==
  LET new == [e EXCEPT !.rollNav = roll, !.sellNav = sell] IN
  /\ e \in elections
  /\ ElectionEnsure(new)
  /\ elections' = (elections \ {e}) \cup {new}
=============================================================================
