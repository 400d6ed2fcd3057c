---------------------------- MODULE ValueLedger ----------------------------
(***************************************************************************)
(* What the registry promises, said without contracts: every party has a   *)
(* wealth in every instrument; only the admin's issuance adds to it; value *)
(* moves between two parties in one step, whole, and only between the      *)
(* admin and a party that agreed to be moved for.  The value a party has   *)
(* reserved in an allocation is still its own.                             *)
(***************************************************************************)
EXTENDS Integers

CONSTANTS Party, Admin, Inst, Issues

VARIABLES wealth,   \* wealth[p][i]: what party p owns of instrument i
          agreed    \* parties that let the admin move value for them

VLInit ==
  /\ wealth = [p \in Party |-> [i \in Inst |-> 0]]
  /\ agreed = {}

Issue(p, i, n) ==
  /\ wealth' = [wealth EXCEPT ![p][i] = @ + n]
  /\ UNCHANGED agreed

Agree(p) ==
  /\ agreed' = agreed \cup {p}
  /\ UNCHANGED wealth

\* Value n moves from p to q: conserved, and one of them is the admin.
Pay(p, q, i, n) ==
  /\ p # q
  /\ Admin \in {p, q}
  /\ {p, q} \subseteq agreed \cup {Admin}
  /\ wealth' = [wealth EXCEPT ![p][i] = @ - n, ![q][i] = @ + n]
  /\ UNCHANGED agreed

VLNext ==
  \/ \E m \in Issues : Issue(m.owner, m.inst, m.amount)
  \/ \E p \in Party : Agree(p)
  \/ \E p, q \in Party, i \in Inst : \E n \in 1..wealth[p][i] : Pay(p, q, i, n)

VLSpec == VLInit /\ [][VLNext]_<<wealth, agreed>>
=============================================================================
