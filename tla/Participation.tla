---------------------------- MODULE Participation ----------------------------
(***************************************************************************)
(* The old fund's interests and the co-signed participation that lets the  *)
(* GP burn them (Continuum/Participation.daml).  Each co-signed contract   *)
(* is made by propose and accept, in two transactions of two parties.      *)
(***************************************************************************)
EXTENDS Parties, Integers, FiniteSets

CONSTANTS LP,          \* limited partners
          MaxInterest  \* bound on the interests one partner holds at a time

ASSUME ParticipationAssumption ==
  /\ LP \subseteq Party
  /\ MaxInterest \in Nat

VARIABLES offers,          \* partners with an open OldFundInterestOffer
          interests,       \* interests[l]: how many OldFundInterest contracts l has
          participations,  \* partners with an open DealParticipation
          accepted         \* partners with an AcceptedParticipation

partVars == <<offers, interests, participations, accepted>>

PartTypeOK ==
  /\ offers \subseteq LP
  /\ interests \in [LP -> Nat]
  /\ participations \subseteq LP
  /\ accepted \subseteq LP

PartInit ==
  /\ offers = {}
  /\ interests = [l \in LP |-> 0]
  /\ participations = {}
  /\ accepted = {}

\* The old fund offers an interest; the partner's acceptance makes it.
OfferInterest(l) ==
  /\ offers' = offers \cup {l}
  /\ UNCHANGED <<interests, participations, accepted>>

OFI_Accept(l) ==
  /\ l \in offers
  /\ interests[l] < MaxInterest
  /\ offers' = offers \ {l}
  /\ interests' = [interests EXCEPT ![l] = @ + 1]
  /\ UNCHANGED <<participations, accepted>>

\* The partner proposes to take part; the GP accepts.
ProposeParticipation(l) ==
  /\ participations' = participations \cup {l}
  /\ UNCHANGED <<offers, interests, accepted>>

AcceptParticipation(l) ==
  /\ l \in participations
  /\ participations' = participations \ {l}
  /\ accepted' = accepted \cup {l}
  /\ UNCHANGED <<offers, interests>>

\* Slip: an interest already archived is burned again.
Burnable_Twice(burns) == \A l \in LP : burns[l] > 0 => l \in accepted

\* The interests a set of BurnFor choices archives: burns[l] of partner l, each on
\* an AcceptedParticipation of l.
Burnable(burns) ==
  \A l \in LP : burns[l] <= interests[l] /\ (burns[l] > 0 => l \in accepted)

AfterBurning(burns) == [l \in LP |-> interests[l] - burns[l]]

\* The GP exercises BurnFor by itself, outside any Close.
BurnFor(l) ==
  LET one == [m \in LP |-> IF m = l THEN 1 ELSE 0] IN
  /\ Burnable(one)
  /\ interests' = AfterBurning(one)
  /\ UNCHANGED <<offers, participations, accepted>>

PartNext ==
  \E l \in LP : \/ OfferInterest(l) \/ OFI_Accept(l)
                \/ ProposeParticipation(l) \/ AcceptParticipation(l)
                \/ BurnFor(l)

=============================================================================
