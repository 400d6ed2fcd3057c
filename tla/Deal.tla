-------------------------------- MODULE Deal --------------------------------
(***************************************************************************)
(* The ContinuationDeal contract (Continuum/Deal.daml) with everything its *)
(* Close touches: the registry, the partners' interests and the issuance   *)
(* basis.  A behaviour is the ledger's sequence of committed transactions; *)
(* each is one choice or one create, submitted by one party, and an        *)
(* assertMsg that fails leaves the ledger as it was, so it is a guard.     *)
(* The implicit Archive choice is modelled for the documents alone, whose  *)
(* signatories are the parties a close depends on.                         *)
(***************************************************************************)
EXTENDS Registry, Participation, Issuance

CONSTANTS Unit,       \* the instrument of the new vehicle's units (unitId)
          Prices,     \* the clearing prices the GP may publish
          NoPrice,    \* clearingPrice = None
          OpeningStages \* the stages at which a room is opened

ASSUME DealAssumption ==
  /\ Unit \in Inst
  /\ NoPrice \notin Prices
  /\ OpeningStages \subseteq {"Setup", "Bidding"}

VARIABLES stage,      \* stage[d] of the current ContinuationDeal contract of d
          clearing,   \* clearing[d]: its clearingPrice
          recorded,   \* history: deals on which the LPAC exercised RecordConsent
          receipts    \* FairnessDisclosure and SettlementReceipt, created together

dealVars == <<stage, clearing, recorded, receipts>>
vars == <<dealVars, regVars, partVars, issVars>>

Stage == {"Setup", "Bidding", "LeadSelected", "Consented", "Electing", "Closed", "Broken"}
Terminal == {"Closed", "Broken"}

\* The disclosure and the receipt carry the same aggregates; basis is history.
Receipt == [deal : Deals, pct : Int, units : Int, basis : Bases]

DealTypeOK ==
  /\ RegTypeOK /\ PartTypeOK /\ IssTypeOK
  /\ stage \in [Deals -> Stage]
  /\ clearing \in [Deals -> Prices \cup {NoPrice}]
  /\ recorded \subseteq Deals
  /\ receipts \subseteq Receipt

\* The room is opened at Setup by the GP's page and at Bidding by the scripts.
Init ==
  /\ RegInit /\ PartInit /\ IssInit
  /\ stage \in [Deals -> OpeningStages]
  /\ clearing = [d \in Deals |-> NoPrice]
  /\ recorded = {}
  /\ receipts = {}

-----------------------------------------------------------------------------
(* Choices on the deal alone *)

Live(d) == stage[d] \notin Terminal

\* Slip: a deal that has closed can still be broken.
Break_Anytime(d) ==
  /\ stage[d] # "Broken"
  /\ stage' = [stage EXCEPT ![d] = "Broken"]
  /\ UNCHANGED <<clearing, recorded, receipts, regVars, partVars, issVars>>

Break(d) ==
  /\ Live(d)
  /\ stage' = [stage EXCEPT ![d] = "Broken"]
  /\ UNCHANGED <<clearing, recorded, receipts, regVars, partVars, issVars>>

\* The LPAC may record consent at any live stage, from Electing as well.
RecordConsent(d) ==
  /\ Live(d)
  /\ stage' = [stage EXCEPT ![d] = "Consented"]
  /\ recorded' = recorded \cup {d}
  /\ UNCHANGED <<clearing, receipts, regVars, partVars, issVars>>

\* Nothing but the terminal stages keeps the GP from setting the price again.
SetClearing(d, p) ==
  /\ Live(d)
  /\ clearing' = [clearing EXCEPT ![d] = p]
  /\ UNCHANGED <<stage, recorded, receipts, regVars, partVars, issVars>>

\* Slip: elections open without the LPAC.
OpenElections_NoConsent(d) ==
  /\ Live(d)
  /\ clearing[d] # NoPrice
  /\ stage' = [stage EXCEPT ![d] = "Electing"]
  /\ UNCHANGED <<clearing, recorded, receipts, regVars, partVars, issVars>>

OpenElections(d) ==
  /\ stage[d] = "Consented"
  /\ clearing[d] # NoPrice
  /\ stage' = [stage EXCEPT ![d] = "Electing"]
  /\ UNCHANGED <<clearing, recorded, receipts, regVars, partVars, issVars>>

-----------------------------------------------------------------------------
(* Close *)

\* Slip: legs of every instrument are counted.
UnitTotal_AllLegs(legs) == SumFunctionOnSet([a \in legs |-> a.reserved], legs)

UnitTotal(legs) ==
  LET ofUnits == {a \in legs : a.leg.inst = Unit} IN
  SumFunctionOnSet([a \in ofUnits |-> a.reserved], ofUnits)

\* Slip: the stage is not checked again at the close.
Gate_AnyStage(d, b) ==
  /\ d \in recorded
  /\ b \in bases
  /\ Valid(b)

\* The basis gate, on the basis the GP names.
Gate(d, b) ==
  /\ stage[d] \in {"Consented", "Electing"}
  /\ b \in bases
  /\ Valid(b)

\* Every leg is executed through a delegation; the units add up to the price.
LegsSettle(b, legs) ==
  /\ UnitTotal(legs) = b.price
  /\ \A a \in legs : CanExecFor(a)

\* One transaction: the gate, the legs, the burns, the receipts, the stage.
Close(d, b, legs, burns) ==
  /\ Gate(d, b)
  /\ LegsSettle(b, legs)
  /\ Burnable(burns)
  /\ Spend(b)
  /\ allocs' = allocs \ legs
  /\ holdings' = holdings \cup {Delivered(a) : a \in legs}
  /\ interests' = AfterBurning(burns)
  /\ receipts' = receipts \cup {[deal |-> d, pct |-> b.pct, units |-> b.price, basis |-> b]}
  /\ stage' = [stage EXCEPT ![d] = "Closed"]
  /\ UNCHANGED <<clearing, recorded, proposals, delegations, nextCid,
                 offers, participations, accepted>>

-----------------------------------------------------------------------------

CloseSome ==
  \E d \in Deals, b \in Bases, legs \in SUBSET allocs, burns \in [LP -> 0..MaxInterest] :
    Close(d, b, legs, burns)

DealStep ==
  \/ \E d \in Deals : \/ Break(d) \/ RecordConsent(d) \/ OpenElections(d)
                      \/ \E p \in Prices : SetClearing(d, p)
  \/ CloseSome

\* The choices that concern no deal: registry, participation, antecedents.
RegistryStep == RegNext /\ UNCHANGED <<dealVars, partVars, issVars>>
ParticipationStep == PartNext /\ UNCHANGED <<dealVars, regVars, issVars>>
IssuanceStep == IssNext /\ UNCHANGED <<dealVars, regVars, partVars>>

Next == DealStep \/ RegistryStep \/ ParticipationStep \/ IssuanceStep

Spec == Init /\ [][Next]_vars

\* The deals seen as outcomes.
OutcomeOf(d) == CASE stage[d] = "Closed" -> "closed"
                  [] stage[d] = "Broken" -> "broken"
                  [] OTHER -> "open"

Outcome == INSTANCE DealOutcome WITH
             Justifications <- Bases,
             outcome <- [d \in Deals |-> OutcomeOf(d)],
             agreed <- recorded,
             used <- spent

-----------------------------------------------------------------------------
(* Properties *)

\* The LPAC comes before the elections and before the close, and the price before
\* the elections: whatever order of RecordConsent, SetClearing and OpenElections led
\* here, a deal in those stages had its LPAC act on it, and a deal whose elections
\* are open has a price (OpenElections, Close; matrix rules 1.3 and 1.5).
ConsentAndPriceFirst ==
  \A d \in Deals :
    /\ stage[d] \in {"Consented", "Electing", "Closed"} => d \in recorded
    /\ stage[d] = "Electing" => clearing[d] # NoPrice

\* Receipts and closed deals correspond one to one, and a basis backs one close:
\* the deal is consumed by its choices and the basis by ValidateIssuance, so
\* neither a second close of a deal nor a second use of a basis, by this deal or
\* another, can commit.
OneCloseEach ==
  /\ {r.deal : r \in receipts} = {d \in Deals : stage[d] = "Closed"}
  /\ \A r, q \in receipts : r.deal = q.deal \/ r.basis = q.basis => r = q
  /\ \A r \in receipts : r.basis \in spent \ bases

\* What a receipt says still follows from documents that were signed: its units are
\* the rounded price of a NAV that independent valuations contain, at a percentage
\* inside an independent fairness range, with a granted consent behind it.  The GP
\* writes every field of the basis, so only ValidateIssuance stands between a wrong
\* basis and a receipt.
ReceiptsRestOnFacts ==
  \A r \in receipts :
    LET b == r.basis IN
    /\ RefersTo(b) \subseteq Signed
    /\ r.pct = b.pct /\ r.units = RoundDollar(b.psa.pct, b.nav) /\ r.units = b.psa.price
    /\ b.valuations # {}
    /\ \A v \in b.valuations : v.lo <= b.nav /\ b.nav <= v.hi /\ v.signer # Admin
    /\ b.fairness.lo <= b.cert.pct /\ b.cert.pct <= b.fairness.hi /\ b.fairness.signer # Admin
    /\ b.consent.granted
    /\ {v.deal : v \in RefersTo(b)} = {b.deal}

\* A close rests on documents that are active at that moment: a consent or a
\* valuation archived after the basis was assembled stops it, since ValidateIssuance
\* fetches each one.
ClosesOnActiveFacts ==
  [][\A r \in receipts' \ receipts : RefersTo(r.basis) \subseteq facts]_vars

\* The units that come into being in a close are worth the price on its receipt,
\* whatever legs of whatever instruments the GP passed: nothing is issued beside
\* the purchase price or short of it.
UnitsMatchPrice ==
  [][\A r \in receipts' \ receipts :
       Total({h \in holdings' \ holdings : h.inst = Unit}) = r.units]_vars

\* A step that ends a deal or happens after its end does not move it: a closed or
\* broken deal keeps its stage and its price.
EndedDealsRest ==
  [][\A d \in Deals : stage[d] \in Terminal =>
       stage'[d] = stage[d] /\ clearing'[d] = clearing[d]]_vars

\* Seen as outcomes, the contracts implement what a closing room promises: a deal
\* ends once, a close has the LPAC's agreement and a justification of its own.
EndsAsPromised == Outcome!OutcomeSpec

\* What a partner is told when it signs its delegation (ApprovalQueue.tsx), and what
\* the test matrix rules (6.3): its leg moves inside an atomic close only.
LegsMoveInCloseOnly ==
  [][\A a \in allocs \ allocs' :
       /\ Delivered(a) \in holdings'
       /\ {a.leg.sender, a.leg.receiver} \ {Admin} # {}
       /\ a.leg.sender # a.leg.receiver
       => receipts' # receipts]_vars
=============================================================================
