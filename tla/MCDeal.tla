------------------------------- MODULE MCDeal -------------------------------
(* Deals of one GP, gp, with a limited partner lp and a valuer.  Percentages *)
(* are in tenths.  A close of d1 at 9/10 of a NAV of 3 costs 2.7, so 3 units.*)
EXTENDS Deal

CONSTANTS gp, lp, valuer, usdc, unit, d1, d2, i1, i2

MCParty == {gp, lp, valuer}
MCInst == {usdc, unit}
MCLP == {lp}
NoOne == {}
MCDocId == {i1, i2}

\* A leg of units and a leg of cash, of the same amount.
MintOf(i, n) == [owner |-> gp, inst |-> i, amount |-> n, locked |-> FALSE]
MCMints == {MintOf(unit, 3), MintOf(usdc, 3)}
LegOf(i) == [sender |-> gp, receiver |-> lp, inst |-> i, amount |-> 3]
MCLegs == {LegOf(unit), LegOf(usdc)}
GateLegs == {LegOf(unit)}

Opined(kind, i, d, lo, hi, day) ==
  [kind |-> kind, id |-> i, deal |-> d, signer |-> valuer, lo |-> lo, hi |-> hi, day |-> day]
Val(i, d, lo, hi, day) == Opined("valuation", i, d, lo, hi, day)
Fair(i, d, lo, hi) == Opined("fairness", i, d, lo, hi, 10)
CertOf(i, d, pct) == [kind |-> "cert", id |-> i, deal |-> d, pct |-> pct]
ConsentOf(i, d, yes) == [kind |-> "consent", id |-> i, deal |-> d, granted |-> yes]
PsaOf(i, d, pct, nav, price) ==
  [kind |-> "psa", id |-> i, deal |-> d, pct |-> pct, nav |-> nav, price |-> price]

V(d) == Val(i1, d, 2, 4, 10)
F(d) == Fair(i1, d, 8, 10)
C(d) == CertOf(i1, d, 9)
L(d) == ConsentOf(i1, d, TRUE)
P(d) == PsaOf(i1, d, 9, 3, 3)

GoodBasis(i, d) ==
  [id |-> i, deal |-> d, nav |-> 3, pct |-> 9, price |-> 3, valuations |-> {V(d)},
   fairness |-> F(d), cert |-> C(d), consent |-> L(d), psa |-> P(d),
   closeDay |-> 12, maxAge |-> 2]

\* One deal, whose documents are signed.
CloseDeals == {d1}
CloseDocs == {V(d1), F(d1), C(d1), P(d1), L(d1)}
CloseBases == {GoodBasis(i1, d1)}
ClosePrices == {9}
OpenedAtSetup == {"Setup"}
OpenedEitherWay == {"Setup", "Bidding"}

\* Two deals, two ways to justify d1, and bases that must not pass: one for each
\* way a document can be wrong.
GateDeals == {d1, d2}
GateMints == {MintOf(unit, 6)}
GatePublished == {V(d1), F(d1), C(d1), P(d1), V(d2), F(d2), C(d2), P(d2), L(d2),
                  Val(i2, d1, 2, 4, 9), Val(i2, d1, 4, 5, 10), Fair(i2, d1, 10, 10),
                  CertOf(i2, d1, 10), ConsentOf(i2, d1, FALSE), PsaOf(i2, d1, 9, 2, 2)}
GateDocs == GatePublished \cup {L(d1)}
GateArchivable == {L(d1)}
Good1 == GoodBasis(i1, d1)
WrongBases ==
  {[Good1 EXCEPT !.price = 2, !.psa = PsaOf(i2, d1, 9, 2, 2)],
   [Good1 EXCEPT !.valuations = {V(d1), Val(i2, d1, 2, 4, 9)}],
   [Good1 EXCEPT !.valuations = {Val(i2, d1, 4, 5, 10)}],
   [Good1 EXCEPT !.cert = C(d2)],
   [Good1 EXCEPT !.fairness = Fair(i2, d1, 10, 10)],
   [Good1 EXCEPT !.cert = CertOf(i2, d1, 10)],
   [Good1 EXCEPT !.consent = ConsentOf(i2, d1, FALSE)],
   [Good1 EXCEPT !.closeDay = 9]}
GateBases == {Good1, GoodBasis(i2, d1), GoodBasis(i1, d2)} \cup WrongBases

\* The partner pays cash to the GP.
BackdoorMints == {[owner |-> lp, inst |-> usdc, amount |-> 3, locked |-> FALSE]}
BackdoorLegs == {[sender |-> lp, receiver |-> gp, inst |-> usdc, amount |-> 3]}
=============================================================================
