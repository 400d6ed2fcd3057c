----------------------------- MODULE MCRegistry -----------------------------
(* A registry with the admin gp, a limited partner and a buyer; a leg of each *)
(* shape the authority rules tell apart, one of them of amount zero.          *)
EXTENDS Registry

CONSTANTS gp, lp, buyer, usdc, unit

MCParty == {gp, lp, buyer}
MCInst == {usdc, unit}

MCMints == {[owner |-> buyer, inst |-> usdc, amount |-> 2, locked |-> FALSE],
            [owner |-> buyer, inst |-> usdc, amount |-> 1, locked |-> TRUE],
            [owner |-> gp, inst |-> unit, amount |-> 1, locked |-> FALSE]}

LegOf(s, r, i, n) == [sender |-> s, receiver |-> r, inst |-> i, amount |-> n]

MCLegs == {LegOf(buyer, gp, usdc, 1), LegOf(gp, lp, unit, 1), LegOf(buyer, lp, usdc, 2),
           LegOf(gp, gp, usdc, 1), LegOf(buyer, gp, usdc, 0)}
=============================================================================
