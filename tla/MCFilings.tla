----------------------------- MODULE MCFilings -----------------------------
(* Two buyers, each with up to two bids standing at once, and two partners    *)
(* with positions of 10.  The forms may hold amounts the templates refuse.    *)
EXTENDS Filings

CONSTANTS gp, b1, b2, lp1, lp2

MCParty == {gp, b1, b2, lp1, lp2}
MCBuyer == {b1, b2}
MCPcts == {9, 11}
MCCapacities == {0, 3, 5, 8}
MCElector == {lp1, lp2}
MCPositions == {10}
MCSplits == {-1, 0, 3, 5, 7, 10, 11}
OneId == {1}
TwoIds == {1, 2}
=============================================================================
