----------------------------- MODULE MCRecusal -----------------------------
(* An LPAC of two members, one of whom is a buyer that files its bid.         *)
EXTENDS Consent

CONSTANTS gp, chair, member, outsider

MCParty == {gp, chair, member, outsider}
MCBuyer == {member, outsider}
MCRecusable == {{}, {member}}
MCRoster == {chair, member}
OneId == {1}
MCPcts == {9}
MCCapacities == {3}
=============================================================================
