----------------------------- MODULE MCReadPath -----------------------------
(* Two seats with a tab each; one tab reads twice in parallel.                *)
EXTENDS ReadPath

CONSTANTS gp, lp, t1, t2

MCParty == {gp, lp}
MCTab == {t1, t2}
AllTabs == MCTab
OtherTab == {t2}
MCOwnTab == {t1}
MCSeatOf == [t \in MCTab |-> IF t = t1 THEN gp ELSE lp]
MCRead == {<<t1, 1>>, <<t1, 2>>, <<t2, 1>>}
=============================================================================
