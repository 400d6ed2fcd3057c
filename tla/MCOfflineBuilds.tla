--------------------------- MODULE MCOfflineBuilds --------------------------
(* Two tabs: the advisor's, and one that shows the other pages.              *)
EXTENDS OfflineBuilds, TLC

MCDeals == <<
  [lps |-> {"lp1", "lp3", "lp4"}, register |-> <<"lp1", "lp3", "lp4">>,
   navs |-> [lp1 |-> 900, lp3 |-> 20, lp4 |-> 20], buyers |-> <<"b1", "b2">>,
   fairLow |-> 92, fairHigh |-> 99,
   seededBids |-> [b2 |-> [price |-> 95, capacity |-> 300, passed |-> FALSE]],
   seededElections |-> [lp3 |-> [choice |-> "roll", roll |-> 20, sell |-> 0],
                        lp4 |-> [choice |-> "sell", roll |-> 0, sell |-> 20]]],
  [lps |-> {"lp1"}, register |-> <<"lp1">>, navs |-> [lp1 |-> 900], buyers |-> <<"b1", "b2">>,
   fairLow |-> 93, fairHigh |-> 99,
   seededBids |-> [b2 |-> [price |-> 96, capacity |-> 300, passed |-> FALSE]],
   seededElections |-> <<>>]>>
MCPersonas == [staying |-> "lp1", buyer |-> "b1"]

MCProtoDeals == [n \in 1 .. 2 |->
  [nav |-> [staying |-> 9, leaving |-> 5], default |-> [staying |-> 8, leaving |-> 5], price |-> 96, capacity |-> 5]]

\* What an LP types may be below zero.
MCAmounts == {-5, 5}

MCPages == "t1" :> {"advisor"} @@ "t2" :> {"staying", "leaving", "buyer", "oversight"}

TransportsAlike == Permutations(Transports)

\* In units of 1M dollars.
MCNavs == [lpExiting |-> 300, lpRolling |-> 200]

MCVisits == "w1" :> {"gp", "buyer"} @@ "w2" :> {}

\* Checked, and not followed further: a deal whose close was overtaken or
\* stranded; the second deal beyond its opening; a decline that crossed another
\* change, and a reset that crossed the approvals; the approvals of a deal that
\* its LP has not elected in, once changes crossed; a deal of the sandbox that was
\* opened twice, beyond the next reset.
Followed ==
  /\ ~overtaken /\ ~stranded
  /\ \A t \in Tabs : copy[t].dealNo = 2 => copy[t].stage \in {"setup", "bidding", "invite"}
  /\ crossed > 0 => store.stage # "declined"
  /\ crossed > 0 /\ store.stage = "approvals" => "lp1" \in DOMAIN store.elections
  /\ crossed > 0 /\ store.stage = "setup" => \A s \in Held : s.stage \notin {"approvals", "declined"}
  /\ epoch = 1 \/ \A i, j \in RoomsOf(1) : i = j
=============================================================================
