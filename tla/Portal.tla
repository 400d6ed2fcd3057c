------------------------------- MODULE Portal -------------------------------
(* The portal: pages of the deal's roles open in tabs, each click an action  *)
(* of the deal engine on the tab's own copy (portal/shared/app.js, state.js).*)
EXTENDS PortalPages, Tabs

CONSTANTS
  Prices,     \* bound: what is typed or chosen: the prices bid,
  Capacities, \* the capacities,
  Ballots,    \* what an LP elects,
  Rolls       \* and the part of its interest it rolls when it splits it

InputsOK == Capacities \subseteq Int /\ Ballots \subseteq {"roll", "status-quo", "sell", "split"}

PortalInit == TabsInit(Role, freshState(1))

\* The page of tab t shows the action, in its section.
Clicked(t, section, act) ==
  /\ section \in sectionsFor(role[t])
  /\ act \in renderSection(copy[t], role[t], section)
Person(t) == Personas[role[t]]
Moved(s, stage) == [s EXCEPT !.stage = stage]

openAuction(t) == Clicked(t, "bids", "openAuction") /\ commit(t, Moved(copy[t], "bidding"))

submitBid(t, price, capacity) ==
  LET s == copy[t] IN
  /\ Clicked(t, "bids", "submitBid")
  /\ price \in deal(s).fairLow .. Whole
  /\ capacity > 0
  /\ commit(t, [s EXCEPT !.bids = With(@, Person(t), Bid(price, capacity)),
                         !.stage = IF @ = "setup" THEN "bidding" ELSE @])

\* Only a bid within the fairness range can lead; the lead sets the price.
selectLead(t, b) ==
  LET s == copy[t]
      led == [s EXCEPT !.bidsOpen = TRUE, !.leadBuyerId = b, !.clearingPrice = s.bids[b].price]
  IN
  /\ Clicked(t, "bids", "selectLead")
  /\ b \in Qualifying(s)
  /\ commit(t, [led EXCEPT !.syndicateIds = recomputeSyndicate(led), !.stage = "leadSelected"])

openLpacReview(t) == Clicked(t, "consent", "openLpacReview") /\ commit(t, Moved(copy[t], "lpacConsent"))

recordConsent(t) ==
  /\ Clicked(t, "consent", "recordConsent")
  /\ commit(t, [copy[t] EXCEPT !.lpacConsent = TRUE])

openElections(t) == Clicked(t, "elections", "openElections") /\ commit(t, Moved(copy[t], "elections"))

Ballot(choice, roll, nav) ==
  CASE choice \in {"roll", "status-quo"} -> [choice |-> choice, roll |-> nav, sell |-> 0]
    [] choice = "sell"                   -> [choice |-> choice, roll |-> 0, sell |-> nav]
    [] choice = "split" -> [choice |-> choice, roll |-> roll, sell |-> toFixed(2, nav - roll, 1)]

submitElection(t, choice, roll) ==
  LET s == copy[t]  me == Person(t) IN
  /\ Clicked(t, "elections", "submitElection")
  /\ roll \in 0 .. deal(s).navs[me]
  /\ commit(t, [s EXCEPT !.elections = With(@, me, Ballot(choice, roll, deal(s).navs[me]))])

\* The syndicate, the legs and who approves are settled together.
closeElectionsAndCompute(t) ==
  LET shut      == [copy[t] EXCEPT !.electionsClosed = TRUE]
      filled    == [shut EXCEPT !.syndicateIds = recomputeSyndicate(shut)]
      allocated == [filled EXCEPT !.legs = computeAllocation(filled)]
  IN
  /\ Clicked(t, "elections", "compute")
  /\ commit(t, [allocated EXCEPT !.approvals = seedApprovals(allocated), !.stage = "allocation"])

sendForApproval(t) == Clicked(t, "allocation", "sendForApproval") /\ commit(t, Moved(copy[t], "approvals"))

approve(t) ==
  LET key == approvalKeyFor(role[t]) IN
  /\ Clicked(t, "settlement", "approve")
  /\ key \in DOMAIN copy[t].approvals
  /\ commit(t, [copy[t] EXCEPT !.approvals[key] = TRUE])

cancelApproval(t) ==
  /\ Clicked(t, "settlement", "cancel")
  /\ commit(t, [copy[t] EXCEPT !.approvals[approvalKeyFor(role[t])] = FALSE])

declineToProceed(t) ==
  /\ (Clicked(t, "allocation", "decline") \/ Clicked(t, "settlement", "decline"))
  /\ commit(t, [copy[t] EXCEPT !.stage = "declined", !.declined = TRUE])

retryClose(t) ==
  /\ Clicked(t, "settlement", "retry")
  /\ commit(t, [copy[t] EXCEPT !.stage = "approvals", !.failedAttempt = FALSE, !.closingFail = FALSE])

startNextDeal(t) ==
  /\ ("next" \in pageDashboard(copy[t]) \/ Clicked(t, "settlement", "next"))
  /\ copy[t].dealNo + 1 \in DOMAIN Deals
  /\ commit(t, freshState(copy[t].dealNo + 1))

\* The button is on every page.
reset(t) == commit(t, freshState(1))

fireClose(t, fail) ==
  /\ Clicked(t, "settlement", "settle")
  /\ Begin(t, [copy[t] EXCEPT !.closingFail = fail, !.stage = "settlement"],
           IF fail THEN "revert" ELSE "settle")

\* Neither timeout looks at the deal again.
settleTimeout(t) == End(t, "settle", "settlement",
  [copy[t] EXCEPT !.stage = "settled", !.failedAttempt = FALSE, !.closed = TRUE, !.closingFail = FALSE])
revertTimeout(t) == End(t, "revert", "settlement",
  [copy[t] EXCEPT !.stage = "settled", !.failedAttempt = TRUE, !.closed = FALSE, !.closingFail = FALSE])

Click(t) ==
  \/ openAuction(t)
  \/ \E p \in Prices, c \in Capacities : submitBid(t, p, c)
  \/ \E b \in DOMAIN copy[t].bids : selectLead(t, b)
  \/ openLpacReview(t)
  \/ recordConsent(t)
  \/ openElections(t)
  \/ \E choice \in Ballots, roll \in Rolls : submitElection(t, choice, roll)
  \/ closeElectionsAndCompute(t)
  \/ sendForApproval(t)
  \/ approve(t)
  \/ cancelApproval(t)
  \/ declineToProceed(t)
  \/ retryClose(t)
  \/ startNextDeal(t)
  \/ reset(t)
  \/ \E fail \in BOOLEAN : fireClose(t, fail)

PortalNext ==
  \/ \E t \in Tabs : Click(t) \/ settleTimeout(t) \/ revertTimeout(t)
  \/ \E t \in Tabs, r \in Role : Load(t, r)
  \/ \E l \in Link : Receive(l)

(* What a deal state s has to be.                                            *)
Stage == {"setup", "bidding", "leadSelected", "lpacConsent", "elections", "allocation", "approvals",
          "settlement", "settled", "declined"}
Settling == {"settlement", "settled"}
Allocated == Settling \cup {"allocation", "approvals"}
Electing == Allocated \cup {"elections"}

DealOK(s) ==
  /\ s.dealNo \in DOMAIN Deals
  /\ s.stage \in Stage
  /\ DOMAIN s.bids \subseteq ToSet(deal(s).buyers)
  /\ \A b \in DOMAIN s.bids : BidOK(s.bids[b])
  /\ s.clearingPrice \in 0 .. Whole
  /\ s.leadBuyerId \in DOMAIN s.bids \cup {Nobody}
  /\ s.syndicateIds \subseteq DOMAIN s.bids \ {s.leadBuyerId}
  /\ DOMAIN s.elections \subseteq deal(s).lps
  /\ \A l \in DOMAIN s.elections : BallotOK(s.elections[l])
  /\ \A k \in DOMAIN s.approvals : s.approvals[k] \in BOOLEAN
  /\ {s.bidsOpen, s.electionsClosed, s.lpacConsent, s.closed, s.failedAttempt, s.closingFail, s.declined}
       \subseteq BOOLEAN

LeadIsPriced(s) ==
  /\ s.bidsOpen
  /\ s.leadBuyerId \in Qualifying(s)
  /\ s.clearingPrice = s.bids[s.leadBuyerId].price

GatesPassed(s) ==
  /\ s.stage \notin {"setup", "bidding"} => LeadIsPriced(s)
  /\ s.stage \in Electing => s.lpacConsent
  /\ s.stage \in Allocated => s.electionsClosed /\ s.legs # {}
  /\ s.stage \in Settling => allApproved(s)
  /\ s.closed => s.stage = "settled"

Current(s) == s.legs # {} =>
  /\ s.legs = computeAllocation(s)
  /\ DOMAIN s.approvals = approvalParties(s)

\* Shares and legs are rounded to 0.001, demand and capacity to 0.01: each total is
\* half a hundredth off at most, and each LP and each buyer that funds half a
\* thousandth or one.
Legs(s, kind, P) ==
  SumFunctionOnSet([leg \in s.legs |-> leg.amount], {leg \in s.legs : leg.kind = kind /\ leg.to \in P})
Slack(s) == 6 * Cardinality(deal(s).lps) + 10 * Cardinality(s.syndicateIds \cup {s.leadBuyerId}) + 105
Near(s, a, b) == a - b \in -Slack(s) .. Slack(s)
TiesOut(s) == s.legs # {} =>
  LET lps == deal(s).lps  buyers == ToSet(deal(s).buyers) IN
  /\ Near(s, Legs(s, "units", lps) + Legs(s, "units", buyers), Legs(s, "asset", {"vehicle"}))
  /\ Near(s, Legs(s, "cash", lps), Legs(s, "units", buyers))
  /\ \A b \in s.syndicateIds \cup {s.leadBuyerId} : buyerFundedNav(s, b) <= s.bids[b].capacity + 55

Doable(s, r) == tasksFor(s, r) \subseteq Offered(s, r)

(* What a page tells of the elections.  The same deal, had the other LPs      *)
(* elected otherwise for the same totals, the legs computed from that: a page *)
(* that shows both alike does not tell them apart.                            *)
Electable(s, l) ==
  LET nav == deal(s).navs IN
    {s.elections[m] : m \in {k \in DOMAIN s.elections : nav[k] = nav[l]}} \cup
    {Ballot(choice, roll, nav[l]) : choice \in Ballots, roll \in {x \in Rolls : x <= nav[l]}}
Mine(r) == IF r \in LPRoles THEN {Personas[r]} ELSE {}
OtherElections(s, r) ==
  LET might == [l \in DOMAIN s.elections |-> IF l \in Mine(r) THEN {s.elections[l]} ELSE Electable(s, l)] IN
    {e \in [DOMAIN might -> UNION Range(might)] :
       /\ \A l \in DOMAIN might : e[l] \in might[l]
       /\ e # s.elections /\ rollDemand([s EXCEPT !.elections = e]) = rollDemand(s)}
Recast(s, e) ==
  LET x == [s EXCEPT !.elections = e] IN
    IF s.legs = {} THEN x ELSE [x EXCEPT !.legs = computeAllocation(x)]

\* The figures everybody is shown, and where its own legs stand, come out alike.
Alike(s, x, r) == figures(s) = figures(x) /\ legNumbers(s, r) = legNumbers(x, r)

\* Beyond those, the page of role r tells nothing of what the others elected.
Sealed(s, r) == \A e \in OtherElections(s, r) :
  LET x == Recast(s, e) IN Alike(s, x, r) => Contents(s, r) = Contents(x, r)

=============================================================================
