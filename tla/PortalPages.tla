---------------------------- MODULE PortalPages ----------------------------
(* What the portal shows of a deal state s to a role r: the sections of its  *)
(* workspace, the actions each offers, what they show of the elections,      *)
(* and the tasks it is told are waiting for it (portal/shared/app.js, and    *)
(* tasksFor and legsFor of state.js).                                        *)
EXTENDS PortalBook

LPRoles == {"staying", "leaving"} \cap DOMAIN Personas
Role == DOMAIN Personas \cup {"advisor", "oversight"}

Offers(buttons) == {a \in DOMAIN buttons : buttons[a]}

sectionsFor(r) ==
  {"overview", "participants", "allocation", "settlement", "documents", "audit"} \cup
  (CASE r = "advisor"   -> {"bids", "consent", "elections"}
     [] r = "buyer"     -> {"bids"}
     [] r = "oversight" -> {"consent"}
     [] r \in LPRoles   -> {"elections"})

\* Oversight is locked out of detail until the close.
locked(s, r, section) ==
  /\ r = "oversight"
  /\ ~s.closed
  /\ section # "overview"
  /\ ~(section = "consent" /\ s.stage = "lpacConsent")

(* The actions a section offers.                                             *)
advisorBids(s) == [openAuction |-> s.stage = "setup",
                   selectLead |-> s.stage = "bidding" /\ ~s.bidsOpen /\ Filed(s) # {}]
\* Mutant: a buyer may bid again, at any stage.
buyerBids_Amend(s, b) == [submitBid |-> TRUE]

buyerBids(s, b) == [submitBid |-> b \notin DOMAIN s.bids /\ s.stage \in {"setup", "bidding"}]
secBids(s, r) == Offers(IF r = "buyer" THEN buyerBids(s, Personas[r]) ELSE advisorBids(s))

secConsent(s, r) == Offers(
  IF r = "oversight" THEN [recordConsent |-> s.stage = "lpacConsent" /\ ~s.lpacConsent]
  ELSE [openLpacReview |-> s.stage = "leadSelected"])

advisorElections(s) == [openElections |-> s.stage = "lpacConsent" /\ s.lpacConsent,
                        compute |-> s.stage = "elections"]
\* Mutant: an LP may elect after the elections are closed.
lpElections_AfterClose(s) == [submitElection |-> s.stage = "elections" \/ s.electionsClosed]

lpElections(s) == [submitElection |-> s.stage = "elections"]
secElections(s, r) == Offers(IF r = "advisor" THEN advisorElections(s) ELSE lpElections(s))

secAllocation(s, r) ==
  IF r = "advisor" /\ s.stage = "allocation" /\ s.legs # {} THEN {"sendForApproval", "decline"} ELSE {}

\* A person's approval goes by the name of who it acts for.
approvalKeyFor(r) == IF r \in DOMAIN Personas THEN Personas[r] ELSE r
Granted(s, p) == p \in DOMAIN s.approvals /\ s.approvals[p]

approvalsView(s, r) ==
  LET key == approvalKeyFor(r)  mine == key \in approvalParties(s) IN Offers([
    approve |-> mine /\ ~Granted(s, key),
    cancel  |-> mine /\ Granted(s, key),
    settle  |-> r = "advisor" /\ allApproved(s),
    decline |-> r = "advisor"])
settlementResult(s) == Offers([retry |-> s.failedAttempt, next |-> ~s.failedAttempt /\ s.dealNo = 1])
Ended(s) == s.closed \/ (s.stage = "settled" /\ s.failedAttempt)
secSettlement(s, r) ==
  IF s.stage = "declined" THEN {}
  ELSE IF Ended(s) THEN settlementResult(s)
  ELSE IF s.stage = "approvals" THEN approvalsView(s, r)
  ELSE {}

renderSection(s, r, section) ==
  IF locked(s, r, section) THEN {}
  ELSE CASE section = "bids"       -> secBids(s, r)
         [] section = "consent"    -> secConsent(s, r)
         [] section = "elections"  -> secElections(s, r)
         [] section = "allocation" -> secAllocation(s, r)
         [] section = "settlement" -> secSettlement(s, r)
         [] OTHER                  -> {}

\* The dashboard offers the next deal once the first is closed.
pageDashboard(s) == Offers([next |-> s.dealNo = 1 /\ s.stage = "settled" /\ s.closed])

Offered(s, r) == pageDashboard(s) \cup UNION {renderSection(s, r, x) : x \in sectionsFor(r)}

(* What the pages of role r let it see of the elections.  On every page, of   *)
(* every role: who has filed, the totals (the dashboard), what the log says   *)
(* of them and of the approvals, and what the receipt does.                   *)
figures(s) == [
  filed |-> Elected(s),
  sell |-> IF Elected(s) = {} THEN {} ELSE {sellDemand(s)},
  roll |-> rollDemand(s),
  allocated |-> IF s.legs = {} THEN {} ELSE {<<sellDemand(s), filledSellNav(s), rollDemand(s)>>},
  authorized |-> {p \in approvalParties(s) \cap Hero : Granted(s, p)},
  receipt |-> IF s.closed THEN {<<Cardinality(s.legs), cashTotal(s), unitsIssued(s)>>} ELSE {}]

\* Beside it, the election of an LP or of all, some of the legs ...
investorRegister(s, r) ==
  IF r \in {"advisor", "oversight"} THEN (IF s.closed THEN Elected(s) ELSE {})
  ELSE IF r \in LPRoles THEN {Personas[r]} \cap Elected(s) ELSE {}

\* Mutant: the legs of everybody, once the deal is allocated.
legsFor_Everybody(s, r) == IF r = "oversight" /\ ~s.closed THEN {} ELSE s.legs

legsFor(s, r) ==
  CASE r = "advisor"   -> s.legs
    [] r = "oversight" -> IF s.closed THEN s.legs ELSE {}
    [] OTHER           -> {leg \in s.legs : leg.to = Personas[r]}

\* ... each with its number, and what each LP is asked to approve.
legNumbers(s, r) ==
  {i \in DOMAIN numbered(s) : \E leg \in legsFor(s, r) : numbered(s)[i] = <<leg.kind, leg.to>>}
obligations(s, r) ==
  IF s.stage # "approvals" \/ locked(s, r, "settlement") THEN {}
  ELSE {<<l, AtPrice(s, lpFilledSell(s, l)), Rolling(s, l)>> : l \in approvalParties(s) \cap deal(s).lps}
Contents(s, r) == [ballots |-> {<<l, electionFor(s, l)>> : l \in investorRegister(s, r)},
                   legs |-> legsFor(s, r), asked |-> obligations(s, r)]

\* The tasks with a button, each named for the action it asks for, and the
\* section its button leads to.
taskSection == [
  openAuction |-> "bids", selectLead |-> "bids", submitBid |-> "bids",
  openLpacReview |-> "consent", recordConsent |-> "consent",
  openElections |-> "elections", submitElection |-> "elections",
  compute |-> "allocation", sendForApproval |-> "allocation",
  approve |-> "settlement", settle |-> "settlement"]
Pending(s, r) == LET key == approvalKeyFor(r) IN key \in DOMAIN s.approvals /\ ~s.approvals[key]
tasksFor(s, r) == Offers(
  CASE r = "advisor" -> [
         openAuction     |-> s.stage = "setup",
         selectLead      |-> s.stage = "bidding",
         openLpacReview  |-> s.stage = "leadSelected",
         openElections   |-> s.stage = "lpacConsent" /\ s.lpacConsent,
         compute         |-> s.stage = "elections",
         sendForApproval |-> s.stage = "allocation",
         approve         |-> s.stage = "approvals" /\ ~Granted(s, "advisor"),
         settle          |-> s.stage = "approvals" /\ allApproved(s)]
    [] r = "buyer" -> [
         submitBid |-> s.stage \in {"setup", "bidding"} /\ Personas[r] \notin DOMAIN s.bids,
         approve   |-> s.stage = "approvals" /\ Pending(s, r)]
    [] r \in LPRoles -> [
         submitElection |-> s.stage = "elections" /\ Personas[r] \notin DOMAIN s.elections,
         approve        |-> s.stage = "approvals" /\ Pending(s, r)]
    [] r = "oversight" -> [recordConsent |-> s.stage = "lpacConsent" /\ ~s.lpacConsent])
=============================================================================
