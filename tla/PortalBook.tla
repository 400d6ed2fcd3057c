----------------------------- MODULE PortalBook -----------------------------
(* The figures of the portal (portal/shared/state.js): the bid book, who     *)
(* sells and rolls how much, who funds it, the settlement legs and who has   *)
(* to approve them, each computed from one deal state s.  An amount is a     *)
(* whole number of 0.0001M, a price a whole number of Whole-ths; toFixed(k)  *)
(* rounds as the code does.  What no figure depends on (names, documents,    *)
(* the audit log, time stamps, credentials) is left out.                     *)
EXTENDS Money, Sequences, FiniteSetsExt, SequencesExt

CONSTANTS
  Deals,    \* the seed data of deal 1, 2, ...
  Personas  \* the LP or the buyer that a role acts for

Nobody == "nobody"

BidOK(bid) == bid.price \in 0 .. Whole /\ bid.capacity \in Nat
BallotOK(ballot) == ballot.roll \in Nat /\ ballot.sell \in Nat

\* What the figures are computed from.
SeedOK ==
  /\ 1 \in DOMAIN Deals
  /\ DOMAIN Personas \subseteq {"staying", "leaving", "buyer"}
  /\ \A n \in DOMAIN Deals :
       /\ IsFiniteSet(Deals[n].lps) /\ IsFiniteSet(ToSet(Deals[n].buyers))
       /\ Deals[n].lps \cap ToSet(Deals[n].buyers) = {} /\ Nobody \notin ToSet(Deals[n].buyers)
       /\ ToSet(Deals[n].register) = Deals[n].lps
       /\ Deals[n].navs \in [Deals[n].lps -> Nat]
       /\ \A r \in DOMAIN Personas : Personas[r] \in (IF r = "buyer" THEN ToSet(Deals[n].buyers) ELSE Deals[n].lps)
       /\ Deals[n].fairLow \in Nat \ {0}
       /\ Deals[n].fairHigh \in Deals[n].fairLow .. Whole
       /\ DOMAIN Deals[n].seededBids \subseteq ToSet(Deals[n].buyers)
       /\ \E b \in DOMAIN Deals[n].seededBids :
            /\ ~Deals[n].seededBids[b].passed
            /\ Deals[n].seededBids[b].price \in Deals[n].fairLow .. Deals[n].fairHigh
       /\ \A b \in DOMAIN Deals[n].seededBids : BidOK(Deals[n].seededBids[b])
       /\ DOMAIN Deals[n].seededElections \subseteq Deals[n].lps
       /\ \A l \in DOMAIN Deals[n].seededElections : BallotOK(Deals[n].seededElections[l])

Hero == {Personas[r] : r \in DOMAIN Personas}

toFixed(k, n, d) == LET step == 10 ^ (4 - k) IN step * Nearest(n, d * step)

With(f, k, v) == [x \in DOMAIN f \cup {k} |-> IF x = k THEN v ELSE f[x]]

deal(s) == Deals[s.dealNo]
Bid(price, capacity) == [price |-> price, capacity |-> capacity, passed |-> FALSE]
Filed(s) == {b \in DOMAIN s.bids : ~s.bids[b].passed}

freshState(n) == [
  dealNo |-> n, stage |-> "setup", bids |-> Deals[n].seededBids, bidsOpen |-> FALSE,
  clearingPrice |-> 0, leadBuyerId |-> Nobody, syndicateIds |-> {},
  elections |-> Deals[n].seededElections, electionsClosed |-> FALSE, lpacConsent |-> FALSE,
  legs |-> {}, approvals |-> <<>>, closed |-> FALSE, failedAttempt |-> FALSE,
  closingFail |-> FALSE, declined |-> FALSE]

\* The bids within the fairness range, best first; the sort is stable.
Better(s, b, c) ==
  LET x == s.bids[b]  y == s.bids[c] IN
    \/ x.price > y.price
    \/ x.price = y.price /\ x.capacity > y.capacity
    \/ /\ x.price = y.price
       /\ x.capacity = y.capacity
       /\ \E i, j \in DOMAIN deal(s).buyers : i < j /\ deal(s).buyers[i] = b /\ deal(s).buyers[j] = c
Qualifying(s) == {b \in Filed(s) : s.bids[b].price \in deal(s).fairLow .. deal(s).fairHigh}

\* Once the elections are closed, an LP that has filed nothing sells.
Elected(s) == IF s.electionsClosed THEN deal(s).lps ELSE DOMAIN s.elections
electionFor(s, l) == IF l \in DOMAIN s.elections THEN s.elections[l]
                     ELSE [choice |-> "sell", roll |-> 0, sell |-> deal(s).navs[l]]

\* Before that, an LP nobody acts for counts as selling already.
Selling(s, l) == IF l \in Elected(s) THEN electionFor(s, l).sell
                 ELSE IF l \in Hero THEN 0 ELSE deal(s).navs[l]
Rolling(s, l) == IF l \in Elected(s) THEN electionFor(s, l).roll ELSE 0
sellDemand(s) == toFixed(2, SumFunctionOnSet([l \in deal(s).lps |-> Selling(s, l)], deal(s).lps), 1)
rollDemand(s) == toFixed(2, SumFunctionOnSet([l \in deal(s).lps |-> Rolling(s, l)], deal(s).lps), 1)

CapacityOf(s, B) == SumFunctionOnSet([b \in B |-> s.bids[b].capacity], B)
leadCapacity(s) == IF s.leadBuyerId = Nobody THEN 0 ELSE s.bids[s.leadBuyerId].capacity
syndicateCapacity(s) == CapacityOf(s, s.syndicateIds)
buyerCapacity(s) == toFixed(2, leadCapacity(s) + syndicateCapacity(s), 1)
oversubscribed(s) == sellDemand(s) > buyerCapacity(s)

\* Those of B join, the best first, until they and the lead cover what is sold.
NextBest(s, B) ==
  {b \in B : leadCapacity(s) + CapacityOf(s, {c \in B : Better(s, c, b)}) < sellDemand(s)}
\* Mutant: the lead joins its own syndicate.
recomputeSyndicate_WithLead(s) == NextBest(s, Qualifying(s))

recomputeSyndicate(s) == NextBest(s, Qualifying(s) \ {s.leadBuyerId})

filledSellNav(s) == toFixed(2, IF oversubscribed(s) THEN buyerCapacity(s) ELSE sellDemand(s), 1)
lpFilledSell(s, l) ==
  IF oversubscribed(s) THEN toFixed(4, Selling(s, l) * buyerCapacity(s), sellDemand(s))
  ELSE toFixed(4, Selling(s, l), 1)
\* Mutant: the lead funds all that is sold, whatever it bid for.
buyerFundedNav_LeadUnbounded(s, b) == IF b = s.leadBuyerId THEN toFixed(3, filledSellNav(s), 1) ELSE 0

buyerFundedNav(s, b) ==
  LET need == filledSellNav(s)  lead == leadCapacity(s) IN
    IF b = s.leadBuyerId THEN toFixed(3, IF need < lead THEN need ELSE lead, 1)
    ELSE IF b \in s.syndicateIds /\ syndicateCapacity(s) > 0 /\ need > lead
         THEN toFixed(3, (need - lead) * s.bids[b].capacity, syndicateCapacity(s))
    ELSE 0

AtPrice(s, nav) == toFixed(3, nav * s.clearingPrice, Whole)
assetNavIn(s) == AtPrice(s, rollDemand(s) + filledSellNav(s))
cashTotal(s) == AtPrice(s, filledSellNav(s))
unitsIssued(s) == AtPrice(s, rollDemand(s)) + cashTotal(s)

\* Cash to each seller that is filled, units to each roller and funding buyer,
\* and the asset.
Leg(kind, to, amount) == [kind |-> kind, to |-> to, amount |-> amount]
computeAllocation(s) ==
       {Leg("cash", l, AtPrice(s, lpFilledSell(s, l))) : l \in {l \in deal(s).lps : lpFilledSell(s, l) > 1}}
  \cup {Leg("units", l, AtPrice(s, Rolling(s, l))) : l \in {l \in deal(s).lps : Rolling(s, l) > 1}}
  \cup {Leg("units", b, AtPrice(s, buyerFundedNav(s, b))) :
          b \in {b \in ToSet(deal(s).buyers) : buyerFundedNav(s, b) > 1}}
  \cup {Leg("asset", "vehicle", assetNavIn(s))}

\* The legs in the order they are numbered in, each as its kind and its party.
numbered(s) ==
  LET all(kind, P) == [i \in DOMAIN P |-> <<kind, P[i]>>]
      d == deal(s)
  IN SelectSeq(all("cash", d.register) \o all("units", d.register) \o all("units", d.buyers)
                 \o all("asset", <<"vehicle">>),
               LAMBDA place : \E leg \in s.legs : place = <<leg.kind, leg.to>>)

\* Whoever a leg binds approves; only a person's approval is still to come.
approvalParties(s) ==
  IF s.legs = {} THEN {}
  ELSE {"advisor"}
    \cup {b \in ToSet(deal(s).buyers) : buyerFundedNav(s, b) > 1}
    \cup {l \in Elected(s) : AtPrice(s, lpFilledSell(s, l)) > 1 \/ Rolling(s, l) > 1}
\* Mutant: everybody is asked, whether or not a leg binds them.
seedApprovals_Everybody(s) ==
  [p \in {"advisor"} \cup ToSet(deal(s).buyers) \cup deal(s).lps |-> p # "advisor" /\ p \notin Hero]

seedApprovals(s) == [p \in approvalParties(s) |-> p # "advisor" /\ p \notin Hero]
allApproved(s) == s.approvals # <<>> /\ \A p \in DOMAIN s.approvals : s.approvals[p]
=============================================================================
