------------------------------ MODULE Filings ------------------------------
(***************************************************************************)
(* What is filed in a closing room before the close, bids and elections,   *)
(* with the clearing computed from what stands filed.  Every step is a     *)
(* transaction of one party; no contract orders the steps.                 *)
(***************************************************************************)
EXTENDS Auction, Election, Clearing

VARIABLE lead  \* the buyer the GP names in the auction certificate

filingVars == <<auctionVars, elections, lead>>

FilingTypeOK ==
  /\ bids \subseteq SealedBid
  /\ \A b \in bids : b.capacity > 0 /\ b.pctOfNav > 0 /\ b.pctOfNav <= Whole
  /\ bidFiled \subseteq Buyer
  /\ elections \subseteq LPElection
  /\ \A e \in elections : e.rollNav + e.sellNav = e.positionNav
  /\ lead \in Buyer

FilingInit ==
  /\ AuctionInit /\ ElectionInit
  /\ lead \in Buyer

AuctionStep ==
  /\ \/ \E bid \in SealedBid : SubmitBid(bid)
     \/ \E bid \in bids : WithdrawBid(bid)
     \/ \E b \in Buyer : FileMarker(b) \/ ArchiveMarker(b)
  /\ UNCHANGED <<elections, lead>>

\* What the election form may hold.
Ballot == [lp : Elector, id : ElectionId, positionNav : Positions,
           rollNav : Splits, sellNav : Splits]

ElectionStep ==
  /\ \/ \E e \in Ballot : FileElection(e)
     \/ \E e \in elections, roll, sell \in Splits : Amend(e, roll, sell)
  /\ UNCHANGED <<auctionVars, lead>>

FilingNext == AuctionStep \/ ElectionStep

FilingSpec == FilingInit /\ [][FilingNext]_filingVars

-----------------------------------------------------------------------------
(* The clearing of what stands filed *)

Commitments == {[buyer |-> b.buyer, id |-> b.id, capacity |-> b.capacity,
                 isLead |-> b.buyer = lead] : b \in bids}

SellPool == SumFunctionOnSet([e \in elections |-> e.sellNav], elections)
RollPool == SumFunctionOnSet([e \in elections |-> e.rollNav], elections)

Result(pct) == computeClearing(pct, RollPool, SellPool, Capacity(Commitments))

Subscribed == Capacity(Commitments) >= SellPool

Distance(m, n) == IF m > n THEN m - n ELSE n - m

\* A tabulation as the arithmetic expects it: one commitment leads at most.
AtMostOneLead == Cardinality(Lead(Commitments)) <= 1

\* Few and small enough for the digits of a ratio: 10^10 dollar-members in the code.
FineEnough == Capacity(Syndicate(Commitments)) * Cardinality(Syndicate(Commitments)) < Scale

\* What the buyers take between them.
Taken == SumFunctionOnSet([c \in Commitments |-> FillOf(c, SellPool, Commitments)], Commitments)

-----------------------------------------------------------------------------
(* Properties *)

\* When the bids cover the pool, the buyers between them miss it by no more than the
\* half dollar that rounding costs each syndicate member, however bids were filed,
\* withdrawn or doubled and elections amended (allocateBuyers).  The matrix asks for
\* more: that they take it to the cent (rules 4.2 and 4.5), which rounding each share
\* by itself does not do.
FillsTakeThePool ==
  Subscribed /\ AtMostOneLead /\ FineEnough =>
    2 * Distance(Taken, SellPool) <= Cardinality(Syndicate(Commitments))

\* When the bids cover the pool, nobody takes more than it committed, rounding
\* included (matrix rule 4.2).
FillsWithinCapacity ==
  Subscribed /\ AtMostOneLead /\ FineEnough =>
    \A c \in Commitments : FillOf(c, SellPool, Commitments) <= c.capacity

\* The syndicate takes overflow only: a member that takes anything does so beside a
\* lead filled to its capacity (matrix rule 4.3).
LeadComesFirst ==
  AtMostOneLead =>
    \A c \in Syndicate(Commitments), l \in Lead(Commitments) :
      FillOf(c, SellPool, Commitments) > 0 =>
        FillOf(l, SellPool, Commitments) = l.capacity

\* The units that rollers and buyers are owed miss the price that Close will demand
\* by no more than the dollar that rounding two parts instead of their sum can cost
\* (computeClearing).  Close demands the price exactly (Deal.daml:90), and would refuse
\* legs of a clearing that is a dollar off.
TotalsTieOut ==
  \A pct \in {p \in Pcts : p > 0 /\ p <= Whole} :
    LET r == Result(pct) IN
    ~undersubscribed(r) => Distance(r.totalUnits, r.psaPrice) <= 1
=============================================================================
