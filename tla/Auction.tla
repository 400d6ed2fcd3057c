------------------------------ MODULE Auction ------------------------------
(***************************************************************************)
(* Sealed bids and the contentless markers that say one was filed          *)
(* (Continuum/Auction.daml).  A buyer creates the two in transactions of   *)
(* its own; nothing on the ledger ties one to the other, and a second bid  *)
(* is a second contract.                                                   *)
(***************************************************************************)
EXTENDS Parties, Money, FiniteSets

CONSTANTS Buyer,      \* parties that may bid
          BidId,      \* tells the bids of a buyer apart
          Pcts, Capacities  \* what the bid form may hold

ASSUME AuctionAssumption ==
  /\ Buyer \subseteq Party
  /\ Pcts \subseteq Int /\ Capacities \subseteq Int

VARIABLES bids,       \* active SealedBid contracts
          bidFiled    \* buyers with an active BidFiled marker

auctionVars == <<bids, bidFiled>>

SealedBid == [buyer : Buyer, id : BidId, pctOfNav : Pcts, capacity : Capacities]

\* Slip: the size of a bid is not checked.
BidEnsure_AnySize(bid) == bid.buyer # Admin

\* The template's ensure; the GP may not bid on its own deal.
BidEnsure(bid) ==
  /\ bid.pctOfNav > 0 /\ bid.pctOfNav <= Whole
  /\ bid.capacity > 0
  /\ bid.buyer # Admin

AuctionInit ==
  /\ bids = {}
  /\ bidFiled = {}

SubmitBid(bid) ==
  /\ BidEnsure(bid)
  /\ \A other \in bids : <<other.buyer, other.id>> # <<bid.buyer, bid.id>>
  /\ bids' = bids \cup {bid}
  /\ UNCHANGED bidFiled

WithdrawBid(bid) ==
  /\ bid \in bids
  /\ bids' = bids \ {bid}
  /\ UNCHANGED bidFiled

FileMarker(b) ==
  /\ bidFiled' = bidFiled \cup {b}
  /\ UNCHANGED bids

\* The template has no choice, but every signatory may archive its contract.
ArchiveMarker(b) ==
  /\ b \in bidFiled
  /\ bidFiled' = bidFiled \ {b}
  /\ UNCHANGED bids
=============================================================================
