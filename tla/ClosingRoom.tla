---------------------------- MODULE ClosingRoom ----------------------------
(* The deal with the bids and elections filed beside it: what a close takes   *)
(* from them, and what it does not.                                           *)
EXTENDS Deal, Filings

roomVars == <<vars, filingVars>>

RoomInit == Init /\ FilingInit

RoomNext ==
  \/ Next /\ UNCHANGED filingVars
  \/ FilingNext /\ UNCHANGED vars

RoomSpec == RoomInit /\ [][RoomNext]_roomVars

\* What README.md and Clearing.daml say of Close: it asserts that the deal is not
\* undersubscribed.
ClosesSubscribed == [][receipts' # receipts => Subscribed]_roomVars
=============================================================================
