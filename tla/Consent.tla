------------------------------ MODULE Consent ------------------------------
(***************************************************************************)
(* The LPAC's consent and its recusal gate (Continuum/Consent.daml): the   *)
(* GP asks, naming the committee's roster and who is recused; the LPAC     *)
(* grants, handing the choice the bid markers it wants it to look at.      *)
(***************************************************************************)
EXTENDS Auction

CONSTANTS Roster,    \* the LPAC's members, as the GP's request names them
          Recusable  \* the recusal lists the GP may write

VARIABLES requests,  \* recusal lists of the open LPACConsentRequest contracts
          consents   \* recusal lists of the LPACConsent contracts

consentVars == <<requests, consents>>

ConsentInit ==
  /\ requests = {}
  /\ consents = {}

RequestConsent(recusals) ==
  /\ requests' = requests \cup {recusals}
  /\ UNCHANGED consents

\* Every marker the LPAC hands over must be active, but it need not hand over any.
Grant(recusals, markers) ==
  /\ recusals \in requests
  /\ markers \subseteq bidFiled
  /\ Roster \cap markers \subseteq recusals
  /\ requests' = requests \ {recusals}
  /\ consents' = consents \cup {recusals}

\* The LPAC is LPACConsent's only signatory, so it may create one with no request,
\* as its page does.
ConsentDirectly(recusals) ==
  /\ consents' = consents \cup {recusals}
  /\ UNCHANGED requests

recusalVars == <<auctionVars, consentVars>>

RecusalInit == AuctionInit /\ ConsentInit

RecusalNext ==
  \/ /\ \E b \in Buyer : FileMarker(b) \/ ArchiveMarker(b)
     /\ UNCHANGED consentVars
  \/ /\ \E bid \in SealedBid : SubmitBid(bid) \/ WithdrawBid(bid)
     /\ UNCHANGED consentVars
  \/ /\ \E r \in Recusable : \/ RequestConsent(r) \/ ConsentDirectly(r)
                             \/ \E markers \in SUBSET bidFiled : Grant(r, markers)
     /\ UNCHANGED auctionVars

RecusalSpec == RecusalInit /\ [][RecusalNext]_recusalVars

-----------------------------------------------------------------------------
(* Properties *)

\* What Consent.daml says of its gate: the LPAC grants a request only if every roster
\* member that did bid on the ledger is recused.
GrantsRecuseBidders ==
  [][\A r \in requests \ requests' :
       consents' # consents => Roster \cap bidFiled \subseteq r]_recusalVars
=============================================================================
