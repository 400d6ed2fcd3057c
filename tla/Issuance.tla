------------------------------ MODULE Issuance ------------------------------
(***************************************************************************)
(* The antecedents of a close and the gate over them: valuations, fairness *)
(* opinions, auction certificates, LPAC consents and purchase agreements   *)
(* (Continuum/Valuation, Auction, Consent, Issuance.daml) and the          *)
(* IssuanceBasis that refers to them by contract id.                       *)
(*                                                                         *)
(* Docs and Bases are the contracts a behaviour may create, each at most   *)
(* once: an element stands for a contract id together with its payload.    *)
(* The pair <<dealId, gp>> a document is bound to is one value, deal.      *)
(***************************************************************************)
EXTENDS Parties, Money, FiniteSets

CONSTANTS Deals,    \* deals of this GP, each the pair a document is bound to
          DocId,    \* names that tell documents of equal payload apart
          Docs,     \* the documents that may be signed
          Bases,    \* the bases the GP may create
          Published,  \* the documents already signed when the behaviour begins
          Archivable, \* the documents their signatory may archive
          MaxBases  \* bound on the bases active at a time

Opinion(kind) == [kind : {kind}, id : DocId, deal : Deals, signer : Party,
                  lo : Int, hi : Int, day : Int]
ValuationReport == Opinion("valuation")
FairnessOpinion == Opinion("fairness")
AuctionCertificate == [kind : {"cert"}, id : DocId, deal : Deals, pct : Int]
LPACConsent == [kind : {"consent"}, id : DocId, deal : Deals, granted : BOOLEAN]
PurchaseAgreement == [kind : {"psa"}, id : DocId, deal : Deals, pct : Int, nav : Int, price : Int]

IssuanceBasis == [id : DocId, deal : Deals, nav : Int, pct : Int, price : Int,
          valuations : SUBSET (Docs \cap ValuationReport),
          fairness : Docs \cap FairnessOpinion, cert : Docs \cap AuctionCertificate,
          consent : Docs \cap LPACConsent, psa : Docs \cap PurchaseAgreement,
          closeDay : Int, maxAge : Int]

\* The ensure clause of each template.
Ensure(d) ==
  /\ d.kind \in {"valuation", "fairness"} => d.lo <= d.hi /\ d.signer # Admin
  /\ d.kind = "cert" => d.pct > 0 /\ d.pct <= Whole
  /\ d.kind = "psa" => d.price = RoundDollar(d.pct, d.nav)

ASSUME IssuanceAssumption ==
  /\ Docs \subseteq ValuationReport \cup FairnessOpinion \cup AuctionCertificate \cup LPACConsent \cup PurchaseAgreement
  /\ Bases \subseteq IssuanceBasis
  /\ MaxBases \in Nat
  /\ Archivable \subseteq Docs
  /\ Published \subseteq Docs /\ \A d \in Published : Ensure(d)

VARIABLES facts,    \* active documents
          archived, \* documents signed once and archived since
          bases,    \* active IssuanceBasis contracts
          spent     \* bases consumed by ValidateIssuance

issVars == <<facts, archived, bases, spent>>

IssTypeOK ==
  /\ facts \subseteq Docs
  /\ archived \subseteq Docs
  /\ bases \subseteq Bases
  /\ spent \subseteq Bases

IssInit ==
  /\ facts = Published
  /\ archived = {}
  /\ bases = {}
  /\ spent = {}

Signed == facts \cup archived

\* The signatory creates the document.
SignDoc(d) ==
  /\ d \notin Signed
  /\ Ensure(d)
  /\ facts' = facts \cup {d}
  /\ UNCHANGED <<archived, bases, spent>>

\* The signatory archives it: every template has that choice.
ArchiveDoc(d) ==
  /\ d \in facts
  /\ facts' = facts \ {d}
  /\ archived' = archived \cup {d}
  /\ UNCHANGED <<bases, spent>>

RefersTo(b) == b.valuations \cup {b.fairness, b.cert, b.consent, b.psa}

\* The GP assembles a basis from contract ids it knows; nothing is checked yet, and
\* a document may be archived by now.
CreateBasis(b) ==
  /\ b \notin bases \cup spent
  /\ Cardinality(bases) < MaxBases
  /\ RefersTo(b) \subseteq Signed
  /\ bases' = bases \cup {b}
  /\ UNCHANGED <<facts, archived, spent>>

Fresh(b, day) == day <= b.closeDay /\ b.closeDay - day <= b.maxAge

\* ValidateIssuance: every document must be active when it is fetched.
ValuationsHold(b) ==
  /\ b.valuations # {}
  /\ \A v \in b.valuations : /\ v.deal = b.deal
                             /\ v.lo <= b.nav /\ b.nav <= v.hi
                             /\ Fresh(b, v.day)

\* Slip: the clearing percentage is not held against the range.
FairnessHolds_AnyPrice(b) ==
  /\ b.fairness.deal = b.deal
  /\ Fresh(b, b.fairness.day)

FairnessHolds(b) ==
  /\ b.fairness.deal = b.deal
  /\ b.fairness.lo <= b.pct /\ b.pct <= b.fairness.hi
  /\ Fresh(b, b.fairness.day)

\* Slip: a document is taken for good because it once was.
AllActive_OnceSigned(b) == RefersTo(b) \subseteq Signed

AllActive(b) == RefersTo(b) \subseteq facts

Valid(b) ==
  /\ AllActive(b)
  /\ b.price = RoundDollar(b.pct, b.nav)
  /\ ValuationsHold(b)
  /\ FairnessHolds(b)
  /\ b.cert.deal = b.deal /\ b.cert.pct = b.pct
  /\ b.consent.deal = b.deal /\ b.consent.granted
  /\ b.psa.deal = b.deal /\ b.psa.price = b.price /\ b.psa.pct = b.pct

\* Slip: the choice is nonconsuming.
Spend_Kept(b) ==
  /\ spent' = spent \cup {b}
  /\ UNCHANGED <<facts, archived, bases>>

\* What exercising ValidateIssuance does: the basis is consumed.
Spend(b) ==
  /\ bases' = bases \ {b}
  /\ spent' = spent \cup {b}
  /\ UNCHANGED <<facts, archived>>

\* The GP exercises ValidateIssuance by itself, outside any Close.
ValidateIssuance(b) ==
  /\ b \in bases
  /\ Valid(b)
  /\ Spend(b)

IssNext ==
  \/ \E d \in Docs : SignDoc(d)
  \/ \E d \in Archivable : ArchiveDoc(d)
  \/ \E b \in Bases : CreateBasis(b) \/ ValidateIssuance(b)
=============================================================================
