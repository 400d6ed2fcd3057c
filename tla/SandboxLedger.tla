--------------------------- MODULE SandboxLedger ---------------------------
(* The web app's in-memory ledger (web/sandbox/ledger.ts): what each choice  *)
(* the pages exercise makes of the ledger g, and who sees which contract.    *)
(* g.rooms are the ContinuationDeal contracts in the order they were created,*)
(* g.acs the other active contracts, g.held the units and the cash each      *)
(* party holds.  Choices no page offers (Break, Withdraw, Amend, Revoke,     *)
(* Grant) are left out.                                                      *)
EXTENDS Money, Sequences, SequencesExt

CONSTANTS
  MaxEpoch,  \* bound: deals opened one after another, a reset apart
  Navs,      \* what each LP holds of the old fund
  Clearing   \* the price the demo's documents name

Epochs == 1 .. MaxEpoch
LPs == {"lpExiting", "lpRolling"}
Holders == LPs \cup {"buyer"}
Room == Holders \cup {"gp", "lpac"}

\* The legs of a close, each with its own receiver.  Units are of one
\* instrument, 0, whatever the deal; cash is of the deal's own.
Legs == {"unit", "roll", "cash"}
receiver == [unit |-> "buyer", roll |-> "lpRolling", cash |-> "lpExiting"]
amount == [unit |-> RoundDollar(Clearing, Navs.lpExiting), roll |-> RoundDollar(Clearing, Navs.lpRolling),
           cash |-> RoundDollar(Clearing, Navs.lpExiting)]
PsaPrice == RoundDollar(Clearing, Navs.lpExiting + Navs.lpRolling)
instrument(leg, e) == IF leg = "cash" THEN e ELSE 0
unitTotal(legs) == SumFunctionOnSet(amount, legs \ {"cash"})

\* A contract by its template, what it is about and the deal it names; one
\* that names no deal is of epoch 0.
Contract(t, of, e) == [template |-> t, of |-> of, epoch |-> e]
Doc(t, e) == Contract(t, "deal", e)
factory == Contract("factory", "gp", 0)
Allocation(leg, e) == Contract("allocation", leg, e)
For(t, party) == Contract(t, party, 0)
Antecedents(e) == {Doc(t, e) : t \in {"valuation", "opinion", "cert", "consent", "psa"}}

NewLedger == [rooms |-> <<>>, acs |-> {}, held |-> [x \in (Holders \cup {"gp"}) \X (Epochs \cup {0}) |-> 0]]

\* Signatories and observers; a delegation, an interest, a participation and
\* what becomes of them are between the GP and one party.
projectionOf(c) ==
  CASE c.template = "valuation"                     -> {"valuer", "gp"}
    [] c.template \in {"opinion", "consent", "cert"} -> {"lpac", "gp"}
    [] c.template \in {"psa", "basis", "factory"}   -> {"gp"}
    [] c.template = "receipt"                       -> {"gp"} \cup Holders
    [] c.template = "disclosure"                    -> {"gp", "lpac"}
    [] c.template = "allocation"                    -> {"gp", receiver[c.of]}
    [] c.template \in {"bid", "election"}           -> {c.of}
    [] OTHER                                        -> {"gp", c.of}

visible(g, party, c) == c \in g.acs /\ party \in projectionOf(c)

\* What a command comes to: whether it throws, and the ledger it leaves then.
Done(g) == [ok |-> TRUE, ledger |-> g]
Thrown(g) == [ok |-> FALSE, ledger |-> g]

\* Mutant: a throw leaves what was done before it.
submit_NoRollback(g, r) == r.ledger

submit(g, r) == IF r.ok THEN r.ledger ELSE g

create(g, C) == Done([g EXCEPT !.acs = @ \cup C])
Exchange(g, consumed, C) ==
  IF consumed \subseteq g.acs THEN Done([g EXCEPT !.acs = (@ \ consumed) \cup C]) ELSE Thrown(g)

createDeal(g, e) == Done([g EXCEPT !.rooms = Append(@, [epoch |-> e, stage |-> "Setup", priced |-> FALSE])])

\* A consuming choice on a deal makes a new contract of it.
recreate(g, i, room) == [g EXCEPT !.rooms = Append(RemoveAt(@, i), room)]
Terminal == {"Closed", "Broken"}

\* Mutant: the recreated deal is not given its clearing price again.
RecordConsent_DropsPrice(g, i) ==
  IF g.rooms[i].stage \in Terminal THEN Thrown(g)
  ELSE Done(recreate(g, i, [g.rooms[i] EXCEPT !.stage = "Consented", !.priced = FALSE]))

RecordConsent(g, i) ==
  IF g.rooms[i].stage \in Terminal THEN Thrown(g)
  ELSE Done(recreate(g, i, [g.rooms[i] EXCEPT !.stage = "Consented"]))
SetClearing(g, i) ==
  IF g.rooms[i].stage \in Terminal THEN Thrown(g)
  ELSE Done(recreate(g, i, [g.rooms[i] EXCEPT !.priced = TRUE]))
OpenElections(g, i) ==
  IF g.rooms[i].stage = "Consented" /\ g.rooms[i].priced
  THEN Done(recreate(g, i, [g.rooms[i] EXCEPT !.stage = "Electing"]))
  ELSE Thrown(g)

Credit(h, x, n) == [h EXCEPT ![x] = @ + n]
mint(g, leg, e) == Done([g EXCEPT !.held = Credit(@, <<"gp", instrument(leg, e)>>, amount[leg])])
Allocate(g, leg, e) ==
  LET purse == <<"gp", instrument(leg, e)>> IN
  IF factory \in g.acs /\ g.held[purse] >= amount[leg]
  THEN Done([g EXCEPT !.held = Credit(@, purse, -amount[leg]), !.acs = @ \cup {Allocation(leg, e)}])
  ELSE Thrown(g)

EDP_Accept(g, party) == Exchange(g, {For("proposal", party)}, {For("delegation", party)})
OFI_Accept(g, lp) == Exchange(g, {For("offer", lp)}, {For("interest", lp)})
Accept(g, lp) == Exchange(g, {For("participation", lp)}, {For("accepted", lp)})

\* ExecFor and BurnFor leave the delegation and the participation active.
Executed(g, legs, e) == [g EXCEPT
  !.acs = @ \ {Allocation(l, e) : l \in legs},
  !.held = [x \in DOMAIN @ |-> @[x] +
    (IF \E l \in legs : x = <<receiver[l], instrument(l, e)>>
     THEN amount[CHOOSE l \in legs : x = <<receiver[l], instrument(l, e)>>] ELSE 0)]]
Executable(g, legs, e) ==
  \A l \in legs : {Allocation(l, e), For("delegation", receiver[l])} \subseteq g.acs
Burned(g, lps) == [g EXCEPT !.acs = @ \ {For("interest", lp) : lp \in lps}]
Burnable(g, lps) == \A lp \in lps : {For("accepted", lp), For("interest", lp)} \subseteq g.acs

\* Spends the basis, if what it cites is there.
validateIssuance(g, e) ==
  IF Antecedents(e) \subseteq g.acs THEN Done([g EXCEPT !.acs = @ \ {Doc("basis", e)}]) ELSE Thrown(g)

Receipts(e) == {Doc("receipt", e), Doc("disclosure", e)}
Settled(g, i, legs, lps, e) ==
  LET paid == Burned(Executed(g, legs, e), lps) IN
  recreate([paid EXCEPT !.acs = @ \cup Receipts(e)], i, [g.rooms[i] EXCEPT !.stage = "Closed"])

\* Mutant: a deal closes at any stage.
Close_AnyStage(g, i, legs, lps) ==
  LET e == g.rooms[i].epoch  valid == validateIssuance(g, e) IN
  IF Doc("basis", e) \notin g.acs THEN Thrown(g)
  ELSE IF ~valid.ok THEN valid
  ELSE IF unitTotal(legs) = PsaPrice /\ Executable(valid.ledger, legs, e) /\ Burnable(valid.ledger, lps)
  THEN Done(Settled(valid.ledger, i, legs, lps, e))
  ELSE Thrown(valid.ledger)

Close(g, i, legs, lps) ==
  LET e == g.rooms[i].epoch  valid == validateIssuance(g, e) IN
  IF g.rooms[i].stage \notin {"Consented", "Electing"} \/ Doc("basis", e) \notin g.acs THEN Thrown(g)
  ELSE IF ~valid.ok THEN valid
  ELSE IF unitTotal(legs) = PsaPrice /\ Executable(valid.ledger, legs, e) /\ Burnable(valid.ledger, lps)
  THEN Done(Settled(valid.ledger, i, legs, lps, e))
  ELSE Thrown(valid.ledger)
=============================================================================
