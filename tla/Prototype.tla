------------------------------ MODULE Prototype ------------------------------
(* The prototype: one page that shows the deal as whichever role is picked,  *)
(* and whose buttons change the deal themselves (prototype/app.js).  Amounts *)
(* are whole hundredths of a million, prices whole Whole-ths.                *)
EXTENDS Money, FiniteSets, Tabs

CONSTANTS
  Deals,   \* deal 1, 2, ...: what each LP holds, and the defaults of the forms
  Ballots, \* bound: what is chosen and typed: what an LP elects,
  Amounts, \* for how much,
  Prices,  \* and the buyer's price and capacity
  Capacities

\* What the page starts from.
SeedOK ==
  /\ 1 \in DOMAIN Deals
  /\ \A n \in DOMAIN Deals : Deals[n] \in [
       nav : [{"staying", "leaving"} -> Nat], default : [{"staying", "leaving"} -> Nat],
       price : Nat, capacity : Nat]

\* What is typed is a number.
InputsOK == Amounts \subseteq Int

LPs == {"staying", "leaving"}
Persona == LPs \cup {"advisor", "buyer", "oversight"}

\* What may be null is a set of at most one element.
Null == {}
The(S) == CHOOSE x \in S : TRUE
With(f, k, v) == [x \in DOMAIN f \cup {k} |-> IF x = k THEN v ELSE f[x]]

Smaller(a, b) == IF a < b THEN a ELSE b
Larger(a, b) == IF a < b THEN b ELSE a
deal(s) == Deals[s.dealNo]

freshState(n) == [
  dealNo |-> n, stage |-> "setup", room |-> FALSE, elections |-> <<>>,
  offer |-> Null, allocation |-> Null,
  approvals |-> [k \in {"buyer", "vehicle", "staying", "leaving"} |-> FALSE],
  closed |-> FALSE, failedAttempt |-> FALSE, closingFail |-> FALSE, oversightGranted |-> FALSE]

\* Until it is elected or offered, a figure is the form's default.
Elected(s, l) == IF l \in DOMAIN s.elections THEN s.elections[l].amount ELSE deal(s).default[l]
rollNav(s) == Elected(s, "staying")
exitNav(s) == Elected(s, "leaving")
buyPrice(s) == IF s.offer = Null THEN deal(s).price ELSE The(s.offer).price
buyCapacity(s) == IF s.offer = Null THEN deal(s).capacity ELSE The(s.offer).capacity
buyNav(s) == Smaller(exitNav(s), buyCapacity(s))
cashAmount(s) == RoundDollar(buyPrice(s), buyNav(s))
assetNav(s) == rollNav(s) + buyNav(s)

\* Four legs, whatever was chosen: the exit in cash, the roll and the purchase
\* in units, the asset into the vehicle.
computeAllocation(s) == [cash |-> cashAmount(s), roll |-> rollNav(s), units |-> buyNav(s), asset |-> assetNav(s)]

obligation(r) == IF r = "advisor" THEN "vehicle" ELSE r
allApproved(s) == \A k \in DOMAIN s.approvals : s.approvals[k]

(* The view of stage s.stage offers role r its buttons.                      *)
Offers(buttons) == {b \in DOMAIN buttons : buttons[b]}
ForAdvisor(r, buttons) == IF r = "advisor" THEN Offers(buttons) ELSE {}

vSetup(r) == ForAdvisor(r, [createRoom |-> TRUE])
vInvite(r) == ForAdvisor(r, [toPrice |-> TRUE])
vPrice(s, r) ==
  IF r = "buyer" THEN Offers([submitPrice |-> s.offer = Null])
  ELSE ForAdvisor(r, [toElect |-> s.offer # Null])
vElect(s, r) ==
  IF r \in LPs THEN Offers([submitElection |-> r \notin DOMAIN s.elections])
  ELSE ForAdvisor(r, [toCompute |-> LPs \subseteq DOMAIN s.elections])
vCompute(s, r) ==
  ForAdvisor(r, [doCompute |-> s.allocation = Null, toApprove |-> s.allocation # Null])
vApprove(s, r) ==
  IF r = "oversight" THEN {}
  ELSE Offers([approveMine |-> ~s.approvals[obligation(r)], toClose |-> r = "advisor" /\ allApproved(s)])
vClose(s, r) == ForAdvisor(r, [fireClose |-> s.stage = "close"])
vSettled(s, r) ==
  ForAdvisor(r, [retryClose |-> s.failedAttempt, startDeal2 |-> ~s.failedAttempt,
                 grantOversight |-> ~s.failedAttempt /\ ~s.oversightGranted])

view(s, r) ==
  CASE s.stage = "setup"   -> vSetup(r)
    [] s.stage = "invite"  -> vInvite(r)
    [] s.stage = "price"   -> vPrice(s, r)
    [] s.stage = "elect"   -> vElect(s, r)
    [] s.stage = "compute" -> vCompute(s, r)
    [] s.stage = "approve" -> vApprove(s, r)
    [] s.stage \in {"close", "closing"} -> vClose(s, r)
    [] s.stage = "settled" -> vSettled(s, r)

\* A view that reads what is not there throws, and no button of the page works
\* any more: the room from the invitation on, the legs in a close and after.
Renders(s) ==
  /\ s.stage \notin {"setup", "compute", "approve"} => s.room
  /\ s.stage \in {"close", "closing", "settled"} => s.allocation # Null

PrototypeInit == TabsInit(Persona, freshState(1))

Clicked(t, button) == button \in view(copy[t], role[t])
Moved(s, stage) == [s EXCEPT !.stage = stage]

createRoom(t) == Clicked(t, "createRoom") /\ commit(t, [Moved(copy[t], "invite") EXCEPT !.room = TRUE])
toPrice(t) == Clicked(t, "toPrice") /\ commit(t, Moved(copy[t], "price"))
toElect(t) == Clicked(t, "toElect") /\ commit(t, Moved(copy[t], "elect"))
toCompute(t) == Clicked(t, "toCompute") /\ commit(t, Moved(copy[t], "compute"))

\* The amount is capped at the position, and is not negative; what the price may
\* be is not checked.
submitElection(t, choice, amount) ==
  /\ Clicked(t, "submitElection")
  /\ commit(t, [copy[t] EXCEPT !.elections =
       With(@, role[t], [choice |-> choice, amount |-> Larger(0, Smaller(amount, deal(copy[t]).nav[role[t]]))])])
submitPrice(t, price, capacity) ==
  /\ Clicked(t, "submitPrice")
  /\ commit(t, [copy[t] EXCEPT !.offer = {[price |-> price, capacity |-> capacity]}])

doCompute(t) == Clicked(t, "doCompute") /\ commit(t, [copy[t] EXCEPT !.allocation = {computeAllocation(copy[t])}])
toApprove(t) == Clicked(t, "toApprove") /\ commit(t, Moved(copy[t], "approve"))
approveMine(t) ==
  /\ Clicked(t, "approveMine")
  /\ commit(t, [copy[t] EXCEPT !.approvals[obligation(role[t])] = TRUE])
toClose(t) == Clicked(t, "toClose") /\ commit(t, Moved(copy[t], "close"))
retryClose(t) ==
  /\ Clicked(t, "retryClose")
  /\ commit(t, [Moved(copy[t], "close") EXCEPT !.failedAttempt = FALSE])
grantOversight(t) == Clicked(t, "grantOversight") /\ commit(t, [copy[t] EXCEPT !.oversightGranted = TRUE])
startDeal2(t) ==
  /\ Clicked(t, "startDeal2")
  /\ copy[t].dealNo + 1 \in DOMAIN Deals
  /\ commit(t, freshState(copy[t].dealNo + 1))

\* The button is outside the view.
reset(t) == commit(t, freshState(1))

\* The role is picked on the page, which is not loaded again.
personaSelect(t, r) ==
  /\ r \in Pages[t]
  /\ role' = [role EXCEPT ![t] = r]
  /\ UNCHANGED <<copy, timer, store, wire, crossed, overtaken, stranded>>

runClose(t, fail) ==
  /\ Clicked(t, "fireClose")
  /\ Begin(t, [Moved(copy[t], "closing") EXCEPT !.closingFail = fail], IF fail THEN "revert" ELSE "settle")

\* Neither timeout looks at the deal again.
settleTimeout(t) == End(t, "settle", "closing",
  [copy[t] EXCEPT !.stage = "settled", !.failedAttempt = FALSE, !.closed = TRUE, !.closingFail = FALSE])
revertTimeout(t) == End(t, "revert", "closing",
  [copy[t] EXCEPT !.stage = "settled", !.failedAttempt = TRUE, !.closed = FALSE, !.closingFail = FALSE])

Click(t) ==
  \/ createRoom(t)
  \/ toPrice(t)
  \/ \E p \in Prices, c \in Capacities : submitPrice(t, p, c)
  \/ toElect(t)
  \/ \E choice \in Ballots, a \in Amounts : submitElection(t, choice, a)
  \/ toCompute(t)
  \/ doCompute(t)
  \/ toApprove(t)
  \/ approveMine(t)
  \/ toClose(t)
  \/ retryClose(t)
  \/ grantOversight(t)
  \/ startDeal2(t)
  \/ reset(t)
  \/ \E fail \in BOOLEAN : runClose(t, fail)

PrototypeNext ==
  \/ \E t \in Tabs : Click(t) \/ settleTimeout(t) \/ revertTimeout(t)
  \/ \E t \in Tabs, r \in Persona : personaSelect(t, r)
  \/ \E t \in Tabs : Load(t, role[t])
  \/ \E l \in Link : Receive(l)

(* What a deal state s has to be.                                            *)
Stages == {"setup", "invite", "price", "elect", "compute", "approve", "close", "closing", "settled"}
Closing == {"close", "closing", "settled"}

DealOK(s) ==
  /\ s.dealNo \in DOMAIN Deals
  /\ s.stage \in Stages
  /\ DOMAIN s.elections \subseteq LPs
  /\ \A l \in DOMAIN s.elections : s.elections[l].amount \in 0 .. deal(s).nav[l]
  /\ Cardinality(s.offer) <= 1 /\ Cardinality(s.allocation) <= 1
  /\ s.approvals \in [{"buyer", "vehicle", "staying", "leaving"} -> BOOLEAN]
  /\ {s.room, s.closed, s.failedAttempt, s.closingFail, s.oversightGranted} \subseteq BOOLEAN

GatesPassed(s) ==
  /\ s.stage # "setup" => s.room
  /\ s.stage \in {"elect", "compute", "approve"} \cup Closing => s.offer # Null
  /\ s.stage \in {"compute", "approve"} \cup Closing => LPs \subseteq DOMAIN s.elections
  /\ s.stage \in {"approve"} \cup Closing => s.allocation # Null
  /\ s.stage \in Closing => allApproved(s)
  /\ s.closed => s.stage = "settled"

Current(s) == s.allocation # Null => s.allocation = {computeAllocation(s)}

=============================================================================
