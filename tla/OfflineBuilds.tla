---------------------------- MODULE OfflineBuilds ---------------------------
(* What runs beside the custody backend and the contracts: the portal and    *)
(* the prototype, which share one deal between tabs each in its own way, the *)
(* seats of the web app over its sandbox ledger, the headless scripts, and   *)
(* the browser windows the web app is open in.  One of them runs.            *)
EXTENDS Tabs, CloseScripts, Windows

CONSTANTS
  Deals, Personas, PortalPrices, PortalCapacities, PortalBallots, Rolls,
  ProtoDeals, ProtoPrices, ProtoCapacities, ProtoBallots, Amounts

VARIABLE build

vars == <<build, tabVars, seatVars, scriptVars, winVars>>

Portal == INSTANCE Portal WITH Prices <- PortalPrices, Capacities <- PortalCapacities, Ballots <- PortalBallots
Proto == INSTANCE Prototype WITH Deals <- ProtoDeals, Prices <- ProtoPrices,
                                 Capacities <- ProtoCapacities, Ballots <- ProtoBallots

\* The seed data of both builds, and what is typed into the portal.
ASSUME SeedAssumption == Portal!SeedOK /\ Portal!InputsOK /\ Proto!SeedOK /\ Proto!InputsOK

\* What is not run is at rest.
NoTabs == Proto!PrototypeInit /\ \A t \in Tabs : role[t] = CHOOSE r \in Pages[t] : TRUE
NoScript == ScriptsInit /\ script = "provision" /\ registry = "seeded"

Init ==
  /\ build \in {"portal", "prototype", "sandbox", "scripts", "windows"}
  /\ IF build = "portal" THEN Portal!PortalInit ELSE IF build = "prototype" THEN Proto!PrototypeInit ELSE NoTabs
  /\ IF build = "scripts" THEN ScriptsInit /\ SeatsFrom(NewLedger) ELSE NoScript /\ SeatsInit
  /\ WindowsInit

Next ==
  /\ UNCHANGED build
  /\ \/ build = "portal" /\ Portal!PortalNext /\ UNCHANGED <<seatVars, scriptVars, winVars>>
     \/ build = "prototype" /\ Proto!PrototypeNext /\ UNCHANGED <<seatVars, scriptVars, winVars>>
     \/ build = "sandbox" /\ SeatsNext /\ UNCHANGED <<tabVars, scriptVars, winVars>>
     \/ build = "scripts" /\ ScriptsNext /\ UNCHANGED <<tabVars, winVars>>
     \/ build = "windows" /\ WindowsNext /\ UNCHANGED <<tabVars, seatVars, scriptVars>>

Spec == Init /\ [][Next]_vars

ThePortal == build = "portal"

\* Every tab holds a deal of its build's shape, and so do the others what is theirs.
TypeOK ==
  /\ \A t \in Tabs : role[t] \in Pages[t] /\ timer[t] \in {NoTimer, "settle", "revert"}
  /\ SeatsTypeOK /\ ScriptsTypeOK /\ WindowsTypeOK
  /\ crossed \in 0 .. MaxCrossed /\ overtaken \in BOOLEAN /\ stranded \in BOOLEAN
  /\ \A l \in Link : Len(wire[l]) <= MaxInFlight
  /\ \A s \in Held : IF ThePortal THEN Portal!DealOK(s) ELSE Proto!DealOK(s)

\* Whatever the tabs do, and whichever message overwrites what, no copy of the
\* deal is past a gate it has not been through: a lead in range that sets the
\* price, the LPAC's consent, an allocation, every approval.  A close that was
\* overtaken is the exception.
GatesInOrder == ~overtaken =>
  \A s \in Held : IF ThePortal THEN Portal!GatesPassed(s) ELSE Proto!GatesPassed(s)

\* The legs a deal is stored with, and who has to approve them, are those of
\* the bids and elections stored with them.
AllocationIsCurrent == IF ThePortal THEN Portal!Current(store) ELSE Proto!Current(store)

\* Units issued come to the asset's cost, cash to what the buyers fund, and no
\* buyer funds more than it bid for.
LegsTieOut == ThePortal => Portal!TiesOut(store)

\* What a page of the portal lists under "Needs you" it has a button for, and
\* no view of the prototype throws: what it reads of the deal is there.  A deal
\* whose close was overtaken may have no legs to approve, or to show.
PagesServe == ~overtaken =>
  IF ThePortal THEN \A t \in Tabs : Portal!Doable(copy[t], role[t])
  ELSE \A s \in Held : Proto!Renders(s)

\* Tabs that have received everything hold the same deal, unless two changes
\* crossed, and one that is closing has a timeout that will end it.
TabsKeepUp ==
  /\ Quiet /\ crossed = 0 => Agreed
  /\ Agreed /\ crossed = 0 /\ ~overtaken /\ ~stranded /\ store.stage \in {"settlement", "closing"}
       => \E t \in Tabs : timer[t] # NoTimer

\* Away from the approvals, the page of an LP or a buyer, and oversight's before
\* the close, tells what others elected only by the figures that everybody is
\* shown (the totals sold and rolled, the legs of the receipt) and by where its
\* own legs stand among all: two deals alike in these look alike.
SealedBehindTotals == ThePortal =>
  \A t \in Tabs : LET s == copy[t]  r == role[t] IN
    s.stage # "approvals" /\ r # "advisor" /\ ~(r = "oversight" /\ s.closed) => Portal!Sealed(s, r)
=============================================================================
