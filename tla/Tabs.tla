-------------------------------- MODULE Tabs --------------------------------
(* How the browser tabs of a static build share one deal.  Every tab holds a *)
(* whole copy of it; a change is made on the copy, written to localStorage   *)
(* and posted whole to the other tabs, over a BroadcastChannel and as the    *)
(* storage event.  A tab that is told of a change puts the message in place  *)
(* of its copy, whatever it did itself in the meantime, and one that opens   *)
(* starts from what is stored.  A close is finished by a timeout of the tab  *)
(* that began it.  portal/shared/sync.js and state.js do this for the        *)
(* portal, prototype/app.js for the prototype.                               *)
EXTENDS Integers, Sequences

CONSTANTS
  Tabs,
  Transports,   \* the ways a change travels: the channel, the storage event
  Pages,        \* bound: the roles whose page is opened in each tab
  MaxInFlight,  \* bound: messages of one tab on their way to another, per transport
  MaxCrossed    \* bound: changes made with another on its way before the tabs agree again

ASSUME TabsAssumption == Transports # {} /\ MaxInFlight \in Nat \ {0} /\ MaxCrossed \in Nat

VARIABLES
  role,      \* whose page each tab shows
  copy,      \* the deal each tab holds
  timer,     \* the timeout each tab has set: to "settle" a deal, to "revert" it
  store,     \* what localStorage holds
  wire,      \* the messages on their way, in the order they were posted
  crossed,   \* history: changes made with another on its way since the tabs last agreed
  overtaken, \* history: a timeout ended a close its tab no longer had under way
  stranded   \* history: a page was left before its timeout

tabVars == <<role, copy, timer, store, wire, crossed, overtaken, stranded>>

NoTimer == "none"
Link == {l \in [by : Transports, from : Tabs, to : Tabs] : l.from # l.to}

Quiet == \A l \in Link : wire[l] = <<>>
Agreed == Quiet /\ \A t \in Tabs : copy[t] = store
Held == {copy[t] : t \in Tabs} \cup {store} \cup UNION {{wire[l][i] : i \in DOMAIN wire[l]} : l \in Link}

TabsInit(roles, fresh) ==
  /\ role \in [Tabs -> roles] /\ \A t \in Tabs : role[t] \in Pages[t]
  /\ copy = [t \in Tabs |-> fresh]
  /\ timer = [t \in Tabs |-> NoTimer]
  /\ store = fresh
  /\ wire = [l \in Link |-> <<>>]
  /\ crossed = 0
  /\ overtaken = FALSE
  /\ stranded = FALSE

Post(t, s) ==
  /\ \A l \in Link : l.from = t => Len(wire[l]) < MaxInFlight
  /\ Quiet \/ crossed < MaxCrossed
  /\ copy' = [copy EXCEPT ![t] = s]
  /\ store' = s
  /\ wire' = [l \in Link |-> IF l.from = t THEN Append(wire[l], s) ELSE wire[l]]
  /\ crossed' = IF Agreed THEN 0 ELSE IF Quiet THEN crossed ELSE crossed + 1

\* Tab t makes s of the deal.
commit(t, s) == Post(t, s) /\ UNCHANGED <<role, timer, overtaken, stranded>>

\* It makes s of it and sets its timeout: bound: one close under way in a tab.
Begin(t, s, end) ==
  /\ timer[t] = NoTimer
  /\ Post(t, s)
  /\ timer' = [timer EXCEPT ![t] = end]
  /\ UNCHANGED <<role, overtaken, stranded>>

\* The timeout makes s of whatever the tab holds by then.
End(t, end, closing, s) ==
  /\ timer[t] = end
  /\ Post(t, s)
  /\ timer' = [timer EXCEPT ![t] = NoTimer]
  /\ overtaken' = (overtaken \/ copy[t].stage # closing)
  /\ UNCHANGED <<role, stranded>>

\* A message arrives.
Receive(l) ==
  /\ wire[l] # <<>>
  /\ copy' = [copy EXCEPT ![l.to] = Head(wire[l])]
  /\ wire' = [wire EXCEPT ![l] = Tail(@)]
  /\ UNCHANGED <<role, timer, store, crossed, overtaken, stranded>>

\* Mutant: a page that opens does not read the store.
Load_KeepsCopy(t, r) ==
  /\ r \in Pages[t]
  /\ role' = [role EXCEPT ![t] = r]
  /\ timer' = [timer EXCEPT ![t] = NoTimer]
  /\ wire' = [l \in Link |-> IF l.to = t THEN <<>> ELSE wire[l]]
  /\ stranded' = (stranded \/ timer[t] # NoTimer)
  /\ UNCHANGED <<copy, store, crossed, overtaken>>

\* Tab t opens the page of role r: its copy is read from the store, and its
\* timeout and what was on its way to it are lost.
Load(t, r) ==
  /\ r \in Pages[t]
  /\ role' = [role EXCEPT ![t] = r]
  /\ copy' = [copy EXCEPT ![t] = store]
  /\ timer' = [timer EXCEPT ![t] = NoTimer]
  /\ wire' = [l \in Link |-> IF l.to = t THEN <<>> ELSE wire[l]]
  /\ stranded' = (stranded \/ timer[t] # NoTimer)
  /\ UNCHANGED <<store, crossed, overtaken>>
=============================================================================
