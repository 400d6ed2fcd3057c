---------------------------- MODULE OfflineProofs ----------------------------
(* Theorems of OfflineBuilds about the two static builds, for any tabs, ways *)
(* of transport, deals, messages on their way and changes that cross; and    *)
(* what the sandbox and the windows owe to the theorems about them alone.    *)
EXTENDS OfflineBuilds, SeatsProofs, WindowsProofs

\* What the tabs hold, store and send is some deal or other.
TabsTyped == \E X : wire \in [Link -> Seq(X)] /\ copy \in [Tabs -> X] /\ store \in X

\* Tab t puts s in place of the deal, here and on its way to the others.
Puts(t, s) ==
  /\ copy' = [copy EXCEPT ![t] = s]
  /\ store' = s
  /\ wire' = [l \in Link |-> IF l.from = t THEN Append(wire[l], s) ELSE wire[l]]

-----------------------------------------------------------------------------
(* Tabs *)

\* What a tab puts in place is all that is new.
LEMMA PutsOne ==
  ASSUME TabsTyped, NEW t \in Tabs, NEW s, Puts(t, s)
  PROVE  TabsTyped' /\ Held' \subseteq Held \cup {s}
<1>1. PICK X : wire \in [Link -> Seq(X)] /\ copy \in [Tabs -> X] /\ store \in X
  BY DEF TabsTyped
<1> DEFINE Y == X \cup {s}
<1>2. ASSUME NEW l \in Link
      PROVE  /\ wire'[l] \in Seq(Y)
             /\ \A i \in DOMAIN wire'[l] : wire'[l][i] = s \/ \E j \in DOMAIN wire[l] : wire'[l][i] = wire[l][j]
  <2>1. wire[l] \in Seq(X) /\ wire[l] \in Seq(Y)
    BY <1>1
  <2>2. CASE l.from = t
    <3>1. wire'[l] = Append(wire[l], s) /\ s \in Y
      BY <2>2 DEF Puts
    <3> HIDE DEF Y
    <3>2. /\ wire'[l] \in Seq(Y) /\ Len(wire'[l]) = Len(wire[l]) + 1
          /\ \A j \in 1..Len(wire[l]) : wire'[l][j] = wire[l][j]
          /\ wire'[l][Len(wire[l]) + 1] = s
      BY <2>1, <3>1, AppendProperties
    <3>3. DOMAIN wire[l] = 1..Len(wire[l]) /\ DOMAIN wire'[l] = 1..(Len(wire[l]) + 1) /\ Len(wire[l]) \in Nat
      BY <2>1, <3>2, LenProperties
    <3>4. QED
      BY <3>2, <3>3
  <2>3. CASE l.from # t
    <3>1. wire'[l] = wire[l]
      BY <2>3 DEF Puts
    <3>2. QED
      BY <2>1, <3>1
  <2>4. QED
    BY <2>2, <2>3
<1>3. TabsTyped'
  <2>1. wire' \in [Link -> Seq(Y)]
    BY <1>2 DEF Puts
  <2>2. copy' \in [Tabs -> Y] /\ store' \in Y
    BY <1>1 DEF Puts
  <2>3. QED
    BY <2>1, <2>2 DEF TabsTyped, Link
<1>4. Held' \subseteq Held \cup {s}
  <2>1. \A u \in Tabs : copy'[u] \in {copy[v] : v \in Tabs} \cup {s}
    BY <1>1 DEF Puts
  <2>2. store' = s
    BY DEF Puts
  <2>3. ASSUME NEW l \in Link, NEW i \in DOMAIN wire'[l]
        PROVE  wire'[l][i] \in Held \cup {s}
    BY <1>2 DEF Held
  <2>4. QED
    BY <2>1, <2>2, <2>3 DEF Held, Link
<1>5. QED
  BY <1>3, <1>4

\* A message that arrives brings nothing new ...
LEMMA ReceivesNothingNew ==
  ASSUME TabsTyped, NEW l \in Link, Receive(l)
  PROVE  TabsTyped' /\ Held' \subseteq Held
<1>1. PICK X : wire \in [Link -> Seq(X)] /\ copy \in [Tabs -> X] /\ store \in X
  BY DEF TabsTyped
<1>2. wire[l] \in Seq(X) /\ wire[l] # <<>> /\ l.to \in Tabs
  BY <1>1 DEF Receive, Link
<1>3. /\ Tail(wire[l]) \in Seq(X) /\ Len(Tail(wire[l])) = Len(wire[l]) - 1
      /\ \A i \in 1..Len(Tail(wire[l])) : Tail(wire[l])[i] = wire[l][i + 1]
      /\ DOMAIN wire[l] = 1..Len(wire[l]) /\ Len(wire[l]) \in Nat \ {0}
      /\ Head(wire[l]) = wire[l][1] /\ Head(wire[l]) \in X
  BY <1>2, HeadTailProperties, LenProperties, EmptySeq
<1>4. DOMAIN Tail(wire[l]) = 1..(Len(wire[l]) - 1)
  BY <1>3, LenProperties
<1>5. \A i \in DOMAIN Tail(wire[l]) : \E j \in DOMAIN wire[l] : Tail(wire[l])[i] = wire[l][j]
  BY <1>3, <1>4
<1>6. Head(wire[l]) \in Held
  BY <1>3 DEF Held
<1>7. /\ wire'[l] = Tail(wire[l]) /\ \A m \in Link : m # l => wire'[m] = wire[m]
      /\ copy' = [copy EXCEPT ![l.to] = Head(wire[l])] /\ store' = store
      /\ wire' = [wire EXCEPT ![l] = Tail(wire[l])]
  BY <1>1 DEF Receive
<1>8. TabsTyped'
  <2>1. wire' \in [Link -> Seq(X)] /\ copy' \in [Tabs -> X] /\ store' \in X
    BY <1>1, <1>3, <1>7
  <2>2. QED
    BY <2>1 DEF TabsTyped, Link
<1>9. \A t \in Tabs : copy'[t] \in Held
  <2>1. \A t \in Tabs : copy'[t] = Head(wire[l]) \/ copy'[t] = copy[t]
    BY <1>1, <1>7
  <2>2. QED
    BY <1>6, <2>1 DEF Held
<1>10. ASSUME NEW m \in Link, NEW i \in DOMAIN wire'[m]
       PROVE  wire'[m][i] \in Held
  BY <1>5, <1>7 DEF Held
<1>11. Held' \subseteq Held
  BY <1>7, <1>9, <1>10 DEF Held, Link
<1>12. QED
  BY <1>8, <1>11

\* ... nor does a page that opens.
LEMMA LoadsNothingNew ==
  ASSUME TabsTyped, NEW t \in Tabs, NEW r, Load(t, r)
  PROVE  TabsTyped' /\ Held' \subseteq Held
<1>1. PICK X : wire \in [Link -> Seq(X)] /\ copy \in [Tabs -> X] /\ store \in X
  BY DEF TabsTyped
<1>2. /\ copy' = [copy EXCEPT ![t] = store] /\ store' = store
      /\ wire' = [l \in Link |-> IF l.to = t THEN <<>> ELSE wire[l]]
  BY DEF Load
<1>3. <<>> \in Seq(X) /\ DOMAIN <<>> = {}
  OBVIOUS
<1>4. TabsTyped'
  <2>1. wire' \in [Link -> Seq(X)] /\ copy' \in [Tabs -> X] /\ store' \in X
    BY <1>1, <1>2, <1>3
  <2>2. QED
    BY <2>1 DEF TabsTyped, Link
<1>5. \A u \in Tabs : copy'[u] \in Held
  BY <1>1, <1>2 DEF Held
<1>6. ASSUME NEW l \in Link, NEW i \in DOMAIN wire'[l]
      PROVE  wire'[l][i] \in Held
  <2>1. wire'[l] = <<>> \/ wire'[l] = wire[l]
    BY <1>2
  <2>2. QED
    BY <1>3, <2>1 DEF Held
<1>7. Held' \subseteq Held
  BY <1>2, <1>5, <1>6 DEF Held, Link
<1>8. QED
  BY <1>4, <1>7

-----------------------------------------------------------------------------
(* The prototype *)

\* Every field of the deal is there.
ProtoShape(s) ==
  s \in [dealNo : {s.dealNo}, stage : Proto!Stages, room : {s.room}, elections : {s.elections}, offer : {s.offer},
         allocation : {s.allocation}, approvals : {s.approvals}, closed : {s.closed},
         failedAttempt : {s.failedAttempt}, closingFail : {s.closingFail}, oversightGranted : {s.oversightGranted}]

\* A deal that is closed has not failed: what a retry relies on.
ProtoInOrder(s) == Proto!GatesPassed(s) /\ (s.failedAttempt => ~s.closed)

\* Whoever looks at a deal of the prototype, what a button it shows tells of the deal.
LEMMA ProtoButtons ==
  ASSUME NEW s, s.stage \in Proto!Stages, NEW r, NEW b \in Proto!view(s, r)
  PROVE  /\ b = "createRoom" => s.stage = "setup"
         /\ b = "toPrice" => s.stage = "invite"
         /\ b = "submitPrice" => s.stage = "price"
         /\ b = "toElect" => s.stage = "price" /\ s.offer # {}
         /\ b = "submitElection" => s.stage = "elect"
         /\ b = "toCompute" => s.stage = "elect" /\ Proto!LPs \subseteq DOMAIN s.elections
         /\ b = "doCompute" => s.stage = "compute"
         /\ b = "toApprove" => s.stage = "compute" /\ s.allocation # {}
         /\ b = "approveMine" => s.stage = "approve"
         /\ b = "toClose" => s.stage = "approve" /\ Proto!allApproved(s)
         /\ b = "fireClose" => s.stage = "close"
         /\ b = "retryClose" => s.stage = "settled" /\ s.failedAttempt
         /\ b \in {"grantOversight", "startDeal2"} => s.stage = "settled"
<1>1. CASE s.stage = "setup"
  <2>1. Proto!view(s, r) = Proto!vSetup(r)
    BY <1>1 DEF Proto!view
  <2>2. Proto!vSetup(r) \subseteq {"createRoom"}
    BY DEF Proto!vSetup, Proto!ForAdvisor, Proto!Offers, Proto!Null
  <2>3. QED
    BY <1>1, <2>1, <2>2
<1>2. CASE s.stage = "invite"
  <2>1. Proto!view(s, r) = Proto!vInvite(r)
    BY <1>2 DEF Proto!view
  <2>2. Proto!vInvite(r) \subseteq {"toPrice"}
    BY DEF Proto!vInvite, Proto!ForAdvisor, Proto!Offers, Proto!Null
  <2>3. QED
    BY <1>2, <2>1, <2>2
<1>3. CASE s.stage = "price"
  <2>1. Proto!view(s, r) = Proto!vPrice(s, r)
    BY <1>3 DEF Proto!view
  <2>2. Proto!vPrice(s, r) \subseteq {"submitPrice", "toElect"}
    BY DEF Proto!vPrice, Proto!ForAdvisor, Proto!Offers, Proto!Null
  <2>3. "toElect" \in Proto!vPrice(s, r) => s.offer # {}
    BY DEF Proto!vPrice, Proto!ForAdvisor, Proto!Offers, Proto!Null
  <2>4. QED
    BY <1>3, <2>1, <2>2, <2>3
<1>4. CASE s.stage = "elect"
  <2>1. Proto!view(s, r) = Proto!vElect(s, r)
    BY <1>4 DEF Proto!view
  <2>2. Proto!vElect(s, r) \subseteq {"submitElection", "toCompute"}
    BY DEF Proto!vElect, Proto!ForAdvisor, Proto!Offers, Proto!Null
  <2>3. "toCompute" \in Proto!vElect(s, r) => Proto!LPs \subseteq DOMAIN s.elections
    BY DEF Proto!vElect, Proto!ForAdvisor, Proto!Offers, Proto!Null
  <2>4. QED
    BY <1>4, <2>1, <2>2, <2>3
<1>5. CASE s.stage = "compute"
  <2>1. Proto!view(s, r) = Proto!vCompute(s, r)
    BY <1>5 DEF Proto!view
  <2>2. Proto!vCompute(s, r) \subseteq {"doCompute", "toApprove"}
    BY DEF Proto!vCompute, Proto!ForAdvisor, Proto!Offers, Proto!Null
  <2>3. "toApprove" \in Proto!vCompute(s, r) => s.allocation # {}
    BY DEF Proto!vCompute, Proto!ForAdvisor, Proto!Offers, Proto!Null
  <2>4. QED
    BY <1>5, <2>1, <2>2, <2>3
<1>6. CASE s.stage = "approve"
  <2>1. Proto!view(s, r) = Proto!vApprove(s, r)
    BY <1>6 DEF Proto!view
  <2>2. Proto!vApprove(s, r) \subseteq {"approveMine", "toClose"}
    BY DEF Proto!vApprove, Proto!ForAdvisor, Proto!Offers, Proto!Null
  <2>3. "toClose" \in Proto!vApprove(s, r) => Proto!allApproved(s)
    BY DEF Proto!vApprove, Proto!ForAdvisor, Proto!Offers, Proto!Null
  <2>4. QED
    BY <1>6, <2>1, <2>2, <2>3
<1>7. CASE s.stage \in {"close", "closing"}
  <2>1. Proto!view(s, r) = Proto!vClose(s, r)
    BY <1>7 DEF Proto!view
  <2>2. Proto!vClose(s, r) \subseteq {"fireClose"}
    BY DEF Proto!vClose, Proto!ForAdvisor, Proto!Offers, Proto!Null
  <2>3. "fireClose" \in Proto!vClose(s, r) => s.stage = "close"
    BY DEF Proto!vClose, Proto!ForAdvisor, Proto!Offers, Proto!Null
  <2>4. QED
    BY <1>7, <2>1, <2>2, <2>3
<1>8. CASE s.stage = "settled"
  <2>1. Proto!view(s, r) = Proto!vSettled(s, r)
    BY <1>8 DEF Proto!view
  <2>2. Proto!vSettled(s, r) \subseteq {"retryClose", "startDeal2", "grantOversight"}
    BY DEF Proto!vSettled, Proto!ForAdvisor, Proto!Offers, Proto!Null
  <2>3. "retryClose" \in Proto!vSettled(s, r) => s.failedAttempt
    BY DEF Proto!vSettled, Proto!ForAdvisor, Proto!Offers, Proto!Null
  <2>4. QED
    BY <1>8, <2>1, <2>2, <2>3
<1>9. QED
  BY <1>1, <1>2, <1>3, <1>4, <1>5, <1>6, <1>7, <1>8 DEF Proto!Stages

\* What a commit of the prototype makes of the deal.
LEMMA ProtoCommits == ASSUME NEW t, NEW s, Proto!commit(t, s) PROVE Puts(t, s) /\ UNCHANGED <<role, overtaken>>
BY DEF Proto!commit, Proto!Post, Proto!Link, Link, Puts

\* Nor does beginning a close do more to it.
LEMMA ProtoBegins ==
  ASSUME NEW t, NEW s, NEW end, Proto!Begin(t, s, end)
  PROVE  Puts(t, s) /\ UNCHANGED <<role, overtaken>>
BY DEF Proto!Begin, Proto!Post, Proto!Link, Link, Puts

\* A new deal of the prototype is in order.
LEMMA ProtoFresh ==
  ASSUME NEW n
  PROVE  ProtoShape(Proto!freshState(n)) /\ ProtoInOrder(Proto!freshState(n))
BY DEF Proto!freshState, ProtoShape, ProtoInOrder, Proto!GatesPassed, Proto!Stages, Proto!Closing

\* Each button of the prototype leaves a deal in order that was.
LEMMA ProtoClick ==
  ASSUME NEW t \in Tabs, ProtoShape(copy[t]), Proto!Click(t)
  PROVE  \E s : /\ Puts(t, s) /\ UNCHANGED <<role, overtaken>>
                /\ ProtoShape(s) /\ (ProtoInOrder(copy[t]) => ProtoInOrder(s))
<1> DEFINE c == copy[t]
           GoesOn(s) == ProtoShape(s) /\ (ProtoInOrder(c) => ProtoInOrder(s))
<1>1. c.stage \in Proto!Stages
  BY DEF ProtoShape
<1>2. SUFFICES \E s : (Proto!commit(t, s) \/ \E end : Proto!Begin(t, s, end)) /\ GoesOn(s)
  BY ProtoCommits, ProtoBegins
<1> HIDE DEF c
<1>3. ProtoShape(c)
  BY DEF c
<1> USE DEF Proto!Clicked, Proto!Moved
<1>4. CASE Proto!createRoom(t)
  <2> DEFINE s == [c EXCEPT !.stage = "invite", !.room = TRUE]
  <2>1. Proto!commit(t, s) /\ c.stage = "setup"
    BY <1>1, <1>4, ProtoButtons DEF Proto!createRoom, c
  <2>2. GoesOn(s)
    BY <1>3, <2>1
       DEF ProtoShape, ProtoInOrder, Proto!GatesPassed, Proto!Stages, Proto!Closing, Proto!allApproved,
           Proto!Null
  <2>3. QED
    BY <2>1, <2>2
<1>5. CASE Proto!toPrice(t)
  <2> DEFINE s == [c EXCEPT !.stage = "price"]
  <2>1. Proto!commit(t, s) /\ c.stage = "invite"
    BY <1>1, <1>5, ProtoButtons DEF Proto!toPrice, c
  <2>2. GoesOn(s)
    BY <1>3, <2>1
       DEF ProtoShape, ProtoInOrder, Proto!GatesPassed, Proto!Stages, Proto!Closing, Proto!allApproved,
           Proto!Null
  <2>3. QED
    BY <2>1, <2>2
<1>6. CASE Proto!toElect(t)
  <2> DEFINE s == [c EXCEPT !.stage = "elect"]
  <2>1. Proto!commit(t, s) /\ c.stage = "price" /\ c.offer # {}
    BY <1>1, <1>6, ProtoButtons DEF Proto!toElect, c
  <2>2. GoesOn(s)
    BY <1>3, <2>1
       DEF ProtoShape, ProtoInOrder, Proto!GatesPassed, Proto!Stages, Proto!Closing, Proto!allApproved,
           Proto!Null
  <2>3. QED
    BY <2>1, <2>2
<1>7. CASE Proto!toCompute(t)
  <2> DEFINE s == [c EXCEPT !.stage = "compute"]
  <2>1. Proto!commit(t, s) /\ c.stage = "elect" /\ Proto!LPs \subseteq DOMAIN c.elections
    BY <1>1, <1>7, ProtoButtons DEF Proto!toCompute, c
  <2>2. GoesOn(s)
    BY <1>3, <2>1
       DEF ProtoShape, ProtoInOrder, Proto!GatesPassed, Proto!Stages, Proto!Closing, Proto!allApproved,
           Proto!Null
  <2>3. QED
    BY <2>1, <2>2
<1>8. CASE Proto!doCompute(t)
  <2> DEFINE s == [c EXCEPT !.allocation = {Proto!computeAllocation(c)}]
  <2>1. Proto!commit(t, s) /\ c.stage = "compute"
    BY <1>1, <1>8, ProtoButtons DEF Proto!doCompute, c
  <2>2. GoesOn(s)
    BY <1>3, <2>1
       DEF ProtoShape, ProtoInOrder, Proto!GatesPassed, Proto!Stages, Proto!Closing, Proto!allApproved,
           Proto!Null
  <2>3. QED
    BY <2>1, <2>2
<1>9. CASE Proto!toApprove(t)
  <2> DEFINE s == [c EXCEPT !.stage = "approve"]
  <2>1. Proto!commit(t, s) /\ c.stage = "compute" /\ c.allocation # {}
    BY <1>1, <1>9, ProtoButtons DEF Proto!toApprove, c
  <2>2. GoesOn(s)
    BY <1>3, <2>1
       DEF ProtoShape, ProtoInOrder, Proto!GatesPassed, Proto!Stages, Proto!Closing, Proto!allApproved,
           Proto!Null
  <2>3. QED
    BY <2>1, <2>2
<1>10. CASE Proto!approveMine(t)
  <2> DEFINE s == [c EXCEPT !.approvals[Proto!obligation(role[t])] = TRUE]
  <2>1. Proto!commit(t, s) /\ c.stage = "approve"
    BY <1>1, <1>10, ProtoButtons DEF Proto!approveMine, c
  <2>2. GoesOn(s)
    BY <1>3, <2>1
       DEF ProtoShape, ProtoInOrder, Proto!GatesPassed, Proto!Stages, Proto!Closing, Proto!allApproved,
           Proto!Null
  <2>3. QED
    BY <2>1, <2>2
<1>11. CASE Proto!toClose(t)
  <2> DEFINE s == [c EXCEPT !.stage = "close"]
  <2>1. Proto!commit(t, s) /\ c.stage = "approve" /\ Proto!allApproved(c)
    BY <1>1, <1>11, ProtoButtons DEF Proto!toClose, c
  <2>2. GoesOn(s)
    BY <1>3, <2>1
       DEF ProtoShape, ProtoInOrder, Proto!GatesPassed, Proto!Stages, Proto!Closing, Proto!allApproved,
           Proto!Null
  <2>3. QED
    BY <2>1, <2>2
<1>12. CASE Proto!retryClose(t)
  <2> DEFINE s == [c EXCEPT !.stage = "close", !.failedAttempt = FALSE]
  <2>1. Proto!commit(t, s) /\ c.stage = "settled" /\ c.failedAttempt
    BY <1>1, <1>12, ProtoButtons DEF Proto!retryClose, c
  <2>2. GoesOn(s)
    BY <1>3, <2>1
       DEF ProtoShape, ProtoInOrder, Proto!GatesPassed, Proto!Stages, Proto!Closing, Proto!allApproved,
           Proto!Null
  <2>3. QED
    BY <2>1, <2>2
<1>13. CASE Proto!grantOversight(t)
  <2> DEFINE s == [c EXCEPT !.oversightGranted = TRUE]
  <2>1. Proto!commit(t, s) /\ c.stage = "settled"
    BY <1>1, <1>13, ProtoButtons DEF Proto!grantOversight, c
  <2>2. GoesOn(s)
    BY <1>3, <2>1
       DEF ProtoShape, ProtoInOrder, Proto!GatesPassed, Proto!Stages, Proto!Closing, Proto!allApproved,
           Proto!Null
  <2>3. QED
    BY <2>1, <2>2
<1>14. ASSUME NEW price, NEW capacity, Proto!submitPrice(t, price, capacity)
      PROVE  \E s : (Proto!commit(t, s) \/ \E end : Proto!Begin(t, s, end)) /\ GoesOn(s)
  <2> DEFINE s == [c EXCEPT !.offer = {[price |-> price, capacity |-> capacity]}]
  <2>1. Proto!commit(t, s) /\ c.stage = "price"
    BY <1>1, <1>14, ProtoButtons DEF Proto!submitPrice, c
  <2>2. GoesOn(s)
    BY <1>3, <2>1
       DEF ProtoShape, ProtoInOrder, Proto!GatesPassed, Proto!Stages, Proto!Closing, Proto!allApproved,
           Proto!Null
  <2>3. QED
    BY <2>1, <2>2
<1>15. ASSUME NEW choice, NEW most, Proto!submitElection(t, choice, most)
      PROVE  \E s : (Proto!commit(t, s) \/ \E end : Proto!Begin(t, s, end)) /\ GoesOn(s)
  <2> DEFINE s == [c EXCEPT !.elections = Proto!With(c.elections, role[t],
                    [choice |-> choice, amount |-> Proto!Larger(0, Proto!Smaller(most, Proto!deal(c).nav[role[t]]))])]
  <2>1. Proto!commit(t, s) /\ c.stage = "elect"
    BY <1>1, <1>15, ProtoButtons DEF Proto!submitElection, c
  <2>2. GoesOn(s)
    BY <1>3, <2>1
       DEF ProtoShape, ProtoInOrder, Proto!GatesPassed, Proto!Stages, Proto!Closing, Proto!allApproved,
           Proto!Null
  <2>3. QED
    BY <2>1, <2>2
<1>16. ASSUME NEW fail, Proto!runClose(t, fail)
      PROVE  \E s : (Proto!commit(t, s) \/ \E end : Proto!Begin(t, s, end)) /\ GoesOn(s)
  <2> DEFINE s == [c EXCEPT !.stage = "closing", !.closingFail = fail]
  <2>1. (\E end : Proto!Begin(t, s, end)) /\ c.stage = "close"
    BY <1>1, <1>16, ProtoButtons DEF Proto!runClose, c
  <2>2. GoesOn(s)
    BY <1>3, <2>1
       DEF ProtoShape, ProtoInOrder, Proto!GatesPassed, Proto!Stages, Proto!Closing, Proto!allApproved,
           Proto!Null
  <2>3. QED
    BY <2>1, <2>2
<1>17. CASE Proto!startDeal2(t) \/ Proto!reset(t)
  <2>1. \E d : Proto!commit(t, Proto!freshState(d))
    BY <1>17 DEF Proto!startDeal2, Proto!reset
  <2>2. QED
    BY <2>1, ProtoFresh
<1>18. QED
  BY <1>4, <1>5, <1>6, <1>7, <1>8, <1>9, <1>10, <1>11, <1>12, <1>13, <1>14, <1>15, <1>16, <1>17
     DEF Proto!Click

-----------------------------------------------------------------------------
(* The portal *)

\* Every field of the deal is there, and the deal is one of the seed data.
PortalShape(s) ==
  s \in [dealNo : DOMAIN Deals, stage : Portal!Stage, bids : {s.bids}, bidsOpen : {s.bidsOpen},
         clearingPrice : {s.clearingPrice}, leadBuyerId : {s.leadBuyerId}, syndicateIds : {s.syndicateIds},
         elections : {s.elections}, electionsClosed : {s.electionsClosed}, lpacConsent : {s.lpacConsent},
         legs : {s.legs}, approvals : {s.approvals}, closed : {s.closed}, failedAttempt : {s.failedAttempt},
         closingFail : {s.closingFail}, declined : {s.declined}]

\* Only LPs of the deal elect, and it is allocated only once nobody can any more.
PortalSound(s) ==
  /\ PortalShape(s)
  /\ DOMAIN s.elections \subseteq Deals[s.dealNo].lps
  /\ s.legs # {} => s.electionsClosed

\* A retry relies on it here too.
PortalInOrder(s) == Portal!GatesPassed(s) /\ (s.failedAttempt => ~s.closed)

\* What the seed data of the portal is assumed to be.
LEMMA PortalSeed ==
  /\ 1 \in DOMAIN Deals
  /\ DOMAIN Personas \subseteq {"staying", "leaving", "buyer"}
  /\ \A n \in DOMAIN Deals :
       /\ DOMAIN Deals[n].seededElections \subseteq Deals[n].lps
       /\ "buyer" \in DOMAIN Personas => Personas["buyer"] \notin Deals[n].lps
       /\ \A r \in DOMAIN Personas \ {"buyer"} : Personas[r] \in Deals[n].lps
BY SeedAssumption DEF Portal!SeedOK

\* What a button of the bids section tells of the deal.
LEMMA PortalBids ==
  ASSUME NEW s, NEW r
  PROVE  /\ "openAuction" \in Portal!secBids(s, r) => s.stage = "setup"
         /\ "selectLead" \in Portal!secBids(s, r) => s.stage = "bidding"
         /\ "submitBid" \in Portal!secBids(s, r) => s.stage \in {"setup", "bidding"}
<1>1. CASE r = "buyer"
  <2>1. Portal!secBids(s, r) = Portal!Offers(Portal!buyerBids(s, Personas[r]))
    BY <1>1 DEF Portal!secBids
  <2>2. Portal!secBids(s, r) \subseteq {"submitBid"}
    BY <2>1 DEF Portal!Offers, Portal!buyerBids
  <2>3. "submitBid" \in Portal!secBids(s, r) => s.stage \in {"setup", "bidding"}
    BY <2>1 DEF Portal!Offers, Portal!buyerBids
  <2>4. QED
    BY <2>2, <2>3
<1>2. CASE r # "buyer"
  <2>1. Portal!secBids(s, r) = Portal!Offers(Portal!advisorBids(s))
    BY <1>2 DEF Portal!secBids
  <2>2. Portal!secBids(s, r) \subseteq {"openAuction", "selectLead"}
    BY <2>1 DEF Portal!Offers, Portal!advisorBids
  <2>3. "openAuction" \in Portal!secBids(s, r) => s.stage = "setup"
    BY <2>1 DEF Portal!Offers, Portal!advisorBids
  <2>4. "selectLead" \in Portal!secBids(s, r) => s.stage = "bidding"
    BY <2>1 DEF Portal!Offers, Portal!advisorBids
  <2>5. QED
    BY <2>2, <2>3, <2>4
<1>3. QED
  BY <1>1, <1>2

\* The buttons of the consent section, of the elections ...
LEMMA PortalConsent ==
  ASSUME NEW s, NEW r
  PROVE  /\ "openLpacReview" \in Portal!secConsent(s, r) => s.stage = "leadSelected"
         /\ "recordConsent" \in Portal!secConsent(s, r) => s.stage = "lpacConsent"
<1>1. CASE r = "oversight"
  <2>1. Portal!secConsent(s, r) = Portal!Offers([recordConsent |-> s.stage = "lpacConsent" /\ ~s.lpacConsent])
    BY <1>1 DEF Portal!secConsent
  <2>2. QED
    BY <2>1 DEF Portal!Offers
<1>2. CASE r # "oversight"
  <2>1. Portal!secConsent(s, r) = Portal!Offers([openLpacReview |-> s.stage = "leadSelected"])
    BY <1>2 DEF Portal!secConsent
  <2>2. QED
    BY <2>1 DEF Portal!Offers
<1>3. QED
  BY <1>1, <1>2

\* ... where only an LP elects, the advisor never ...
LEMMA PortalElections ==
  ASSUME NEW s, NEW r
  PROVE  /\ "openElections" \in Portal!secElections(s, r) => s.stage = "lpacConsent" /\ s.lpacConsent
         /\ "compute" \in Portal!secElections(s, r) => s.stage = "elections"
         /\ "submitElection" \in Portal!secElections(s, r) => s.stage = "elections" /\ r # "advisor"
<1>1. CASE r = "advisor"
  <2>1. Portal!secElections(s, r) = Portal!Offers(Portal!advisorElections(s))
    BY <1>1 DEF Portal!secElections
  <2>2. Portal!secElections(s, r) \subseteq {"openElections", "compute"}
    BY <2>1 DEF Portal!Offers, Portal!advisorElections
  <2>3. "openElections" \in Portal!secElections(s, r) => s.stage = "lpacConsent" /\ s.lpacConsent
    BY <2>1 DEF Portal!Offers, Portal!advisorElections
  <2>4. "compute" \in Portal!secElections(s, r) => s.stage = "elections"
    BY <2>1 DEF Portal!Offers, Portal!advisorElections
  <2>5. QED
    BY <2>2, <2>3, <2>4
<1>2. CASE r # "advisor"
  <2>1. Portal!secElections(s, r) = Portal!Offers(Portal!lpElections(s))
    BY <1>2 DEF Portal!secElections
  <2>2. Portal!secElections(s, r) \subseteq {"submitElection"}
    BY <2>1 DEF Portal!Offers, Portal!lpElections
  <2>3. "submitElection" \in Portal!secElections(s, r) => s.stage = "elections"
    BY <2>1 DEF Portal!Offers, Portal!lpElections
  <2>4. QED
    BY <1>2, <2>2, <2>3
<1>3. QED
  BY <1>1, <1>2

\* ... and of the settlement.
LEMMA PortalSettlement ==
  ASSUME NEW s, NEW r
  PROVE  /\ {"approve", "cancel", "decline"} \cap Portal!secSettlement(s, r) # {} => s.stage = "approvals"
         /\ "settle" \in Portal!secSettlement(s, r) => s.stage = "approvals" /\ Portal!allApproved(s)
         /\ "retry" \in Portal!secSettlement(s, r) => s.failedAttempt /\ (s.closed \/ s.stage = "settled")
<1>1. Portal!settlementResult(s) \subseteq {"retry", "next"}
  BY DEF Portal!settlementResult, Portal!Offers
<1>2. "retry" \in Portal!settlementResult(s) => s.failedAttempt
  BY DEF Portal!settlementResult, Portal!Offers
<1>3. Portal!approvalsView(s, r) \subseteq {"approve", "cancel", "settle", "decline"}
  BY DEF Portal!approvalsView, Portal!Offers
<1>4. "settle" \in Portal!approvalsView(s, r) => Portal!allApproved(s)
  BY DEF Portal!approvalsView, Portal!Offers
<1>5. \/ Portal!secSettlement(s, r) = {}
      \/ (s.closed \/ s.stage = "settled") /\ Portal!secSettlement(s, r) = Portal!settlementResult(s)
      \/ s.stage = "approvals" /\ Portal!secSettlement(s, r) = Portal!approvalsView(s, r)
  BY DEF Portal!secSettlement, Portal!Ended
<1>6. QED
  BY <1>1, <1>2, <1>3, <1>4, <1>5

\* A page shows a button in the section it belongs to.
LEMMA PortalClicked ==
  ASSUME NEW t, NEW section, NEW button, Portal!Clicked(t, section, button)
  PROVE  /\ section \in Portal!sectionsFor(role[t])
         /\ section = "bids" => button \in Portal!secBids(copy[t], role[t])
         /\ section = "consent" => button \in Portal!secConsent(copy[t], role[t])
         /\ section = "elections" => button \in Portal!secElections(copy[t], role[t])
         /\ section = "allocation" => copy[t].stage = "allocation"
         /\ section = "settlement" => button \in Portal!secSettlement(copy[t], role[t])
<1>1. section \in Portal!sectionsFor(role[t]) /\ button \in Portal!renderSection(copy[t], role[t], section)
  BY DEF Portal!Clicked
<1>2. section = "bids" => button \in Portal!secBids(copy[t], role[t])
  BY <1>1 DEF Portal!renderSection
<1>3. section = "consent" => button \in Portal!secConsent(copy[t], role[t])
  BY <1>1 DEF Portal!renderSection
<1>4. section = "elections" => button \in Portal!secElections(copy[t], role[t])
  BY <1>1 DEF Portal!renderSection
<1>5. section = "allocation" => button \in Portal!secAllocation(copy[t], role[t])
  BY <1>1 DEF Portal!renderSection
<1>6. section = "settlement" => button \in Portal!secSettlement(copy[t], role[t])
  BY <1>1 DEF Portal!renderSection
<1>7. QED
  BY <1>1, <1>2, <1>3, <1>4, <1>5, <1>6 DEF Portal!secAllocation

\* The portal's finite sets and sums are those the lemmas are about.
LEMMA SameData ==
  /\ \A f, D : Portal!SumFunctionOnSet(f, D) = SumFunctionOnSet(f, D)
  /\ \A D : Portal!IsFiniteSet(D) <=> IsFiniteSet(D)
  /\ \A D : Portal!Cardinality(D) = Cardinality(D)
  /\ \A q : Portal!ToSet(q) = ToSet(q)
<1>1. \A f, D : Portal!SumFunctionOnSet(f, D) = SumFunctionOnSet(f, D)
  BY SumIsSums DEF Portal!SumFunctionOnSet, Portal!FoldFunctionOnSet, Portal!MapThenFoldSet, Sums, First
<1>2. \A D : Portal!IsFiniteSet(D) <=> IsFiniteSet(D)
  BY DEF Portal!IsFiniteSet, IsFiniteSet
<1>3. \A D : Portal!Cardinality(D) = Cardinality(D)
  BY DEF Portal!Cardinality, Cardinality
<1>4. \A q : Portal!ToSet(q) = ToSet(q)
  BY DEF Portal!ToSet, ToSet
<1>5. QED
  BY <1>1, <1>2, <1>3, <1>4

\* Who bids is a buyer of the deal, and who elects is one of its LPs.
LEMMA PortalBidder ==
  ASSUME NEW t, PortalShape(copy[t]), role[t] \in Portal!Role, NEW price, NEW capacity,
         Portal!submitBid(t, price, capacity)
  PROVE  copy[t].stage \in {"setup", "bidding"} /\ Portal!Person(t) \in ToSet(Deals[copy[t].dealNo].buyers)
<1> DEFINE c == copy[t]
<1>1. "submitBid" \in Portal!secBids(c, role[t])
  BY PortalClicked DEF Portal!submitBid
<1>2. c.stage \in {"setup", "bidding"}
  BY <1>1, PortalBids
<1>3. role[t] = "buyer"
  <2>1. CASE role[t] # "buyer"
    <3>1. Portal!secBids(c, role[t]) \subseteq {"openAuction", "selectLead"}
      BY <2>1 DEF Portal!secBids, Portal!Offers, Portal!advisorBids
    <3>2. QED
      BY <1>1, <3>1
  <2>2. QED
    BY <2>1
<1>4. "buyer" \in DOMAIN Personas /\ c.dealNo \in DOMAIN Deals
  BY <1>3 DEF Portal!Role, PortalShape
<1>5. Personas["buyer"] \in Portal!ToSet(Deals[c.dealNo].buyers)
  BY <1>4, SeedAssumption DEF Portal!SeedOK
<1>6. QED
  BY <1>2, <1>3, <1>5, SameData DEF Portal!Person

LEMMA PortalElector ==
  ASSUME NEW t, PortalShape(copy[t]), role[t] \in Portal!Role, NEW choice, NEW roll,
         Portal!submitElection(t, choice, roll)
  PROVE  copy[t].stage = "elections" /\ Portal!Person(t) \in Deals[copy[t].dealNo].lps
<1> DEFINE c == copy[t]
<1>1. c.stage = "elections" /\ role[t] # "advisor" /\ "elections" \in Portal!sectionsFor(role[t])
  BY PortalClicked, PortalElections DEF Portal!submitElection
<1>2. role[t] \in {"staying", "leaving", "buyer", "advisor", "oversight"}
  BY PortalSeed DEF Portal!Role
<1>3. "elections" \notin Portal!sectionsFor("buyer") /\ "elections" \notin Portal!sectionsFor("oversight")
  BY DEF Portal!sectionsFor, Portal!LPRoles
<1>4. role[t] \in DOMAIN Personas \ {"buyer"} /\ c.dealNo \in DOMAIN Deals
  BY <1>1, <1>2, <1>3 DEF Portal!Role, PortalShape
<1>5. Personas[role[t]] \in Deals[c.dealNo].lps
  BY <1>4, PortalSeed
<1>6. QED
  BY <1>1, <1>5 DEF Portal!Person

\* What a commit of the portal makes of the deal.
LEMMA PortalCommits == ASSUME NEW t, NEW s, Portal!commit(t, s) PROVE Puts(t, s) /\ UNCHANGED <<role, overtaken>>
BY DEF Portal!commit, Portal!Post, Portal!Link, Link, Puts

\* Nor does beginning a close do more to it.
LEMMA PortalBegins ==
  ASSUME NEW t, NEW s, NEW end, Portal!Begin(t, s, end)
  PROVE  Puts(t, s) /\ UNCHANGED <<role, overtaken>>
BY DEF Portal!Begin, Portal!Post, Portal!Link, Link, Puts

\* A new deal of the portal is in order.
LEMMA PortalFresh ==
  ASSUME NEW n \in DOMAIN Deals
  PROVE  PortalSound(Portal!freshState(n)) /\ PortalInOrder(Portal!freshState(n))
<1> DEFINE s == Portal!freshState(n)
<1>1. /\ s.stage = "setup" /\ s.dealNo = n /\ s.elections = Deals[n].seededElections /\ s.legs = {}
      /\ s.closed = FALSE /\ s.failedAttempt = FALSE /\ PortalShape(s)
  BY DEF Portal!freshState, PortalShape, Portal!Stage
<1> HIDE DEF s
<1>2. PortalSound(s)
  BY <1>1, PortalSeed DEF PortalSound
<1>3. PortalInOrder(s)
  BY <1>1 DEF PortalInOrder, Portal!GatesPassed, Portal!Electing, Portal!Allocated, Portal!Settling
<1>4. QED
  BY <1>2, <1>3 DEF s

\* The lead stands while the book it was chosen from does.
LEMMA LeadStands ==
  ASSUME NEW s, NEW x, x.bids = s.bids, x.dealNo = s.dealNo, x.bidsOpen = s.bidsOpen,
         x.leadBuyerId = s.leadBuyerId, x.clearingPrice = s.clearingPrice
  PROVE  Portal!LeadIsPriced(s) => Portal!LeadIsPriced(x)
BY DEF Portal!LeadIsPriced, Portal!Qualifying, Portal!Filed, Portal!deal

\* Each button of the portal leaves a deal sound, and in order that was.
LEMMA PortalClick ==
  ASSUME NEW t \in Tabs, PortalSound(copy[t]), role[t] \in Portal!Role, Portal!Click(t)
  PROVE  \E s : /\ Puts(t, s) /\ UNCHANGED <<role, overtaken>>
                /\ PortalSound(s) /\ (PortalInOrder(copy[t]) => PortalInOrder(s))
<1> DEFINE c == copy[t]
           GoesOn(s) == PortalSound(s) /\ (PortalInOrder(c) => PortalInOrder(s))
<1>1. SUFFICES \E s : (Portal!commit(t, s) \/ \E end : Portal!Begin(t, s, end)) /\ GoesOn(s)
  BY PortalCommits, PortalBegins
<1> HIDE DEF c
<1>2. PortalSound(c) /\ PortalShape(c) /\ c.stage \in Portal!Stage
  BY DEF PortalSound, PortalShape, c
<1>3. CASE Portal!openAuction(t)
  <2> DEFINE s == [c EXCEPT !.stage = "bidding"]
  <2>1. Portal!commit(t, s) /\ c.stage = "setup"
    BY <1>3, PortalClicked, PortalBids DEF Portal!openAuction, Portal!Moved, c
  <2>2. /\ PortalShape(s)
        /\ s.dealNo = c.dealNo /\ s.bids = c.bids /\ s.bidsOpen = c.bidsOpen
        /\ s.clearingPrice = c.clearingPrice /\ s.leadBuyerId = c.leadBuyerId /\ s.elections = c.elections
        /\ s.electionsClosed = c.electionsClosed /\ s.lpacConsent = c.lpacConsent /\ s.legs = c.legs
        /\ s.approvals = c.approvals /\ s.closed = c.closed /\ s.failedAttempt = c.failedAttempt
        /\ s.stage = "bidding"
    BY <1>2, <2>1 DEF PortalShape, Portal!Stage
  <2>3. Portal!LeadIsPriced(c) => Portal!LeadIsPriced(s)
    BY <2>2, LeadStands
  <2> HIDE DEF s
  <2>4. PortalSound(s)
    BY <1>2, <2>1, <2>2, <2>3 DEF PortalSound
  <2>5. PortalInOrder(c) => PortalInOrder(s)
    BY <2>1, <2>2, <2>3
       DEF PortalInOrder, Portal!GatesPassed, Portal!Electing, Portal!Allocated, Portal!Settling,
           Portal!allApproved
  <2>6. QED
    BY <2>1, <2>4, <2>5 DEF s
<1>4. ASSUME NEW price, NEW capacity, Portal!submitBid(t, price, capacity)
      PROVE  \E s : (Portal!commit(t, s) \/ \E end : Portal!Begin(t, s, end)) /\ GoesOn(s)
  <2> DEFINE s == [c EXCEPT !.bids = Portal!With(c.bids, Portal!Person(t), Portal!Bid(price, capacity)),
                            !.stage = IF c.stage = "setup" THEN "bidding" ELSE c.stage]
  <2>1. Portal!commit(t, s) /\ c.stage \in {"setup", "bidding"}
    BY <1>4, PortalClicked, PortalBids DEF Portal!submitBid, Portal!Moved, c
  <2>2. /\ PortalShape(s)
        /\ s.dealNo = c.dealNo /\ s.bidsOpen = c.bidsOpen /\ s.clearingPrice = c.clearingPrice
        /\ s.leadBuyerId = c.leadBuyerId /\ s.elections = c.elections
        /\ s.electionsClosed = c.electionsClosed
        /\ s.lpacConsent = c.lpacConsent /\ s.legs = c.legs /\ s.approvals = c.approvals
        /\ s.closed = c.closed /\ s.failedAttempt = c.failedAttempt
        /\ s.stage = "bidding"
    BY <1>2, <2>1 DEF PortalShape, Portal!Stage
  <2> HIDE DEF s
  <2>3. PortalSound(s)
    BY <1>2, <2>1, <2>2 DEF PortalSound
  <2>4. PortalInOrder(c) => PortalInOrder(s)
    BY <2>1, <2>2
       DEF PortalInOrder, Portal!GatesPassed, Portal!Electing, Portal!Allocated, Portal!Settling,
           Portal!allApproved
  <2>5. QED
    BY <2>1, <2>3, <2>4 DEF s
<1>5. CASE Portal!openLpacReview(t)
  <2> DEFINE s == [c EXCEPT !.stage = "lpacConsent"]
  <2>1. Portal!commit(t, s) /\ c.stage = "leadSelected"
    BY <1>5, PortalClicked, PortalConsent DEF Portal!openLpacReview, Portal!Moved, c
  <2>2. /\ PortalShape(s)
        /\ s.dealNo = c.dealNo /\ s.bids = c.bids /\ s.bidsOpen = c.bidsOpen
        /\ s.clearingPrice = c.clearingPrice /\ s.leadBuyerId = c.leadBuyerId /\ s.elections = c.elections
        /\ s.electionsClosed = c.electionsClosed /\ s.lpacConsent = c.lpacConsent /\ s.legs = c.legs
        /\ s.approvals = c.approvals /\ s.closed = c.closed /\ s.failedAttempt = c.failedAttempt
        /\ s.stage = "lpacConsent"
    BY <1>2, <2>1 DEF PortalShape, Portal!Stage
  <2>3. Portal!LeadIsPriced(c) => Portal!LeadIsPriced(s)
    BY <2>2, LeadStands
  <2> HIDE DEF s
  <2>4. PortalSound(s)
    BY <1>2, <2>1, <2>2, <2>3 DEF PortalSound
  <2>5. PortalInOrder(c) => PortalInOrder(s)
    BY <2>1, <2>2, <2>3
       DEF PortalInOrder, Portal!GatesPassed, Portal!Electing, Portal!Allocated, Portal!Settling,
           Portal!allApproved
  <2>6. QED
    BY <2>1, <2>4, <2>5 DEF s
<1>6. CASE Portal!recordConsent(t)
  <2> DEFINE s == [c EXCEPT !.lpacConsent = TRUE]
  <2>1. Portal!commit(t, s) /\ c.stage = "lpacConsent"
    BY <1>6, PortalClicked, PortalConsent DEF Portal!recordConsent, Portal!Moved, c
  <2>2. /\ PortalShape(s)
        /\ s.dealNo = c.dealNo /\ s.stage = c.stage /\ s.bids = c.bids /\ s.bidsOpen = c.bidsOpen
        /\ s.clearingPrice = c.clearingPrice /\ s.leadBuyerId = c.leadBuyerId
        /\ s.elections = c.elections /\ s.electionsClosed = c.electionsClosed /\ s.legs = c.legs
        /\ s.approvals = c.approvals /\ s.closed = c.closed /\ s.failedAttempt = c.failedAttempt
        /\ s.lpacConsent = TRUE
    BY <1>2, <2>1 DEF PortalShape, Portal!Stage
  <2>3. Portal!LeadIsPriced(c) => Portal!LeadIsPriced(s)
    BY <2>2, LeadStands
  <2> HIDE DEF s
  <2>4. PortalSound(s)
    BY <1>2, <2>1, <2>2, <2>3 DEF PortalSound
  <2>5. PortalInOrder(c) => PortalInOrder(s)
    BY <2>1, <2>2, <2>3
       DEF PortalInOrder, Portal!GatesPassed, Portal!Electing, Portal!Allocated, Portal!Settling,
           Portal!allApproved
  <2>6. QED
    BY <2>1, <2>4, <2>5 DEF s
<1>7. CASE Portal!openElections(t)
  <2> DEFINE s == [c EXCEPT !.stage = "elections"]
  <2>1. Portal!commit(t, s) /\ c.stage = "lpacConsent" /\ c.lpacConsent
    BY <1>7, PortalClicked, PortalElections DEF Portal!openElections, Portal!Moved, c
  <2>2. /\ PortalShape(s)
        /\ s.dealNo = c.dealNo /\ s.bids = c.bids /\ s.bidsOpen = c.bidsOpen
        /\ s.clearingPrice = c.clearingPrice /\ s.leadBuyerId = c.leadBuyerId /\ s.elections = c.elections
        /\ s.electionsClosed = c.electionsClosed /\ s.lpacConsent = c.lpacConsent /\ s.legs = c.legs
        /\ s.approvals = c.approvals /\ s.closed = c.closed /\ s.failedAttempt = c.failedAttempt
        /\ s.stage = "elections"
    BY <1>2, <2>1 DEF PortalShape, Portal!Stage
  <2>3. Portal!LeadIsPriced(c) => Portal!LeadIsPriced(s)
    BY <2>2, LeadStands
  <2> HIDE DEF s
  <2>4. PortalSound(s)
    BY <1>2, <2>1, <2>2, <2>3 DEF PortalSound
  <2>5. PortalInOrder(c) => PortalInOrder(s)
    BY <2>1, <2>2, <2>3
       DEF PortalInOrder, Portal!GatesPassed, Portal!Electing, Portal!Allocated, Portal!Settling,
           Portal!allApproved
  <2>6. QED
    BY <2>1, <2>4, <2>5 DEF s
<1>8. CASE Portal!sendForApproval(t)
  <2> DEFINE s == [c EXCEPT !.stage = "approvals"]
  <2>1. Portal!commit(t, s) /\ c.stage = "allocation"
    BY <1>8, PortalClicked DEF Portal!sendForApproval, Portal!Moved, c
  <2>2. /\ PortalShape(s)
        /\ s.dealNo = c.dealNo /\ s.bids = c.bids /\ s.bidsOpen = c.bidsOpen
        /\ s.clearingPrice = c.clearingPrice /\ s.leadBuyerId = c.leadBuyerId /\ s.elections = c.elections
        /\ s.electionsClosed = c.electionsClosed /\ s.lpacConsent = c.lpacConsent /\ s.legs = c.legs
        /\ s.approvals = c.approvals /\ s.closed = c.closed /\ s.failedAttempt = c.failedAttempt
        /\ s.stage = "approvals"
    BY <1>2, <2>1 DEF PortalShape, Portal!Stage
  <2>3. Portal!LeadIsPriced(c) => Portal!LeadIsPriced(s)
    BY <2>2, LeadStands
  <2> HIDE DEF s
  <2>4. PortalSound(s)
    BY <1>2, <2>1, <2>2, <2>3 DEF PortalSound
  <2>5. PortalInOrder(c) => PortalInOrder(s)
    BY <2>1, <2>2, <2>3
       DEF PortalInOrder, Portal!GatesPassed, Portal!Electing, Portal!Allocated, Portal!Settling,
           Portal!allApproved
  <2>6. QED
    BY <2>1, <2>4, <2>5 DEF s
<1>9. CASE Portal!approve(t)
  <2> DEFINE s == [c EXCEPT !.approvals[Portal!approvalKeyFor(role[t])] = TRUE]
  <2>1. Portal!commit(t, s) /\ c.stage = "approvals"
    BY <1>9, PortalClicked, PortalSettlement DEF Portal!approve, Portal!Moved, c
  <2>2. /\ PortalShape(s)
        /\ s.dealNo = c.dealNo /\ s.stage = c.stage /\ s.bids = c.bids /\ s.bidsOpen = c.bidsOpen
        /\ s.clearingPrice = c.clearingPrice /\ s.leadBuyerId = c.leadBuyerId
        /\ s.elections = c.elections /\ s.electionsClosed = c.electionsClosed
        /\ s.lpacConsent = c.lpacConsent /\ s.legs = c.legs /\ s.closed = c.closed
        /\ s.failedAttempt = c.failedAttempt
    BY <1>2, <2>1 DEF PortalShape, Portal!Stage
  <2>3. Portal!LeadIsPriced(c) => Portal!LeadIsPriced(s)
    BY <2>2, LeadStands
  <2> HIDE DEF s
  <2>4. PortalSound(s)
    BY <1>2, <2>1, <2>2, <2>3 DEF PortalSound
  <2>5. PortalInOrder(c) => PortalInOrder(s)
    BY <2>1, <2>2, <2>3
       DEF PortalInOrder, Portal!GatesPassed, Portal!Electing, Portal!Allocated, Portal!Settling,
           Portal!allApproved
  <2>6. QED
    BY <2>1, <2>4, <2>5 DEF s
<1>10. CASE Portal!cancelApproval(t)
  <2> DEFINE s == [c EXCEPT !.approvals[Portal!approvalKeyFor(role[t])] = FALSE]
  <2>1. Portal!commit(t, s) /\ c.stage = "approvals"
    BY <1>10, PortalClicked, PortalSettlement DEF Portal!cancelApproval, Portal!Moved, c
  <2>2. /\ PortalShape(s)
        /\ s.dealNo = c.dealNo /\ s.stage = c.stage /\ s.bids = c.bids /\ s.bidsOpen = c.bidsOpen
        /\ s.clearingPrice = c.clearingPrice /\ s.leadBuyerId = c.leadBuyerId
        /\ s.elections = c.elections /\ s.electionsClosed = c.electionsClosed
        /\ s.lpacConsent = c.lpacConsent /\ s.legs = c.legs /\ s.closed = c.closed
        /\ s.failedAttempt = c.failedAttempt
    BY <1>2, <2>1 DEF PortalShape, Portal!Stage
  <2>3. Portal!LeadIsPriced(c) => Portal!LeadIsPriced(s)
    BY <2>2, LeadStands
  <2> HIDE DEF s
  <2>4. PortalSound(s)
    BY <1>2, <2>1, <2>2, <2>3 DEF PortalSound
  <2>5. PortalInOrder(c) => PortalInOrder(s)
    BY <2>1, <2>2, <2>3
       DEF PortalInOrder, Portal!GatesPassed, Portal!Electing, Portal!Allocated, Portal!Settling,
           Portal!allApproved
  <2>6. QED
    BY <2>1, <2>4, <2>5 DEF s
<1>11. CASE Portal!declineToProceed(t)
  <2> DEFINE s == [c EXCEPT !.stage = "declined", !.declined = TRUE]
  <2>1. Portal!commit(t, s) /\ c.stage \in {"allocation", "approvals"}
    BY <1>11, PortalClicked, PortalSettlement DEF Portal!declineToProceed, Portal!Moved, c
  <2>2. /\ PortalShape(s)
        /\ s.dealNo = c.dealNo /\ s.bids = c.bids /\ s.bidsOpen = c.bidsOpen
        /\ s.clearingPrice = c.clearingPrice /\ s.leadBuyerId = c.leadBuyerId /\ s.elections = c.elections
        /\ s.electionsClosed = c.electionsClosed /\ s.lpacConsent = c.lpacConsent /\ s.legs = c.legs
        /\ s.approvals = c.approvals /\ s.closed = c.closed /\ s.failedAttempt = c.failedAttempt
        /\ s.stage = "declined"
    BY <1>2, <2>1 DEF PortalShape, Portal!Stage
  <2>3. Portal!LeadIsPriced(c) => Portal!LeadIsPriced(s)
    BY <2>2, LeadStands
  <2> HIDE DEF s
  <2>4. PortalSound(s)
    BY <1>2, <2>1, <2>2, <2>3 DEF PortalSound
  <2>5. PortalInOrder(c) => PortalInOrder(s)
    BY <2>1, <2>2, <2>3
       DEF PortalInOrder, Portal!GatesPassed, Portal!Electing, Portal!Allocated, Portal!Settling,
           Portal!allApproved
  <2>6. QED
    BY <2>1, <2>4, <2>5 DEF s
<1>12. CASE Portal!retryClose(t)
  <2> DEFINE s == [c EXCEPT !.stage = "approvals", !.failedAttempt = FALSE, !.closingFail = FALSE]
  <2>1. Portal!commit(t, s) /\ c.failedAttempt /\ (c.closed \/ c.stage = "settled")
    BY <1>12, PortalClicked, PortalSettlement DEF Portal!retryClose, Portal!Moved, c
  <2>2. /\ PortalShape(s)
        /\ s.dealNo = c.dealNo /\ s.bids = c.bids /\ s.bidsOpen = c.bidsOpen
        /\ s.clearingPrice = c.clearingPrice /\ s.leadBuyerId = c.leadBuyerId /\ s.elections = c.elections
        /\ s.electionsClosed = c.electionsClosed /\ s.lpacConsent = c.lpacConsent /\ s.legs = c.legs
        /\ s.approvals = c.approvals /\ s.closed = c.closed
        /\ s.stage = "approvals" /\ s.failedAttempt = FALSE
    BY <1>2, <2>1 DEF PortalShape, Portal!Stage
  <2>3. Portal!LeadIsPriced(c) => Portal!LeadIsPriced(s)
    BY <2>2, LeadStands
  <2> HIDE DEF s
  <2>4. PortalSound(s)
    BY <1>2, <2>1, <2>2, <2>3 DEF PortalSound
  <2>5. PortalInOrder(c) => PortalInOrder(s)
    BY <2>1, <2>2, <2>3
       DEF PortalInOrder, Portal!GatesPassed, Portal!Electing, Portal!Allocated, Portal!Settling,
           Portal!allApproved
  <2>6. QED
    BY <2>1, <2>4, <2>5 DEF s
<1>13. ASSUME NEW fail, Portal!fireClose(t, fail)
      PROVE  \E s : (Portal!commit(t, s) \/ \E end : Portal!Begin(t, s, end)) /\ GoesOn(s)
  <2> DEFINE s == [c EXCEPT !.closingFail = fail, !.stage = "settlement"]
  <2>1. (\E end : Portal!Begin(t, s, end)) /\ c.stage = "approvals" /\ Portal!allApproved(c)
    BY <1>13, PortalClicked, PortalSettlement DEF Portal!fireClose, Portal!Moved, c
  <2>2. /\ PortalShape(s)
        /\ s.dealNo = c.dealNo /\ s.bids = c.bids /\ s.bidsOpen = c.bidsOpen
        /\ s.clearingPrice = c.clearingPrice /\ s.leadBuyerId = c.leadBuyerId /\ s.elections = c.elections
        /\ s.electionsClosed = c.electionsClosed /\ s.lpacConsent = c.lpacConsent /\ s.legs = c.legs
        /\ s.approvals = c.approvals /\ s.closed = c.closed /\ s.failedAttempt = c.failedAttempt
        /\ s.stage = "settlement"
    BY <1>2, <2>1 DEF PortalShape, Portal!Stage
  <2>3. Portal!LeadIsPriced(c) => Portal!LeadIsPriced(s)
    BY <2>2, LeadStands
  <2> HIDE DEF s
  <2>4. PortalSound(s)
    BY <1>2, <2>1, <2>2, <2>3 DEF PortalSound
  <2>5. PortalInOrder(c) => PortalInOrder(s)
    BY <2>1, <2>2, <2>3
       DEF PortalInOrder, Portal!GatesPassed, Portal!Electing, Portal!Allocated, Portal!Settling,
           Portal!allApproved
  <2>6. QED
    BY <2>1, <2>4, <2>5 DEF s
<1>14. ASSUME NEW b, Portal!selectLead(t, b)
      PROVE  \E s : (Portal!commit(t, s) \/ \E end : Portal!Begin(t, s, end)) /\ GoesOn(s)
  <2> DEFINE led == [c EXCEPT !.bidsOpen = TRUE, !.leadBuyerId = b, !.clearingPrice = c.bids[b].price]
             s == [led EXCEPT !.syndicateIds = Portal!recomputeSyndicate(led), !.stage = "leadSelected"]
  <2>1. Portal!commit(t, s) /\ c.stage = "bidding" /\ b \in Portal!Qualifying(c)
    BY <1>14, PortalClicked, PortalBids DEF Portal!selectLead, c
  <2>2. /\ PortalShape(led) /\ led.bids = c.bids /\ led.dealNo = c.dealNo /\ led.elections = c.elections
        /\ led.electionsClosed = c.electionsClosed /\ led.legs = c.legs /\ led.closed = c.closed
        /\ led.bidsOpen = TRUE /\ led.leadBuyerId = b /\ led.clearingPrice = c.bids[b].price
        /\ led.failedAttempt = c.failedAttempt
    BY <1>2 DEF PortalShape
  <2>3. \A members : [led EXCEPT !.syndicateIds = members, !.stage = "leadSelected"].stage = "leadSelected"
    BY <2>2 DEF PortalShape
  <2> HIDE DEF led
  <2>4. /\ PortalShape(s) /\ s.bids = c.bids /\ s.dealNo = c.dealNo /\ s.elections = c.elections
        /\ s.electionsClosed = c.electionsClosed /\ s.legs = c.legs /\ s.closed = c.closed
        /\ s.bidsOpen = TRUE /\ s.leadBuyerId = b /\ s.clearingPrice = c.bids[b].price
        /\ s.failedAttempt = c.failedAttempt /\ s.stage = "leadSelected"
    BY <2>2 DEF PortalShape, Portal!Stage
  <2> HIDE DEF s
  <2>5. Portal!LeadIsPriced(s)
    BY <2>1, <2>4 DEF Portal!LeadIsPriced, Portal!Qualifying, Portal!Filed, Portal!deal
  <2>6. PortalSound(s)
    BY <1>2, <2>4 DEF PortalSound
  <2>7. PortalInOrder(c) => PortalInOrder(s)
    BY <2>1, <2>4, <2>5
       DEF PortalInOrder, Portal!GatesPassed, Portal!Electing, Portal!Allocated, Portal!Settling
  <2>8. QED
    BY <2>1, <2>6, <2>7 DEF s
<1>15. ASSUME NEW choice, NEW roll, Portal!submitElection(t, choice, roll)
      PROVE  \E s : (Portal!commit(t, s) \/ \E end : Portal!Begin(t, s, end)) /\ GoesOn(s)
  <2> DEFINE me == Portal!Person(t)
             s == [c EXCEPT !.elections =
                    Portal!With(c.elections, me, Portal!Ballot(choice, roll, Portal!deal(c).navs[me]))]
  <2>1. Portal!commit(t, s)
    BY <1>15 DEF Portal!submitElection, c
  <2>2. c.stage = "elections" /\ me \in Deals[c.dealNo].lps
    BY <1>2, <1>15, PortalElector DEF c
  <2>3. \A v : DOMAIN Portal!With(c.elections, me, v) = DOMAIN c.elections \cup {me}
    BY DEF Portal!With
  <2> HIDE DEF me
  <2>4. /\ PortalShape(s) /\ s.dealNo = c.dealNo /\ s.stage = c.stage /\ s.bids = c.bids
        /\ s.bidsOpen = c.bidsOpen
        /\ s.clearingPrice = c.clearingPrice /\ s.leadBuyerId = c.leadBuyerId
        /\ s.electionsClosed = c.electionsClosed /\ s.lpacConsent = c.lpacConsent /\ s.legs = c.legs
        /\ s.approvals = c.approvals /\ s.closed = c.closed /\ s.failedAttempt = c.failedAttempt
        /\ DOMAIN s.elections = DOMAIN c.elections \cup {me}
    BY <1>2, <2>3 DEF PortalShape
  <2>5. Portal!LeadIsPriced(c) => Portal!LeadIsPriced(s)
    BY <2>4, LeadStands
  <2> HIDE DEF s
  <2>6. PortalSound(s)
    BY <1>2, <2>2, <2>4 DEF PortalSound
  <2>7. PortalInOrder(c) => PortalInOrder(s)
    BY <2>4, <2>5
       DEF PortalInOrder, Portal!GatesPassed, Portal!Electing, Portal!Allocated, Portal!Settling,
           Portal!allApproved
  <2>8. QED
    BY <2>1, <2>6, <2>7 DEF s, me
<1>16. CASE Portal!closeElectionsAndCompute(t)
  <2> DEFINE shut == [c EXCEPT !.electionsClosed = TRUE]
             filled == [shut EXCEPT !.syndicateIds = Portal!recomputeSyndicate(shut)]
             allocated == [filled EXCEPT !.legs = Portal!computeAllocation(filled)]
             s == [allocated EXCEPT !.approvals = Portal!seedApprovals(allocated), !.stage = "allocation"]
  <2>1. Portal!commit(t, s) /\ c.stage = "elections"
    BY <1>16, PortalClicked, PortalElections DEF Portal!closeElectionsAndCompute, c
  <2> DEFINE Like(x) ==
        /\ PortalShape(x) /\ x.dealNo = c.dealNo /\ x.bids = c.bids /\ x.bidsOpen = c.bidsOpen
        /\ x.clearingPrice = c.clearingPrice /\ x.leadBuyerId = c.leadBuyerId /\ x.elections = c.elections
        /\ x.lpacConsent = c.lpacConsent /\ x.closed = c.closed /\ x.failedAttempt = c.failedAttempt
        /\ x.electionsClosed = TRUE
  <2>2. Like(shut)
    BY <1>2 DEF PortalShape
  <2> HIDE DEF shut
  <2>3. Like(filled)
    BY <2>2 DEF PortalShape
  <2>4. Portal!computeAllocation(filled) # {}
    BY DEF Portal!computeAllocation
  <2> HIDE DEF filled
  <2>5. Like(allocated) /\ allocated.legs # {}
    BY <2>3, <2>4 DEF PortalShape
  <2> HIDE DEF allocated
  <2>6. Like(s) /\ s.legs # {} /\ s.stage = "allocation"
    BY <2>5 DEF PortalShape, Portal!Stage
  <2>7. Portal!LeadIsPriced(c) => Portal!LeadIsPriced(s)
    BY <2>6, LeadStands
  <2> HIDE DEF s
  <2>8. PortalSound(s)
    BY <1>2, <2>6 DEF PortalSound
  <2>9. PortalInOrder(c) => PortalInOrder(s)
    BY <2>1, <2>6, <2>7
       DEF PortalInOrder, Portal!GatesPassed, Portal!Electing, Portal!Allocated, Portal!Settling
  <2>10. QED
    BY <2>1, <2>8, <2>9 DEF s, allocated, filled, shut
<1>17. CASE Portal!startNextDeal(t) \/ Portal!reset(t)
  <2>1. \E d \in DOMAIN Deals : Portal!commit(t, Portal!freshState(d))
    BY <1>17, PortalSeed DEF Portal!startNextDeal, Portal!reset
  <2>2. QED
    BY <2>1, PortalFresh
<1>18. QED
  BY <1>3, <1>4, <1>5, <1>6, <1>7, <1>8, <1>9, <1>10, <1>11, <1>12, <1>13, <1>14, <1>15, <1>16, <1>17
     DEF Portal!Click

-----------------------------------------------------------------------------
(* The timeouts, the messages and the pages that open *)

\* A timeout of the prototype ends a close in order, unless it was overtaken.
LEMMA ProtoTimeouts ==
  ASSUME NEW t \in Tabs, ProtoShape(copy[t]), Proto!settleTimeout(t) \/ Proto!revertTimeout(t)
  PROVE  \E s : /\ Puts(t, s) /\ UNCHANGED role /\ ProtoShape(s)
                /\ ~overtaken' => ~overtaken /\ (ProtoInOrder(copy[t]) => ProtoInOrder(s))
<1> DEFINE c == copy[t]
           Ended(failed) == [c EXCEPT !.stage = "settled", !.failedAttempt = failed, !.closed = ~failed,
                                      !.closingFail = FALSE]
<1>1. PICK failed \in BOOLEAN : \E end : Proto!End(t, end, "closing", Ended(failed))
  <2>1. Proto!settleTimeout(t) => Proto!End(t, "settle", "closing", Ended(FALSE))
    BY DEF Proto!settleTimeout
  <2>2. Proto!revertTimeout(t) => Proto!End(t, "revert", "closing", Ended(TRUE))
    BY DEF Proto!revertTimeout
  <2> HIDE DEF Ended
  <2>3. QED
    BY <2>1, <2>2
<1>2. Puts(t, Ended(failed)) /\ UNCHANGED role /\ overtaken' = (overtaken \/ c.stage # "closing")
  BY <1>1 DEF Proto!End, Proto!Post, Proto!Link, Link, Puts
<1> HIDE DEF c
<1>3. ProtoShape(c)
  BY DEF c
<1>4. ProtoShape(Ended(failed))
  BY <1>3 DEF ProtoShape, Proto!Stages
<1>5. c.stage = "closing" /\ ProtoInOrder(c) => ProtoInOrder(Ended(failed))
  BY <1>3 DEF ProtoShape, ProtoInOrder, Proto!GatesPassed, Proto!Closing, Proto!allApproved, Proto!Null
<1>6. QED
  BY <1>2, <1>4, <1>5 DEF c

\* And so does a timeout of the portal.
LEMMA PortalTimeouts ==
  ASSUME NEW t \in Tabs, PortalSound(copy[t]), Portal!settleTimeout(t) \/ Portal!revertTimeout(t)
  PROVE  \E s : /\ Puts(t, s) /\ UNCHANGED role /\ PortalSound(s)
                /\ ~overtaken' => ~overtaken /\ (PortalInOrder(copy[t]) => PortalInOrder(s))
<1> DEFINE c == copy[t]
           Ended(failed) == [c EXCEPT !.stage = "settled", !.failedAttempt = failed, !.closed = ~failed,
                                      !.closingFail = FALSE]
<1>1. PICK failed \in BOOLEAN : \E end : Portal!End(t, end, "settlement", Ended(failed))
  <2>1. Portal!settleTimeout(t) => Portal!End(t, "settle", "settlement", Ended(FALSE))
    BY DEF Portal!settleTimeout
  <2>2. Portal!revertTimeout(t) => Portal!End(t, "revert", "settlement", Ended(TRUE))
    BY DEF Portal!revertTimeout
  <2> HIDE DEF Ended
  <2>3. QED
    BY <2>1, <2>2
<1> DEFINE s == Ended(failed)
<1>2. Puts(t, s) /\ UNCHANGED role /\ overtaken' = (overtaken \/ c.stage # "settlement")
  BY <1>1 DEF Portal!End, Portal!Post, Portal!Link, Link, Puts
<1> HIDE DEF c
<1>3. PortalSound(c) /\ PortalShape(c)
  BY DEF c, PortalSound
<1>4. /\ PortalShape(s)
      /\ s.dealNo = c.dealNo /\ s.bids = c.bids /\ s.bidsOpen = c.bidsOpen
      /\ s.clearingPrice = c.clearingPrice
      /\ s.leadBuyerId = c.leadBuyerId /\ s.elections = c.elections /\ s.electionsClosed = c.electionsClosed
      /\ s.lpacConsent = c.lpacConsent /\ s.legs = c.legs /\ s.approvals = c.approvals
      /\ s.stage = "settled" /\ s.closed = ~failed /\ s.failedAttempt = failed
  BY <1>3 DEF PortalShape, Portal!Stage
<1>5. Portal!LeadIsPriced(c) => Portal!LeadIsPriced(s)
  BY <1>4, LeadStands
<1> HIDE DEF s
<1>6. PortalSound(s)
  BY <1>3, <1>4 DEF PortalSound
<1>7. c.stage = "settlement" /\ PortalInOrder(c) => PortalInOrder(s)
  BY <1>4, <1>5
     DEF PortalInOrder, Portal!GatesPassed, Portal!Electing, Portal!Allocated, Portal!Settling,
         Portal!allApproved
<1>8. QED
  BY <1>2, <1>6, <1>7 DEF c

\* Both builds receive and load alike, and picking a role changes no deal.
LEMMA Delivered ==
  /\ \A l \in Link : Portal!Receive(l) \/ Proto!Receive(l) => Receive(l)
  /\ \A t \in Tabs : \A r : Portal!Load(t, r) \/ Proto!Load(t, r) => Load(t, r)
  /\ \A t, r : Proto!personaSelect(t, r) => UNCHANGED <<copy, store, wire, overtaken>>
<1>1. Link = Portal!Link /\ Link = Proto!Link
  BY DEF Link, Portal!Link, Proto!Link
<1>2. \A l \in Link : Portal!Receive(l) \/ Proto!Receive(l) => Receive(l)
  BY DEF Receive, Portal!Receive, Proto!Receive
<1>3. \A t \in Tabs : \A r : Portal!Load(t, r) \/ Proto!Load(t, r) => Load(t, r)
  BY <1>1 DEF Load, Portal!Load, Proto!Load, NoTimer, Portal!NoTimer, Proto!NoTimer
<1>4. \A t, r : Proto!personaSelect(t, r) => UNCHANGED <<copy, store, wire, overtaken>>
  BY DEF Proto!personaSelect
<1>5. QED
  BY <1>2, <1>3, <1>4

-----------------------------------------------------------------------------
(* The invariant *)

\* Sound, and in order, as the build that runs has it.
Sound(s) == IF ThePortal THEN PortalSound(s) ELSE ProtoShape(s)
InOrder(s) == IF ThePortal THEN PortalInOrder(s) ELSE ProtoInOrder(s)

\* Whatever deal is held is sound, and in order unless a close was overtaken.
OfflineInv ==
  /\ TabsTyped
  /\ ThePortal => role \in [Tabs -> Portal!Role]
  /\ \A s \in Held : Sound(s)
  /\ ~overtaken => \A s \in Held : InOrder(s)

\* Tabs that all start from one deal hold nothing else.
LEMMA StartsFrom ==
  ASSUME NEW s, copy = [t \in Tabs |-> s], store = s, wire = [l \in Link |-> <<>>]
  PROVE  TabsTyped /\ Held \subseteq {s}
<1>1. <<>> \in Seq({s}) /\ DOMAIN <<>> = {}
  OBVIOUS
<1>2. wire \in [Link -> Seq({s})] /\ copy \in [Tabs -> {s}] /\ store \in {s}
  BY <1>1
<1>3. Held \subseteq {s}
  BY <1>1 DEF Held
<1>4. QED
  BY <1>2, <1>3 DEF TabsTyped

\* All builds start from a deal that is sound and in order.
LEMMA OfflineStarts == Init => OfflineInv
<1> SUFFICES ASSUME Init PROVE OfflineInv
  OBVIOUS
<1>1. CASE ThePortal
  <2> DEFINE s == Portal!freshState(1)
  <2>1. Portal!PortalInit
    BY <1>1 DEF Init, ThePortal
  <2>2. copy = [t \in Tabs |-> s] /\ store = s /\ wire = [l \in Link |-> <<>>] /\ role \in [Tabs -> Portal!Role]
    BY <2>1 DEF Portal!PortalInit, Portal!TabsInit, Portal!Link, Link
  <2>3. PortalSound(s) /\ PortalInOrder(s)
    BY PortalSeed, PortalFresh
  <2> HIDE DEF s
  <2>4. TabsTyped /\ Held \subseteq {s}
    BY <2>2, StartsFrom
  <2>5. QED
    BY <1>1, <2>2, <2>3, <2>4 DEF OfflineInv, Sound, InOrder
<1>2. CASE ~ThePortal
  <2> DEFINE s == Proto!freshState(1)
  <2>1. Proto!PrototypeInit
    BY <1>2 DEF Init, ThePortal, NoTabs
  <2>2. copy = [t \in Tabs |-> s] /\ store = s /\ wire = [l \in Link |-> <<>>]
    BY <2>1 DEF Proto!PrototypeInit, Proto!TabsInit, Proto!Link, Link
  <2>3. ProtoShape(s) /\ ProtoInOrder(s)
    BY ProtoFresh
  <2> HIDE DEF s
  <2>4. TabsTyped /\ Held \subseteq {s}
    BY <2>2, StartsFrom
  <2>5. QED
    BY <1>2, <2>3, <2>4 DEF OfflineInv, Sound, InOrder
<1>3. QED
  BY <1>1, <1>2

\* A deal put in place of another, as sound and as much in order, keeps the invariant.
LEMMA PutKeeps ==
  ASSUME OfflineInv, UNCHANGED build, NEW s, NEW t \in Tabs, Puts(t, s), UNCHANGED role,
         Sound(s), ~overtaken' => ~overtaken /\ (InOrder(copy[t]) => InOrder(s))
  PROVE  OfflineInv'
<1>1. TabsTyped' /\ Held' \subseteq Held \cup {s}
  BY PutsOne DEF OfflineInv
<1>2. ThePortal' = ThePortal /\ copy[t] \in Held
  BY DEF ThePortal, Held
<1>3. \A x \in Held \cup {s} : Sound(x)'
  BY <1>2 DEF OfflineInv, Sound
<1>4. ~overtaken' => \A x \in Held \cup {s} : InOrder(x)'
  BY <1>2 DEF OfflineInv, InOrder
<1>5. QED
  BY <1>1, <1>2, <1>3, <1>4 DEF OfflineInv

\* So does a step after which nothing is held that was not before.
LEMMA NothingNewKeeps ==
  ASSUME OfflineInv, UNCHANGED <<build, overtaken>>, TabsTyped', Held' \subseteq Held,
         ThePortal => role' \in [Tabs -> Portal!Role]
  PROVE  OfflineInv'
<1>1. ThePortal' = ThePortal
  BY DEF ThePortal
<1>2. QED
  BY <1>1 DEF OfflineInv, Sound, InOrder

\* Every step keeps it: a click, a timeout, a page that opens, a message.
LEMMA OfflineStep == OfflineInv /\ [Next]_vars => OfflineInv'
<1> SUFFICES ASSUME OfflineInv, [Next]_vars PROVE OfflineInv'
  OBVIOUS
<1>1. \A t \in Tabs : Sound(copy[t])
  BY DEF OfflineInv, Held
<1>2. CASE UNCHANGED <<build, tabVars>>
  <2>1. TabsTyped' /\ Held' = Held
    BY <1>2 DEF OfflineInv, TabsTyped, Held, tabVars
  <2>2. QED
    BY <1>2, <2>1, NothingNewKeeps DEF OfflineInv, tabVars
<1>3. CASE ThePortal /\ UNCHANGED build /\ Portal!PortalNext
  <2>1. ASSUME NEW t \in Tabs, Portal!Click(t)
        PROVE  OfflineInv'
    <3>1. PICK s : /\ Puts(t, s) /\ UNCHANGED <<role, overtaken>>
                   /\ PortalSound(s) /\ (PortalInOrder(copy[t]) => PortalInOrder(s))
      BY <1>1, <1>3, <2>1, PortalClick DEF OfflineInv, Sound
    <3>2. QED
      BY <1>3, <3>1, PutKeeps DEF Sound, InOrder
  <2>2. ASSUME NEW t \in Tabs, Portal!settleTimeout(t) \/ Portal!revertTimeout(t)
        PROVE  OfflineInv'
    <3>1. PICK s : /\ Puts(t, s) /\ UNCHANGED role /\ PortalSound(s)
                   /\ ~overtaken' => ~overtaken /\ (PortalInOrder(copy[t]) => PortalInOrder(s))
      BY <1>1, <1>3, <2>2, PortalTimeouts DEF Sound
    <3>2. QED
      BY <1>3, <3>1, PutKeeps DEF Sound, InOrder
  <2>3. ASSUME NEW t \in Tabs, NEW r \in Portal!Role, Portal!Load(t, r)
        PROVE  OfflineInv'
    <3>1. Load(t, r)
      BY <2>3, Delivered
    <3>2. TabsTyped' /\ Held' \subseteq Held
      BY <3>1, LoadsNothingNew DEF OfflineInv
    <3>3. role' \in [Tabs -> Portal!Role] /\ UNCHANGED overtaken
      BY <1>3, <3>1 DEF OfflineInv, Load
    <3>4. QED
      BY <1>3, <3>2, <3>3, NothingNewKeeps
  <2>4. ASSUME NEW l \in Link, Portal!Receive(l)
        PROVE  OfflineInv'
    <3>1. Receive(l)
      BY <2>4, Delivered
    <3>2. TabsTyped' /\ Held' \subseteq Held
      BY <3>1, ReceivesNothingNew DEF OfflineInv
    <3>3. QED
      BY <1>3, <3>1, <3>2, NothingNewKeeps DEF OfflineInv, Receive
  <2>5. Link = Portal!Link
    BY DEF Link, Portal!Link
  <2>6. QED
    BY <1>3, <2>1, <2>2, <2>3, <2>4, <2>5 DEF Portal!PortalNext
<1>4. CASE ~ThePortal /\ UNCHANGED build /\ Proto!PrototypeNext
  <2>1. ASSUME NEW t \in Tabs, Proto!Click(t)
        PROVE  OfflineInv'
    <3>1. PICK s : /\ Puts(t, s) /\ UNCHANGED <<role, overtaken>>
                   /\ ProtoShape(s) /\ (ProtoInOrder(copy[t]) => ProtoInOrder(s))
      BY <1>1, <1>4, <2>1, ProtoClick DEF Sound
    <3>2. QED
      BY <1>4, <3>1, PutKeeps DEF Sound, InOrder
  <2>2. ASSUME NEW t \in Tabs, Proto!settleTimeout(t) \/ Proto!revertTimeout(t)
        PROVE  OfflineInv'
    <3>1. PICK s : /\ Puts(t, s) /\ UNCHANGED role /\ ProtoShape(s)
                   /\ ~overtaken' => ~overtaken /\ (ProtoInOrder(copy[t]) => ProtoInOrder(s))
      BY <1>1, <1>4, <2>2, ProtoTimeouts DEF Sound
    <3>2. QED
      BY <1>4, <3>1, PutKeeps DEF Sound, InOrder
  <2>3. ASSUME NEW t \in Tabs, NEW r, Proto!personaSelect(t, r)
        PROVE  OfflineInv'
    <3>1. UNCHANGED <<copy, store, wire, overtaken>>
      BY <2>3, Delivered
    <3>2. TabsTyped' /\ Held' = Held
      BY <3>1 DEF OfflineInv, TabsTyped, Held
    <3>3. QED
      BY <1>4, <3>1, <3>2, NothingNewKeeps
  <2>4. ASSUME NEW t \in Tabs, NEW r, Proto!Load(t, r)
        PROVE  OfflineInv'
    <3>1. Load(t, r)
      BY <2>4, Delivered
    <3>2. TabsTyped' /\ Held' \subseteq Held /\ UNCHANGED overtaken
      BY <3>1, LoadsNothingNew DEF OfflineInv, Load
    <3>3. QED
      BY <1>4, <3>2, NothingNewKeeps
  <2>5. ASSUME NEW l \in Link, Proto!Receive(l)
        PROVE  OfflineInv'
    <3>1. Receive(l)
      BY <2>5, Delivered
    <3>2. TabsTyped' /\ Held' \subseteq Held /\ UNCHANGED overtaken
      BY <3>1, ReceivesNothingNew DEF OfflineInv, Receive
    <3>3. QED
      BY <1>4, <3>2, NothingNewKeeps
  <2>6. Link = Proto!Link
    BY DEF Link, Proto!Link
  <2>7. QED
    BY <1>4, <2>1, <2>2, <2>3, <2>4, <2>5, <2>6 DEF Proto!PrototypeNext
<1>5. QED
  BY <1>2, <1>3, <1>4 DEF Next, vars, ThePortal

\* No copy of the deal, in whichever tab or on whichever way, is past a gate it
\* has not been through, unless a close was overtaken: renderSection of the
\* portal and the views of the prototype offer an action only once the gates
\* before it are passed, and a whole copy is all that ever travels.
THEOREM GatesAreKept == Spec => []GatesInOrder
<1>1. OfflineInv => GatesInOrder
  BY DEF OfflineInv, GatesInOrder, InOrder, PortalInOrder, ProtoInOrder
<1>2. QED
  BY <1>1, OfflineStarts, OfflineStep, PTL DEF Spec

-----------------------------------------------------------------------------
(* The legs tie out *)

\* A figure is half a unit of its last digit off at most.
LEMMA FixedIsNear ==
  ASSUME NEW n \in Nat, NEW d \in Nat \ {0}, NEW k \in {2, 3, 4}
  PROVE  LET r == Portal!toFixed(k, n, d)  step == 10 ^ (4 - k)
         IN  r \in Nat /\ Within(2 * (d * r), 2 * n, d * step)
<1> DEFINE step == 10 ^ (4 - k)
           m == d * step
           q == (2 * n + m) \div (2 * m)
           r == step * q
<1>1. step \in Nat \ {0}
  <2>1. 10 ^ (4 - 2) = 100 /\ 10 ^ (4 - 3) = 10 /\ 10 ^ (4 - 4) = 1
    OBVIOUS
  <2>2. step = 10 ^ (4 - 2) \/ step = 10 ^ (4 - 3) \/ step = 10 ^ (4 - 4)
    OBVIOUS
  <2> HIDE DEF step
  <2>3. QED
    BY <2>1, <2>2
<1>2. Portal!toFixed(k, n, d) = r
  BY DEF Portal!toFixed, Portal!Nearest
<1> HIDE DEF step
<1>3. m \in Nat \ {0}
  BY <1>1
<1>4. q \in Nat /\ 2 * (m * q) <= 2 * n + m /\ 2 * n < 2 * (m * q) + m
  <2> HIDE DEF m
  <2>1. QED
    BY <1>3, RoundingIsNear
<1> HIDE DEF q
<1>5. m * q = d * r /\ r \in Nat /\ d * r \in Nat
  BY <1>1, <1>4
<1> HIDE DEF m, r
<1>6. Within(2 * (d * r), 2 * n, m)
  <2> DEFINE p == d * r
  <2>1. p \in Nat /\ 2 * p <= 2 * n + m /\ 2 * n < 2 * p + m
    BY <1>4, <1>5
  <2> HIDE DEF p
  <2>2. Within(2 * p, 2 * n, m)
    BY <1>3, <2>1 DEF Within
  <2>3. QED
    BY <2>2 DEF p
<1>7. QED
  BY <1>2, <1>5, <1>6 DEF m, step

\* So is a figure with 4, with 3 and with 2 digits.
LEMMA Fourth == \A n \in Nat : Portal!toFixed(4, n, 1) = n
<1> SUFFICES ASSUME NEW n \in Nat PROVE Portal!toFixed(4, n, 1) = n
  OBVIOUS
<1> DEFINE r == Portal!toFixed(4, n, 1)
<1>1. r \in Nat /\ Within(2 * (1 * r), 2 * n, 1)
  <2>1. 10 ^ (4 - 4) = 1 /\ 1 \in Nat \ {0}
    OBVIOUS
  <2>2. r \in Nat /\ Within(2 * (1 * r), 2 * n, 1 * 10 ^ (4 - 4))
    BY <2>1, FixedIsNear
  <2>3. QED
    BY <2>1, <2>2
<1> HIDE DEF r
<1>2. r = n
  BY <1>1 DEF Within
<1>3. QED
  BY <1>2 DEF r

LEMMA FourthOf ==
  ASSUME NEW n \in Nat, NEW d \in Nat \ {0}
  PROVE  LET r == Portal!toFixed(4, n, d) IN r \in Nat /\ Within((2 * d) * r, 2 * n, d)
<1> DEFINE r == Portal!toFixed(4, n, d)
<1>1. 10 ^ (4 - 4) = 1 /\ d * 1 = d
  OBVIOUS
<1>2. r \in Nat /\ Within(2 * (d * r), 2 * n, d * 10 ^ (4 - 4))
  BY FixedIsNear
<1>3. r \in Nat /\ Within(2 * (d * r), 2 * n, d)
  BY <1>1, <1>2
<1> HIDE DEF r
<1>4. 2 * (d * r) = (2 * d) * r
  BY <1>3
<1>5. QED
  BY <1>3, <1>4 DEF r

LEMMA Thousandth ==
  ASSUME NEW n \in Nat, NEW d \in Nat \ {0}
  PROVE  LET r == Portal!toFixed(3, n, d) IN r \in Nat /\ Within(d * r, n, 5 * d)
<1> DEFINE r == Portal!toFixed(3, n, d)
           p == d * r
<1>1. 10 ^ (4 - 3) = 10
  OBVIOUS
<1>2. r \in Nat /\ Within(2 * (d * r), 2 * n, d * 10 ^ (4 - 3))
  BY FixedIsNear
<1>3. r \in Nat /\ Within(2 * p, 2 * n, d * 10)
  BY <1>1, <1>2
<1> HIDE DEF r
<1>4. p \in Nat
  BY <1>3
<1> HIDE DEF p
<1>5. Within(p, n, 5 * d)
  BY <1>3, <1>4 DEF Within
<1>6. QED
  BY <1>3, <1>5 DEF p, r

LEMMA Hundredth ==
  ASSUME NEW n \in Nat
  PROVE  LET r == Portal!toFixed(2, n, 1) IN
         /\ r \in Nat /\ Within(r, n, 50)
         /\ \E q \in Nat : r = 100 * q
<1> DEFINE r == Portal!toFixed(2, n, 1)
<1>1. 10 ^ (4 - 2) = 100 /\ 1 \in Nat \ {0}
  OBVIOUS
<1>2. r \in Nat /\ Within(2 * (1 * r), 2 * n, 1 * 10 ^ (4 - 2))
  BY <1>1, FixedIsNear
<1>3. r \in Nat /\ Within(2 * (1 * r), 2 * n, 100)
  BY <1>1, <1>2
<1>4. \E q \in Nat : r = 100 * q
  <2> DEFINE q == (2 * n + 100) \div 200
  <2>1. q \in Nat
    OBVIOUS
  <2>2. r = 100 * q
    BY <1>1 DEF Portal!toFixed, Portal!Nearest
  <2>3. QED
    BY <2>1, <2>2
<1> HIDE DEF r
<1>5. Within(r, n, 50)
  BY <1>3 DEF Within
<1>6. QED
  BY <1>3, <1>4, <1>5 DEF r

\* What is rounded to hundredths is not rounded again.
LEMMA RoundedOnce == \A q \in Nat : Portal!toFixed(2, 100 * q, 1) = 100 * q
<1> SUFFICES ASSUME NEW q \in Nat PROVE Portal!toFixed(2, 100 * q, 1) = 100 * q
  OBVIOUS
<1> DEFINE n == 100 * q
           r == Portal!toFixed(2, n, 1)
<1>1. n \in Nat
  OBVIOUS
<1>2. Within(r, n, 50) /\ \E p \in Nat : r = 100 * p
  <2> HIDE DEF n
  <2>1. QED
    BY <1>1, Hundredth
<1>3. PICK p \in Nat : r = 100 * p
  BY <1>2
<1> HIDE DEF r
<1>4. p = q
  BY <1>2, <1>3 DEF Within
<1>5. QED
  BY <1>3, <1>4 DEF r

\* The stages from the choice of a lead to the allocation.
Led == {"leadSelected", "lpacConsent", "elections", "allocation"}

\* What the figures are computed from is typed, and there is a lead where one is needed.
Booked(s) ==
  LET d == Portal!deal(s) IN
  /\ s.dealNo \in DOMAIN Deals
  /\ DOMAIN s.bids \subseteq ToSet(d.buyers)
  /\ \A b \in DOMAIN s.bids : Portal!BidOK(s.bids[b])
  /\ s.clearingPrice \in 0 .. Whole
  /\ s.leadBuyerId \in DOMAIN s.bids \cup {Portal!Nobody}
  /\ s.syndicateIds \subseteq DOMAIN s.bids \ {s.leadBuyerId}
  /\ DOMAIN s.elections \subseteq d.lps
  /\ \A l \in DOMAIN s.elections : Portal!BallotOK(s.elections[l])
  /\ s.stage \in Led \/ s.legs # {} => s.leadBuyerId \in DOMAIN s.bids

\* A deal with a lead, who funds it, and what its LPs and buyers come to.
HasLead(s) == Booked(s) /\ s.leadBuyerId \in DOMAIN s.bids
Funders(s) == s.syndicateIds \cup {s.leadBuyerId}
lpsOf(s) == Portal!deal(s).lps
Sells(s) == [l \in lpsOf(s) |-> Portal!Selling(s, l)]
Keeps(s) == [l \in lpsOf(s) |-> Portal!Rolling(s, l)]
Fills(s) == [l \in lpsOf(s) |-> Portal!lpFilledSell(s, l)]
Funds(s) == [b \in Funders(s) |-> Portal!buyerFundedNav(s, b)]
Bids(s) == [b \in s.syndicateIds |-> s.bids[b].capacity]

LEMMA FiguresAreTyped ==
  ASSUME NEW s, HasLead(s)
  PROVE  /\ IsFiniteSet(lpsOf(s)) /\ IsFiniteSet(s.syndicateIds) /\ IsFiniteSet(Funders(s))
         /\ \A l \in lpsOf(s) : Portal!Selling(s, l) \in Nat /\ Portal!Rolling(s, l) \in Nat
         /\ SumFunctionOnSet(Sells(s), lpsOf(s)) \in Nat /\ SumFunctionOnSet(Keeps(s), lpsOf(s)) \in Nat
         /\ \A b \in Funders(s) : s.bids[b].capacity \in Nat
         /\ Portal!leadCapacity(s) = s.bids[s.leadBuyerId].capacity
         /\ Portal!syndicateCapacity(s) \in Nat
<1> DEFINE n == s.dealNo
           d == Deals[n]
<1>1. /\ n \in DOMAIN Deals /\ IsFiniteSet(d.lps) /\ IsFiniteSet(ToSet(d.buyers))
      /\ Portal!Nobody \notin ToSet(d.buyers) /\ d.navs \in [d.lps -> Nat]
  BY SeedAssumption, SameData DEF Portal!SeedOK, HasLead, Booked
<1>2. Portal!deal(s) = d
  BY DEF Portal!deal
<1>3. /\ DOMAIN s.bids \subseteq ToSet(d.buyers) /\ \A b \in DOMAIN s.bids : s.bids[b].capacity \in Nat
      /\ s.leadBuyerId \in DOMAIN s.bids /\ s.syndicateIds \subseteq DOMAIN s.bids
      /\ DOMAIN s.elections \subseteq d.lps
      /\ \A l \in DOMAIN s.elections : s.elections[l].roll \in Nat /\ s.elections[l].sell \in Nat
  BY <1>2 DEF HasLead, Booked, Portal!BidOK, Portal!BallotOK
<1> HIDE DEF n, d
<1>4. IsFiniteSet(lpsOf(s)) /\ lpsOf(s) = d.lps
  BY <1>1, <1>2 DEF lpsOf
<1>5. Funders(s) \subseteq ToSet(d.buyers) /\ s.syndicateIds \subseteq ToSet(d.buyers)
  BY <1>3 DEF Funders
<1>6. IsFiniteSet(s.syndicateIds) /\ IsFiniteSet(Funders(s))
  BY <1>1, <1>5, FS_Subset
<1>7. ASSUME NEW l \in d.lps PROVE Portal!Selling(s, l) \in Nat /\ Portal!Rolling(s, l) \in Nat
  <2>1. d.navs[l] \in Nat
    BY <1>1, <1>7
  <2>2. Portal!electionFor(s, l).sell \in Nat /\ Portal!electionFor(s, l).roll \in Nat
    <3>1. CASE l \in DOMAIN s.elections
      BY <1>3, <3>1 DEF Portal!electionFor
    <3>2. CASE l \notin DOMAIN s.elections
      BY <1>2, <2>1, <3>2 DEF Portal!electionFor
    <3>3. QED
      BY <3>1, <3>2
  <2>3. QED
    BY <1>2, <2>1, <2>2 DEF Portal!Selling, Portal!Rolling
<1>8. \A l \in lpsOf(s) : Sells(s)[l] \in Nat /\ Keeps(s)[l] \in Nat
  BY <1>4, <1>7 DEF Sells, Keeps
<1>9. SumFunctionOnSet(Sells(s), lpsOf(s)) \in Nat /\ SumFunctionOnSet(Keeps(s), lpsOf(s)) \in Nat
  BY <1>4, <1>8, SumIsNat
<1>10. \A b \in Funders(s) : s.bids[b].capacity \in Nat
  BY <1>3 DEF Funders
<1>11. Portal!leadCapacity(s) = s.bids[s.leadBuyerId].capacity
  BY <1>1, <1>3 DEF Portal!leadCapacity
<1>12. Portal!syndicateCapacity(s) \in Nat
  <2>1. \A b \in s.syndicateIds : Bids(s)[b] \in Nat
    BY <1>10 DEF Bids, Funders
  <2>2. SumFunctionOnSet(Bids(s), s.syndicateIds) \in Nat
    BY <1>6, <2>1, SumIsNat
  <2>3. QED
    BY <2>2, SameData DEF Portal!syndicateCapacity, Portal!CapacityOf, Bids
<1>13. QED
  BY <1>4, <1>6, <1>7, <1>9, <1>10, <1>11, <1>12

\* What is sold, rolled and bid for is what the LPs and the buyers filed, within half a
\* hundredth each; what is filled is the lesser of what is sold and bid for.
LEMMA DemandIsNear ==
  ASSUME NEW s, HasLead(s)
  PROVE  LET sold == Portal!sellDemand(s)  rolled == Portal!rollDemand(s)
             bid == Portal!buyerCapacity(s)  filled == Portal!filledSellNav(s)
         IN  /\ sold \in Nat /\ Within(sold, SumFunctionOnSet(Sells(s), lpsOf(s)), 50)
             /\ rolled \in Nat /\ Within(rolled, SumFunctionOnSet(Keeps(s), lpsOf(s)), 50)
             /\ bid \in Nat /\ Within(bid, Portal!leadCapacity(s) + Portal!syndicateCapacity(s), 50)
             /\ filled \in Nat /\ filled <= bid
             /\ filled = IF Portal!oversubscribed(s) THEN bid ELSE sold
<1> DEFINE sold == Portal!sellDemand(s)
           rolled == Portal!rollDemand(s)
           bid == Portal!buyerCapacity(s)
           filled == Portal!filledSellNav(s)
           D == SumFunctionOnSet(Sells(s), lpsOf(s))
           R == SumFunctionOnSet(Keeps(s), lpsOf(s))
           C == Portal!leadCapacity(s) + Portal!syndicateCapacity(s)
<1>1. D \in Nat /\ R \in Nat /\ C \in Nat
  <2>1. Portal!leadCapacity(s) \in Nat
    BY FiguresAreTyped DEF Funders
  <2>2. QED
    BY <2>1, FiguresAreTyped
<1>2. /\ sold = Portal!toFixed(2, D, 1) /\ rolled = Portal!toFixed(2, R, 1)
      /\ bid = Portal!toFixed(2, C, 1)
  BY SameData DEF Portal!sellDemand, Portal!rollDemand, Portal!buyerCapacity, Sells, Keeps, lpsOf
<1>3. filled = Portal!toFixed(2, IF Portal!oversubscribed(s) THEN bid ELSE sold, 1)
  BY DEF Portal!filledSellNav
<1>4. Portal!oversubscribed(s) <=> sold > bid
  BY DEF Portal!oversubscribed
<1> HIDE DEF sold, rolled, bid, filled, D, R, C
<1>5. sold \in Nat /\ Within(sold, D, 50) /\ \E q \in Nat : sold = 100 * q
  BY <1>1, <1>2, Hundredth
<1>6. rolled \in Nat /\ Within(rolled, R, 50)
  BY <1>1, <1>2, Hundredth
<1>7. bid \in Nat /\ Within(bid, C, 50) /\ \E q \in Nat : bid = 100 * q
  BY <1>1, <1>2, Hundredth
<1>8. filled = IF Portal!oversubscribed(s) THEN bid ELSE sold
  <2> DEFINE x == IF Portal!oversubscribed(s) THEN bid ELSE sold
  <2>1. PICK q \in Nat : x = 100 * q
    BY <1>5, <1>7
  <2> HIDE DEF x
  <2>2. QED
    BY <1>3, <2>1, RoundedOnce DEF x
<1>9. filled \in Nat /\ filled <= bid
  BY <1>4, <1>5, <1>7, <1>8
<1>10. QED
  BY <1>5, <1>6, <1>7, <1>8, <1>9 DEF sold, rolled, bid, filled, D, R, C

\* The LPs that sell are filled, between them, to what the buyers fund: half a unit for
\* each of them and half a hundredth for their demand are lost at most.
LEMMA SellersAreFilled ==
  ASSUME NEW s, HasLead(s)
  PROVE  LET filled == Portal!filledSellNav(s)  sum == SumFunctionOnSet(Fills(s), lpsOf(s))
         IN  /\ \A l \in lpsOf(s) : Fills(s)[l] \in Nat
             /\ sum \in Nat /\ Within(2 * sum, 2 * filled, Cardinality(lpsOf(s)) + 100)
<1> DEFINE sold == Portal!sellDemand(s)
           bid == Portal!buyerCapacity(s)
           filled == Portal!filledSellNav(s)
           F == SumFunctionOnSet(Fills(s), lpsOf(s))
           D == SumFunctionOnSet(Sells(s), lpsOf(s))
           n == Cardinality(lpsOf(s))
<1>1. /\ sold \in Nat /\ Within(sold, D, 50) /\ bid \in Nat /\ D \in Nat
      /\ filled = IF Portal!oversubscribed(s) THEN bid ELSE sold
      /\ Portal!oversubscribed(s) <=> sold > bid
  BY DemandIsNear, FiguresAreTyped DEF Portal!oversubscribed
<1>2. IsFiniteSet(lpsOf(s)) /\ n \in Nat /\ \A l \in lpsOf(s) : Sells(s)[l] \in Nat
  BY FiguresAreTyped, FS_CardinalityType DEF Sells
<1>3. CASE sold <= bid
  <2>1. \A l \in lpsOf(s) : Fills(s)[l] = Sells(s)[l]
    <3>1. ASSUME NEW l \in lpsOf(s) PROVE Fills(s)[l] = Sells(s)[l]
      <4>1. Fills(s)[l] = Portal!toFixed(4, Portal!Selling(s, l), 1)
        BY <1>1, <1>3 DEF Fills, Portal!lpFilledSell
      <4>2. Sells(s)[l] = Portal!Selling(s, l) /\ Portal!Selling(s, l) \in Nat
        BY FiguresAreTyped DEF Sells
      <4>3. QED
        BY <4>1, <4>2, Fourth
    <3>2. QED
      BY <3>1
  <2>2. F = D
    BY <1>2, <2>1, SumsOfEquals
  <2> HIDE DEF sold, bid, filled, F, D, n
  <2>3. F \in Nat /\ Within(2 * F, 2 * filled, n + 100)
    BY <1>1, <1>2, <1>3, <2>2 DEF Within
  <2>4. QED
    BY <1>2, <2>1, <2>3 DEF filled, F, n
<1>4. CASE sold > bid
  <2>1. sold \in Nat \ {0}
    BY <1>1, <1>4
  <2>2. ASSUME NEW l \in lpsOf(s)
        PROVE  Fills(s)[l] \in Nat /\ Within((2 * sold) * Fills(s)[l], (2 * bid) * Sells(s)[l], sold)
    <3> DEFINE x == Portal!Selling(s, l)
    <3>1. x \in Nat /\ x * bid \in Nat /\ Sells(s)[l] = x
      BY <1>1, FiguresAreTyped DEF Sells
    <3>2. Fills(s)[l] = Portal!toFixed(4, x * bid, sold)
      BY <1>1, <1>4 DEF Fills, Portal!lpFilledSell
    <3> HIDE DEF x, sold, bid
    <3> DEFINE y == x * bid
    <3>3. y \in Nat /\ 2 * y = (2 * bid) * x
      BY <1>1, <3>1
    <3> HIDE DEF y
    <3>4. LET r == Portal!toFixed(4, y, sold) IN r \in Nat /\ Within((2 * sold) * r, 2 * y, sold)
      BY <2>1, <3>3, FourthOf
    <3>5. Fills(s)[l] = Portal!toFixed(4, y, sold)
      BY <3>2 DEF y
    <3>6. QED
      BY <3>1, <3>3, <3>4, <3>5
  <2> HIDE DEF sold, bid, filled
  <2>3. 2 * sold \in Int /\ 2 * bid \in Int /\ sold \in Int
    BY <1>1
  <2>4. Track(Fills(s), Sells(s), lpsOf(s), 2 * sold, 2 * bid, sold)
    BY <1>2, <2>2 DEF Track
  <2>5. Within((2 * sold) * F, (2 * bid) * D, sold * n)
    BY <1>2, <2>3, <2>4, SumsTrack
  <2>6. F \in Nat
    BY <1>2, <2>2, SumIsNat
  <2> HIDE DEF F, D, n
  <2>7. Within(bid * D, bid * sold, bid * 50)
    <3>1. bid \in Nat /\ D \in Int /\ sold \in Int /\ 50 \in Int /\ Within(D, sold, 50)
      BY <1>1 DEF Within
    <3>2. QED
      BY ONLY <3>1, WithinTimes
  <2> DEFINE x == sold * F
             y == bid * D
             z == sold * bid
             w == sold * n
  <2>8. /\ x \in Nat /\ y \in Nat /\ z \in Nat /\ w \in Nat
        /\ (2 * sold) * F = 2 * x /\ (2 * bid) * D = 2 * y /\ bid * sold = z
        /\ sold * (2 * F) = 2 * x /\ sold * (2 * bid) = 2 * z /\ sold * (n + 100) = w + 100 * sold
    BY <1>1, <1>2, <2>6
  <2> HIDE DEF x, y, z, w
  <2>9. Within(2 * x, 2 * y, w) /\ Within(y, z, bid * 50)
    <3>1. Within(2 * x, 2 * y, w)
      BY ONLY <2>5, <2>8, Zenon DEF w
    <3>2. Within(y, z, bid * 50)
      BY ONLY <2>7, <2>8, Zenon DEF y
    <3>3. QED
      BY <3>1, <3>2
  <2>10. Within(2 * x, 2 * z, w + 100 * sold)
    BY <1>1, <1>4, <2>8, <2>9 DEF Within
  <2>11. Within(sold * (2 * F), sold * (2 * bid), sold * (n + 100))
    BY <2>8, <2>10
  <2>12. Within(2 * F, 2 * bid, n + 100)
    <3>1. 2 * F \in Int /\ 2 * bid \in Int /\ n + 100 \in Int
      BY <1>1, <1>2, <2>6
    <3>2. QED
      BY <2>1, <2>11, <3>1, WithinPerEach
  <2>13. filled = bid
    BY <1>1, <1>4
  <2>14. QED
    BY <2>2, <2>6, <2>12, <2>13 DEF filled, F, n
<1>5. sold <= bid \/ sold > bid
  BY <1>1
<1>6. QED
  BY <1>3, <1>4, <1>5

\* A share of need, in proportion to c of all, is not much over c when need is not over
\* all.
LEMMA ShareIsNear ==
  ASSUME NEW c \in Nat, NEW need \in Nat, NEW all \in Nat \ {0}, c <= all, need <= all + 50
  PROVE  LET r == Portal!toFixed(3, need * c, all)
         IN  r \in Nat /\ Within(all * r, need * c, 5 * all) /\ r <= c + 55
<1> DEFINE n == need * c
           r == Portal!toFixed(3, n, all)
<1>1. n \in Nat
  OBVIOUS
<1>2. r \in Nat /\ Within(all * r, n, 5 * all)
  <2> HIDE DEF n
  <2>1. QED
    BY <1>1, Thousandth
<1> HIDE DEF r
<1>3. n <= all * c + 50 * all
  <2>1. \A i, j, k \in Nat : i <= j => i * k <= j * k
    OBVIOUS
  <2>2. need * c <= (all + 50) * c
    BY <2>1
  <2>3. (all + 50) * c = all * c + 50 * c /\ 50 * c <= 50 * all
    OBVIOUS
  <2> DEFINE x == need * c
             y == (all + 50) * c
             z == all * c
  <2>4. x \in Nat /\ y \in Nat /\ z \in Nat /\ x <= y /\ y = z + 50 * c /\ 50 * c <= 50 * all
    BY <2>2, <2>3
  <2> HIDE DEF x, y, z
  <2>5. x <= z + 50 * all
    BY <2>4
  <2>6. QED
    BY <2>5 DEF x, z
<1>4. all * r <= all * (c + 55)
  <2> DEFINE x == all * r
             z == all * c
  <2>1. x \in Nat /\ z \in Nat /\ all * (c + 55) = z + 55 * all
    BY <1>2
  <2>2. x - n <= 5 * all /\ n <= z + 50 * all
    BY <1>2, <1>3 DEF Within
  <2> HIDE DEF n, x, z
  <2>3. x <= z + 55 * all
    BY <1>1, <2>1, <2>2
  <2>4. QED
    BY <2>1, <2>3 DEF x
<1>5. r <= c + 55
  <2>1. \A i, j \in Nat : all * i <= all * j => i <= j
    <3>1. \A i, j \in Nat : i >= j + 1 => all * i >= all * (j + 1)
      OBVIOUS
    <3>2. \A j \in Nat : all * (j + 1) = all * j + all
      OBVIOUS
    <3>3. QED
      BY <3>1, <3>2
  <2>2. QED
    BY <1>2, <1>4, <2>1
<1>6. QED
  BY <1>2, <1>5 DEF n, r

\* What the buyers fund is what is filled, within half a thousandth or one for each of
\* them and half a hundredth for their capacity, and no buyer funds much over its own.
LEMMA BuyersFund ==
  ASSUME NEW s, HasLead(s)
  PROVE  LET sum == SumFunctionOnSet(Funds(s), Funders(s))
         IN  /\ \A b \in Funders(s) : Funds(s)[b] \in Nat /\ Funds(s)[b] <= s.bids[b].capacity + 55
             /\ sum \in Nat /\ Within(sum, Portal!filledSellNav(s), 5 * Cardinality(Funders(s)) + 50)
<1> DEFINE filled == Portal!filledSellNav(s)
           lead == Portal!leadCapacity(s)
           all == Portal!syndicateCapacity(s)
           leader == s.leadBuyerId
           syn == s.syndicateIds
           n == Cardinality(syn)
           some == SumFunctionOnSet(Funds(s), syn)
           led == Funds(s)[leader]
<1>1. /\ filled \in Nat /\ lead \in Nat /\ all \in Nat /\ lead = s.bids[leader].capacity
      /\ filled <= lead + all + 50
  <2>1. leader \in Funders(s)
    BY DEF Funders
  <2>2. filled \in Nat /\ filled <= Portal!buyerCapacity(s) /\ Portal!buyerCapacity(s) \in Nat
        /\ Within(Portal!buyerCapacity(s), lead + all, 50)
    BY DemandIsNear
  <2>3. lead \in Nat /\ all \in Nat /\ lead = s.bids[leader].capacity
    BY <2>1, FiguresAreTyped
  <2> HIDE DEF filled, lead, all
  <2>4. QED
    BY <2>2, <2>3 DEF Within
<1>2. /\ leader \notin syn /\ Funders(s) = syn \cup {leader} /\ IsFiniteSet(syn) /\ n \in Nat
      /\ Cardinality(Funders(s)) = n + 1
  <2>1. leader \notin syn /\ Funders(s) = syn \cup {leader}
    BY DEF HasLead, Booked, Funders
  <2>2. IsFiniteSet(syn)
    BY FiguresAreTyped
  <2>3. QED
    BY <2>1, <2>2, FS_AddElement, FS_CardinalityType
<1>3. \A b \in syn : Bids(s)[b] = s.bids[b].capacity /\ Bids(s)[b] \in Nat /\ Bids(s)[b] <= all
  <2>1. \A b \in syn : Bids(s)[b] = s.bids[b].capacity /\ Bids(s)[b] \in Nat
    BY <1>2, FiguresAreTyped DEF Bids
  <2>2. all = SumFunctionOnSet(Bids(s), syn)
    BY SameData DEF Portal!syndicateCapacity, Portal!CapacityOf, Bids
  <2> HIDE DEF all, syn
  <2>3. ASSUME NEW b \in syn PROVE Bids(s)[b] <= all
    <3>1. SumFunctionOnSet(Bids(s), {b}) <= SumFunctionOnSet(Bids(s), syn)
      BY <1>2, <2>1, SumOfPart
    <3>2. SumFunctionOnSet(Bids(s), {b}) = Bids(s)[b]
      <4>1. Bids(s)[b] \in Int
        BY <2>1
      <4>2. QED
        BY <4>1, SumOfOne
    <3>3. QED
      BY <2>2, <3>1, <3>2
  <2>4. QED
    BY <2>1, <2>3
<1>4. /\ led \in Nat /\ led <= lead + 5
      /\ Within(led, IF filled < lead THEN filled ELSE lead, 5)
  <2> DEFINE m == IF filled < lead THEN filled ELSE lead
  <2>1. m \in Nat /\ m <= lead
    BY <1>1
  <2>2. led = Portal!toFixed(3, m, 1)
    BY <1>2 DEF Funds, Portal!buyerFundedNav
  <2> HIDE DEF m, led, filled, lead
  <2>3. LET r == Portal!toFixed(3, m, 1) IN r \in Nat /\ Within(1 * r, m, 5 * 1)
    BY <2>1, Thousandth
  <2>4. led \in Nat /\ Within(led, m, 5)
    BY <2>2, <2>3 DEF Within
  <2>5. QED
    BY <1>1, <2>1, <2>4 DEF Within, m
<1>5. CASE all > 0 /\ filled > lead
  <2> DEFINE need == filled - lead
  <2>1. need \in Nat /\ all \in Nat \ {0} /\ need <= all + 50
    BY <1>1, <1>5
  <2>2. ASSUME NEW b \in syn
        PROVE  /\ Funds(s)[b] \in Nat /\ Funds(s)[b] <= s.bids[b].capacity + 55
               /\ Within(all * Funds(s)[b], need * Bids(s)[b], 5 * all)
    <3>1. Funds(s)[b] = Portal!toFixed(3, need * Bids(s)[b], all)
      BY <1>2, <1>3, <1>5 DEF Funds, Portal!buyerFundedNav
    <3> DEFINE c == Bids(s)[b]
    <3>2. c \in Nat /\ c <= all /\ c = s.bids[b].capacity
      BY <1>3
    <3> HIDE DEF need, all, c
    <3>3. LET r == Portal!toFixed(3, need * c, all)
          IN  r \in Nat /\ Within(all * r, need * c, 5 * all) /\ r <= c + 55
      BY <2>1, <3>2, ShareIsNear
    <3>4. QED
      BY <3>1, <3>2, <3>3 DEF c
  <2> HIDE DEF need, syn
  <2>3. Track(Funds(s), Bids(s), syn, all, need, 5 * all)
    BY <1>3, <2>2 DEF Track
  <2>4. all \in Int /\ need \in Int /\ 5 * all \in Int
    BY <2>1
  <2>5. Within(all * some, need * SumFunctionOnSet(Bids(s), syn), (5 * all) * n)
    <3> HIDE DEF all
    <3>1. QED
      BY <1>2, <2>3, <2>4, SumsTrack
  <2>6. SumFunctionOnSet(Bids(s), syn) = all
    BY SameData DEF Portal!syndicateCapacity, Portal!CapacityOf, Bids, syn
  <2>7. some \in Nat
    BY <1>2, <2>2, SumIsNat
  <2> HIDE DEF some, n, all
  <2>8. Within(some, need, 5 * n)
    <3>1. need * all = all * need /\ (5 * all) * n = all * (5 * n)
      BY <1>2, <2>1
    <3>2. Within(all * some, all * need, all * (5 * n))
      BY ONLY <2>5, <2>6, <3>1, Zenon
    <3>3. some \in Int /\ need \in Int /\ 5 * n \in Int
      BY <1>2, <2>1, <2>7
    <3>4. QED
      BY ONLY <2>1, <3>2, <3>3, WithinPerEach
  <2> HIDE DEF filled, lead, led
  <2>9. Within(led + some, filled, 5 * (n + 1) + 50)
    BY <1>1, <1>2, <1>4, <1>5, <2>1, <2>7, <2>8 DEF Within, need
  <2>10. SumFunctionOnSet(Funds(s), Funders(s)) = led + some
    <3>1. \A b \in syn \cup {leader} : Funds(s)[b] \in Int
      BY <1>4, <2>2 DEF led
    <3>2. QED
      BY <1>2, <3>1, SumAddsOne DEF led, some
  <2>11. QED
    BY <1>1, <1>2, <1>4, <2>2, <2>7, <2>9, <2>10 DEF led, filled, lead
<1>6. CASE ~(all > 0 /\ filled > lead)
  <2>1. \A b \in syn : Funds(s)[b] = 0
    BY <1>2, <1>6 DEF Funds, Portal!buyerFundedNav
  <2>2. \A b \in syn \cup {leader} : Funds(s)[b] \in Int
    BY <1>4, <2>1
  <2> HIDE DEF syn, led
  <2>3. SumFunctionOnSet(Funds(s), Funders(s)) = led + some
    BY <1>2, <2>2, SumAddsOne DEF led
  <2>4. some = 0
    <3>1. IsFiniteSet(syn) /\ {} \in SUBSET syn /\ \A b \in syn \ {} : Funds(s)[b] = 0
      BY <1>2, <2>1
    <3>2. SumFunctionOnSet(Funds(s), syn) = SumFunctionOnSet(Funds(s), {})
      BY <2>2, <3>1, SumOfSome
    <3>3. QED
      BY <3>2, SumOfNone
  <2> HIDE DEF some, n, filled, lead, all
  <2>5. Within(led + some, filled, 5 * (n + 1) + 50) /\ led + some \in Nat
    <3>1. CASE filled < lead
      BY <1>1, <1>2, <1>4, <2>4, <3>1 DEF Within
    <3>2. CASE ~(filled < lead)
      BY <1>1, <1>2, <1>4, <1>6, <2>4, <3>2 DEF Within
    <3>3. QED
      BY <3>1, <3>2
  <2>6. \A b \in syn : Funds(s)[b] <= s.bids[b].capacity + 55
    BY <1>3, <2>1
  <2>7. QED
    BY <1>1, <1>2, <1>4, <2>1, <2>3, <2>5, <2>6 DEF led, filled, lead
<1>7. QED
  BY <1>5, <1>6

\* total is nav at the price of s, within e of each other.
Priced(s, total, nav, e) == Within(Whole * total, s.clearingPrice * nav, Whole * e)

\* What is near a nav that is priced is priced.
LEMMA PricedNear ==
  ASSUME NEW s, s.clearingPrice \in 0 .. Whole, NEW t \in Int, NEW x \in Int, NEW y \in Int,
         NEW e \in Int, NEW d \in Nat, Priced(s, t, x, e), Within(x, y, d)
  PROVE  Priced(s, t, y, e + d)
<1> DEFINE p == s.clearingPrice
           wt == Whole * t
           px == p * x
           py == p * y
           we == Whole * e
           wd == Whole * d
           pd == p * d
<1>1. p \in Nat /\ p <= Whole /\ Whole \in Nat
  BY MoneyAssumption
<1>2. Within(px, py, pd)
  BY <1>1, WithinTimes
<1> HIDE DEF p
<1>3. /\ wt \in Int /\ px \in Int /\ py \in Int /\ we \in Int /\ wd \in Int /\ pd \in Int
      /\ pd <= wd /\ Whole * (e + d) = we + wd
  <2>1. \A i, j, k \in Nat : i <= j => i * k <= j * k
    OBVIOUS
  <2>2. \A i, j, k \in Int : i * (j + k) = i * j + i * k
    OBVIOUS
  <2>3. pd <= wd
    BY <1>1, <2>1
  <2>4. Whole * (e + d) = we + wd
    BY <1>1, <2>2
  <2>5. QED
    BY <1>1, <2>3, <2>4
<1>4. Within(wt, px, we)
  BY DEF Priced, p
<1> HIDE DEF wt, px, py, we, wd, pd
<1>5. Within(wt, py, we + wd)
  BY <1>2, <1>3, <1>4 DEF Within
<1>6. QED
  BY <1>3, <1>5 DEF Priced, p, wt, py

\* What is priced adds up.
LEMMA PricedSum ==
  ASSUME NEW s, s.clearingPrice \in 0 .. Whole, NEW t \in Int, NEW u \in Int, NEW x \in Int, NEW y \in Int,
         NEW e \in Int, NEW d \in Int, Priced(s, t, x, e), Priced(s, u, y, d)
  PROVE  Priced(s, t + u, x + y, e + d)
<1> DEFINE p == s.clearingPrice
           wt == Whole * t
           wu == Whole * u
           px == p * x
           py == p * y
           we == Whole * e
           wd == Whole * d
<1>1. p \in Int /\ Whole \in Int
  BY MoneyAssumption
<1> HIDE DEF p
<1>2. /\ wt \in Int /\ wu \in Int /\ px \in Int /\ py \in Int /\ we \in Int /\ wd \in Int
      /\ Whole * (e + d) = we + wd /\ Whole * (t + u) = wt + wu /\ p * (x + y) = px + py
  <2>1. \A i, j, k \in Int : i * (j + k) = i * j + i * k
    OBVIOUS
  <2>2. Whole * (e + d) = we + wd /\ Whole * (t + u) = wt + wu /\ p * (x + y) = px + py
    BY <1>1, <2>1
  <2>3. QED
    BY <1>1, <2>2
<1>3. Within(wt, px, we) /\ Within(wu, py, wd)
  BY DEF Priced, p
<1> HIDE DEF wt, wu, px, py, we, wd
<1>4. Within(wt + wu, px + py, we + wd)
  BY <1>2, <1>3 DEF Within
<1>5. QED
  BY <1>2, <1>4 DEF Priced, p

\* Two prices of one nav are near each other.
LEMMA PricedAlike ==
  ASSUME NEW s, s.clearingPrice \in 0 .. Whole, NEW t \in Int, NEW u \in Int, NEW x \in Int,
         NEW e \in Int, NEW d \in Int, Priced(s, t, x, e), Priced(s, u, x, d)
  PROVE  Within(t, u, e + d)
<1> DEFINE p == s.clearingPrice
           wt == Whole * t
           wu == Whole * u
           px == p * x
           we == Whole * e
           wd == Whole * d
<1>1. p \in Int /\ Whole \in Nat \ {0}
  BY MoneyAssumption
<1> HIDE DEF p
<1>2. /\ wt \in Int /\ wu \in Int /\ px \in Int /\ we \in Int /\ wd \in Int
      /\ Whole * (e + d) = we + wd
  <2>1. \A i, j, k \in Int : i * (j + k) = i * j + i * k
    OBVIOUS
  <2>2. Whole * (e + d) = we + wd
    BY <1>1, <2>1
  <2>3. QED
    BY <1>1, <2>2
<1>3. Within(wt, px, we) /\ Within(wu, px, wd)
  BY DEF Priced, p
<1> HIDE DEF wt, wu, px, we, wd
<1>4. Within(wt, wu, we + wd)
  BY <1>2, <1>3 DEF Within
<1>5. Within(Whole * t, Whole * u, Whole * (e + d))
  BY <1>2, <1>4 DEF wt, wu
<1>6. QED
  <2>1. e + d \in Int
    OBVIOUS
  <2>2. QED
    BY <1>1, <1>5, <2>1, WithinPerEach

\* A single amount is half a thousandth off at most.
LEMMA PricedOne ==
  ASSUME NEW s, s.clearingPrice \in 0 .. Whole, NEW nav \in Nat
  PROVE  Portal!AtPrice(s, nav) \in Nat /\ Priced(s, Portal!AtPrice(s, nav), nav, 5)
<1> DEFINE p == s.clearingPrice
           x == p * nav
           r == Portal!toFixed(3, x, Whole)
<1>1. p \in Nat /\ Whole \in Nat \ {0} /\ nav * p = p * nav
  BY MoneyAssumption
<1>2. Portal!AtPrice(s, nav) = r
  BY <1>1 DEF Portal!AtPrice
<1>3. x \in Nat
  BY <1>1
<1>4. r \in Nat /\ Within(Whole * r, x, 5 * Whole)
  <2> HIDE DEF x
  <2>1. QED
    BY <1>1, <1>3, Thousandth
<1>5. 5 * Whole = Whole * 5
  BY <1>1
<1> HIDE DEF r
<1>6. QED
  BY ONLY <1>2, <1>4, <1>5, Zenon DEF Priced, x, p

\* What those of T get who are due f: an amount of a 0.0001M or less is not paid.
Paid(s, f, T) == [x \in T |-> IF f[x] > 1 THEN Portal!AtPrice(s, f[x]) ELSE 0]

LEMMA PaidIsPriced ==
  ASSUME NEW s, s.clearingPrice \in 0 .. Whole, NEW T, IsFiniteSet(T), NEW f, \A x \in T : f[x] \in Nat
  PROVE  LET h == Paid(s, f, T)
         IN  /\ \A x \in T : h[x] \in Nat
             /\ SumFunctionOnSet(h, T) \in Nat
             /\ Priced(s, SumFunctionOnSet(h, T), SumFunctionOnSet(f, T), 5 * Cardinality(T))
<1> DEFINE p == s.clearingPrice
           h == Paid(s, f, T)
           n == Cardinality(T)
<1>1. p \in Int /\ Whole \in Int /\ n \in Int
  BY MoneyAssumption, FS_CardinalityType
<1>2. ASSUME NEW x \in T PROVE h[x] \in Nat /\ Priced(s, h[x], f[x], 5)
  <2> DEFINE v == f[x]
             r == h[x]
  <2>1. v \in Nat /\ r = IF v > 1 THEN Portal!AtPrice(s, v) ELSE 0
    BY DEF Paid
  <2> HIDE DEF v, r
  <2>2. CASE v > 1
    BY <2>1, <2>2, PricedOne DEF v, r
  <2>3. CASE ~(v > 1)
    <3>1. r = 0 /\ (v = 0 \/ v = 1)
      BY <2>1, <2>3
    <3>2. Within(Whole * 0, p * v, Whole * 5)
      BY <1>1, <3>1, MoneyAssumption DEF Within
    <3>3. QED
      BY <3>1, <3>2 DEF Priced, v, r
  <2>4. QED
    BY <2>2, <2>3
<1>3. Track(h, f, T, Whole, p, Whole * 5)
  <2> HIDE DEF h
  <2>1. QED
    BY <1>2 DEF Track, Priced
<1>4. SumFunctionOnSet(h, T) \in Nat
  <2> HIDE DEF h
  <2>1. QED
    BY <1>2, SumIsNat
<1> HIDE DEF h, p, n
<1>5. Within(Whole * SumFunctionOnSet(h, T), p * SumFunctionOnSet(f, T), (Whole * 5) * n)
  <2>1. Whole * 5 \in Int
    BY <1>1
  <2>2. QED
    BY <1>1, <1>3, <2>1, SumsTrack DEF n
<1>6. (Whole * 5) * n = Whole * (5 * n)
  BY <1>1
<1>7. Priced(s, SumFunctionOnSet(h, T), SumFunctionOnSet(f, T), 5 * n)
  BY ONLY <1>5, <1>6, Zenon DEF Priced, p
<1>8. QED
  BY <1>2, <1>4, <1>7 DEF h, n

\* The legs of a kind to those of P pay what each of them gets.
LEMMA LegsPay ==
  ASSUME NEW s, NEW kind, NEW P, NEW T, IsFiniteSet(T), NEW A \in SUBSET T, NEW h,
         \A x \in T : h[x] \in Int, \A x \in T \ A : h[x] = 0,
         {leg \in s.legs : leg.kind = kind /\ leg.to \in P} = {Portal!Leg(kind, x, h[x]) : x \in A}
  PROVE  Portal!Legs(s, kind, P) = SumFunctionOnSet(h, T)
<1> DEFINE f == [leg \in s.legs |-> leg.amount]
           g == [x \in A |-> Portal!Leg(kind, x, h[x])]
           img == {leg \in s.legs : leg.kind = kind /\ leg.to \in P}
<1>1. img = {g[x] : x \in A}
  OBVIOUS
<1>2. OneToOne(g, A)
  BY DEF OneToOne, Portal!Leg
<1>3. \A x \in A : h[x] \in Int /\ f[g[x]] = h[x]
  <2>1. ASSUME NEW x \in A PROVE f[g[x]] = h[x]
    <3>1. g[x] = Portal!Leg(kind, x, h[x]) /\ g[x] \in img
      BY <1>1
    <3>2. g[x] \in s.legs
      BY <3>1
    <3>3. f[g[x]] = g[x].amount
      BY <3>2
    <3>4. QED
      BY <3>1, <3>3 DEF Portal!Leg
  <2>2. QED
    BY <2>1
<1>4. IsFiniteSet(A)
  BY FS_Subset
<1>5. Portal!Legs(s, kind, P) = SumFunctionOnSet(f, img)
  BY SameData DEF Portal!Legs
<1> HIDE DEF f, g, img
<1>6. SumFunctionOnSet(f, img) = SumFunctionOnSet(h, A)
  BY <1>1, <1>2, <1>3, <1>4, SumOfImage
<1>7. SumFunctionOnSet(h, T) = SumFunctionOnSet(h, A)
  BY SumOfSome
<1>8. QED
  BY <1>5, <1>6, <1>7

\* The legs of a deal pay its sellers, its rollers, its buyers and the vehicle.
LEMMA LegsOfKind ==
  ASSUME NEW s, HasLead(s), s.legs = Portal!computeAllocation(s)
  PROVE  LET lps == Portal!deal(s).lps  buyers == ToSet(Portal!deal(s).buyers) IN
         /\ Portal!Legs(s, "cash", lps) = SumFunctionOnSet(Paid(s, Fills(s), lpsOf(s)), lpsOf(s))
         /\ Portal!Legs(s, "units", lps) = SumFunctionOnSet(Paid(s, Keeps(s), lpsOf(s)), lpsOf(s))
         /\ Portal!Legs(s, "units", buyers) = SumFunctionOnSet(Paid(s, Funds(s), Funders(s)), Funders(s))
         /\ Portal!Legs(s, "asset", {"vehicle"}) = Portal!assetNavIn(s)
<1> DEFINE lps == lpsOf(s)
           buyers == ToSet(Portal!deal(s).buyers)
<1>1. lps \cap buyers = {} /\ s.clearingPrice \in 0 .. Whole
  <2>1. s.dealNo \in DOMAIN Deals /\ s.clearingPrice \in 0 .. Whole
    BY DEF HasLead, Booked
  <2>2. Deals[s.dealNo].lps \cap ToSet(Deals[s.dealNo].buyers) = {}
    BY <2>1, SeedAssumption, SameData DEF Portal!SeedOK
  <2>3. QED
    BY <2>1, <2>2 DEF Portal!deal, lpsOf
<1>2. lps = Portal!deal(s).lps
  BY DEF lpsOf
<1>3. IsFiniteSet(lps) /\ IsFiniteSet(Funders(s)) /\ Funders(s) \subseteq buyers
  <2>1. Funders(s) \subseteq buyers
    BY DEF HasLead, Booked, Funders
  <2>2. QED
    BY <2>1, FiguresAreTyped
<1> DEFINE cash == {Portal!Leg("cash", l, Portal!AtPrice(s, Portal!lpFilledSell(s, l))) :
                      l \in {l \in lps : Portal!lpFilledSell(s, l) > 1}}
           kept == {Portal!Leg("units", l, Portal!AtPrice(s, Portal!Rolling(s, l))) :
                      l \in {l \in lps : Portal!Rolling(s, l) > 1}}
           bought == {Portal!Leg("units", b, Portal!AtPrice(s, Portal!buyerFundedNav(s, b))) :
                        b \in {b \in buyers : Portal!buyerFundedNav(s, b) > 1}}
           asset == Portal!Leg("asset", "vehicle", Portal!assetNavIn(s))
<1>4. s.legs = cash \cup kept \cup bought \cup {asset}
  BY SameData DEF Portal!computeAllocation, lpsOf
<1> DEFINE A == {l \in lps : Fills(s)[l] > 1}
           h == Paid(s, Fills(s), lps)
           B == {l \in lps : Keeps(s)[l] > 1}
           k == Paid(s, Keeps(s), lps)
           C == {b \in Funders(s) : Funds(s)[b] > 1}
           j == Paid(s, Funds(s), Funders(s))
<1>5. cash = {Portal!Leg("cash", x, h[x]) : x \in A}
  <2>1. \A l \in lps : Fills(s)[l] = Portal!lpFilledSell(s, l)
    BY DEF Fills
  <2>2. \A l \in A : h[l] = Portal!AtPrice(s, Fills(s)[l])
    BY DEF Paid
  <2>3. A = {l \in lps : Portal!lpFilledSell(s, l) > 1}
    BY <2>1
  <2>4. \A l \in A : Portal!Leg("cash", l, h[l]) = Portal!Leg("cash", l, Portal!AtPrice(s, Portal!lpFilledSell(s, l)))
    BY <2>1, <2>2
  <2> HIDE DEF A, h, lps
  <2>5. QED
    BY <2>3, <2>4
<1>6. kept = {Portal!Leg("units", x, k[x]) : x \in B}
  <2>1. \A l \in lps : Keeps(s)[l] = Portal!Rolling(s, l)
    BY DEF Keeps
  <2>2. \A l \in B : k[l] = Portal!AtPrice(s, Keeps(s)[l])
    BY DEF Paid
  <2>3. B = {l \in lps : Portal!Rolling(s, l) > 1}
    BY <2>1
  <2>4. \A l \in B : Portal!Leg("units", l, k[l]) = Portal!Leg("units", l, Portal!AtPrice(s, Portal!Rolling(s, l)))
    BY <2>1, <2>2
  <2> HIDE DEF B, k, lps
  <2>5. QED
    BY <2>3, <2>4
<1>7. bought = {Portal!Leg("units", x, j[x]) : x \in C}
  <2>1. \A b \in Funders(s) : Funds(s)[b] = Portal!buyerFundedNav(s, b)
    BY DEF Funds
  <2>2. \A b \in C : j[b] = Portal!AtPrice(s, Funds(s)[b])
    BY DEF Paid
  <2>3. \A b \in buyers \ Funders(s) : Portal!buyerFundedNav(s, b) = 0
    BY DEF Portal!buyerFundedNav, Funders
  <2>4. C = {b \in buyers : Portal!buyerFundedNav(s, b) > 1}
    BY <1>3, <2>1, <2>3
  <2>5. \A b \in C : Portal!Leg("units", b, j[b]) = Portal!Leg("units", b, Portal!AtPrice(s, Portal!buyerFundedNav(s, b)))
    BY <2>1, <2>2
  <2> HIDE DEF C, j, buyers
  <2>6. QED
    BY <2>4, <2>5
<1>8. /\ \A l \in lps : h[l] \in Int /\ k[l] \in Int
      /\ \A b \in Funders(s) : j[b] \in Int
      /\ \A l \in lps \ A : h[l] = 0
      /\ \A l \in lps \ B : k[l] = 0
      /\ \A b \in Funders(s) \ C : j[b] = 0
  <2>1. \A l \in lps : Fills(s)[l] \in Nat /\ Keeps(s)[l] \in Nat
    BY SellersAreFilled, FiguresAreTyped DEF Keeps
  <2>2. \A b \in Funders(s) : Funds(s)[b] \in Nat
    BY BuyersFund
  <2>3. \A l \in lps : h[l] \in Nat
    BY <1>1, <1>3, <2>1, PaidIsPriced
  <2>4. \A l \in lps : k[l] \in Nat
    BY <1>1, <1>3, <2>1, PaidIsPriced
  <2>5. \A b \in Funders(s) : j[b] \in Nat
    BY <1>1, <1>3, <2>2, PaidIsPriced
  <2>6. \A l \in lps \ A : h[l] = 0
    BY DEF Paid
  <2>7. \A l \in lps \ B : k[l] = 0
    BY DEF Paid
  <2>8. \A b \in Funders(s) \ C : j[b] = 0
    BY DEF Paid
  <2>9. QED
    BY <2>3, <2>4, <2>5, <2>6, <2>7, <2>8
<1>9. A \in SUBSET lps /\ B \in SUBSET lps /\ C \in SUBSET Funders(s)
  OBVIOUS
<1>10. /\ \A leg \in cash : leg.kind = "cash" /\ leg.to \in lps
       /\ \A leg \in kept : leg.kind = "units" /\ leg.to \in lps
       /\ \A leg \in bought : leg.kind = "units" /\ leg.to \in buyers
       /\ asset.kind = "asset" /\ asset.to = "vehicle" /\ asset.amount = Portal!assetNavIn(s)
  <2> HIDE DEF lps, buyers
  <2>1. QED
    BY DEF Portal!Leg
<1> HIDE DEF cash, kept, bought, asset, A, B, C, h, k, j, lps, buyers
<1>11. {leg \in s.legs : leg.kind = "cash" /\ leg.to \in lps} = cash
  <2>1. \A leg \in s.legs : leg.kind = "cash" => leg \in cash
    BY <1>4, <1>10
  <2>2. \A leg \in cash : leg \in s.legs
    BY <1>4
  <2>3. QED
    BY <1>10, <2>1, <2>2
<1>12. {leg \in s.legs : leg.kind = "units" /\ leg.to \in lps} = kept
  BY <1>1, <1>4, <1>10
<1>13. {leg \in s.legs : leg.kind = "units" /\ leg.to \in buyers} = bought
  BY <1>1, <1>4, <1>10
<1>14. Portal!Legs(s, "cash", lps) = SumFunctionOnSet(h, lps)
  <2>1. {leg \in s.legs : leg.kind = "cash" /\ leg.to \in lps} = {Portal!Leg("cash", x, h[x]) : x \in A}
    BY <1>5, <1>11
  <2>2. \A x \in lps : h[x] \in Int
    BY <1>8
  <2>3. \A x \in lps \ A : h[x] = 0
    BY <1>8
  <2>4. QED
    BY ONLY <1>3, <1>9, <2>1, <2>2, <2>3, LegsPay
<1>15. Portal!Legs(s, "units", lps) = SumFunctionOnSet(k, lps)
  <2>1. {leg \in s.legs : leg.kind = "units" /\ leg.to \in lps} = {Portal!Leg("units", x, k[x]) : x \in B}
    BY <1>6, <1>12
  <2>2. \A x \in lps : k[x] \in Int
    BY <1>8
  <2>3. \A x \in lps \ B : k[x] = 0
    BY <1>8
  <2>4. QED
    BY ONLY <1>3, <1>9, <2>1, <2>2, <2>3, LegsPay
<1>16. Portal!Legs(s, "units", buyers) = SumFunctionOnSet(j, Funders(s))
  <2>1. {leg \in s.legs : leg.kind = "units" /\ leg.to \in buyers} = {Portal!Leg("units", x, j[x]) : x \in C}
    BY <1>7, <1>13
  <2>2. \A x \in Funders(s) : j[x] \in Int
    BY <1>8
  <2>3. \A x \in Funders(s) \ C : j[x] = 0
    BY <1>8
  <2>4. QED
    BY ONLY <1>3, <1>9, <2>1, <2>2, <2>3, LegsPay
<1>17. Portal!Legs(s, "asset", {"vehicle"}) = Portal!assetNavIn(s)
  <2> DEFINE f == [leg \in s.legs |-> leg.amount]
  <2>1. {leg \in s.legs : leg.kind = "asset" /\ leg.to \in {"vehicle"}} = {asset}
    BY <1>4, <1>10
  <2>2. f[asset] = Portal!assetNavIn(s)
    BY <1>4, <1>10
  <2>3. Portal!assetNavIn(s) \in Int
    <3> DEFINE nav == Portal!rollDemand(s) + Portal!filledSellNav(s)
    <3>1. nav \in Nat
      BY DemandIsNear
    <3> HIDE DEF nav
    <3>2. Portal!AtPrice(s, nav) \in Nat
      BY <1>1, <3>1, PricedOne
    <3>3. QED
      BY <3>2 DEF Portal!assetNavIn, nav
  <2>4. Portal!Legs(s, "asset", {"vehicle"}) = SumFunctionOnSet(f, {asset})
    BY <2>1, SameData DEF Portal!Legs
  <2> HIDE DEF f
  <2>5. SumFunctionOnSet(f, {asset}) = f[asset]
    BY <2>2, <2>3, SumOfOne
  <2>6. QED
    BY <2>2, <2>4, <2>5
<1>18. QED
  BY <1>2, <1>14, <1>15, <1>16, <1>17 DEF h, k, j, lps, buyers

\* The legs of a deal with a lead tie out.
LEMMA TiesOutWithLead ==
  ASSUME NEW s, HasLead(s), s.legs = Portal!computeAllocation(s)
  PROVE  Portal!TiesOut(s)
<1> DEFINE lps == lpsOf(s)
           buyers == ToSet(Portal!deal(s).buyers)
           fl == Cardinality(lps)
           fb == Cardinality(Funders(s))
           filled == Portal!filledSellNav(s)
           rolled == Portal!rollDemand(s)
           cash == Portal!Legs(s, "cash", lps)
           kept == Portal!Legs(s, "units", lps)
           bought == Portal!Legs(s, "units", buyers)
           asset == Portal!Legs(s, "asset", {"vehicle"})
           F == SumFunctionOnSet(Fills(s), lps)
           R == SumFunctionOnSet(Keeps(s), lps)
           G == SumFunctionOnSet(Funds(s), Funders(s))
<1>1. s.clearingPrice \in 0 .. Whole
  BY DEF HasLead, Booked
<1>2. /\ fl \in Nat /\ fb \in Nat /\ IsFiniteSet(lps) /\ IsFiniteSet(Funders(s))
      /\ filled \in Nat /\ rolled \in Nat /\ F \in Nat /\ R \in Nat /\ G \in Nat
      /\ Within(2 * F, 2 * filled, fl + 100) /\ Within(rolled, R, 50) /\ Within(G, filled, 5 * fb + 50)
      /\ \A b \in Funders(s) : Funds(s)[b] <= s.bids[b].capacity + 55
  BY FiguresAreTyped, DemandIsNear, SellersAreFilled, BuyersFund, FS_CardinalityType
<1>3. Within(F, filled, fl + 50) /\ Within(R, rolled, 50)
  <2> HIDE DEF fl, filled, rolled, F, R
  <2>1. QED
    BY <1>2 DEF Within
<1>4. cash \in Nat /\ Priced(s, cash, F, 5 * fl)
  <2>1. \A l \in lps : Fills(s)[l] \in Nat
    BY SellersAreFilled
  <2>2. LET h == Paid(s, Fills(s), lps)
        IN  SumFunctionOnSet(h, lps) \in Nat /\ Priced(s, SumFunctionOnSet(h, lps), F, 5 * fl)
    BY <1>1, <1>2, <2>1, PaidIsPriced
  <2>3. cash = SumFunctionOnSet(Paid(s, Fills(s), lps), lps)
    BY LegsOfKind DEF lpsOf
  <2>4. QED
    BY <2>2, <2>3
<1>5. kept \in Nat /\ Priced(s, kept, R, 5 * fl)
  <2>1. \A l \in lps : Keeps(s)[l] \in Nat
    BY FiguresAreTyped DEF Keeps
  <2>2. LET h == Paid(s, Keeps(s), lps)
        IN  SumFunctionOnSet(h, lps) \in Nat /\ Priced(s, SumFunctionOnSet(h, lps), R, 5 * fl)
    BY <1>1, <1>2, <2>1, PaidIsPriced
  <2>3. kept = SumFunctionOnSet(Paid(s, Keeps(s), lps), lps)
    BY LegsOfKind DEF lpsOf
  <2>4. QED
    BY <2>2, <2>3
<1>6. bought \in Nat /\ Priced(s, bought, G, 5 * fb)
  <2>1. \A b \in Funders(s) : Funds(s)[b] \in Nat
    BY BuyersFund
  <2>2. LET h == Paid(s, Funds(s), Funders(s))
        IN  SumFunctionOnSet(h, Funders(s)) \in Nat /\ Priced(s, SumFunctionOnSet(h, Funders(s)), G, 5 * fb)
    BY <1>1, <1>2, <2>1, PaidIsPriced
  <2>3. bought = SumFunctionOnSet(Paid(s, Funds(s), Funders(s)), Funders(s))
    BY LegsOfKind
  <2>4. QED
    BY <2>2, <2>3
<1>7. asset \in Nat /\ Priced(s, asset, rolled + filled, 5)
  <2> DEFINE nav == rolled + filled
  <2>1. nav \in Nat
    BY <1>2
  <2>2. asset = Portal!AtPrice(s, nav)
    BY LegsOfKind DEF Portal!assetNavIn
  <2> HIDE DEF nav, asset
  <2>3. Portal!AtPrice(s, nav) \in Nat /\ Priced(s, Portal!AtPrice(s, nav), nav, 5)
    BY <1>1, <2>1, PricedOne
  <2>4. QED
    BY <2>2, <2>3 DEF nav
<1> HIDE DEF fl, fb, filled, rolled, cash, kept, bought, asset, F, R, G
<1>8. Priced(s, cash, filled, 5 * fl + (fl + 50))
  <2>1. cash \in Int /\ F \in Int /\ filled \in Int /\ 5 * fl \in Int /\ fl + 50 \in Nat
    BY <1>2, <1>4
  <2>2. QED
    BY ONLY <1>1, <1>3, <1>4, <2>1, PricedNear
<1>9. Priced(s, kept, rolled, 5 * fl + 50)
  <2>1. kept \in Int /\ R \in Int /\ rolled \in Int /\ 5 * fl \in Int /\ 50 \in Nat
    BY <1>2, <1>5
  <2>2. QED
    BY ONLY <1>1, <1>3, <1>5, <2>1, PricedNear
<1>10. Priced(s, bought, filled, 5 * fb + (5 * fb + 50))
  <2>1. bought \in Int /\ G \in Int /\ filled \in Int /\ 5 * fb \in Int /\ 5 * fb + 50 \in Nat
    BY <1>2, <1>6
  <2>2. QED
    BY ONLY <1>1, <1>2, <1>6, <2>1, PricedNear
<1>11. Within(cash, bought, (5 * fl + (fl + 50)) + (5 * fb + (5 * fb + 50)))
  <2>1. /\ cash \in Int /\ bought \in Int /\ filled \in Int /\ 5 * fl + (fl + 50) \in Int
        /\ 5 * fb + (5 * fb + 50) \in Int
    BY <1>2, <1>4, <1>6
  <2>2. QED
    BY ONLY <1>1, <1>8, <1>10, <2>1, PricedAlike
<1>12. Priced(s, kept + bought, rolled + filled, (5 * fl + 50) + (5 * fb + (5 * fb + 50)))
  <2>1. /\ kept \in Int /\ bought \in Int /\ filled \in Int /\ rolled \in Int /\ 5 * fl + 50 \in Int
        /\ 5 * fb + (5 * fb + 50) \in Int
    BY <1>2, <1>5, <1>6
  <2>2. QED
    BY ONLY <1>1, <1>9, <1>10, <2>1, PricedSum
<1>13. Within(kept + bought, asset, ((5 * fl + 50) + (5 * fb + (5 * fb + 50))) + 5)
  <2>1. /\ kept + bought \in Int /\ asset \in Int /\ rolled + filled \in Int /\ 5 \in Int
        /\ (5 * fl + 50) + (5 * fb + (5 * fb + 50)) \in Int
    BY <1>2, <1>5, <1>6, <1>7
  <2>2. QED
    BY ONLY <1>1, <1>7, <1>12, <2>1, PricedAlike
<1>14. Portal!Slack(s) = 6 * fl + 10 * fb + 105
  BY SameData DEF Portal!Slack, fl, fb, lpsOf, Funders
<1> DEFINE slack == Portal!Slack(s)
<1>15. (kept + bought) - asset \in -slack .. slack /\ cash - bought \in -slack .. slack
  <2>1. slack = 6 * fl + 10 * fb + 105
    BY <1>14
  <2> HIDE DEF slack
  <2>2. QED
    BY <1>2, <1>4, <1>5, <1>6, <1>7, <1>11, <1>13, <2>1 DEF Within
<1>16. Portal!Near(s, kept + bought, asset) /\ Portal!Near(s, cash, bought)
  BY <1>15 DEF Portal!Near
<1>17. \A b \in s.syndicateIds \cup {s.leadBuyerId} : Portal!buyerFundedNav(s, b) <= s.bids[b].capacity + 55
  BY <1>2 DEF Funds, Funders
<1>18. /\ cash = Portal!Legs(s, "cash", Portal!deal(s).lps) /\ kept = Portal!Legs(s, "units", Portal!deal(s).lps)
       /\ bought = Portal!Legs(s, "units", Portal!ToSet(Portal!deal(s).buyers))
       /\ asset = Portal!Legs(s, "asset", {"vehicle"})
  BY SameData DEF cash, kept, bought, asset, lpsOf
<1> HIDE DEF lps, buyers, slack
<1>19. /\ Portal!Near(s, Portal!Legs(s, "units", Portal!deal(s).lps)
                          + Portal!Legs(s, "units", Portal!ToSet(Portal!deal(s).buyers)),
                       Portal!Legs(s, "asset", {"vehicle"}))
       /\ Portal!Near(s, Portal!Legs(s, "cash", Portal!deal(s).lps),
                       Portal!Legs(s, "units", Portal!ToSet(Portal!deal(s).buyers)))
  BY ONLY <1>16, <1>18, Zenon
<1>20. QED
  BY ONLY <1>17, <1>19, Zenon DEF Portal!TiesOut

-----------------------------------------------------------------------------
(* The figures *)

\* The figures of the portal are of the book, the elections, the lead, its
\* price and the syndicate, and of nothing else in the deal.
LEMMA SameFigures ==
  ASSUME NEW x, NEW s, x.dealNo = s.dealNo, x.bids = s.bids, x.clearingPrice = s.clearingPrice,
         x.leadBuyerId = s.leadBuyerId, x.syndicateIds = s.syndicateIds, x.elections = s.elections,
         x.electionsClosed = s.electionsClosed
  PROVE  /\ Portal!computeAllocation(x) = Portal!computeAllocation(s)
         /\ (x.legs = {} <=> s.legs = {}) => Portal!approvalParties(x) = Portal!approvalParties(s)
<1>1. Portal!deal(x) = Portal!deal(s) /\ Portal!Elected(x) = Portal!Elected(s)
  BY DEF Portal!deal, Portal!Elected
<1>2. \A l : Portal!electionFor(x, l) = Portal!electionFor(s, l)
  BY <1>1 DEF Portal!electionFor
<1>3. \A l : Portal!Selling(x, l) = Portal!Selling(s, l) /\ Portal!Rolling(x, l) = Portal!Rolling(s, l)
  BY <1>1, <1>2 DEF Portal!Selling, Portal!Rolling
<1>4. /\ [l \in Portal!deal(x).lps |-> Portal!Selling(x, l)] = [l \in Portal!deal(s).lps |-> Portal!Selling(s, l)]
      /\ [l \in Portal!deal(x).lps |-> Portal!Rolling(x, l)] = [l \in Portal!deal(s).lps |-> Portal!Rolling(s, l)]
  BY <1>1, <1>3
<1>5. Portal!sellDemand(x) = Portal!sellDemand(s) /\ Portal!rollDemand(x) = Portal!rollDemand(s)
  BY <1>1, <1>4 DEF Portal!sellDemand, Portal!rollDemand
<1>6. /\ Portal!leadCapacity(x) = Portal!leadCapacity(s)
      /\ Portal!syndicateCapacity(x) = Portal!syndicateCapacity(s)
  BY DEF Portal!leadCapacity, Portal!syndicateCapacity, Portal!CapacityOf
<1>7. /\ Portal!buyerCapacity(x) = Portal!buyerCapacity(s)
      /\ Portal!oversubscribed(x) <=> Portal!oversubscribed(s)
  BY <1>5, <1>6 DEF Portal!buyerCapacity, Portal!oversubscribed
<1>8. Portal!filledSellNav(x) = Portal!filledSellNav(s)
  BY <1>5, <1>7 DEF Portal!filledSellNav
<1>9. /\ \A l : Portal!lpFilledSell(x, l) = Portal!lpFilledSell(s, l)
      /\ \A b : Portal!buyerFundedNav(x, b) = Portal!buyerFundedNav(s, b)
      /\ \A n : Portal!AtPrice(x, n) = Portal!AtPrice(s, n)
  <2>1. \A l : Portal!lpFilledSell(x, l) = Portal!lpFilledSell(s, l)
    BY <1>3, <1>5, <1>7 DEF Portal!lpFilledSell
  <2>2. \A b : Portal!buyerFundedNav(x, b) = Portal!buyerFundedNav(s, b)
    BY <1>6, <1>8 DEF Portal!buyerFundedNav
  <2>3. \A n : Portal!AtPrice(x, n) = Portal!AtPrice(s, n)
    BY DEF Portal!AtPrice
  <2>4. QED
    BY <2>1, <2>2, <2>3
<1>10. Portal!assetNavIn(x) = Portal!assetNavIn(s)
  BY <1>5, <1>8, <1>9 DEF Portal!assetNavIn
<1>11. Portal!computeAllocation(x) = Portal!computeAllocation(s)
  BY <1>1, <1>3, <1>9, <1>10 DEF Portal!computeAllocation
<1>12. (x.legs = {} <=> s.legs = {}) => Portal!approvalParties(x) = Portal!approvalParties(s)
  BY <1>1, <1>3, <1>9 DEF Portal!approvalParties
<1>13. QED
  BY <1>11, <1>12

\* So are those of the prototype, of the elections and the offer.
LEMMA ProtoSameFigures ==
  ASSUME NEW x, NEW s, x.dealNo = s.dealNo, x.elections = s.elections, x.offer = s.offer
  PROVE  Proto!computeAllocation(x) = Proto!computeAllocation(s)
BY DEF Proto!computeAllocation, Proto!cashAmount, Proto!assetNav, Proto!buyNav, Proto!rollNav, Proto!exitNav,
       Proto!buyPrice, Proto!buyCapacity, Proto!Elected, Proto!deal

\* The stages of a deal that has been allocated.
Later == Portal!Allocated \cup {"declined"}

\* The legs are those of the figures, and what a task counts on is there.
PortalTallies(s) ==
  /\ Booked(s)
  /\ s.legs # {} => s.stage \in Later /\ Portal!Current(s)
  /\ s.stage = "allocation" => s.legs # {}
  /\ s.stage \in {"setup", "bidding"} => ~s.bidsOpen
  /\ Portal!Filed(s) # {}

\* So are the four of the prototype.
ProtoTallies(s) ==
  s.allocation # {} =>
    /\ s.stage \in {"compute", "approve", "close", "closing", "settled"}
    /\ s.allocation = {Proto!computeAllocation(s)}

\* They stay so while what they are computed from does.
LEMMA StillBooked ==
  ASSUME NEW c, NEW s, Booked(c), s.dealNo = c.dealNo, s.bids = c.bids, s.clearingPrice = c.clearingPrice,
         s.leadBuyerId = c.leadBuyerId, s.syndicateIds = c.syndicateIds, s.elections = c.elections,
         s.stage \in Led \/ s.legs # {} => c.stage \in Led \/ c.legs # {}
  PROVE  Booked(s)
BY DEF Booked, Portal!deal

LEMMA PortalStillTallies ==
  ASSUME NEW c, NEW s, PortalTallies(c),
         s.dealNo = c.dealNo, s.bids = c.bids, s.bidsOpen = c.bidsOpen, s.clearingPrice = c.clearingPrice,
         s.leadBuyerId = c.leadBuyerId, s.syndicateIds = c.syndicateIds, s.elections = c.elections,
         s.electionsClosed = c.electionsClosed, s.legs = c.legs, DOMAIN s.approvals = DOMAIN c.approvals,
         c.stage \in Later => s.stage \in Later, s.stage = "allocation" => c.stage = "allocation",
         s.stage \in {"setup", "bidding"} => c.stage \in {"setup", "bidding"},
         s.stage \in Led => c.stage \in Led
  PROVE  PortalTallies(s)
<1>1. /\ Portal!computeAllocation(s) = Portal!computeAllocation(c)
      /\ Portal!approvalParties(s) = Portal!approvalParties(c)
  BY SameFigures
<1>2. Portal!Filed(s) = Portal!Filed(c)
  BY DEF Portal!Filed
<1>3. Booked(s)
  BY StillBooked DEF PortalTallies
<1>4. QED
  BY <1>1, <1>2, <1>3 DEF PortalTallies, Portal!Current

LEMMA PortalFreshTallies ==
  ASSUME NEW n \in DOMAIN Deals PROVE PortalTallies(Portal!freshState(n))
<1> DEFINE s == Portal!freshState(n)
<1>1. s.legs = {} /\ s.stage = "setup" /\ s.bidsOpen = FALSE /\ s.bids = Deals[n].seededBids
  BY DEF Portal!freshState
<1>2. \E b \in DOMAIN Deals[n].seededBids : ~Deals[n].seededBids[b].passed
  BY SeedAssumption DEF Portal!SeedOK
<1> HIDE DEF s
<1>3. Portal!Filed(s) # {}
  BY <1>1, <1>2 DEF Portal!Filed
<1>4. Booked(s)
  <2>1. /\ s.dealNo = n /\ s.elections = Deals[n].seededElections /\ s.leadBuyerId = Portal!Nobody
        /\ s.clearingPrice = 0 /\ s.syndicateIds = {}
    BY DEF Portal!freshState, s
  <2>2. /\ DOMAIN Deals[n].seededBids \subseteq Portal!ToSet(Deals[n].buyers)
        /\ \A b \in DOMAIN Deals[n].seededBids : Portal!BidOK(Deals[n].seededBids[b])
        /\ DOMAIN Deals[n].seededElections \subseteq Deals[n].lps
        /\ \A l \in DOMAIN Deals[n].seededElections : Portal!BallotOK(Deals[n].seededElections[l])
    BY SeedAssumption DEF Portal!SeedOK
  <2>3. s.stage \notin Led
    BY <1>1 DEF Led
  <2>4. QED
    BY <1>1, <2>1, <2>2, <2>3, SameData, MoneyAssumption DEF Booked, Portal!deal
<1>5. QED
  BY <1>1, <1>3, <1>4 DEF PortalTallies, s

\* What is bid, and what is elected, is typed.
LEMMA BidIsBooked ==
  ASSUME NEW t, PortalShape(copy[t]), role[t] \in Portal!Role, NEW price, NEW capacity \in PortalCapacities,
         Portal!submitBid(t, price, capacity), NEW s,
         s.dealNo = copy[t].dealNo, s.bids = Portal!With(copy[t].bids, Portal!Person(t), Portal!Bid(price, capacity)),
         s.clearingPrice = copy[t].clearingPrice, s.leadBuyerId = copy[t].leadBuyerId,
         s.syndicateIds = copy[t].syndicateIds, s.elections = copy[t].elections,
         s.legs = copy[t].legs, s.stage = "bidding", Booked(copy[t])
  PROVE  Booked(s)
<1> DEFINE c == copy[t]
           me == Portal!Person(t)
           bid == Portal!Bid(price, capacity)
<1>1. me \in ToSet(Deals[c.dealNo].buyers)
  BY PortalBidder
<1>2. Portal!BidOK(bid)
  <2>1. capacity \in Nat
    BY SeedAssumption DEF Portal!InputsOK, Portal!submitBid
  <2>2. price \in 0 .. Whole
    <3>1. c.dealNo \in DOMAIN Deals /\ price \in Deals[c.dealNo].fairLow .. Whole
      BY DEF PortalShape, Portal!submitBid, Portal!deal
    <3>2. Deals[c.dealNo].fairLow \in Nat
      BY <3>1, SeedAssumption DEF Portal!SeedOK
    <3>3. QED
      BY <3>1, <3>2
  <2>3. QED
    BY <2>1, <2>2 DEF Portal!BidOK, Portal!Bid
<1>3. /\ DOMAIN s.bids = DOMAIN c.bids \cup {me}
      /\ \A b \in DOMAIN s.bids : s.bids[b] = IF b = me THEN bid ELSE c.bids[b]
  BY DEF Portal!With
<1>4. s.stage \notin Led
  BY DEF Led
<1> HIDE DEF c, me, bid
<1>5. QED
  BY <1>1, <1>2, <1>3, <1>4 DEF Booked, Portal!deal, c

LEMMA BallotIsBooked ==
  ASSUME NEW t, PortalShape(copy[t]), role[t] \in Portal!Role, NEW choice \in PortalBallots, NEW roll,
         Portal!submitElection(t, choice, roll), NEW s,
         s.dealNo = copy[t].dealNo, s.bids = copy[t].bids,
         s.clearingPrice = copy[t].clearingPrice, s.leadBuyerId = copy[t].leadBuyerId,
         s.syndicateIds = copy[t].syndicateIds, s.legs = copy[t].legs, s.stage = copy[t].stage,
         s.elections = Portal!With(copy[t].elections, Portal!Person(t),
                                   Portal!Ballot(choice, roll, Portal!deal(copy[t]).navs[Portal!Person(t)])),
         Booked(copy[t])
  PROVE  Booked(s)
<1> DEFINE c == copy[t]
           me == Portal!Person(t)
           nav == Portal!deal(c).navs[me]
           ballot == Portal!Ballot(choice, roll, nav)
<1>1. me \in Deals[c.dealNo].lps /\ c.dealNo \in DOMAIN Deals
  BY PortalElector DEF PortalShape
<1>2. nav \in Nat /\ roll \in 0 .. nav
  <2>1. Deals[c.dealNo].navs \in [Deals[c.dealNo].lps -> Nat]
    BY <1>1, SeedAssumption DEF Portal!SeedOK
  <2>2. roll \in 0 .. nav
    BY DEF Portal!submitElection
  <2>3. QED
    BY <1>1, <2>1, <2>2 DEF Portal!deal
<1> HIDE DEF c, me, nav
<1>3. Portal!BallotOK(ballot)
  <2>1. choice \in {"roll", "status-quo", "sell", "split"}
    BY SeedAssumption DEF Portal!InputsOK
  <2>2. CASE choice \in {"roll", "status-quo"}
    <3>1. ballot = [choice |-> choice, roll |-> nav, sell |-> 0]
      BY <2>2 DEF Portal!Ballot
    <3>2. QED
      BY <1>2, <3>1 DEF Portal!BallotOK
  <2>3. CASE choice = "sell"
    <3>1. ballot = [choice |-> choice, roll |-> 0, sell |-> nav]
      BY <2>3 DEF Portal!Ballot
    <3>2. QED
      BY <1>2, <3>1 DEF Portal!BallotOK
  <2>4. CASE choice = "split"
    <3> DEFINE x == nav - roll
    <3>1. ballot = [choice |-> choice, roll |-> roll, sell |-> Portal!toFixed(2, x, 1)]
      BY <2>4 DEF Portal!Ballot
    <3>2. x \in Nat
      BY <1>2
    <3> HIDE DEF x
    <3>3. Portal!toFixed(2, x, 1) \in Nat
      BY <3>2, Hundredth
    <3>4. QED
      BY <1>2, <3>1, <3>3 DEF Portal!BallotOK
  <2>5. QED
    BY <2>1, <2>2, <2>3, <2>4
<1>4. /\ DOMAIN s.elections = DOMAIN c.elections \cup {me}
      /\ \A l \in DOMAIN s.elections : s.elections[l] = IF l = me THEN ballot ELSE c.elections[l]
  BY DEF Portal!With, c, me, nav
<1> HIDE DEF ballot
<1>5. QED
  BY <1>1, <1>3, <1>4 DEF Booked, Portal!deal, c

-----------------------------------------------------------------------------
(* The tabs keep up with each other *)

\* A close is under way in the deal.
ClosingStages == {"settlement", "closing"}

\* Tab t puts s in place of the deal, on top of what is on its way.
Posts(t, s) ==
  /\ Puts(t, s)
  /\ crossed' = IF Agreed THEN 0 ELSE IF Quiet THEN crossed ELSE crossed + 1

\* A change that leaves a close under way sets a timeout for it.
Attended(t, s) ==
  \/ UNCHANGED timer /\ s.stage \notin ClosingStages
  \/ \E end \in {"settle", "revert"} : timer' = [timer EXCEPT ![t] = end]
  \/ s.stage = "settled" /\ timer' = [timer EXCEPT ![t] = NoTimer]

\* Each tab has received the last change, or it is on its way.
InStep ==
  /\ \A l \in Link : \A i \in DOMAIN wire[l] : wire[l][i] = store
  /\ \A t \in Tabs : copy[t] = store \/ \E l \in Link : l.to = t /\ wire[l] # <<>>

\* A tab has the timeout that will end the close.
Timed == ~overtaken /\ ~stranded /\ store.stage \in ClosingStages => \E t \in Tabs : timer[t] # NoTimer

KeepUpInv ==
  /\ crossed \in Nat /\ timer \in [Tabs -> {NoTimer, "settle", "revert"}]
  /\ crossed = 0 => InStep /\ Timed

\* Tabs in step agree once nothing is on its way.
LEMMA InStepAgree == ASSUME InStep, Quiet PROVE Agreed
BY DEF InStep, Quiet, Agreed

\* A change keeps the tabs in step, and a close attended to.
LEMMA PostKeepsUp ==
  ASSUME TabsTyped, KeepUpInv, NEW t \in Tabs, NEW s, Posts(t, s), Attended(t, s)
  PROVE  KeepUpInv'
<1>1. PICK X : wire \in [Link -> Seq(X)] /\ copy \in [Tabs -> X] /\ store \in X
  BY DEF TabsTyped
<1>2. timer' \in [Tabs -> {NoTimer, "settle", "revert"}] /\ crossed' \in Nat
  BY DEF KeepUpInv, Attended, Posts
<1>3. SUFFICES ASSUME crossed' = 0 PROVE InStep' /\ Timed'
  BY <1>2 DEF KeepUpInv
<1>4. Agreed
  <2>1. Agreed \/ (Quiet /\ crossed = 0)
    BY <1>3 DEF Posts, KeepUpInv
  <2>2. QED
    BY <2>1, InStepAgree DEF KeepUpInv
<1>5. store' = s /\ copy' = [copy EXCEPT ![t] = s] /\ copy[t] = store
  BY <1>4 DEF Posts, Puts, Agreed
<1>6. \A l \in Link : wire'[l] = IF l.from = t THEN <<s>> ELSE <<>>
  <2>1. \A l \in Link : wire[l] = <<>>
    BY <1>4 DEF Agreed, Quiet
  <2>2. \A l \in Link : wire'[l] = IF l.from = t THEN Append(<<>>, s) ELSE <<>>
    BY <2>1 DEF Posts, Puts
  <2>3. QED
    BY <2>2
<1>7. InStep'
  <2>1. ASSUME NEW l \in Link, NEW i \in DOMAIN wire'[l] PROVE wire'[l][i] = s
    BY <1>6
  <2>2. ASSUME NEW u \in Tabs, u # t PROVE \E l \in Link : l.to = u /\ wire'[l] # <<>>
    <3>1. PICK w : w \in Transports
      BY TabsAssumption
    <3> DEFINE l == [by |-> w, from |-> t, to |-> u]
    <3>2. l \in Link /\ l.to = u /\ l.from = t
      BY <2>2, <3>1 DEF Link
    <3> HIDE DEF l
    <3>3. wire'[l] = <<s>>
      BY <1>6, <3>2
    <3>4. QED
      BY <3>2, <3>3
  <2>3. copy'[t] = s
    BY <1>1, <1>5
  <2>4. QED
    BY <1>5, <2>1, <2>2, <2>3 DEF InStep, Link
<1>8. Timed'
  <2>1. CASE s.stage \notin ClosingStages
    BY <1>5, <2>1 DEF Timed
  <2>2. CASE \E end \in {"settle", "revert"} : timer' = [timer EXCEPT ![t] = end]
    BY <2>2 DEF Timed, NoTimer, KeepUpInv
  <2>3. CASE s.stage = "settled"
    BY <1>5, <2>3 DEF Timed, ClosingStages
  <2>4. QED
    BY <2>1, <2>2, <2>3 DEF Attended
<1>9. QED
  BY <1>7, <1>8

\* What a change by the prototype posts, and that it sees to the close.
LEMMA ProtoPosts ==
  ASSUME NEW t, NEW s, Proto!commit(t, s), s.stage \notin ClosingStages
  PROVE  Posts(t, s) /\ Attended(t, s)
BY DEF Proto!commit, Proto!Post, Proto!Agreed, Proto!Quiet, Proto!Link, Agreed, Quiet, Link, Posts, Puts, Attended

LEMMA ProtoTimesIt ==
  ASSUME NEW t, NEW s, NEW end \in {"settle", "revert"}, Proto!Begin(t, s, end)
  PROVE  Posts(t, s) /\ Attended(t, s)
BY DEF Proto!Begin, Proto!Post, Proto!Agreed, Proto!Quiet, Proto!Link, Agreed, Quiet, Link, Posts, Puts, Attended

LEMMA ProtoEnds ==
  ASSUME NEW t, NEW s, NEW end, NEW closing, Proto!End(t, end, closing, s), s.stage = "settled"
  PROVE  Posts(t, s) /\ Attended(t, s)
BY DEF Proto!End, Proto!Post, Proto!Agreed, Proto!Quiet, Proto!Link, Proto!NoTimer, NoTimer, Agreed, Quiet, Link,
       Posts, Puts, Attended

\* What a change by the portal posts, and that it sees to the close.
LEMMA PortalPosts ==
  ASSUME NEW t, NEW s, Portal!commit(t, s), s.stage \notin ClosingStages
  PROVE  Posts(t, s) /\ Attended(t, s)
BY DEF Portal!commit, Portal!Post, Portal!Agreed, Portal!Quiet, Portal!Link, Agreed, Quiet, Link, Posts, Puts, Attended

LEMMA PortalTimesIt ==
  ASSUME NEW t, NEW s, NEW end \in {"settle", "revert"}, Portal!Begin(t, s, end)
  PROVE  Posts(t, s) /\ Attended(t, s)
BY DEF Portal!Begin, Portal!Post, Portal!Agreed, Portal!Quiet, Portal!Link, Agreed, Quiet, Link, Posts, Puts, Attended

LEMMA PortalEnds ==
  ASSUME NEW t, NEW s, NEW end, NEW closing, Portal!End(t, end, closing, s), s.stage = "settled"
  PROVE  Posts(t, s) /\ Attended(t, s)
BY DEF Portal!End, Portal!Post, Portal!Agreed, Portal!Quiet, Portal!Link, Portal!NoTimer, NoTimer, Agreed, Quiet, Link,
       Posts, Puts, Attended

\* Each button of the prototype sees to the close.
LEMMA ProtoClickAttends ==
  ASSUME NEW t \in Tabs, ProtoShape(copy[t]), Proto!Click(t)
  PROVE  \E s : Posts(t, s) /\ Attended(t, s) /\ (ProtoTallies(copy[t]) => ProtoTallies(s))
<1> DEFINE c == copy[t]
<1>1. c.stage \in Proto!Stages
  BY DEF ProtoShape
<1>2. ProtoShape(c)
  OBVIOUS
<1> HIDE DEF c
<1> USE DEF Proto!Clicked, Proto!Moved
<1>3. CASE Proto!createRoom(t)
  <2> DEFINE s == [c EXCEPT !.stage = "invite", !.room = TRUE]
  <2>1. Proto!commit(t, s) /\ c.stage = "setup"
    BY <1>1, <1>3, ProtoButtons DEF Proto!createRoom, c
  <2>2. s.stage \notin ClosingStages
    BY <1>2, <2>1 DEF ProtoShape, ClosingStages
  <2>3. ProtoTallies(c) => ProtoTallies(s)
    BY <1>2, <2>1, ProtoSameFigures DEF ProtoShape, ProtoTallies
  <2> HIDE DEF s
  <2>4. QED
    BY <2>1, <2>2, <2>3, ProtoPosts DEF c
<1>4. CASE Proto!toPrice(t)
  <2> DEFINE s == [c EXCEPT !.stage = "price"]
  <2>1. Proto!commit(t, s) /\ c.stage = "invite"
    BY <1>1, <1>4, ProtoButtons DEF Proto!toPrice, c
  <2>2. s.stage \notin ClosingStages
    BY <1>2, <2>1 DEF ProtoShape, ClosingStages
  <2>3. ProtoTallies(c) => ProtoTallies(s)
    BY <1>2, <2>1, ProtoSameFigures DEF ProtoShape, ProtoTallies
  <2> HIDE DEF s
  <2>4. QED
    BY <2>1, <2>2, <2>3, ProtoPosts DEF c
<1>5. CASE Proto!toElect(t)
  <2> DEFINE s == [c EXCEPT !.stage = "elect"]
  <2>1. Proto!commit(t, s) /\ c.stage = "price"
    BY <1>1, <1>5, ProtoButtons DEF Proto!toElect, c
  <2>2. s.stage \notin ClosingStages
    BY <1>2, <2>1 DEF ProtoShape, ClosingStages
  <2>3. ProtoTallies(c) => ProtoTallies(s)
    BY <1>2, <2>1, ProtoSameFigures DEF ProtoShape, ProtoTallies
  <2> HIDE DEF s
  <2>4. QED
    BY <2>1, <2>2, <2>3, ProtoPosts DEF c
<1>6. CASE Proto!toCompute(t)
  <2> DEFINE s == [c EXCEPT !.stage = "compute"]
  <2>1. Proto!commit(t, s) /\ c.stage = "elect"
    BY <1>1, <1>6, ProtoButtons DEF Proto!toCompute, c
  <2>2. s.stage \notin ClosingStages
    BY <1>2, <2>1 DEF ProtoShape, ClosingStages
  <2>3. ProtoTallies(c) => ProtoTallies(s)
    BY <1>2, <2>1, ProtoSameFigures DEF ProtoShape, ProtoTallies
  <2> HIDE DEF s
  <2>4. QED
    BY <2>1, <2>2, <2>3, ProtoPosts DEF c
<1>7. CASE Proto!doCompute(t)
  <2> DEFINE s == [c EXCEPT !.allocation = {Proto!computeAllocation(c)}]
  <2>1. Proto!commit(t, s) /\ c.stage = "compute"
    BY <1>1, <1>7, ProtoButtons DEF Proto!doCompute, c
  <2>2. s.stage \notin ClosingStages
    BY <1>2, <2>1 DEF ProtoShape, ClosingStages
  <2>3. ProtoTallies(c) => ProtoTallies(s)
    BY <1>2, <2>1, ProtoSameFigures DEF ProtoShape, ProtoTallies
  <2> HIDE DEF s
  <2>4. QED
    BY <2>1, <2>2, <2>3, ProtoPosts DEF c
<1>8. CASE Proto!toApprove(t)
  <2> DEFINE s == [c EXCEPT !.stage = "approve"]
  <2>1. Proto!commit(t, s)
    BY <1>8 DEF Proto!toApprove, c
  <2>2. s.stage \notin ClosingStages
    BY <1>2, <2>1 DEF ProtoShape, ClosingStages
  <2>3. ProtoTallies(c) => ProtoTallies(s)
    BY <1>2, <2>1, ProtoSameFigures DEF ProtoShape, ProtoTallies
  <2> HIDE DEF s
  <2>4. QED
    BY <2>1, <2>2, <2>3, ProtoPosts DEF c
<1>9. CASE Proto!approveMine(t)
  <2> DEFINE s == [c EXCEPT !.approvals[Proto!obligation(role[t])] = TRUE]
  <2>1. Proto!commit(t, s) /\ c.stage = "approve"
    BY <1>1, <1>9, ProtoButtons DEF Proto!approveMine, c
  <2>2. s.stage \notin ClosingStages
    BY <1>2, <2>1 DEF ProtoShape, ClosingStages
  <2>3. ProtoTallies(c) => ProtoTallies(s)
    BY <1>2, <2>1, ProtoSameFigures DEF ProtoShape, ProtoTallies
  <2> HIDE DEF s
  <2>4. QED
    BY <2>1, <2>2, <2>3, ProtoPosts DEF c
<1>10. CASE Proto!toClose(t)
  <2> DEFINE s == [c EXCEPT !.stage = "close"]
  <2>1. Proto!commit(t, s)
    BY <1>10 DEF Proto!toClose, c
  <2>2. s.stage \notin ClosingStages
    BY <1>2, <2>1 DEF ProtoShape, ClosingStages
  <2>3. ProtoTallies(c) => ProtoTallies(s)
    BY <1>2, <2>1, ProtoSameFigures DEF ProtoShape, ProtoTallies
  <2> HIDE DEF s
  <2>4. QED
    BY <2>1, <2>2, <2>3, ProtoPosts DEF c
<1>11. CASE Proto!retryClose(t)
  <2> DEFINE s == [c EXCEPT !.stage = "close", !.failedAttempt = FALSE]
  <2>1. Proto!commit(t, s)
    BY <1>11 DEF Proto!retryClose, c
  <2>2. s.stage \notin ClosingStages
    BY <1>2, <2>1 DEF ProtoShape, ClosingStages
  <2>3. ProtoTallies(c) => ProtoTallies(s)
    BY <1>2, <2>1, ProtoSameFigures DEF ProtoShape, ProtoTallies
  <2> HIDE DEF s
  <2>4. QED
    BY <2>1, <2>2, <2>3, ProtoPosts DEF c
<1>12. CASE Proto!grantOversight(t)
  <2> DEFINE s == [c EXCEPT !.oversightGranted = TRUE]
  <2>1. Proto!commit(t, s) /\ c.stage = "settled"
    BY <1>1, <1>12, ProtoButtons DEF Proto!grantOversight, c
  <2>2. s.stage \notin ClosingStages
    BY <1>2, <2>1 DEF ProtoShape, ClosingStages
  <2>3. ProtoTallies(c) => ProtoTallies(s)
    BY <1>2, <2>1, ProtoSameFigures DEF ProtoShape, ProtoTallies
  <2> HIDE DEF s
  <2>4. QED
    BY <2>1, <2>2, <2>3, ProtoPosts DEF c
<1>13. ASSUME NEW p, NEW q, Proto!submitPrice(t, p, q)
      PROVE  \E s : Posts(t, s) /\ Attended(t, s) /\ (ProtoTallies(c) => ProtoTallies(s))
  <2> DEFINE s == [c EXCEPT !.offer = {[price |-> p, capacity |-> q]}]
  <2>1. Proto!commit(t, s) /\ c.stage = "price"
    BY <1>1, <1>13, ProtoButtons DEF Proto!submitPrice, c
  <2>2. s.stage \notin ClosingStages
    BY <1>2, <2>1 DEF ProtoShape, ClosingStages
  <2>3. ProtoTallies(c) => ProtoTallies(s)
    BY <1>2, <2>1, ProtoSameFigures DEF ProtoShape, ProtoTallies
  <2> HIDE DEF s
  <2>4. QED
    BY <2>1, <2>2, <2>3, ProtoPosts DEF c
<1>14. ASSUME NEW choice, NEW most, Proto!submitElection(t, choice, most)
      PROVE  \E s : Posts(t, s) /\ Attended(t, s) /\ (ProtoTallies(c) => ProtoTallies(s))
  <2> DEFINE ballot == [choice |-> choice, amount |-> Proto!Larger(0, Proto!Smaller(most, Proto!deal(c).nav[role[t]]))]
             s == [c EXCEPT !.elections = Proto!With(c.elections, role[t], ballot)]
  <2>1. Proto!commit(t, s) /\ c.stage = "elect"
    BY <1>1, <1>14, ProtoButtons DEF Proto!submitElection, c
  <2>2. s.stage \notin ClosingStages
    BY <1>2, <2>1 DEF ProtoShape, ClosingStages
  <2>3. ProtoTallies(c) => ProtoTallies(s)
    BY <1>2, <2>1, ProtoSameFigures DEF ProtoShape, ProtoTallies
  <2> HIDE DEF s
  <2>4. QED
    BY <2>1, <2>2, <2>3, ProtoPosts DEF c
<1>15. ASSUME NEW fail \in BOOLEAN, Proto!runClose(t, fail)
      PROVE  \E s : Posts(t, s) /\ Attended(t, s) /\ (ProtoTallies(c) => ProtoTallies(s))
  <2> DEFINE s == [c EXCEPT !.stage = "closing", !.closingFail = fail]
  <2>1. \E end \in {"settle", "revert"} : Proto!Begin(t, s, end)
    BY <1>15 DEF Proto!runClose, Proto!Moved, c
  <2>3. ProtoTallies(c) => ProtoTallies(s)
    BY <1>2, ProtoSameFigures DEF ProtoShape, ProtoTallies
  <2> HIDE DEF s
  <2>4. QED
    BY <2>1, <2>3, ProtoTimesIt
<1>16. CASE Proto!startDeal2(t) \/ Proto!reset(t)
  <2>1. PICK n : Proto!commit(t, Proto!freshState(n))
    BY <1>16 DEF Proto!startDeal2, Proto!reset
  <2>2. Proto!freshState(n).stage \notin ClosingStages
    BY DEF Proto!freshState, ClosingStages
  <2>3. ProtoTallies(Proto!freshState(n))
    BY DEF Proto!freshState, ProtoTallies, Proto!Null
  <2>4. QED
    BY <2>1, <2>2, <2>3, ProtoPosts DEF c
<1>17. QED
  BY <1>3, <1>4, <1>5, <1>6, <1>7, <1>8, <1>9, <1>10, <1>11, <1>12, <1>13, <1>14, <1>15, <1>16
     DEF Proto!Click, c

\* And so does each of the portal.
LEMMA PortalClickAttends ==
  ASSUME NEW t \in Tabs, PortalShape(copy[t]), role[t] \in Portal!Role, Portal!Click(t)
  PROVE  \E s : Posts(t, s) /\ Attended(t, s) /\ (PortalTallies(copy[t]) => PortalTallies(s))
<1> DEFINE c == copy[t]
<1>1. c.stage \in Portal!Stage
  BY DEF PortalShape
<1>2. PortalShape(c)
  OBVIOUS
<1> HIDE DEF c
<1> USE DEF Portal!Moved
<1>3. CASE Portal!openAuction(t)
  <2> DEFINE s == [c EXCEPT !.stage = "bidding"]
  <2>1. Portal!commit(t, s) /\ c.stage = "setup"
    BY <1>1, <1>3, PortalClicked, PortalBids DEF Portal!openAuction, c
  <2>2. s.stage \notin ClosingStages
    BY <1>2, <2>1 DEF PortalShape, ClosingStages
  <2>3. PortalTallies(c) => PortalTallies(s)
    <3>1. /\ s.dealNo = c.dealNo /\ s.bids = c.bids /\ s.bidsOpen = c.bidsOpen
          /\ s.clearingPrice = c.clearingPrice /\ s.leadBuyerId = c.leadBuyerId
          /\ s.syndicateIds = c.syndicateIds /\ s.elections = c.elections
          /\ s.electionsClosed = c.electionsClosed /\ s.legs = c.legs
          /\ DOMAIN s.approvals = DOMAIN c.approvals
      BY <1>2 DEF PortalShape
    <3>2. /\ c.stage \in Later => s.stage \in Later
          /\ s.stage = "allocation" => c.stage = "allocation"
          /\ s.stage \in {"setup", "bidding"} => c.stage \in {"setup", "bidding"}
          /\ s.stage \in Led => c.stage \in Led
      BY <1>2, <2>1 DEF PortalShape, Later, Portal!Allocated, Portal!Settling, Led
    <3> HIDE DEF s
    <3>3. QED
      BY <3>1, <3>2, PortalStillTallies
  <2> HIDE DEF s
  <2>4. QED
    BY <2>1, <2>2, <2>3, PortalPosts DEF c
<1>4. CASE Portal!openLpacReview(t)
  <2> DEFINE s == [c EXCEPT !.stage = "lpacConsent"]
  <2>1. Portal!commit(t, s) /\ c.stage = "leadSelected"
    BY <1>1, <1>4, PortalClicked, PortalConsent DEF Portal!openLpacReview, c
  <2>2. s.stage \notin ClosingStages
    BY <1>2, <2>1 DEF PortalShape, ClosingStages
  <2>3. PortalTallies(c) => PortalTallies(s)
    <3>1. /\ s.dealNo = c.dealNo /\ s.bids = c.bids /\ s.bidsOpen = c.bidsOpen
          /\ s.clearingPrice = c.clearingPrice /\ s.leadBuyerId = c.leadBuyerId
          /\ s.syndicateIds = c.syndicateIds /\ s.elections = c.elections
          /\ s.electionsClosed = c.electionsClosed /\ s.legs = c.legs
          /\ DOMAIN s.approvals = DOMAIN c.approvals
      BY <1>2 DEF PortalShape
    <3>2. /\ c.stage \in Later => s.stage \in Later
          /\ s.stage = "allocation" => c.stage = "allocation"
          /\ s.stage \in {"setup", "bidding"} => c.stage \in {"setup", "bidding"}
          /\ s.stage \in Led => c.stage \in Led
      BY <1>2, <2>1 DEF PortalShape, Later, Portal!Allocated, Portal!Settling, Led
    <3> HIDE DEF s
    <3>3. QED
      BY <3>1, <3>2, PortalStillTallies
  <2> HIDE DEF s
  <2>4. QED
    BY <2>1, <2>2, <2>3, PortalPosts DEF c
<1>5. CASE Portal!recordConsent(t)
  <2> DEFINE s == [c EXCEPT !.lpacConsent = TRUE]
  <2>1. Portal!commit(t, s) /\ c.stage = "lpacConsent"
    BY <1>1, <1>5, PortalClicked, PortalConsent DEF Portal!recordConsent, c
  <2>2. s.stage \notin ClosingStages
    BY <1>2, <2>1 DEF PortalShape, ClosingStages
  <2>3. PortalTallies(c) => PortalTallies(s)
    <3>1. /\ s.dealNo = c.dealNo /\ s.bids = c.bids /\ s.bidsOpen = c.bidsOpen
          /\ s.clearingPrice = c.clearingPrice /\ s.leadBuyerId = c.leadBuyerId
          /\ s.syndicateIds = c.syndicateIds /\ s.elections = c.elections
          /\ s.electionsClosed = c.electionsClosed /\ s.legs = c.legs
          /\ DOMAIN s.approvals = DOMAIN c.approvals
      BY <1>2 DEF PortalShape
    <3>2. /\ c.stage \in Later => s.stage \in Later
          /\ s.stage = "allocation" => c.stage = "allocation"
          /\ s.stage \in {"setup", "bidding"} => c.stage \in {"setup", "bidding"}
          /\ s.stage \in Led => c.stage \in Led
      BY <1>2, <2>1 DEF PortalShape, Later, Portal!Allocated, Portal!Settling, Led
    <3> HIDE DEF s
    <3>3. QED
      BY <3>1, <3>2, PortalStillTallies
  <2> HIDE DEF s
  <2>4. QED
    BY <2>1, <2>2, <2>3, PortalPosts DEF c
<1>6. CASE Portal!openElections(t)
  <2> DEFINE s == [c EXCEPT !.stage = "elections"]
  <2>1. Portal!commit(t, s) /\ c.stage = "lpacConsent"
    BY <1>1, <1>6, PortalClicked, PortalElections DEF Portal!openElections, c
  <2>2. s.stage \notin ClosingStages
    BY <1>2, <2>1 DEF PortalShape, ClosingStages
  <2>3. PortalTallies(c) => PortalTallies(s)
    <3>1. /\ s.dealNo = c.dealNo /\ s.bids = c.bids /\ s.bidsOpen = c.bidsOpen
          /\ s.clearingPrice = c.clearingPrice /\ s.leadBuyerId = c.leadBuyerId
          /\ s.syndicateIds = c.syndicateIds /\ s.elections = c.elections
          /\ s.electionsClosed = c.electionsClosed /\ s.legs = c.legs
          /\ DOMAIN s.approvals = DOMAIN c.approvals
      BY <1>2 DEF PortalShape
    <3>2. /\ c.stage \in Later => s.stage \in Later
          /\ s.stage = "allocation" => c.stage = "allocation"
          /\ s.stage \in {"setup", "bidding"} => c.stage \in {"setup", "bidding"}
          /\ s.stage \in Led => c.stage \in Led
      BY <1>2, <2>1 DEF PortalShape, Later, Portal!Allocated, Portal!Settling, Led
    <3> HIDE DEF s
    <3>3. QED
      BY <3>1, <3>2, PortalStillTallies
  <2> HIDE DEF s
  <2>4. QED
    BY <2>1, <2>2, <2>3, PortalPosts DEF c
<1>7. CASE Portal!sendForApproval(t)
  <2> DEFINE s == [c EXCEPT !.stage = "approvals"]
  <2>1. Portal!commit(t, s) /\ c.stage = "allocation"
    BY <1>1, <1>7, PortalClicked DEF Portal!sendForApproval, c
  <2>2. s.stage \notin ClosingStages
    BY <1>2, <2>1 DEF PortalShape, ClosingStages
  <2>3. PortalTallies(c) => PortalTallies(s)
    <3>1. /\ s.dealNo = c.dealNo /\ s.bids = c.bids /\ s.bidsOpen = c.bidsOpen
          /\ s.clearingPrice = c.clearingPrice /\ s.leadBuyerId = c.leadBuyerId
          /\ s.syndicateIds = c.syndicateIds /\ s.elections = c.elections
          /\ s.electionsClosed = c.electionsClosed /\ s.legs = c.legs
          /\ DOMAIN s.approvals = DOMAIN c.approvals
      BY <1>2 DEF PortalShape
    <3>2. /\ c.stage \in Later => s.stage \in Later
          /\ s.stage = "allocation" => c.stage = "allocation"
          /\ s.stage \in {"setup", "bidding"} => c.stage \in {"setup", "bidding"}
          /\ s.stage \in Led => c.stage \in Led
      BY <1>2, <2>1 DEF PortalShape, Later, Portal!Allocated, Portal!Settling, Led
    <3> HIDE DEF s
    <3>3. QED
      BY <3>1, <3>2, PortalStillTallies
  <2> HIDE DEF s
  <2>4. QED
    BY <2>1, <2>2, <2>3, PortalPosts DEF c
<1>8. CASE Portal!approve(t)
  <2> DEFINE s == [c EXCEPT !.approvals[Portal!approvalKeyFor(role[t])] = TRUE]
  <2>1. Portal!commit(t, s) /\ c.stage = "approvals"
    BY <1>1, <1>8, PortalClicked, PortalSettlement DEF Portal!approve, c
  <2>2. s.stage \notin ClosingStages
    BY <1>2, <2>1 DEF PortalShape, ClosingStages
  <2>3. PortalTallies(c) => PortalTallies(s)
    <3>1. /\ s.dealNo = c.dealNo /\ s.bids = c.bids /\ s.bidsOpen = c.bidsOpen
          /\ s.clearingPrice = c.clearingPrice /\ s.leadBuyerId = c.leadBuyerId
          /\ s.syndicateIds = c.syndicateIds /\ s.elections = c.elections
          /\ s.electionsClosed = c.electionsClosed /\ s.legs = c.legs
          /\ DOMAIN s.approvals = DOMAIN c.approvals
      BY <1>2 DEF PortalShape
    <3>2. /\ c.stage \in Later => s.stage \in Later
          /\ s.stage = "allocation" => c.stage = "allocation"
          /\ s.stage \in {"setup", "bidding"} => c.stage \in {"setup", "bidding"}
          /\ s.stage \in Led => c.stage \in Led
      BY <1>2, <2>1 DEF PortalShape, Later, Portal!Allocated, Portal!Settling, Led
    <3> HIDE DEF s
    <3>3. QED
      BY <3>1, <3>2, PortalStillTallies
  <2> HIDE DEF s
  <2>4. QED
    BY <2>1, <2>2, <2>3, PortalPosts DEF c
<1>9. CASE Portal!cancelApproval(t)
  <2> DEFINE s == [c EXCEPT !.approvals[Portal!approvalKeyFor(role[t])] = FALSE]
  <2>1. Portal!commit(t, s) /\ c.stage = "approvals"
    BY <1>1, <1>9, PortalClicked, PortalSettlement DEF Portal!cancelApproval, c
  <2>2. s.stage \notin ClosingStages
    BY <1>2, <2>1 DEF PortalShape, ClosingStages
  <2>3. PortalTallies(c) => PortalTallies(s)
    <3>1. /\ s.dealNo = c.dealNo /\ s.bids = c.bids /\ s.bidsOpen = c.bidsOpen
          /\ s.clearingPrice = c.clearingPrice /\ s.leadBuyerId = c.leadBuyerId
          /\ s.syndicateIds = c.syndicateIds /\ s.elections = c.elections
          /\ s.electionsClosed = c.electionsClosed /\ s.legs = c.legs
          /\ DOMAIN s.approvals = DOMAIN c.approvals
      BY <1>2 DEF PortalShape
    <3>2. /\ c.stage \in Later => s.stage \in Later
          /\ s.stage = "allocation" => c.stage = "allocation"
          /\ s.stage \in {"setup", "bidding"} => c.stage \in {"setup", "bidding"}
          /\ s.stage \in Led => c.stage \in Led
      BY <1>2, <2>1 DEF PortalShape, Later, Portal!Allocated, Portal!Settling, Led
    <3> HIDE DEF s
    <3>3. QED
      BY <3>1, <3>2, PortalStillTallies
  <2> HIDE DEF s
  <2>4. QED
    BY <2>1, <2>2, <2>3, PortalPosts DEF c
<1>10. CASE Portal!declineToProceed(t)
  <2> DEFINE s == [c EXCEPT !.stage = "declined", !.declined = TRUE]
  <2>1. Portal!commit(t, s) /\ c.stage \in {"allocation", "approvals"}
    BY <1>1, <1>10, PortalClicked, PortalSettlement DEF Portal!declineToProceed, c
  <2>2. s.stage \notin ClosingStages
    BY <1>2, <2>1 DEF PortalShape, ClosingStages
  <2>3. PortalTallies(c) => PortalTallies(s)
    <3>1. /\ s.dealNo = c.dealNo /\ s.bids = c.bids /\ s.bidsOpen = c.bidsOpen
          /\ s.clearingPrice = c.clearingPrice /\ s.leadBuyerId = c.leadBuyerId
          /\ s.syndicateIds = c.syndicateIds /\ s.elections = c.elections
          /\ s.electionsClosed = c.electionsClosed /\ s.legs = c.legs
          /\ DOMAIN s.approvals = DOMAIN c.approvals
      BY <1>2 DEF PortalShape
    <3>2. /\ c.stage \in Later => s.stage \in Later
          /\ s.stage = "allocation" => c.stage = "allocation"
          /\ s.stage \in {"setup", "bidding"} => c.stage \in {"setup", "bidding"}
          /\ s.stage \in Led => c.stage \in Led
      BY <1>2, <2>1 DEF PortalShape, Later, Portal!Allocated, Portal!Settling, Led
    <3> HIDE DEF s
    <3>3. QED
      BY <3>1, <3>2, PortalStillTallies
  <2> HIDE DEF s
  <2>4. QED
    BY <2>1, <2>2, <2>3, PortalPosts DEF c
<1>11. CASE Portal!retryClose(t)
  <2> DEFINE s == [c EXCEPT !.stage = "approvals", !.failedAttempt = FALSE, !.closingFail = FALSE]
  <2>1. Portal!commit(t, s)
    BY <1>11 DEF Portal!retryClose, c
  <2>2. s.stage \notin ClosingStages
    BY <1>2, <2>1 DEF PortalShape, ClosingStages
  <2>3. PortalTallies(c) => PortalTallies(s)
    <3>1. /\ s.dealNo = c.dealNo /\ s.bids = c.bids /\ s.bidsOpen = c.bidsOpen
          /\ s.clearingPrice = c.clearingPrice /\ s.leadBuyerId = c.leadBuyerId
          /\ s.syndicateIds = c.syndicateIds /\ s.elections = c.elections
          /\ s.electionsClosed = c.electionsClosed /\ s.legs = c.legs
          /\ DOMAIN s.approvals = DOMAIN c.approvals
      BY <1>2 DEF PortalShape
    <3>2. /\ c.stage \in Later => s.stage \in Later
          /\ s.stage = "allocation" => c.stage = "allocation"
          /\ s.stage \in {"setup", "bidding"} => c.stage \in {"setup", "bidding"}
          /\ s.stage \in Led => c.stage \in Led
      BY <1>2, <2>1 DEF PortalShape, Later, Portal!Allocated, Portal!Settling, Led
    <3> HIDE DEF s
    <3>3. QED
      BY <3>1, <3>2, PortalStillTallies
  <2> HIDE DEF s
  <2>4. QED
    BY <2>1, <2>2, <2>3, PortalPosts DEF c
<1>12. ASSUME NEW price \in PortalPrices, NEW capacity \in PortalCapacities, Portal!submitBid(t, price, capacity)
      PROVE  \E s : Posts(t, s) /\ Attended(t, s) /\ (PortalTallies(c) => PortalTallies(s))
  <2> DEFINE s == [c EXCEPT !.bids = Portal!With(c.bids, Portal!Person(t), Portal!Bid(price, capacity)),
                            !.stage = IF c.stage = "setup" THEN "bidding" ELSE c.stage]
  <2>1. Portal!commit(t, s) /\ c.stage \in {"setup", "bidding"}
    BY <1>1, <1>12, PortalClicked, PortalBids DEF Portal!submitBid, c
  <2>2. s.stage \notin ClosingStages
    BY <1>2, <2>1 DEF PortalShape, ClosingStages
  <2>3. PortalTallies(c) => PortalTallies(s)
    <3>1. s.legs = c.legs /\ s.bidsOpen = c.bidsOpen /\ s.stage = "bidding"
          /\ s.bids = Portal!With(c.bids, Portal!Person(t), Portal!Bid(price, capacity))
      BY <1>2, <2>1 DEF PortalShape
    <3>2. Portal!Filed(c) \subseteq Portal!Filed(s)
      BY <3>1 DEF Portal!Filed, Portal!With, Portal!Bid
    <3>3. /\ s.dealNo = c.dealNo /\ s.clearingPrice = c.clearingPrice /\ s.leadBuyerId = c.leadBuyerId
          /\ s.syndicateIds = c.syndicateIds /\ s.elections = c.elections
      BY <1>2, <2>1 DEF PortalShape
    <3> HIDE DEF s
    <3>4. Booked(c) => Booked(s)
      BY <1>2, <1>12, <3>1, <3>3, BidIsBooked DEF c
    <3>5. QED
      BY <2>1, <3>1, <3>2, <3>4 DEF PortalTallies, Later, Portal!Allocated, Portal!Settling
  <2> HIDE DEF s
  <2>4. QED
    BY <2>1, <2>2, <2>3, PortalPosts DEF c
<1>13. ASSUME NEW b, Portal!selectLead(t, b)
      PROVE  \E s : Posts(t, s) /\ Attended(t, s) /\ (PortalTallies(c) => PortalTallies(s))
  <2> DEFINE led == [c EXCEPT !.bidsOpen = TRUE, !.leadBuyerId = b, !.clearingPrice = c.bids[b].price]
             s == [led EXCEPT !.syndicateIds = Portal!recomputeSyndicate(led), !.stage = "leadSelected"]
  <2>1. Portal!commit(t, s) /\ c.stage = "bidding"
    BY <1>1, <1>13, PortalClicked, PortalBids DEF Portal!selectLead, c
  <2>2. s.stage \notin ClosingStages
    BY <1>2, <2>1 DEF PortalShape, ClosingStages
  <2>3. PortalTallies(c) => PortalTallies(s)
    <3>1. s.legs = c.legs /\ s.bids = c.bids /\ s.stage = "leadSelected"
      BY <1>2 DEF PortalShape
    <3>2. Portal!Filed(c) = Portal!Filed(s)
      BY <3>1 DEF Portal!Filed
    <3>3. /\ s.dealNo = c.dealNo /\ s.clearingPrice = c.bids[b].price /\ s.leadBuyerId = b
          /\ s.syndicateIds \subseteq DOMAIN s.bids \ {b} /\ s.elections = c.elections
          /\ b \in DOMAIN s.bids
      <4>1. Portal!recomputeSyndicate(led) \subseteq DOMAIN led.bids \ {led.leadBuyerId}
        BY DEF Portal!recomputeSyndicate, Portal!NextBest, Portal!Qualifying, Portal!Filed
      <4>2. led.bids = c.bids /\ led.leadBuyerId = b /\ s.syndicateIds = Portal!recomputeSyndicate(led)
        BY <1>2 DEF PortalShape
      <4>3. b \in DOMAIN c.bids
        BY <1>13 DEF Portal!selectLead, Portal!Qualifying, Portal!Filed, c
      <4>4. s.dealNo = c.dealNo /\ s.clearingPrice = c.bids[b].price /\ s.leadBuyerId = b /\ s.elections = c.elections
        BY <1>2 DEF PortalShape
      <4> HIDE DEF s, led
      <4>5. QED
        BY <3>1, <4>1, <4>2, <4>3, <4>4
    <3> HIDE DEF s
    <3>4. Booked(c) => Booked(s)
      BY <3>1, <3>3 DEF Booked, Portal!deal, Portal!BidOK
    <3>5. QED
      BY <2>1, <3>1, <3>2, <3>4 DEF PortalTallies, Later, Portal!Allocated, Portal!Settling
  <2> HIDE DEF s
  <2>4. QED
    BY <2>1, <2>2, <2>3, PortalPosts DEF c
<1>14. ASSUME NEW choice \in PortalBallots, NEW roll, Portal!submitElection(t, choice, roll)
      PROVE  \E s : Posts(t, s) /\ Attended(t, s) /\ (PortalTallies(c) => PortalTallies(s))
  <2> DEFINE me == Portal!Person(t)
             ballot == Portal!Ballot(choice, roll, Portal!deal(c).navs[me])
             s == [c EXCEPT !.elections = Portal!With(c.elections, me, ballot)]
  <2>1. Portal!commit(t, s) /\ c.stage = "elections"
    BY <1>1, <1>14, PortalClicked, PortalElections DEF Portal!submitElection, c
  <2>2. s.stage \notin ClosingStages
    BY <1>2, <2>1 DEF PortalShape, ClosingStages
  <2>3. PortalTallies(c) => PortalTallies(s)
    <3>1. s.legs = c.legs /\ s.bids = c.bids /\ s.stage = "elections"
      BY <1>2, <2>1 DEF PortalShape
    <3>2. Portal!Filed(c) = Portal!Filed(s)
      BY <3>1 DEF Portal!Filed
    <3>3. /\ s.dealNo = c.dealNo /\ s.clearingPrice = c.clearingPrice /\ s.leadBuyerId = c.leadBuyerId
          /\ s.syndicateIds = c.syndicateIds /\ s.elections = Portal!With(c.elections, me, ballot)
      BY <1>2, <2>1 DEF PortalShape
    <3> HIDE DEF s
    <3>4. Booked(c) => Booked(s)
      BY <1>2, <1>14, <2>1, <3>1, <3>3, BallotIsBooked DEF c
    <3>5. QED
      BY <2>1, <3>1, <3>2, <3>4 DEF PortalTallies, Later, Portal!Allocated, Portal!Settling
  <2> HIDE DEF s
  <2>4. QED
    BY <2>1, <2>2, <2>3, PortalPosts DEF c
<1>15. CASE Portal!closeElectionsAndCompute(t)
  <2> DEFINE shut      == [c EXCEPT !.electionsClosed = TRUE]
             filled    == [shut EXCEPT !.syndicateIds = Portal!recomputeSyndicate(shut)]
             allocated == [filled EXCEPT !.legs = Portal!computeAllocation(filled)]
             s == [allocated EXCEPT !.approvals = Portal!seedApprovals(allocated), !.stage = "allocation"]
  <2>1. Portal!commit(t, s) /\ c.stage = "elections"
    BY <1>15, PortalClicked, PortalElections DEF Portal!closeElectionsAndCompute, c
  <2>2. s.stage \notin ClosingStages
    BY <1>2 DEF PortalShape, ClosingStages
  <2>3. PortalTallies(c) => PortalTallies(s)
    <3>1. /\ s.stage = "allocation" /\ s.bids = c.bids /\ s.legs = Portal!computeAllocation(filled)
          /\ s.approvals = Portal!seedApprovals(allocated) /\ allocated.legs = s.legs
      BY <1>2 DEF PortalShape
    <3>2. /\ s.dealNo = filled.dealNo /\ s.bids = filled.bids /\ s.clearingPrice = filled.clearingPrice
          /\ s.leadBuyerId = filled.leadBuyerId /\ s.syndicateIds = filled.syndicateIds
          /\ s.elections = filled.elections /\ s.electionsClosed = filled.electionsClosed
      BY <1>2 DEF PortalShape
    <3>3. /\ s.dealNo = allocated.dealNo /\ s.bids = allocated.bids /\ s.clearingPrice = allocated.clearingPrice
          /\ s.leadBuyerId = allocated.leadBuyerId /\ s.syndicateIds = allocated.syndicateIds
          /\ s.elections = allocated.elections /\ s.electionsClosed = allocated.electionsClosed
      BY <1>2 DEF PortalShape
    <3> DEFINE joined == Portal!recomputeSyndicate(shut)
    <3>10. joined \subseteq DOMAIN c.bids \ {c.leadBuyerId}
      <4>1. joined \subseteq DOMAIN shut.bids \ {shut.leadBuyerId}
        BY DEF Portal!recomputeSyndicate, Portal!NextBest, Portal!Qualifying, Portal!Filed
      <4>2. shut.bids = c.bids /\ shut.leadBuyerId = c.leadBuyerId
        BY <1>2 DEF PortalShape
      <4> HIDE DEF joined, shut
      <4>3. QED
        BY <4>1, <4>2
    <3>11. /\ s.dealNo = c.dealNo /\ s.clearingPrice = c.clearingPrice /\ s.leadBuyerId = c.leadBuyerId
           /\ s.syndicateIds = joined /\ s.elections = c.elections
      BY <1>2 DEF PortalShape
    <3> HIDE DEF s, allocated, filled, joined
    <3>12. Booked(c) => Booked(s)
      BY <2>1, <3>1, <3>10, <3>11 DEF Booked, Portal!deal, Led
    <3>4. Portal!computeAllocation(s) = Portal!computeAllocation(filled)
      BY <3>2, SameFigures
    <3>5. Portal!approvalParties(s) = Portal!approvalParties(allocated)
      BY <3>1, <3>3, SameFigures
    <3>6. DOMAIN s.approvals = Portal!approvalParties(s) /\ s.legs = Portal!computeAllocation(s)
      BY <3>1, <3>4, <3>5 DEF Portal!seedApprovals
    <3>7. s.legs # {}
      BY <3>6 DEF Portal!computeAllocation
    <3>8. Portal!Filed(s) = Portal!Filed(c)
      BY <3>1 DEF Portal!Filed
    <3>9. QED
      BY <3>1, <3>6, <3>7, <3>8, <3>12
         DEF PortalTallies, Portal!Current, Later, Portal!Allocated, Portal!Settling
  <2> HIDE DEF s
  <2>4. QED
    BY <2>1, <2>2, <2>3, PortalPosts DEF c
<1>16. ASSUME NEW fail \in BOOLEAN, Portal!fireClose(t, fail)
      PROVE  \E s : Posts(t, s) /\ Attended(t, s) /\ (PortalTallies(c) => PortalTallies(s))
  <2> DEFINE s == [c EXCEPT !.closingFail = fail, !.stage = "settlement"]
  <2>1. \E end \in {"settle", "revert"} : Portal!Begin(t, s, end)
    BY <1>16 DEF Portal!fireClose, Portal!Moved, c
  <2>3. PortalTallies(c) => PortalTallies(s)
    <3>1. /\ s.dealNo = c.dealNo /\ s.bids = c.bids /\ s.bidsOpen = c.bidsOpen
          /\ s.clearingPrice = c.clearingPrice /\ s.leadBuyerId = c.leadBuyerId
          /\ s.syndicateIds = c.syndicateIds /\ s.elections = c.elections
          /\ s.electionsClosed = c.electionsClosed /\ s.legs = c.legs
          /\ DOMAIN s.approvals = DOMAIN c.approvals
      BY <1>2 DEF PortalShape
    <3>2. /\ c.stage \in Later => s.stage \in Later
          /\ s.stage = "allocation" => c.stage = "allocation"
          /\ s.stage \in {"setup", "bidding"} => c.stage \in {"setup", "bidding"}
          /\ s.stage \in Led => c.stage \in Led
      BY <1>2, <2>1 DEF PortalShape, Later, Portal!Allocated, Portal!Settling, Led
    <3> HIDE DEF s
    <3>3. QED
      BY <3>1, <3>2, PortalStillTallies
  <2> HIDE DEF s
  <2>4. QED
    BY <2>1, <2>3, PortalTimesIt
<1>17. CASE Portal!startNextDeal(t) \/ Portal!reset(t)
  <2>1. PICK n \in DOMAIN Deals : Portal!commit(t, Portal!freshState(n))
    BY <1>17, PortalSeed DEF Portal!startNextDeal, Portal!reset
  <2>2. Portal!freshState(n).stage \notin ClosingStages
    BY DEF Portal!freshState, ClosingStages
  <2>3. PortalTallies(Portal!freshState(n))
    BY PortalFreshTallies
  <2>4. QED
    BY <2>1, <2>2, <2>3, PortalPosts DEF c
<1>18. QED
  BY <1>3, <1>4, <1>5, <1>6, <1>7, <1>8, <1>9, <1>10, <1>11, <1>12, <1>13, <1>14, <1>15, <1>16, <1>17
     DEF Portal!Click, c

\* The timeout of a close ends it.
LEMMA ProtoTimeoutAttends ==
  ASSUME NEW t \in Tabs, ProtoShape(copy[t]), Proto!settleTimeout(t) \/ Proto!revertTimeout(t)
  PROVE  \E s : Posts(t, s) /\ Attended(t, s) /\ (ProtoTallies(copy[t]) => ProtoTallies(s))
<1> DEFINE Ended(failed) == [copy[t] EXCEPT !.stage = "settled", !.failedAttempt = failed, !.closed = ~failed,
                                            !.closingFail = FALSE]
<1>1. PICK failed \in BOOLEAN : \E end, closing : Proto!End(t, end, closing, Ended(failed))
  <2>1. Proto!settleTimeout(t) => \E end, closing : Proto!End(t, end, closing, Ended(FALSE))
    BY DEF Proto!settleTimeout
  <2>2. Proto!revertTimeout(t) => \E end, closing : Proto!End(t, end, closing, Ended(TRUE))
    BY DEF Proto!revertTimeout
  <2> HIDE DEF Ended
  <2>3. QED
    BY <2>1, <2>2
<1>2. Ended(failed).stage = "settled"
  BY DEF ProtoShape
<1>3. ProtoTallies(copy[t]) => ProtoTallies(Ended(failed))
  BY ProtoSameFigures DEF ProtoShape, ProtoTallies
<1> HIDE DEF Ended
<1>4. QED
  BY <1>1, <1>2, <1>3, ProtoEnds

\* The timeout of a close ends it.
LEMMA PortalTimeoutAttends ==
  ASSUME NEW t \in Tabs, PortalShape(copy[t]), Portal!settleTimeout(t) \/ Portal!revertTimeout(t)
  PROVE  \E s : Posts(t, s) /\ Attended(t, s) /\ (PortalTallies(copy[t]) => PortalTallies(s))
<1> DEFINE Ended(failed) == [copy[t] EXCEPT !.stage = "settled", !.failedAttempt = failed, !.closed = ~failed,
                                            !.closingFail = FALSE]
<1>1. PICK failed \in BOOLEAN : \E end, closing : Portal!End(t, end, closing, Ended(failed))
  <2>1. Portal!settleTimeout(t) => \E end, closing : Portal!End(t, end, closing, Ended(FALSE))
    BY DEF Portal!settleTimeout
  <2>2. Portal!revertTimeout(t) => \E end, closing : Portal!End(t, end, closing, Ended(TRUE))
    BY DEF Portal!revertTimeout
  <2> HIDE DEF Ended
  <2>3. QED
    BY <2>1, <2>2
<1>2. Ended(failed).stage = "settled"
  BY DEF PortalShape
<1>3. PortalTallies(copy[t]) => PortalTallies(Ended(failed))
  <2> DEFINE c == copy[t]
             s == Ended(failed)
  <2>1. /\ s.dealNo = c.dealNo /\ s.bids = c.bids /\ s.bidsOpen = c.bidsOpen
        /\ s.clearingPrice = c.clearingPrice /\ s.leadBuyerId = c.leadBuyerId
        /\ s.syndicateIds = c.syndicateIds /\ s.elections = c.elections
        /\ s.electionsClosed = c.electionsClosed /\ s.legs = c.legs
        /\ s.approvals = c.approvals /\ s.stage = "settled"
    BY DEF PortalShape
  <2>2. s.stage \in Later /\ s.stage \notin Led
    BY <2>1 DEF Later, Portal!Allocated, Portal!Settling, Led
  <2> HIDE DEF c, s
  <2>3. PortalTallies(c) => PortalTallies(s)
    BY <2>1, <2>2, PortalStillTallies
  <2>4. QED
    BY <2>3 DEF c, s
<1> HIDE DEF Ended
<1>4. QED
  BY <1>1, <1>2, <1>3, PortalEnds

\* A message that arrives is the last change, or there was another.
LEMMA ReceiveKeepsUp ==
  ASSUME TabsTyped, KeepUpInv, NEW l \in Link, Receive(l)
  PROVE  KeepUpInv'
<1>1. PICK X : wire \in [Link -> Seq(X)] /\ copy \in [Tabs -> X] /\ store \in X
  BY DEF TabsTyped
<1>2. wire[l] \in Seq(X) /\ wire[l] # <<>> /\ l.to \in Tabs
  BY <1>1 DEF Receive, Link
<1>3. /\ Len(Tail(wire[l])) = Len(wire[l]) - 1 /\ Tail(wire[l]) \in Seq(X)
      /\ \A i \in 1..Len(Tail(wire[l])) : Tail(wire[l])[i] = wire[l][i + 1]
      /\ DOMAIN wire[l] = 1..Len(wire[l]) /\ Len(wire[l]) \in Nat \ {0}
      /\ Head(wire[l]) = wire[l][1]
  BY <1>2, HeadTailProperties, LenProperties, EmptySeq
<1>4. DOMAIN Tail(wire[l]) = 1..(Len(wire[l]) - 1)
  BY <1>3, LenProperties
<1>5. /\ wire'[l] = Tail(wire[l]) /\ \A m \in Link : m # l => wire'[m] = wire[m]
      /\ copy' = [copy EXCEPT ![l.to] = Head(wire[l])] /\ UNCHANGED <<store, timer, crossed, overtaken, stranded>>
  BY <1>1 DEF Receive
<1>6. ASSUME InStep PROVE InStep'
  <2>1. ASSUME NEW m \in Link, NEW i \in DOMAIN wire'[m] PROVE wire'[m][i] = store'
    <3>1. CASE m = l
      <4>1. \A j \in DOMAIN wire[l] : wire[l][j] = store
        BY <1>6 DEF InStep
      <4>2. \A j \in 1..(Len(wire[l]) - 1) : Tail(wire[l])[j] = store
        BY <1>3, <4>1
      <4>3. QED
        BY <1>4, <1>5, <2>1, <3>1, <4>2
    <3>2. CASE m # l
      BY <1>5, <1>6, <2>1, <3>2 DEF InStep
    <3>3. QED
      BY <3>1, <3>2
  <2>2. ASSUME NEW t \in Tabs PROVE copy'[t] = store' \/ \E m \in Link : m.to = t /\ wire'[m] # <<>>
    <3>1. CASE t = l.to
      <4>1. Head(wire[l]) = store
        BY <1>3, <1>6 DEF InStep
      <4>2. QED
        BY <1>1, <1>5, <3>1, <4>1
    <3>2. CASE t # l.to
      <4>1. copy'[t] = copy[t]
        BY <1>1, <1>5, <3>2
      <4>2. QED
        BY <1>5, <1>6, <3>2, <4>1 DEF InStep
    <3>3. QED
      BY <3>1, <3>2
  <2>3. QED
    BY <2>1, <2>2 DEF InStep, Link
<1>7. Timed => Timed'
  BY <1>5 DEF Timed
<1>8. QED
  BY <1>5, <1>6, <1>7 DEF KeepUpInv

\* A page that opens is in step, and strands no close it does not own up to.
LEMMA LoadKeepsUp ==
  ASSUME TabsTyped, KeepUpInv, NEW t \in Tabs, NEW r, Load(t, r)
  PROVE  KeepUpInv'
<1>1. PICK X : wire \in [Link -> Seq(X)] /\ copy \in [Tabs -> X] /\ store \in X
  BY DEF TabsTyped
<1>2. /\ copy' = [copy EXCEPT ![t] = store] /\ UNCHANGED <<store, crossed, overtaken>>
      /\ wire' = [l \in Link |-> IF l.to = t THEN <<>> ELSE wire[l]]
      /\ timer' = [timer EXCEPT ![t] = NoTimer] /\ stranded' = (stranded \/ timer[t] # NoTimer)
  BY DEF Load
<1>3. timer' \in [Tabs -> {NoTimer, "settle", "revert"}] /\ crossed' \in Nat
  BY <1>2 DEF KeepUpInv
<1>4. ASSUME InStep PROVE InStep'
  <2>1. ASSUME NEW m \in Link, NEW i \in DOMAIN wire'[m] PROVE wire'[m][i] = store'
    BY <1>2, <1>4 DEF InStep
  <2>2. ASSUME NEW u \in Tabs PROVE copy'[u] = store' \/ \E m \in Link : m.to = u /\ wire'[m] # <<>>
    <3>1. CASE u = t
      BY <1>1, <1>2, <3>1
    <3>2. CASE u # t
      <4>1. copy'[u] = copy[u] /\ \A m \in Link : m.to = u => wire'[m] = wire[m]
        BY <1>1, <1>2, <3>2
      <4>2. QED
        BY <1>2, <1>4, <4>1 DEF InStep
    <3>3. QED
      BY <3>1, <3>2
  <2>3. QED
    BY <2>1, <2>2 DEF InStep, Link
<1>5. ASSUME Timed PROVE Timed'
  <2>1. SUFFICES ASSUME ~overtaken', ~stranded', store'.stage \in ClosingStages
                 PROVE  \E u \in Tabs : timer'[u] # NoTimer
    BY DEF Timed
  <2>2. timer[t] = NoTimer /\ ~stranded
    BY <1>2, <2>1
  <2>3. timer' = timer
    BY <1>2, <2>2 DEF KeepUpInv
  <2>4. QED
    BY <1>2, <1>5, <2>1, <2>2, <2>3 DEF Timed
<1>6. QED
  BY <1>2, <1>3, <1>4, <1>5 DEF KeepUpInv

\* And what every copy of the deal says of its figures stays true.
Tallies(s) == IF ThePortal THEN PortalTallies(s) ELSE ProtoTallies(s)
SteadyInv == KeepUpInv /\ \A s \in Held : Tallies(s)

\* Both builds start in step, from a deal nobody has changed.
LEMMA SteadyStarts == Init => SteadyInv
<1> SUFFICES ASSUME Init PROVE SteadyInv
  OBVIOUS
<1>1. PICK s : /\ copy = [t \in Tabs |-> s] /\ store = s /\ wire = [l \in Link |-> <<>>] /\ s.stage = "setup"
               /\ timer = [t \in Tabs |-> NoTimer] /\ crossed = 0 /\ Tallies(s)
  <2>1. CASE ThePortal
    <3> DEFINE s == Portal!freshState(1)
    <3>1. Portal!PortalInit
      BY <2>1 DEF Init, ThePortal
    <3>2. s.stage = "setup" /\ Tallies(s)
      BY <2>1, PortalSeed, PortalFreshTallies DEF Portal!freshState, Tallies
    <3> HIDE DEF s
    <3>3. QED
      BY <3>1, <3>2 DEF Portal!PortalInit, Portal!TabsInit, Portal!Link, Link, Portal!NoTimer, NoTimer, s
  <2>2. CASE ~ThePortal
    <3> DEFINE s == Proto!freshState(1)
    <3>1. Proto!PrototypeInit
      BY <2>2 DEF Init, ThePortal, NoTabs
    <3>2. s.stage = "setup" /\ Tallies(s)
      BY <2>2 DEF Proto!freshState, Tallies, ProtoTallies, Proto!Null
    <3> HIDE DEF s
    <3>3. QED
      BY <3>1, <3>2 DEF Proto!PrototypeInit, Proto!TabsInit, Proto!Link, Link, Proto!NoTimer, NoTimer, s
  <2>3. QED
    BY <2>1, <2>2
<1>2. InStep
  <2>1. DOMAIN <<>> = {}
    OBVIOUS
  <2>2. QED
    BY <1>1, <2>1 DEF InStep
<1>3. Timed
  BY <1>1 DEF Timed, ClosingStages
<1>4. Held \subseteq {s}
  BY <1>1, StartsFrom
<1>5. QED
  BY <1>1, <1>2, <1>3, <1>4 DEF SteadyInv, KeepUpInv

\* A change by either build keeps both ...
LEMMA PostSteady ==
  ASSUME TabsTyped, SteadyInv, UNCHANGED build,
         NEW t \in Tabs, NEW s, Posts(t, s), Attended(t, s), Tallies(copy[t]) => Tallies(s)
  PROVE  SteadyInv'
<1>1. KeepUpInv'
  BY PostKeepsUp DEF SteadyInv
<1>2. Held' \subseteq Held \cup {s} /\ copy[t] \in Held
  BY PutsOne DEF Posts, Held
<1>3. \A x \in Held \cup {s} : Tallies(x)'
  BY <1>2 DEF SteadyInv, Tallies, ThePortal
<1>4. QED
  BY <1>1, <1>2, <1>3 DEF SteadyInv

\* ... and so does a step that makes no change.
LEMMA DeliverSteady ==
  ASSUME SteadyInv, UNCHANGED build, KeepUpInv', Held' \subseteq Held
  PROVE  SteadyInv'
BY DEF SteadyInv, Tallies, ThePortal

LEMMA SteadyStep == OfflineInv /\ SteadyInv /\ [Next]_vars => SteadyInv'
<1> SUFFICES ASSUME OfflineInv, SteadyInv, [Next]_vars PROVE SteadyInv'
  OBVIOUS
<1>1. /\ TabsTyped /\ KeepUpInv /\ UNCHANGED build
      /\ \A t \in Tabs : Sound(copy[t]) /\ (ThePortal => role[t] \in Portal!Role)
  BY DEF OfflineInv, Held, SteadyInv, Next, vars
<1>2. ASSUME NEW l \in Link, Receive(l) PROVE SteadyInv'
  BY <1>1, <1>2, ReceiveKeepsUp, ReceivesNothingNew, DeliverSteady
<1>3. ASSUME NEW t \in Tabs, NEW r, Load(t, r) PROVE SteadyInv'
  BY <1>1, <1>3, LoadKeepsUp, LoadsNothingNew, DeliverSteady
<1>4. CASE UNCHANGED tabVars
  <2>1. KeepUpInv' /\ Held' = Held
    BY <1>1, <1>4 DEF KeepUpInv, InStep, Timed, Held, tabVars
  <2>2. QED
    BY <1>1, <2>1, DeliverSteady
<1>5. CASE ThePortal /\ Portal!PortalNext
  <2>1. ASSUME NEW t \in Tabs, Portal!Click(t) \/ Portal!settleTimeout(t) \/ Portal!revertTimeout(t)
        PROVE  SteadyInv'
    <3>1. PICK s : Posts(t, s) /\ Attended(t, s) /\ (PortalTallies(copy[t]) => PortalTallies(s))
      BY <1>1, <1>5, <2>1, PortalClickAttends, PortalTimeoutAttends DEF Sound, PortalSound
    <3>2. QED
      BY <1>1, <1>5, <3>1, PostSteady DEF Tallies
  <2>2. Link = Portal!Link
    BY DEF Link, Portal!Link
  <2>3. QED
    BY <1>2, <1>3, <1>5, <2>1, <2>2, Delivered DEF Portal!PortalNext
<1>6. CASE ~ThePortal /\ Proto!PrototypeNext
  <2>1. ASSUME NEW t \in Tabs, Proto!Click(t) \/ Proto!settleTimeout(t) \/ Proto!revertTimeout(t)
        PROVE  SteadyInv'
    <3>1. PICK s : Posts(t, s) /\ Attended(t, s) /\ (ProtoTallies(copy[t]) => ProtoTallies(s))
      BY <1>1, <1>6, <2>1, ProtoClickAttends, ProtoTimeoutAttends DEF Sound
    <3>2. QED
      BY <1>1, <1>6, <3>1, PostSteady DEF Tallies
  <2>2. ASSUME NEW t \in Tabs, NEW r, Proto!personaSelect(t, r)
        PROVE  SteadyInv'
    <3>1. UNCHANGED <<copy, timer, store, wire, crossed, overtaken, stranded>>
      BY <2>2 DEF Proto!personaSelect
    <3>2. KeepUpInv' /\ Held' = Held
      BY <1>1, <3>1 DEF KeepUpInv, InStep, Timed, Held
    <3>3. QED
      BY <1>1, <3>2, DeliverSteady
  <2>3. Link = Proto!Link
    BY DEF Link, Proto!Link
  <2>4. QED
    BY <1>2, <1>3, <1>6, <2>1, <2>2, <2>3, Delivered DEF Proto!PrototypeNext
<1>7. QED
  BY <1>4, <1>5, <1>6 DEF Next, vars, ThePortal

\* The invariant of both builds holds throughout.
THEOREM OfflineInvariant == Spec => [](OfflineInv /\ SteadyInv)
<1>1. OfflineInv /\ SteadyInv /\ [Next]_vars => (OfflineInv /\ SteadyInv)'
  BY OfflineStep, SteadyStep
<1>2. QED
  BY <1>1, OfflineStarts, SteadyStarts, PTL DEF Spec

\* Tabs that have received everything hold the same deal unless two changes
\* crossed, and a close that is under way has a timeout, unless a page was left
\* before its own: commit posts the whole state over every transport, load
\* reads the one that was stored last.
THEOREM TabsKeepTogether == Spec => []TabsKeepUp
<1>1. SteadyInv => TabsKeepUp
  BY InStepAgree DEF SteadyInv, KeepUpInv, TabsKeepUp, Timed, ClosingStages
<1>2. QED
  BY <1>1, OfflineInvariant, PTL

\* The legs stored, and who has to approve them, are those that the bids and
\* elections stored with them come to: computeAllocation runs once the book
\* and the elections are closed, and nothing opens them again but a new deal.
THEOREM AllocationsAreCurrent == Spec => []AllocationIsCurrent
<1>1. SteadyInv => AllocationIsCurrent
  <2>1. store \in Held
    BY DEF Held
  <2>2. QED
    BY <2>1 DEF SteadyInv, Tallies, PortalTallies, ProtoTallies, AllocationIsCurrent, Portal!Current,
                Proto!Current, Proto!Null
<1>2. QED
  BY <1>1, OfflineInvariant, PTL

\* The units issued come to the asset's cost and the cash to what the buyers
\* fund, within what the figures are rounded by, and no buyer funds more than it
\* bid for: computeAllocation fills sellers and buyers from one demand and one
\* capacity, and nothing it is computed from changes afterwards.
THEOREM LegsAlwaysTieOut == Spec => []LegsTieOut
<1>1. SteadyInv => LegsTieOut
  <2>1. SUFFICES ASSUME SteadyInv, ThePortal, store.legs # {} PROVE Portal!TiesOut(store)
    BY DEF LegsTieOut, Portal!TiesOut
  <2>2. store \in Held
    BY DEF Held
  <2>3. PortalTallies(store)
    BY <2>1, <2>2 DEF SteadyInv, Tallies
  <2>4. HasLead(store) /\ store.legs = Portal!computeAllocation(store)
    BY <2>1, <2>3 DEF PortalTallies, Portal!Current, HasLead, Booked
  <2>5. QED
    BY <2>4, TiesOutWithLead
<1>2. QED
  BY <1>1, OfflineInvariant, PTL

-----------------------------------------------------------------------------
(* What a page tells of the elections *)

\* Two deals of one book, with the same demand, that p elects alike in.
AlikeTo(s, x, p) ==
  /\ x.dealNo = s.dealNo /\ x.bids = s.bids /\ x.clearingPrice = s.clearingPrice
  /\ x.leadBuyerId = s.leadBuyerId /\ x.syndicateIds = s.syndicateIds
  /\ Portal!sellDemand(x) = Portal!sellDemand(s) /\ Portal!rollDemand(x) = Portal!rollDemand(s)
  /\ p \in Portal!deal(s).lps =>
       Portal!Selling(x, p) = Portal!Selling(s, p) /\ Portal!Rolling(x, p) = Portal!Rolling(s, p)

\* Each leg of p in the one is a leg of the other.
LEMMA OwnLegsAlike ==
  ASSUME NEW s, NEW x, NEW p, AlikeTo(s, x, p),
         NEW leg \in Portal!computeAllocation(s), leg.to = p
  PROVE  leg \in Portal!computeAllocation(x)
<1>1. /\ Portal!deal(x) = Portal!deal(s)
      /\ Portal!leadCapacity(x) = Portal!leadCapacity(s)
      /\ Portal!syndicateCapacity(x) = Portal!syndicateCapacity(s)
  BY DEF AlikeTo, Portal!deal, Portal!leadCapacity, Portal!syndicateCapacity, Portal!CapacityOf
<1>2. /\ Portal!buyerCapacity(x) = Portal!buyerCapacity(s)
      /\ Portal!oversubscribed(x) <=> Portal!oversubscribed(s)
  BY <1>1 DEF AlikeTo, Portal!buyerCapacity, Portal!oversubscribed
<1>3. Portal!filledSellNav(x) = Portal!filledSellNav(s)
  BY <1>2 DEF AlikeTo, Portal!filledSellNav
<1>4. \A n : Portal!AtPrice(x, n) = Portal!AtPrice(s, n)
  BY DEF AlikeTo, Portal!AtPrice
<1>5. \A b : Portal!buyerFundedNav(x, b) = Portal!buyerFundedNav(s, b)
  BY <1>1, <1>3 DEF AlikeTo, Portal!buyerFundedNav
<1>6. p \in Portal!deal(s).lps => Portal!lpFilledSell(x, p) = Portal!lpFilledSell(s, p)
  BY <1>2 DEF AlikeTo, Portal!lpFilledSell
<1>7. Portal!assetNavIn(x) = Portal!assetNavIn(s)
  BY <1>3, <1>4 DEF AlikeTo, Portal!assetNavIn
<1>8. CASE \E l \in Portal!deal(s).lps : /\ Portal!lpFilledSell(s, l) > 1
                                         /\ leg = Portal!Leg("cash", l, Portal!AtPrice(s, Portal!lpFilledSell(s, l)))
  <2>1. PICK l \in Portal!deal(s).lps : /\ Portal!lpFilledSell(s, l) > 1
                                        /\ leg = Portal!Leg("cash", l, Portal!AtPrice(s, Portal!lpFilledSell(s, l)))
    BY <1>8
  <2>2. l = p
    BY <2>1 DEF Portal!Leg
  <2>3. QED
    BY <1>1, <1>4, <1>6, <2>1, <2>2 DEF Portal!computeAllocation
<1>9. CASE \E l \in Portal!deal(s).lps : /\ Portal!Rolling(s, l) > 1
                                         /\ leg = Portal!Leg("units", l, Portal!AtPrice(s, Portal!Rolling(s, l)))
  <2>1. PICK l \in Portal!deal(s).lps : /\ Portal!Rolling(s, l) > 1
                                        /\ leg = Portal!Leg("units", l, Portal!AtPrice(s, Portal!Rolling(s, l)))
    BY <1>9
  <2>2. l = p
    BY <2>1 DEF Portal!Leg
  <2>3. Portal!Rolling(x, p) = Portal!Rolling(s, p)
    BY <2>1, <2>2 DEF AlikeTo
  <2>4. QED
    BY <1>1, <1>4, <2>1, <2>2, <2>3 DEF Portal!computeAllocation
<1>10. CASE \/ leg = Portal!Leg("asset", "vehicle", Portal!assetNavIn(s))
            \/ leg \in {Portal!Leg("units", b, Portal!AtPrice(s, Portal!buyerFundedNav(s, b))) :
                          b \in {b \in Portal!ToSet(Portal!deal(s).buyers) : Portal!buyerFundedNav(s, b) > 1}}
  BY <1>1, <1>4, <1>5, <1>7, <1>10 DEF Portal!computeAllocation
<1>11. QED
  BY <1>8, <1>9, <1>10 DEF Portal!computeAllocation

\* A page shows two deals alike that are alike in what everybody is shown.
LEMMA CopiesAreSealed ==
  ASSUME NEW s, PortalSound(s), s.legs # {} => s.legs = Portal!computeAllocation(s),
         NEW r \in Portal!Role, r # "advisor", ~(r = "oversight" /\ s.closed), s.stage # "approvals"
  PROVE  Portal!Sealed(s, r)
<1> SUFFICES ASSUME NEW e \in Portal!OtherElections(s, r), Portal!Alike(s, Portal!Recast(s, e), r)
             PROVE  Portal!Contents(s, r) = Portal!Contents(Portal!Recast(s, e), r)
  BY DEF Portal!Sealed
<1> DEFINE y == [s EXCEPT !.elections = e]
           x == Portal!Recast(s, e)
<1>1. DOMAIN e = DOMAIN s.elections /\ \A l \in Portal!Mine(r) \cap DOMAIN s.elections : e[l] = s.elections[l]
  BY DEF Portal!OtherElections
<1>2. /\ y.dealNo = s.dealNo /\ y.stage = s.stage /\ y.bids = s.bids /\ y.clearingPrice = s.clearingPrice
      /\ y.leadBuyerId = s.leadBuyerId /\ y.syndicateIds = s.syndicateIds /\ y.elections = e
      /\ y.electionsClosed = s.electionsClosed /\ y.closed = s.closed /\ y.legs = s.legs
  BY DEF PortalSound, PortalShape
<1>3. /\ x.dealNo = s.dealNo /\ x.stage = s.stage /\ x.bids = s.bids /\ x.clearingPrice = s.clearingPrice
      /\ x.leadBuyerId = s.leadBuyerId /\ x.syndicateIds = s.syndicateIds /\ x.elections = e
      /\ x.electionsClosed = s.electionsClosed /\ x.closed = s.closed
      /\ x.legs = IF s.legs = {} THEN {} ELSE Portal!computeAllocation(y)
  BY <1>2 DEF PortalSound, PortalShape, Portal!Recast
<1> HIDE DEF x
<1>4. Portal!computeAllocation(x) = Portal!computeAllocation(y)
  <2> HIDE DEF y
  <2>1. QED
    BY <1>2, <1>3, SameFigures
<1> HIDE DEF y
<1>5. Portal!deal(x) = Portal!deal(s) /\ Portal!Elected(x) = Portal!Elected(s)
  BY <1>1, <1>3 DEF Portal!deal, Portal!Elected
<1>6. \A l \in Portal!Mine(r) : Portal!electionFor(x, l) = Portal!electionFor(s, l)
  BY <1>1, <1>3, <1>5 DEF Portal!electionFor
<1>7. \A l \in Portal!Mine(r) : Portal!Selling(x, l) = Portal!Selling(s, l) /\ Portal!Rolling(x, l) = Portal!Rolling(s, l)
  BY <1>5, <1>6 DEF Portal!Selling, Portal!Rolling
<1>8. /\ Portal!investorRegister(x, r) = Portal!investorRegister(s, r)
      /\ Portal!investorRegister(s, r) \subseteq Portal!Mine(r)
  BY <1>3, <1>5 DEF Portal!investorRegister, Portal!Mine
<1>9. {<<l, Portal!electionFor(x, l)>> : l \in Portal!investorRegister(x, r)}
        = {<<l, Portal!electionFor(s, l)>> : l \in Portal!investorRegister(s, r)}
  BY <1>6, <1>8
<1>10. Portal!obligations(s, r) = {} /\ Portal!obligations(x, r) = {}
  BY <1>3 DEF Portal!obligations
<1>11. Portal!legsFor(x, r) = Portal!legsFor(s, r)
  <2>1. CASE r = "oversight"
    BY <1>3, <2>1 DEF Portal!legsFor
  <2>2. CASE s.legs = {}
    BY <1>3, <2>2 DEF Portal!legsFor
  <2>3. CASE r # "oversight" /\ s.legs # {}
    <3> DEFINE p == Personas[r]
    <3>1. r \in DOMAIN Personas /\ s.dealNo \in DOMAIN Deals
      BY <2>3 DEF Portal!Role, PortalSound, PortalShape
    <3>2. Portal!sellDemand(x) = Portal!sellDemand(s) /\ Portal!rollDemand(x) = Portal!rollDemand(s)
      <4>1. Portal!figures(s).allocated = Portal!figures(x).allocated
        BY DEF Portal!Alike, x
      <4> DEFINE told(d) == <<Portal!sellDemand(d), Portal!filledSellNav(d), Portal!rollDemand(d)>>
      <4>2. Portal!figures(s).allocated = {told(s)}
        BY <2>3 DEF Portal!figures
      <4>3. Portal!figures(x).allocated \in {{}, {told(x)}}
        BY DEF Portal!figures
      <4>4. told(x) = told(s)
        <5> HIDE DEF told
        <5>1. QED
          BY <4>1, <4>2, <4>3
      <4>5. QED
        BY ONLY <4>4
    <3>3. p \in Portal!deal(s).lps => p \in Portal!Mine(r)
      BY <3>1, PortalSeed DEF Portal!deal, Portal!Mine, Portal!LPRoles
    <3>4. AlikeTo(s, x, p) /\ AlikeTo(x, s, p)
      BY <1>3, <1>5, <1>7, <3>2, <3>3 DEF AlikeTo
    <3>5. s.legs = Portal!computeAllocation(s) /\ x.legs = Portal!computeAllocation(x)
      BY <1>3, <1>4, <2>3
    <3>6. {leg \in s.legs : leg.to = p} = {leg \in x.legs : leg.to = p}
      BY <3>4, <3>5, OwnLegsAlike
    <3>7. QED
      BY <2>3, <3>6 DEF Portal!legsFor
  <2>4. QED
    BY <2>1, <2>2, <2>3
<1>12. QED
  BY <1>9, <1>10, <1>11 DEF Portal!Contents, x

\* Away from the approvals, whatever a page of the portal shows an LP or a
\* buyer, or oversight before the close, of the others' elections follows from
\* the totals that every page shows and from where its own legs stand: legsFor
\* and investorRegister leave out the rest, and the legs left in are computed
\* from an LP's own election and the totals.
THEOREM ElectionsStaySealed == Spec => []SealedBehindTotals
<1>1. OfflineInv /\ SteadyInv => SealedBehindTotals
  <2>1. SUFFICES ASSUME OfflineInv, SteadyInv, ThePortal, NEW t \in Tabs, copy[t].stage # "approvals",
                        role[t] # "advisor", ~(role[t] = "oversight" /\ copy[t].closed)
                 PROVE  Portal!Sealed(copy[t], role[t])
    BY DEF SealedBehindTotals
  <2>2. copy[t] \in Held /\ role[t] \in Portal!Role
    BY <2>1 DEF OfflineInv, Held
  <2>3. PortalSound(copy[t]) /\ PortalTallies(copy[t])
    BY <2>1, <2>2 DEF OfflineInv, SteadyInv, Sound, Tallies
  <2>4. copy[t].legs # {} => copy[t].legs = Portal!computeAllocation(copy[t])
    BY <2>3 DEF PortalTallies, Portal!Current
  <2>5. QED
    BY <2>1, <2>2, <2>3, <2>4, CopiesAreSealed
<1>2. QED
  BY <1>1, OfflineInvariant, PTL

-----------------------------------------------------------------------------
(* What the pages have to show *)

\* What the lists of tasks and buttons ask of a deal is true or false.
LEMMA PortalFlags ==
  /\ \A s, p : Portal!Granted(s, p) \in BOOLEAN
  /\ \A s, r : Portal!Pending(s, r) \in BOOLEAN
  /\ \A s : Portal!allApproved(s) \in BOOLEAN
BY DEF Portal!Granted, Portal!Pending, Portal!allApproved

\* The sections of each role's page.
LEMMA PortalSections ==
  ASSUME NEW r
  PROVE  /\ r = "advisor" => {"bids", "consent", "elections", "allocation"} \subseteq Portal!sectionsFor(r)
         /\ r = "buyer" => "bids" \in Portal!sectionsFor(r)
         /\ r = "oversight" => "consent" \in Portal!sectionsFor(r)
         /\ r \in Portal!LPRoles => "elections" \in Portal!sectionsFor(r)
         /\ "settlement" \in Portal!sectionsFor(r)
<1>1. r \in Portal!LPRoles => r \notin {"advisor", "buyer", "oversight"}
  BY DEF Portal!LPRoles
<1>2. CASE r = "advisor"
  <2>1. Portal!sectionsFor(r) = {"overview", "participants", "allocation", "settlement", "documents", "audit"}
                                  \cup {"bids", "consent", "elections"}
    BY <1>1, <1>2 DEF Portal!sectionsFor
  <2>2. QED
    BY <1>1, <1>2, <2>1
<1>3. CASE r = "buyer"
  <2>1. Portal!sectionsFor(r) = {"overview", "participants", "allocation", "settlement", "documents", "audit"}
                                  \cup {"bids"}
    BY <1>1, <1>3 DEF Portal!sectionsFor
  <2>2. QED
    BY <1>1, <1>3, <2>1
<1>4. CASE r = "oversight"
  <2>1. Portal!sectionsFor(r) = {"overview", "participants", "allocation", "settlement", "documents", "audit"}
                                  \cup {"consent"}
    BY <1>1, <1>4 DEF Portal!sectionsFor
  <2>2. QED
    BY <1>1, <1>4, <2>1
<1>5. CASE r \in Portal!LPRoles
  <2>1. Portal!sectionsFor(r) = {"overview", "participants", "allocation", "settlement", "documents", "audit"}
                                  \cup {"elections"}
    BY <1>1, <1>5 DEF Portal!sectionsFor
  <2>2. QED
    BY <1>1, <1>5, <2>1
<1>6. CASE r \notin {"advisor", "buyer", "oversight"} \cup Portal!LPRoles
  <2>1. \E more : Portal!sectionsFor(r)
          = {"overview", "participants", "allocation", "settlement", "documents", "audit"} \cup more
    BY DEF Portal!sectionsFor
  <2>2. QED
    BY <1>6, <2>1
<1>7. QED
  BY <1>2, <1>3, <1>4, <1>5, <1>6

\* Each task of the advisor's list has its button ...
LEMMA AdvisorTasks ==
  ASSUME NEW s, PortalInOrder(s), PortalTallies(s)
  PROVE  Portal!Doable(s, "advisor")
<1> DEFINE r == "advisor"
<1>1. /\ Portal!secBids(s, r) \subseteq Portal!Offered(s, r)
      /\ Portal!secConsent(s, r) \subseteq Portal!Offered(s, r)
      /\ Portal!secElections(s, r) \subseteq Portal!Offered(s, r)
      /\ Portal!secAllocation(s, r) \subseteq Portal!Offered(s, r)
      /\ Portal!secSettlement(s, r) \subseteq Portal!Offered(s, r)
  <2>1. {"bids", "consent", "elections", "allocation", "settlement"} \subseteq Portal!sectionsFor(r)
    BY PortalSections
  <2>2. \A x : ~Portal!locked(s, r, x)
    BY DEF Portal!locked
  <2>3. \A x \in Portal!sectionsFor(r) : Portal!renderSection(s, r, x) \subseteq Portal!Offered(s, r)
    BY DEF Portal!Offered
  <2>4. /\ Portal!renderSection(s, r, "bids") = Portal!secBids(s, r)
        /\ Portal!renderSection(s, r, "consent") = Portal!secConsent(s, r)
        /\ Portal!renderSection(s, r, "elections") = Portal!secElections(s, r)
        /\ Portal!renderSection(s, r, "allocation") = Portal!secAllocation(s, r)
        /\ Portal!renderSection(s, r, "settlement") = Portal!secSettlement(s, r)
    BY <2>2 DEF Portal!renderSection
  <2>5. QED
    BY <2>1, <2>3, <2>4
<1>2. SUFFICES ASSUME NEW a \in Portal!tasksFor(s, r) PROVE a \in Portal!Offered(s, r)
  BY DEF Portal!Doable
<1>3. /\ a \in {"openAuction", "selectLead", "openLpacReview", "openElections", "compute", "sendForApproval",
                "approve", "settle"}
      /\ a = "openAuction" => s.stage = "setup"
      /\ a = "selectLead" => s.stage = "bidding"
      /\ a = "openLpacReview" => s.stage = "leadSelected"
      /\ a = "openElections" => s.stage = "lpacConsent" /\ s.lpacConsent
      /\ a = "compute" => s.stage = "elections"
      /\ a = "sendForApproval" => s.stage = "allocation"
      /\ a = "approve" => s.stage = "approvals" /\ ~Portal!Granted(s, "advisor")
      /\ a = "settle" => s.stage = "approvals" /\ Portal!allApproved(s)
  <2> DEFINE At(stage) == s.stage = stage
             consented == At("lpacConsent") /\ s.lpacConsent
             mine == At("approvals") /\ ~Portal!Granted(s, "advisor")
             all == At("approvals") /\ Portal!allApproved(s)
             tasks == [
               openAuction     |-> At("setup"),
               selectLead      |-> At("bidding"),
               openLpacReview  |-> At("leadSelected"),
               openElections   |-> consented,
               compute         |-> At("elections"),
               sendForApproval |-> At("allocation"),
               approve         |-> mine,
               settle          |-> all]
  <2>1. Portal!tasksFor(s, r) = {x \in DOMAIN tasks : tasks[x]}
    <3>1. r \notin Portal!LPRoles
      BY DEF Portal!LPRoles
    <3>2. QED
      BY <3>1 DEF Portal!tasksFor, Portal!Offers
  <2>2. consented \in BOOLEAN /\ mine \in BOOLEAN /\ all \in BOOLEAN /\ \A stage : At(stage) \in BOOLEAN
    OBVIOUS
  <2>3. /\ consented => At("lpacConsent") /\ s.lpacConsent
        /\ mine => At("approvals") /\ ~Portal!Granted(s, "advisor")
        /\ all => At("approvals") /\ Portal!allApproved(s)
    OBVIOUS
  <2> HIDE DEF r, At, consented, mine, all
  <2>4. /\ a \in {"openAuction", "selectLead", "openLpacReview", "openElections", "compute", "sendForApproval",
                  "approve", "settle"}
        /\ a = "openAuction" => At("setup")
        /\ a = "selectLead" => At("bidding")
        /\ a = "openLpacReview" => At("leadSelected")
        /\ a = "openElections" => consented
        /\ a = "compute" => At("elections")
        /\ a = "sendForApproval" => At("allocation")
        /\ a = "approve" => mine
        /\ a = "settle" => all
    BY <2>1, <2>2
  <2> HIDE DEF tasks
  <2>5. QED
    BY <2>3, <2>4 DEF At
<1>4. CASE a \in {"openAuction", "selectLead"}
  <2>1. Portal!secBids(s, r) = Portal!Offers(Portal!advisorBids(s))
    BY DEF Portal!secBids
  <2>2. a \in Portal!secBids(s, r)
    BY <1>3, <1>4, <2>1 DEF Portal!Offers, Portal!advisorBids, PortalTallies
  <2>3. QED
    BY <1>1, <2>2
<1>5. CASE a = "openLpacReview"
  <2>1. Portal!secConsent(s, r) = Portal!Offers([openLpacReview |-> s.stage = "leadSelected"])
    BY DEF Portal!secConsent
  <2>2. a \in Portal!secConsent(s, r)
    BY <1>3, <1>5, <2>1 DEF Portal!Offers
  <2>3. QED
    BY <1>1, <2>2
<1>6. CASE a \in {"openElections", "compute"}
  <2>1. Portal!secElections(s, r) = Portal!Offers(Portal!advisorElections(s))
    BY DEF Portal!secElections
  <2>2. a \in Portal!secElections(s, r)
    BY <1>3, <1>6, <2>1 DEF Portal!Offers, Portal!advisorElections
  <2>3. QED
    BY <1>1, <2>2
<1>7. CASE a = "sendForApproval"
  BY <1>1, <1>3, <1>7 DEF Portal!secAllocation, PortalTallies
<1>8. CASE a \in {"approve", "settle"}
  <2>1. s.stage = "approvals" /\ s.legs # {}
    BY <1>3, <1>8 DEF PortalInOrder, Portal!GatesPassed, Portal!Allocated
  <2>2. ~Portal!Ended(s)
    BY <2>1 DEF Portal!Ended, PortalInOrder, Portal!GatesPassed
  <2>3. Portal!secSettlement(s, r) = Portal!approvalsView(s, r)
    BY <2>1, <2>2 DEF Portal!secSettlement
  <2>4. Portal!approvalKeyFor(r) = "advisor"
    <3>1. "advisor" \notin DOMAIN Personas
      BY PortalSeed
    <3>2. QED
      BY <3>1 DEF Portal!approvalKeyFor
  <2>5. "advisor" \in Portal!approvalParties(s)
    BY <2>1 DEF Portal!approvalParties
  <2>6. a \in Portal!approvalsView(s, r)
    <3> DEFINE view == [approve |-> TRUE /\ ~Portal!Granted(s, "advisor"),
                        cancel  |-> TRUE /\ Portal!Granted(s, "advisor"),
                        settle  |-> TRUE /\ Portal!allApproved(s),
                        decline |-> TRUE]
    <3>1. Portal!approvalsView(s, r) = {x \in DOMAIN view : view[x]}
      BY <2>4, <2>5 DEF Portal!approvalsView, Portal!Offers
    <3>2. QED
      BY <1>3, <1>8, <3>1, PortalFlags
  <2>7. QED
    BY <1>1, <2>3, <2>6
<1>9. QED
  BY <1>3, <1>4, <1>5, <1>6, <1>7, <1>8

\* ... and of everybody else's: who has still to approve is bound by a leg.
LEMMA OthersTasks ==
  ASSUME NEW s, PortalInOrder(s), PortalTallies(s), NEW r \in Portal!Role, r # "advisor"
  PROVE  Portal!Doable(s, r)
<1>1. r \in {"staying", "leaving", "buyer", "oversight"} /\ (r # "oversight" => r \in DOMAIN Personas)
  BY PortalSeed DEF Portal!Role
<1>2. \A x \in Portal!sectionsFor(r) : Portal!renderSection(s, r, x) \subseteq Portal!Offered(s, r)
  BY DEF Portal!Offered
<1>3. SUFFICES ASSUME NEW a \in Portal!tasksFor(s, r) PROVE a \in Portal!Offered(s, r)
  BY DEF Portal!Doable
<1>4. CASE r = "oversight"
  <2>1. Portal!tasksFor(s, r) = Portal!Offers([recordConsent |-> s.stage = "lpacConsent" /\ ~s.lpacConsent])
    <3>1. r \notin Portal!LPRoles
      BY <1>4 DEF Portal!LPRoles
    <3>2. QED
      BY <1>4, <3>1 DEF Portal!tasksFor
  <2>2. a = "recordConsent" /\ s.stage = "lpacConsent" /\ ~s.lpacConsent
    <3> DEFINE due == s.stage = "lpacConsent" /\ ~s.lpacConsent
    <3>1. due \in BOOLEAN /\ Portal!tasksFor(s, r) = Portal!Offers([recordConsent |-> due])
      BY <2>1
    <3> HIDE DEF due
    <3>2. a = "recordConsent" /\ due
      BY <3>1 DEF Portal!Offers
    <3>3. QED
      BY <3>2 DEF due
  <2>3. ~Portal!locked(s, r, "consent") /\ "consent" \in Portal!sectionsFor(r)
    BY <1>4, <2>2, PortalSections DEF Portal!locked
  <2>4. Portal!renderSection(s, r, "consent") = Portal!secConsent(s, r)
    BY <2>3 DEF Portal!renderSection
  <2>5. Portal!secConsent(s, r) = Portal!Offers([recordConsent |-> s.stage = "lpacConsent" /\ ~s.lpacConsent])
    BY <1>4 DEF Portal!secConsent
  <2>6. a \in Portal!renderSection(s, r, "consent")
    <3> DEFINE due == s.stage = "lpacConsent" /\ ~s.lpacConsent
    <3>1. due \in BOOLEAN /\ due = TRUE /\ Portal!secConsent(s, r) = Portal!Offers([recordConsent |-> due])
      BY <2>2, <2>5
    <3> HIDE DEF due
    <3>2. QED
      BY <2>2, <2>4, <3>1 DEF Portal!Offers
  <2>7. QED
    BY <1>2, <2>3, <2>6
<1>5. CASE r # "oversight"
  <2>1. \A x : ~Portal!locked(s, r, x)
    BY <1>5 DEF Portal!locked
  <2>2. CASE a = "approve" /\ s.stage = "approvals" /\ Portal!Pending(s, r)
    <3>1. s.legs # {} /\ ~Portal!Ended(s)
      BY <2>2 DEF PortalInOrder, Portal!GatesPassed, Portal!Allocated, Portal!Ended
    <3>2. Portal!approvalKeyFor(r) \in Portal!approvalParties(s)
      BY <2>2, <3>1 DEF Portal!Pending, PortalTallies, Portal!Current
    <3>3. ~Portal!Granted(s, Portal!approvalKeyFor(r))
      BY <2>2 DEF Portal!Pending, Portal!Granted
    <3>4. Portal!secSettlement(s, r) = Portal!approvalsView(s, r)
      BY <2>2, <3>1 DEF Portal!secSettlement
    <3>5. a \in Portal!approvalsView(s, r)
      BY <2>2, <3>2, <3>3 DEF Portal!approvalsView, Portal!Offers
    <3>6. "settlement" \in Portal!sectionsFor(r)
      BY PortalSections
    <3>7. Portal!renderSection(s, r, "settlement") = Portal!secSettlement(s, r)
      BY <2>1 DEF Portal!renderSection
    <3>8. QED
      BY <1>2, <3>4, <3>5, <3>6, <3>7
  <2>3. CASE r = "buyer"
    <3>1. Portal!tasksFor(s, r) = Portal!Offers([
            submitBid |-> s.stage \in {"setup", "bidding"} /\ Personas[r] \notin DOMAIN s.bids,
            approve   |-> s.stage = "approvals" /\ Portal!Pending(s, r)])
      <4>1. r \notin Portal!LPRoles
        BY <2>3 DEF Portal!LPRoles
      <4>2. QED
        BY <2>3, <4>1 DEF Portal!tasksFor
    <3>2. \/ a = "submitBid" /\ s.stage \in {"setup", "bidding"} /\ Personas[r] \notin DOMAIN s.bids
          \/ a = "approve" /\ s.stage = "approvals" /\ Portal!Pending(s, r)
      <4> DEFINE due == s.stage \in {"setup", "bidding"} /\ Personas[r] \notin DOMAIN s.bids
                 mine == s.stage = "approvals" /\ Portal!Pending(s, r)
      <4>1. /\ due \in BOOLEAN /\ mine \in BOOLEAN
            /\ Portal!tasksFor(s, r) = Portal!Offers([submitBid |-> due, approve |-> mine])
        BY <3>1
      <4> HIDE DEF due, mine
      <4>2. (a = "submitBid" /\ due) \/ (a = "approve" /\ mine)
        BY <4>1 DEF Portal!Offers
      <4>3. QED
        BY <4>2 DEF due, mine
    <3>3. CASE a = "submitBid" /\ s.stage \in {"setup", "bidding"} /\ Personas[r] \notin DOMAIN s.bids
      <4>1. Portal!secBids(s, r) = Portal!Offers(Portal!buyerBids(s, Personas[r]))
        BY <2>3 DEF Portal!secBids
      <4>2. a \in Portal!secBids(s, r)
        BY <3>3, <4>1 DEF Portal!Offers, Portal!buyerBids
      <4>3. "bids" \in Portal!sectionsFor(r) /\ Portal!renderSection(s, r, "bids") = Portal!secBids(s, r)
        BY <2>1, <2>3, PortalSections DEF Portal!renderSection
      <4>4. QED
        BY <1>2, <4>2, <4>3
    <3>4. QED
      BY <2>2, <3>2, <3>3
  <2>4. CASE r # "buyer"
    <3>1. r \in Portal!LPRoles
      BY <1>1, <1>5, <2>4 DEF Portal!LPRoles
    <3>2. Portal!tasksFor(s, r) = Portal!Offers([
            submitElection |-> s.stage = "elections" /\ Personas[r] \notin DOMAIN s.elections,
            approve        |-> s.stage = "approvals" /\ Portal!Pending(s, r)])
      BY <1>1, <1>5, <2>4, <3>1 DEF Portal!tasksFor
    <3>3. \/ a = "submitElection" /\ s.stage = "elections"
          \/ a = "approve" /\ s.stage = "approvals" /\ Portal!Pending(s, r)
      <4> DEFINE due == s.stage = "elections" /\ Personas[r] \notin DOMAIN s.elections
                 mine == s.stage = "approvals" /\ Portal!Pending(s, r)
      <4>1. /\ due \in BOOLEAN /\ mine \in BOOLEAN
            /\ Portal!tasksFor(s, r) = Portal!Offers([submitElection |-> due, approve |-> mine])
        BY <3>2
      <4> HIDE DEF due, mine
      <4>2. (a = "submitElection" /\ due) \/ (a = "approve" /\ mine)
        BY <4>1 DEF Portal!Offers
      <4>3. QED
        BY <4>2 DEF due, mine
    <3>4. CASE a = "submitElection" /\ s.stage = "elections"
      <4>1. Portal!secElections(s, r) = Portal!Offers(Portal!lpElections(s))
        BY <1>1, <1>5 DEF Portal!secElections
      <4>2. a \in Portal!secElections(s, r)
        BY <3>4, <4>1 DEF Portal!Offers, Portal!lpElections
      <4>3. "elections" \in Portal!sectionsFor(r)
        BY <3>1, PortalSections
      <4>4. Portal!renderSection(s, r, "elections") = Portal!secElections(s, r)
        BY <2>1 DEF Portal!renderSection
      <4>5. QED
        BY <1>2, <4>2, <4>3, <4>4
    <3>5. QED
      BY <2>2, <3>3, <3>4
  <2>5. QED
    BY <2>3, <2>4
<1>6. QED
  BY <1>4, <1>5

\* Whatever a page lists as waiting for its reader has a button on it, and no
\* view reads what is not there, unless a close was overtaken: tasksFor asks
\* for what renderSection offers, whichever copy the page happens to hold.
THEOREM PagesServeTheirReaders == Spec => []PagesServe
<1>1. OfflineInv /\ SteadyInv => PagesServe
  <2>1. SUFFICES ASSUME OfflineInv, SteadyInv, ~overtaken
                 PROVE  /\ ThePortal => \A t \in Tabs : Portal!Doable(copy[t], role[t])
                        /\ ~ThePortal => \A s \in Held : Proto!Renders(s)
    BY DEF PagesServe
  <2>2. ASSUME ThePortal, NEW t \in Tabs PROVE Portal!Doable(copy[t], role[t])
    <3>1. copy[t] \in Held /\ role[t] \in Portal!Role
      BY <2>1, <2>2 DEF OfflineInv, Held
    <3>2. PortalInOrder(copy[t]) /\ PortalTallies(copy[t])
      BY <2>1, <2>2, <3>1 DEF OfflineInv, SteadyInv, InOrder, Tallies
    <3>3. QED
      BY <3>1, <3>2, AdvisorTasks, OthersTasks
  <2>3. ASSUME ~ThePortal, NEW s \in Held PROVE Proto!Renders(s)
    BY <2>1, <2>3 DEF OfflineInv, InOrder, ProtoInOrder, Proto!GatesPassed, Proto!Renders, Proto!Closing
  <2>4. QED
    BY <2>2, <2>3
<1>2. QED
  BY <1>1, OfflineInvariant, PTL

-----------------------------------------------------------------------------
(* The other builds *)

\* Running the sandbox is running the seats over their ledger.
LEMMA SandboxRunsTheSeats == Spec /\ build = "sandbox" => SeatsSpec
<1>1. Init /\ build = "sandbox" => SeatsInit
  BY DEF Init
<1>2. build = "sandbox" /\ [Next]_vars => [SeatsNext]_seatVars /\ (build = "sandbox")'
  BY DEF Next, vars, seatVars
<1>3. QED
  BY <1>1, <1>2, PTL DEF Spec, SeatsSpec

\* Opening the web app in windows is what WindowsProofs is about.
LEMMA WindowsRunAlone == Spec /\ build = "windows" => WindowsSpec
<1>1. Init => WindowsInit
  BY DEF Init
<1>2. build = "windows" /\ [Next]_vars => [WindowsNext]_winVars /\ (build = "windows")'
  BY DEF Next, vars, winVars
<1>3. QED
  BY <1>1, <1>2, PTL DEF Spec, WindowsSpec

\* In the sandbox build a deal settles at once or not at all, is never out of
\* reach of a close, ends as the closing room promises, and shows no stage as
\* done and then as not.
THEOREM SandboxBuildHolds ==
  Spec /\ build = "sandbox" =>
    [](SettlesAtOnce /\ CloseIsWithinReach) /\ SandboxEndsAsPromised /\ StepperNeverGoesBack
BY SandboxRunsTheSeats, SettledAtOnce, CloseStaysWithinReach, SandboxKeepsThePromise, SteppersGoOn, PTL

-----------------------------------------------------------------------------
(* The scripts *)

\* The scripts have the ledger to themselves, or have not begun and leave it to the
\* seats.
SeatsAndScriptsInv ==
  IF build = "scripts" THEN ScriptInv
  ELSE SeatsInv /\ script = "provision" /\ pc = 1 /\ ended = "running" /\ registry = "seeded"

\* They start so and stay so.
LEMMA SeatsAndScriptsStart == Init => SeatsAndScriptsInv
BY SeatsStart, ScriptsStart DEF Init, NoScript, ScriptsInit, SeatsAndScriptsInv

\* A script's step keeps its own account of the ledger, a page's that of the seats.
LEMMA SeatsAndScriptsStep == SeatsAndScriptsInv /\ [Next]_vars => SeatsAndScriptsInv'
<1>1. SUFFICES ASSUME SeatsAndScriptsInv, [Next]_vars PROVE SeatsAndScriptsInv'
  OBVIOUS
<1>2. /\ build' = build
      /\ build = "scripts" => ScriptsNext \/ UNCHANGED scriptState
      /\ build # "scripts" => [SeatsNext]_seatVars /\ UNCHANGED scriptVars
  BY <1>1 DEF Next, vars, scriptState, exited
<1>3. CASE build = "scripts"
  BY <1>1, <1>2, <1>3, ScriptsStep DEF SeatsAndScriptsInv
<1>4. CASE build # "scripts"
  <2>1. SeatsInv'
    BY <1>1, <1>2, <1>4, SeatsStep DEF SeatsAndScriptsInv
  <2>2. QED
    BY <1>1, <1>2, <1>4, <2>1 DEF SeatsAndScriptsInv, scriptVars
<1>5. QED
  BY <1>3, <1>4

\* The wallet close fails for a lost call or refused keys only, and what it
\* proves has closed with nothing left to settle; the lifecycle check comes to
\* elections with the seeded parties and not with wallets; the minimal close
\* does not come past the LPAC's consent.  Before each of its steps the ledger
\* has what every later step needs, and each step is signed by whom it needs.
THEOREM ScriptsProve == Spec => []ScriptsProveTheClose
<1>1. SeatsAndScriptsInv => ScriptsProveTheClose
  BY ScriptInvProves DEF SeatsAndScriptsInv, ScriptsProveTheClose
<1>2. QED
  BY <1>1, SeatsAndScriptsStart, SeatsAndScriptsStep, PTL DEF Spec

-----------------------------------------------------------------------------
(* The types *)

\* What is true or false of a deal of the portal, and who has approved it.
Flagged(s) ==
  /\ \A k \in DOMAIN s.approvals : s.approvals[k] \in BOOLEAN
  /\ s.bidsOpen \in BOOLEAN /\ s.electionsClosed \in BOOLEAN /\ s.lpacConsent \in BOOLEAN
  /\ s.closed \in BOOLEAN /\ s.failedAttempt \in BOOLEAN /\ s.closingFail \in BOOLEAN
  /\ s.declined \in BOOLEAN

\* A change of one field leaves the flags.
LEMMA FlagsKept ==
  ASSUME NEW s, NEW x, Flagged(s), x.approvals = s.approvals, x.bidsOpen = s.bidsOpen,
         x.electionsClosed = s.electionsClosed, x.lpacConsent = s.lpacConsent, x.closed = s.closed,
         x.failedAttempt = s.failedAttempt, x.closingFail = s.closingFail, x.declined = s.declined
  PROVE  Flagged(x)
BY DEF Flagged

\* Tab t makes s of the deal, by a click or by a timeout.
PortalMakes(t, s) ==
  \/ Portal!commit(t, s)
  \/ \E end : Portal!Begin(t, s, end) \/ \E closing : Portal!End(t, end, closing, s)

\* Whatever the portal makes of a deal has its flags.
LEMMA PortalKeepsFlags ==
  ASSUME NEW t \in Tabs, PortalShape(copy[t]), Flagged(copy[t]),
         Portal!Click(t) \/ Portal!settleTimeout(t) \/ Portal!revertTimeout(t)
  PROVE  \E s : PortalMakes(t, s) /\ Flagged(s)
<1> DEFINE c == copy[t]
<1>1. PortalShape(c) /\ Flagged(c)
  OBVIOUS
<1>2. ASSUME NEW stage PROVE Flagged([c EXCEPT !.stage = stage])
  <2> DEFINE s == [c EXCEPT !.stage = stage]
  <2> HIDE DEF c
  <2>1. /\ s.approvals = c.approvals /\ s.bidsOpen = c.bidsOpen
        /\ s.electionsClosed = c.electionsClosed /\ s.lpacConsent = c.lpacConsent
        /\ s.closed = c.closed /\ s.failedAttempt = c.failedAttempt /\ s.closingFail = c.closingFail
        /\ s.declined = c.declined
    BY <1>1 DEF PortalShape
  <2> HIDE DEF s
  <2>2. Flagged(s)
    BY <1>1, <2>1, FlagsKept
  <2>3. QED
    BY <2>2 DEF s
<1>3. CASE Portal!openAuction(t) \/ Portal!openLpacReview(t) \/ Portal!openElections(t) \/ Portal!sendForApproval(t)
  <2>1. \E stage : Portal!commit(t, [c EXCEPT !.stage = stage])
    BY <1>3 DEF Portal!openAuction, Portal!openLpacReview, Portal!openElections,
       Portal!sendForApproval, Portal!Moved
  <2> HIDE DEF c
  <2>2. QED
    BY <1>2, <2>1 DEF PortalMakes
<1>4. ASSUME NEW price, NEW capacity, Portal!submitBid(t, price, capacity)
      PROVE  \E s : PortalMakes(t, s) /\ Flagged(s)
  <2> DEFINE bids == Portal!With(c.bids, Portal!Person(t), Portal!Bid(price, capacity))
             stage == IF c.stage = "setup" THEN "bidding" ELSE c.stage
             s == [c EXCEPT !.bids = bids, !.stage = stage]
  <2>1. Portal!commit(t, s)
    BY <1>4 DEF Portal!submitBid
  <2> HIDE DEF c
  <2>2. /\ s.approvals = c.approvals /\ s.bidsOpen = c.bidsOpen
        /\ s.electionsClosed = c.electionsClosed /\ s.lpacConsent = c.lpacConsent
        /\ s.closed = c.closed /\ s.failedAttempt = c.failedAttempt /\ s.closingFail = c.closingFail
        /\ s.declined = c.declined
    BY <1>1 DEF PortalShape
  <2> HIDE DEF s
  <2>3. Flagged(s)
    BY <1>1, <2>2 DEF Flagged
  <2>4. QED
    BY <2>1, <2>3 DEF c, s, PortalMakes
<1>5. ASSUME NEW b, Portal!selectLead(t, b) PROVE \E s : PortalMakes(t, s) /\ Flagged(s)
  <2> DEFINE led == [c EXCEPT !.bidsOpen = TRUE, !.leadBuyerId = b, !.clearingPrice = c.bids[b].price]
             s == [led EXCEPT !.syndicateIds = Portal!recomputeSyndicate(led), !.stage = "leadSelected"]
  <2>1. Portal!commit(t, s)
    BY <1>5 DEF Portal!selectLead
  <2> HIDE DEF c
  <2>2. /\ s.approvals = c.approvals /\ s.bidsOpen = TRUE /\ s.electionsClosed = c.electionsClosed
        /\ s.lpacConsent = c.lpacConsent
        /\ s.closed = c.closed /\ s.failedAttempt = c.failedAttempt /\ s.closingFail = c.closingFail
        /\ s.declined = c.declined
    BY <1>1 DEF PortalShape
  <2> HIDE DEF s
  <2>3. Flagged(s)
    BY <1>1, <2>2 DEF Flagged
  <2>4. QED
    BY <2>1, <2>3 DEF c, s, PortalMakes
<1>6. CASE Portal!recordConsent(t)
  <2> DEFINE s == [c EXCEPT !.lpacConsent = TRUE]
  <2>1. Portal!commit(t, s)
    BY <1>6 DEF Portal!recordConsent
  <2> HIDE DEF c
  <2>2. /\ s.approvals = c.approvals /\ s.bidsOpen = c.bidsOpen
        /\ s.electionsClosed = c.electionsClosed /\ s.lpacConsent = TRUE
        /\ s.closed = c.closed /\ s.failedAttempt = c.failedAttempt /\ s.closingFail = c.closingFail
        /\ s.declined = c.declined
    BY <1>1 DEF PortalShape
  <2> HIDE DEF s
  <2>3. Flagged(s)
    BY <1>1, <2>2 DEF Flagged
  <2>4. QED
    BY <2>1, <2>3 DEF c, s, PortalMakes
<1>7. ASSUME NEW choice, NEW roll, Portal!submitElection(t, choice, roll)
      PROVE  \E s : PortalMakes(t, s) /\ Flagged(s)
  <2> DEFINE me == Portal!Person(t)
             ballot == Portal!Ballot(choice, roll, Portal!deal(c).navs[me])
             s == [c EXCEPT !.elections = Portal!With(c.elections, me, ballot)]
  <2>1. Portal!commit(t, s)
    BY <1>7 DEF Portal!submitElection
  <2> HIDE DEF c
  <2>2. /\ s.approvals = c.approvals /\ s.bidsOpen = c.bidsOpen
        /\ s.electionsClosed = c.electionsClosed /\ s.lpacConsent = c.lpacConsent
        /\ s.closed = c.closed /\ s.failedAttempt = c.failedAttempt /\ s.closingFail = c.closingFail
        /\ s.declined = c.declined
    BY <1>1 DEF PortalShape
  <2> HIDE DEF s
  <2>3. Flagged(s)
    BY <1>1, <2>2 DEF Flagged
  <2>4. QED
    BY <2>1, <2>3 DEF c, s, PortalMakes
<1>8. CASE Portal!closeElectionsAndCompute(t)
  <2> DEFINE shut == [c EXCEPT !.electionsClosed = TRUE]
             filled == [shut EXCEPT !.syndicateIds = Portal!recomputeSyndicate(shut)]
             allocated == [filled EXCEPT !.legs = Portal!computeAllocation(filled)]
             approvals == Portal!seedApprovals(allocated)
             s == [allocated EXCEPT !.approvals = approvals, !.stage = "allocation"]
  <2>1. Portal!commit(t, s)
    BY <1>8 DEF Portal!closeElectionsAndCompute
  <2> HIDE DEF c
  <2>2. /\ s.approvals = approvals /\ s.bidsOpen = c.bidsOpen /\ s.electionsClosed = TRUE
        /\ s.lpacConsent = c.lpacConsent
        /\ s.closed = c.closed /\ s.failedAttempt = c.failedAttempt /\ s.closingFail = c.closingFail
        /\ s.declined = c.declined
    BY <1>1 DEF PortalShape
  <2> HIDE DEF s
  <2>3. \A k \in DOMAIN approvals : approvals[k] \in BOOLEAN
    BY DEF Portal!seedApprovals
  <2> HIDE DEF approvals
  <2>4. Flagged(s)
    BY <1>1, <2>2, <2>3 DEF Flagged
  <2>5. QED
    BY <2>1, <2>4 DEF c, s, PortalMakes
<1>9. CASE Portal!approve(t)
  <2> DEFINE approvals == [c.approvals EXCEPT ![Portal!approvalKeyFor(role[t])] = TRUE]
             s == [c EXCEPT !.approvals = approvals]
  <2>1. Portal!commit(t, s)
    BY <1>9 DEF Portal!approve
  <2> HIDE DEF c
  <2>2. /\ s.approvals = approvals /\ s.bidsOpen = c.bidsOpen /\ s.electionsClosed = c.electionsClosed
        /\ s.lpacConsent = c.lpacConsent
        /\ s.closed = c.closed /\ s.failedAttempt = c.failedAttempt /\ s.closingFail = c.closingFail
        /\ s.declined = c.declined
    BY <1>1 DEF PortalShape
  <2> HIDE DEF s
  <2>3. \A k \in DOMAIN approvals : approvals[k] \in BOOLEAN
    BY <1>1 DEF Flagged
  <2> HIDE DEF approvals
  <2>4. Flagged(s)
    BY <1>1, <2>2, <2>3 DEF Flagged
  <2>5. QED
    BY <2>1, <2>4 DEF c, s, PortalMakes
<1>10. CASE Portal!cancelApproval(t)
  <2> DEFINE approvals == [c.approvals EXCEPT ![Portal!approvalKeyFor(role[t])] = FALSE]
             s == [c EXCEPT !.approvals = approvals]
  <2>1. Portal!commit(t, s)
    BY <1>10 DEF Portal!cancelApproval
  <2> HIDE DEF c
  <2>2. /\ s.approvals = approvals /\ s.bidsOpen = c.bidsOpen /\ s.electionsClosed = c.electionsClosed
        /\ s.lpacConsent = c.lpacConsent
        /\ s.closed = c.closed /\ s.failedAttempt = c.failedAttempt /\ s.closingFail = c.closingFail
        /\ s.declined = c.declined
    BY <1>1 DEF PortalShape
  <2> HIDE DEF s
  <2>3. \A k \in DOMAIN approvals : approvals[k] \in BOOLEAN
    BY <1>1 DEF Flagged
  <2> HIDE DEF approvals
  <2>4. Flagged(s)
    BY <1>1, <2>2, <2>3 DEF Flagged
  <2>5. QED
    BY <2>1, <2>4 DEF c, s, PortalMakes
<1>11. CASE Portal!declineToProceed(t)
  <2> DEFINE s == [c EXCEPT !.stage = "declined", !.declined = TRUE]
  <2>1. Portal!commit(t, s)
    BY <1>11 DEF Portal!declineToProceed
  <2> HIDE DEF c
  <2>2. /\ s.approvals = c.approvals /\ s.bidsOpen = c.bidsOpen
        /\ s.electionsClosed = c.electionsClosed /\ s.lpacConsent = c.lpacConsent
        /\ s.closed = c.closed /\ s.failedAttempt = c.failedAttempt /\ s.closingFail = c.closingFail
        /\ s.declined = TRUE
    BY <1>1 DEF PortalShape
  <2> HIDE DEF s
  <2>3. Flagged(s)
    BY <1>1, <2>2 DEF Flagged
  <2>4. QED
    BY <2>1, <2>3 DEF c, s, PortalMakes
<1>12. CASE Portal!retryClose(t)
  <2> DEFINE s == [c EXCEPT !.stage = "approvals", !.failedAttempt = FALSE, !.closingFail = FALSE]
  <2>1. Portal!commit(t, s)
    BY <1>12 DEF Portal!retryClose
  <2> HIDE DEF c
  <2>2. /\ s.approvals = c.approvals /\ s.bidsOpen = c.bidsOpen
        /\ s.electionsClosed = c.electionsClosed /\ s.lpacConsent = c.lpacConsent
        /\ s.closed = c.closed /\ s.failedAttempt = FALSE /\ s.closingFail = FALSE /\ s.declined = c.declined
    BY <1>1 DEF PortalShape
  <2> HIDE DEF s
  <2>3. Flagged(s)
    BY <1>1, <2>2 DEF Flagged
  <2>4. QED
    BY <2>1, <2>3 DEF c, s, PortalMakes
<1>13. ASSUME NEW fail \in BOOLEAN, Portal!fireClose(t, fail) PROVE \E s : PortalMakes(t, s) /\ Flagged(s)
  <2> DEFINE s == [c EXCEPT !.closingFail = fail, !.stage = "settlement"]
  <2>1. \E end : Portal!Begin(t, s, end)
    BY <1>13 DEF Portal!fireClose
  <2> HIDE DEF c
  <2>2. /\ s.approvals = c.approvals /\ s.bidsOpen = c.bidsOpen
        /\ s.electionsClosed = c.electionsClosed /\ s.lpacConsent = c.lpacConsent
        /\ s.closed = c.closed /\ s.failedAttempt = c.failedAttempt /\ s.closingFail = fail
        /\ s.declined = c.declined
    BY <1>1 DEF PortalShape
  <2> HIDE DEF s
  <2>3. Flagged(s)
    BY <1>1, <2>2 DEF Flagged
  <2>4. QED
    BY <2>1, <2>3 DEF c, s, PortalMakes
<1>14. ASSUME NEW n PROVE Flagged(Portal!freshState(n))
  <2> DEFINE s == Portal!freshState(n)
  <2>1. /\ s.approvals = <<>> /\ s.bidsOpen = FALSE /\ s.electionsClosed = FALSE /\ s.lpacConsent = FALSE
        /\ s.closed = FALSE /\ s.failedAttempt = FALSE /\ s.closingFail = FALSE /\ s.declined = FALSE
    BY DEF Portal!freshState
  <2> HIDE DEF s
  <2>2. DOMAIN <<>> = {}
    OBVIOUS
  <2>3. Flagged(s)
    BY <2>1, <2>2 DEF Flagged
  <2>4. QED
    BY <2>3 DEF s
<1>15. CASE Portal!startNextDeal(t) \/ Portal!reset(t)
  <2>1. \E n : Portal!commit(t, Portal!freshState(n))
    BY <1>15 DEF Portal!startNextDeal, Portal!reset
  <2>2. QED
    BY <1>14, <2>1 DEF PortalMakes
<1>16. ASSUME NEW failed \in BOOLEAN
       PROVE  Flagged([c EXCEPT !.stage = "settled", !.failedAttempt = failed, !.closed = ~failed, !.closingFail = FALSE])
  <2> DEFINE shut == ~failed
             s == [c EXCEPT !.stage = "settled", !.failedAttempt = failed, !.closed = shut, !.closingFail = FALSE]
  <2>1. shut \in BOOLEAN
    OBVIOUS
  <2> HIDE DEF c, shut
  <2>2. /\ s.approvals = c.approvals /\ s.bidsOpen = c.bidsOpen
        /\ s.electionsClosed = c.electionsClosed /\ s.lpacConsent = c.lpacConsent
        /\ s.closed = shut /\ s.failedAttempt = failed /\ s.closingFail = FALSE /\ s.declined = c.declined
    BY <1>1 DEF PortalShape
  <2> HIDE DEF s
  <2>3. Flagged(s)
    BY <1>1, <2>1, <2>2 DEF Flagged
  <2>4. QED
    BY <2>3 DEF s, shut
<1>17. CASE Portal!settleTimeout(t)
  <2> DEFINE s == [c EXCEPT !.stage = "settled", !.failedAttempt = FALSE, !.closed = TRUE, !.closingFail = FALSE]
  <2>1. Portal!End(t, "settle", "settlement", s)
    BY <1>17 DEF Portal!settleTimeout
  <2>2. Flagged(s)
    BY <1>16
  <2> HIDE DEF s
  <2>3. QED
    BY <2>1, <2>2 DEF PortalMakes
<1>18. CASE Portal!revertTimeout(t)
  <2> DEFINE s == [c EXCEPT !.stage = "settled", !.failedAttempt = TRUE, !.closed = FALSE, !.closingFail = FALSE]
  <2>1. Portal!End(t, "revert", "settlement", s)
    BY <1>18 DEF Portal!revertTimeout
  <2>2. Flagged(s)
    BY <1>16
  <2> HIDE DEF s
  <2>3. QED
    BY <2>1, <2>2 DEF PortalMakes
<1>19. QED
  BY <1>3, <1>4, <1>5, <1>6, <1>7, <1>8, <1>9, <1>10, <1>11, <1>12, <1>13, <1>15, <1>17,
     <1>18 DEF Portal!Click

\* What may be null is at most one, of the prototype as elsewhere.
LEMMA AtMostOne == Proto!Cardinality({}) <= 1 /\ \A x : Proto!Cardinality({x}) <= 1
<1>1. \A D : Proto!Cardinality(D) = Cardinality(D)
  BY DEF Proto!Cardinality, Cardinality
<1>2. Cardinality({}) = 0 /\ \A x : Cardinality({x}) = 1
  BY FS_EmptySet, FS_Singleton
<1>3. QED
  BY <1>1, <1>2

\* A deal of the prototype stays one while only its stage and its flags change ...
LEMMA ProtoDealStays ==
  ASSUME NEW c, NEW s, Proto!DealOK(c), s.dealNo = c.dealNo, s.stage \in Proto!Stages,
         s.elections = c.elections, s.offer = c.offer, s.allocation = c.allocation, s.approvals = c.approvals,
         s.room \in BOOLEAN, s.closed \in BOOLEAN, s.failedAttempt \in BOOLEAN, s.closingFail \in BOOLEAN,
         s.oversightGranted \in BOOLEAN
  PROVE  Proto!DealOK(s)
BY DEF Proto!DealOK, Proto!deal

\* ... and so does one of its other fields, to what is typed.
LEMMA ProtoFieldTyped ==
  ASSUME NEW c, NEW s, Proto!DealOK(c), s.dealNo = c.dealNo, s.stage = c.stage,
         DOMAIN s.elections \subseteq Proto!LPs,
         \A l \in DOMAIN s.elections : s.elections[l].amount \in 0 .. Proto!deal(c).nav[l],
         Proto!Cardinality(s.offer) <= 1, Proto!Cardinality(s.allocation) <= 1,
         s.approvals \in [{"buyer", "vehicle", "staying", "leaving"} -> BOOLEAN],
         s.room = c.room, s.closed = c.closed, s.failedAttempt = c.failedAttempt, s.closingFail = c.closingFail,
         s.oversightGranted = c.oversightGranted
  PROVE  Proto!DealOK(s)
BY DEF Proto!DealOK, Proto!deal

\* A new deal of the prototype is one.
LEMMA ProtoFreshDeal == ASSUME NEW n \in DOMAIN ProtoDeals PROVE Proto!DealOK(Proto!freshState(n))
<1> DEFINE s == Proto!freshState(n)
<1>1. /\ s.dealNo = n /\ s.stage = "setup" /\ s.elections = <<>> /\ s.offer = {} /\ s.allocation = {}
      /\ s.approvals = [k \in {"buyer", "vehicle", "staying", "leaving"} |-> FALSE]
      /\ s.room = FALSE /\ s.closed = FALSE /\ s.failedAttempt = FALSE /\ s.closingFail = FALSE
      /\ s.oversightGranted = FALSE
  BY DEF Proto!freshState, Proto!Null
<1> HIDE DEF s
<1>2. DOMAIN <<>> = {}
  OBVIOUS
<1>3. Proto!DealOK(s)
  BY <1>1, <1>2, AtMostOne DEF Proto!DealOK, Proto!Stages
<1>4. QED
  BY <1>3 DEF s

\* Only an LP is offered to elect.
LEMMA ProtoElector ==
  ASSUME NEW s, s.stage \in Proto!Stages, NEW r, "submitElection" \in Proto!view(s, r)
  PROVE  r \in Proto!LPs
<1>1. s.stage = "elect"
  BY ProtoButtons
<1>2. "submitElection" \in Proto!vElect(s, r)
  BY <1>1 DEF Proto!view
<1>3. ASSUME r \notin Proto!LPs PROVE FALSE
  <2>1. Proto!vElect(s, r) \subseteq {"toCompute"}
    BY <1>3 DEF Proto!vElect, Proto!ForAdvisor, Proto!Offers
  <2>2. QED
    BY <1>2, <2>1
<1>4. QED
  BY <1>3

\* Tab t of the prototype makes s of the deal.
ProtoMakes(t, s) ==
  \/ Proto!commit(t, s)
  \/ \E end : Proto!Begin(t, s, end) \/ \E closing : Proto!End(t, end, closing, s)

\* Whatever the prototype makes of a deal is one.
LEMMA ProtoKeepsDeals ==
  ASSUME NEW t \in Tabs, ProtoShape(copy[t]), Proto!DealOK(copy[t]),
         Proto!Click(t) \/ Proto!settleTimeout(t) \/ Proto!revertTimeout(t)
  PROVE  \E s : ProtoMakes(t, s) /\ Proto!DealOK(s)
<1> DEFINE c == copy[t]
<1>1. ProtoShape(c) /\ Proto!DealOK(c)
  OBVIOUS
<1>2. /\ c.dealNo \in DOMAIN ProtoDeals /\ c.stage \in Proto!Stages /\ DOMAIN c.elections \subseteq Proto!LPs
      /\ \A l \in DOMAIN c.elections : c.elections[l].amount \in 0 .. Proto!deal(c).nav[l]
      /\ Proto!Cardinality(c.offer) <= 1 /\ Proto!Cardinality(c.allocation) <= 1
      /\ c.approvals \in [{"buyer", "vehicle", "staying", "leaving"} -> BOOLEAN]
      /\ c.room \in BOOLEAN /\ c.closed \in BOOLEAN /\ c.failedAttempt \in BOOLEAN
      /\ c.closingFail \in BOOLEAN
      /\ c.oversightGranted \in BOOLEAN
  BY <1>1 DEF Proto!DealOK
<1>3. CASE Proto!createRoom(t)
  <2> DEFINE s == [c EXCEPT !.stage = "invite", !.room = TRUE]
  <2>1. Proto!commit(t, s)
    BY <1>3 DEF Proto!createRoom, Proto!Moved
  <2> HIDE DEF c
  <2>2. /\ s.dealNo = c.dealNo /\ s.stage = "invite" /\ s.elections = c.elections /\ s.offer = c.offer
        /\ s.allocation = c.allocation /\ s.approvals = c.approvals
        /\ s.room = TRUE /\ s.closed = c.closed /\ s.failedAttempt = c.failedAttempt
        /\ s.closingFail = c.closingFail /\ s.oversightGranted = c.oversightGranted
    BY <1>1 DEF ProtoShape
  <2> HIDE DEF s
  <2>3. Proto!DealOK(s)
    BY <1>1, <1>2, <2>2, ProtoDealStays DEF Proto!Stages
  <2>4. QED
    BY <2>1, <2>3 DEF ProtoMakes, s, c
<1>4. ASSUME NEW stage \in Proto!Stages PROVE Proto!DealOK([c EXCEPT !.stage = stage])
  <2> DEFINE s == [c EXCEPT !.stage = stage]
  <2> HIDE DEF c
  <2>1. /\ s.dealNo = c.dealNo /\ s.stage = stage /\ s.elections = c.elections /\ s.offer = c.offer
        /\ s.allocation = c.allocation /\ s.approvals = c.approvals
        /\ s.room = c.room /\ s.closed = c.closed /\ s.failedAttempt = c.failedAttempt
        /\ s.closingFail = c.closingFail /\ s.oversightGranted = c.oversightGranted
    BY <1>1 DEF ProtoShape
  <2> HIDE DEF s
  <2>2. Proto!DealOK(s)
    BY <1>1, <1>2, <2>1, ProtoDealStays
  <2>3. QED
    BY <2>2 DEF s
<1>5. CASE \/ Proto!toPrice(t) \/ Proto!toElect(t) \/ Proto!toCompute(t)
           \/ Proto!toApprove(t) \/ Proto!toClose(t)
  <2>1. \E stage \in {"price", "elect", "compute", "approve", "close"} : Proto!commit(t, [c EXCEPT !.stage = stage])
    BY <1>5 DEF Proto!toPrice, Proto!toElect, Proto!toCompute, Proto!toApprove, Proto!toClose, Proto!Moved
  <2>2. {"price", "elect", "compute", "approve", "close"} \subseteq Proto!Stages
    BY DEF Proto!Stages
  <2> HIDE DEF c
  <2>3. QED
    BY <1>4, <2>1, <2>2 DEF ProtoMakes
<1>6. CASE Proto!retryClose(t)
  <2> DEFINE s == [c EXCEPT !.stage = "close", !.failedAttempt = FALSE]
  <2>1. Proto!commit(t, s)
    BY <1>6 DEF Proto!retryClose, Proto!Moved
  <2> HIDE DEF c
  <2>2. /\ s.dealNo = c.dealNo /\ s.stage = "close" /\ s.elections = c.elections /\ s.offer = c.offer
        /\ s.allocation = c.allocation /\ s.approvals = c.approvals
        /\ s.room = c.room /\ s.closed = c.closed /\ s.failedAttempt = FALSE
        /\ s.closingFail = c.closingFail /\ s.oversightGranted = c.oversightGranted
    BY <1>1 DEF ProtoShape
  <2> HIDE DEF s
  <2>3. Proto!DealOK(s)
    BY <1>1, <1>2, <2>2, ProtoDealStays DEF Proto!Stages
  <2>4. QED
    BY <2>1, <2>3 DEF ProtoMakes, s, c
<1>7. CASE Proto!grantOversight(t)
  <2> DEFINE s == [c EXCEPT !.oversightGranted = TRUE]
  <2>1. Proto!commit(t, s)
    BY <1>7 DEF Proto!grantOversight
  <2> HIDE DEF c
  <2>2. /\ s.dealNo = c.dealNo /\ s.stage = c.stage /\ s.elections = c.elections /\ s.offer = c.offer
        /\ s.allocation = c.allocation /\ s.approvals = c.approvals
        /\ s.room = c.room /\ s.closed = c.closed /\ s.failedAttempt = c.failedAttempt
        /\ s.closingFail = c.closingFail /\ s.oversightGranted = TRUE
    BY <1>1 DEF ProtoShape
  <2> HIDE DEF s
  <2>3. Proto!DealOK(s)
    BY <1>1, <1>2, <2>2, ProtoDealStays DEF Proto!Stages
  <2>4. QED
    BY <2>1, <2>3 DEF ProtoMakes, s, c
<1>8. ASSUME NEW fail \in BOOLEAN, Proto!runClose(t, fail) PROVE \E s : ProtoMakes(t, s) /\ Proto!DealOK(s)
  <2> DEFINE s == [c EXCEPT !.stage = "closing", !.closingFail = fail]
  <2>1. \E end : Proto!Begin(t, s, end)
    BY <1>8 DEF Proto!runClose, Proto!Moved
  <2> HIDE DEF c
  <2>2. /\ s.dealNo = c.dealNo /\ s.stage = "closing" /\ s.elections = c.elections
        /\ s.offer = c.offer /\ s.allocation = c.allocation /\ s.approvals = c.approvals
        /\ s.room = c.room /\ s.closed = c.closed /\ s.failedAttempt = c.failedAttempt
        /\ s.closingFail = fail /\ s.oversightGranted = c.oversightGranted
    BY <1>1 DEF ProtoShape
  <2> HIDE DEF s
  <2>3. Proto!DealOK(s)
    BY <1>1, <1>2, <2>2, <1>8, ProtoDealStays DEF Proto!Stages
  <2>4. QED
    BY <2>1, <2>3 DEF ProtoMakes, s, c
<1>9. ASSUME NEW price, NEW capacity, Proto!submitPrice(t, price, capacity)
      PROVE  \E s : ProtoMakes(t, s) /\ Proto!DealOK(s)
  <2> DEFINE bid == [price |-> price, capacity |-> capacity]
             s == [c EXCEPT !.offer = {bid}]
  <2>1. Proto!commit(t, s)
    BY <1>9 DEF Proto!submitPrice
  <2> HIDE DEF c, bid
  <2>2. /\ s.dealNo = c.dealNo /\ s.stage = c.stage /\ s.elections = c.elections /\ s.offer = {bid}
        /\ s.allocation = c.allocation /\ s.approvals = c.approvals
        /\ s.room = c.room /\ s.closed = c.closed /\ s.failedAttempt = c.failedAttempt
        /\ s.closingFail = c.closingFail /\ s.oversightGranted = c.oversightGranted
    BY <1>1 DEF ProtoShape
  <2> HIDE DEF s
  <2>3. Proto!DealOK(s)
    BY <1>1, <1>2, <2>2, AtMostOne, ProtoFieldTyped
  <2>4. QED
    BY <2>1, <2>3 DEF ProtoMakes, s, c, bid
<1>10. CASE Proto!doCompute(t)
  <2> DEFINE four == Proto!computeAllocation(c)
             s == [c EXCEPT !.allocation = {four}]
  <2>1. Proto!commit(t, s)
    BY <1>10 DEF Proto!doCompute
  <2> HIDE DEF c, four
  <2>2. /\ s.dealNo = c.dealNo /\ s.stage = c.stage /\ s.elections = c.elections /\ s.offer = c.offer
        /\ s.allocation = {four} /\ s.approvals = c.approvals
        /\ s.room = c.room /\ s.closed = c.closed /\ s.failedAttempt = c.failedAttempt
        /\ s.closingFail = c.closingFail /\ s.oversightGranted = c.oversightGranted
    BY <1>1 DEF ProtoShape
  <2> HIDE DEF s
  <2>3. Proto!DealOK(s)
    BY <1>1, <1>2, <2>2, AtMostOne, ProtoFieldTyped
  <2>4. QED
    BY <2>1, <2>3 DEF ProtoMakes, s, c, four
<1>11. CASE Proto!approveMine(t)
  <2> DEFINE approvals == [c.approvals EXCEPT ![Proto!obligation(role[t])] = TRUE]
             s == [c EXCEPT !.approvals = approvals]
  <2>1. Proto!commit(t, s)
    BY <1>11 DEF Proto!approveMine
  <2> HIDE DEF c, approvals
  <2>2. /\ s.dealNo = c.dealNo /\ s.stage = c.stage /\ s.elections = c.elections /\ s.offer = c.offer
        /\ s.allocation = c.allocation /\ s.approvals = approvals
        /\ s.room = c.room /\ s.closed = c.closed /\ s.failedAttempt = c.failedAttempt
        /\ s.closingFail = c.closingFail /\ s.oversightGranted = c.oversightGranted
    BY <1>1 DEF ProtoShape
  <2> HIDE DEF s
  <2>3. approvals \in [{"buyer", "vehicle", "staying", "leaving"} -> BOOLEAN]
    BY <1>2 DEF approvals
  <2>4. Proto!DealOK(s)
    BY <1>1, <1>2, <2>2, <2>3, ProtoFieldTyped
  <2>5. QED
    BY <2>1, <2>4 DEF ProtoMakes, s, c, approvals
<1>12. ASSUME NEW choice, NEW most \in Amounts, Proto!submitElection(t, choice, most)
       PROVE  \E s : ProtoMakes(t, s) /\ Proto!DealOK(s)
  <2> DEFINE figure == Proto!Larger(0, Proto!Smaller(most, Proto!deal(c).nav[role[t]]))
             ballot == [choice |-> choice, amount |-> figure]
             elections == Proto!With(c.elections, role[t], ballot)
             s == [c EXCEPT !.elections = elections]
  <2>1. Proto!commit(t, s)
    BY <1>12 DEF Proto!submitElection
  <2> HIDE DEF c, figure, ballot, elections
  <2>2. /\ s.dealNo = c.dealNo /\ s.stage = c.stage /\ s.elections = elections /\ s.offer = c.offer
        /\ s.allocation = c.allocation /\ s.approvals = c.approvals
        /\ s.room = c.room /\ s.closed = c.closed /\ s.failedAttempt = c.failedAttempt
        /\ s.closingFail = c.closingFail /\ s.oversightGranted = c.oversightGranted
    BY <1>1 DEF ProtoShape
  <2> HIDE DEF s
  <2>3. role[t] \in Proto!LPs
    BY <1>12, <1>2, ProtoElector DEF Proto!submitElection, Proto!Clicked, c
  <2>4. Proto!deal(c).nav[role[t]] \in Nat /\ most \in Int
    BY <1>12, <1>2, <2>3, SeedAssumption DEF Proto!SeedOK, Proto!InputsOK, Proto!deal, Proto!LPs
  <2>5. figure \in 0 .. Proto!deal(c).nav[role[t]]
    BY <2>4 DEF figure, Proto!Larger, Proto!Smaller
  <2>6. /\ DOMAIN elections = DOMAIN c.elections \cup {role[t]}
        /\ \A l \in DOMAIN elections : elections[l] = IF l = role[t] THEN ballot ELSE c.elections[l]
    BY DEF elections, Proto!With
  <2>7. /\ DOMAIN elections \subseteq Proto!LPs
        /\ \A l \in DOMAIN elections : elections[l].amount \in 0 .. Proto!deal(c).nav[l]
    BY <1>2, <2>3, <2>5, <2>6 DEF ballot
  <2>8. Proto!DealOK(s)
    BY <1>1, <1>2, <2>2, <2>7, ProtoFieldTyped
  <2>9. QED
    BY <2>1, <2>8 DEF ProtoMakes, s, c, figure, ballot, elections
<1>13. CASE Proto!startDeal2(t) \/ Proto!reset(t)
  <2>1. 1 \in DOMAIN ProtoDeals
    BY SeedAssumption DEF Proto!SeedOK
  <2>2. \E m \in DOMAIN ProtoDeals : Proto!commit(t, Proto!freshState(m))
    BY <1>13, <2>1 DEF Proto!startDeal2, Proto!reset
  <2>3. QED
    BY <2>2, ProtoFreshDeal DEF ProtoMakes
<1>14. CASE Proto!settleTimeout(t)
  <2> DEFINE s == [c EXCEPT !.stage = "settled", !.failedAttempt = FALSE, !.closed = TRUE, !.closingFail = FALSE]
  <2>1. Proto!End(t, "settle", "closing", s)
    BY <1>14 DEF Proto!settleTimeout
  <2> HIDE DEF c
  <2>2. /\ s.dealNo = c.dealNo /\ s.stage = "settled" /\ s.elections = c.elections
        /\ s.offer = c.offer /\ s.allocation = c.allocation /\ s.approvals = c.approvals
        /\ s.room = c.room /\ s.closed = TRUE /\ s.failedAttempt = FALSE /\ s.closingFail = FALSE
        /\ s.oversightGranted = c.oversightGranted
    BY <1>1 DEF ProtoShape
  <2> HIDE DEF s
  <2>3. Proto!DealOK(s)
    BY <1>1, <1>2, <2>2, ProtoDealStays DEF Proto!Stages
  <2>4. QED
    BY <2>1, <2>3 DEF ProtoMakes, s, c
<1>15. CASE Proto!revertTimeout(t)
  <2> DEFINE s == [c EXCEPT !.stage = "settled", !.failedAttempt = TRUE, !.closed = FALSE, !.closingFail = FALSE]
  <2>1. Proto!End(t, "revert", "closing", s)
    BY <1>15 DEF Proto!revertTimeout
  <2> HIDE DEF c
  <2>2. /\ s.dealNo = c.dealNo /\ s.stage = "settled" /\ s.elections = c.elections
        /\ s.offer = c.offer /\ s.allocation = c.allocation /\ s.approvals = c.approvals
        /\ s.room = c.room /\ s.closed = FALSE /\ s.failedAttempt = TRUE /\ s.closingFail = FALSE
        /\ s.oversightGranted = c.oversightGranted
    BY <1>1 DEF ProtoShape
  <2> HIDE DEF s
  <2>3. Proto!DealOK(s)
    BY <1>1, <1>2, <2>2, ProtoDealStays DEF Proto!Stages
  <2>4. QED
    BY <2>1, <2>3 DEF ProtoMakes, s, c
<1>16. QED
  BY <1>3, <1>5, <1>6, <1>7, <1>8, <1>9, <1>10, <1>11, <1>12, <1>13, <1>14, <1>15 DEF Proto!Click

\* What a change posted by tab t leaves of the tabs beside the deal.
Posted(t) ==
  /\ \A l \in Link : l.from = t => Len(wire[l]) < MaxInFlight
  /\ Quiet \/ crossed < MaxCrossed
  /\ \E s : wire' = [l \in Link |-> IF l.from = t THEN Append(wire[l], s) ELSE wire[l]]
  /\ crossed' \in {0, crossed} \/ (~Quiet /\ crossed' = crossed + 1)
  /\ role' = role /\ stranded' = stranded /\ overtaken' \in {overtaken, TRUE}

\* Whatever the portal makes of the deal is put in place and posted.
LEMMA PortalMade ==
  ASSUME NEW t, NEW s, PortalMakes(t, s), overtaken \in BOOLEAN PROVE Puts(t, s) /\ Posted(t)
<1> USE DEF Portal!Post, Portal!Link, Link, Puts, Posted, Portal!Quiet, Quiet, Portal!Agreed
<1>1. CASE Portal!commit(t, s)
  BY <1>1 DEF Portal!commit
<1>2. ASSUME NEW end, Portal!Begin(t, s, end) PROVE Puts(t, s) /\ Posted(t)
  BY <1>2 DEF Portal!Begin
<1>3. ASSUME NEW end, NEW closing, Portal!End(t, end, closing, s) PROVE Puts(t, s) /\ Posted(t)
  <2>1. overtaken' = (overtaken \/ copy[t].stage # closing)
    BY <1>3 DEF Portal!End
  <2>2. overtaken' \in {overtaken, TRUE}
    BY <2>1
  <2>3. QED
    BY <1>3, <2>2 DEF Portal!End
<1>4. QED
  BY <1>1, <1>2, <1>3 DEF PortalMakes

\* So it is for the prototype.
LEMMA ProtoMade ==
  ASSUME NEW t, NEW s, ProtoMakes(t, s), overtaken \in BOOLEAN PROVE Puts(t, s) /\ Posted(t)
<1> USE DEF Proto!Post, Proto!Link, Link, Puts, Posted, Proto!Quiet, Quiet, Proto!Agreed
<1>1. CASE Proto!commit(t, s)
  BY <1>1 DEF Proto!commit
<1>2. ASSUME NEW end, Proto!Begin(t, s, end) PROVE Puts(t, s) /\ Posted(t)
  BY <1>2 DEF Proto!Begin
<1>3. ASSUME NEW end, NEW closing, Proto!End(t, end, closing, s) PROVE Puts(t, s) /\ Posted(t)
  <2>1. overtaken' = (overtaken \/ copy[t].stage # closing)
    BY <1>3 DEF Proto!End
  <2>2. overtaken' \in {overtaken, TRUE}
    BY <2>1
  <2>3. QED
    BY <1>3, <2>2 DEF Proto!End
<1>4. QED
  BY <1>1, <1>2, <1>3 DEF ProtoMakes

\* The tabs show the pages they may, and no more is on its way than the bounds let be.
Shown == UNION {Pages[t] : t \in Tabs}
PagesFit == role \in [Tabs -> Shown] /\ \A t \in Tabs : role[t] \in Pages[t]
TabsFit ==
  /\ PagesFit
  /\ crossed \in 0 .. MaxCrossed /\ overtaken \in BOOLEAN /\ stranded \in BOOLEAN
  /\ \A l \in Link : Len(wire[l]) <= MaxInFlight

\* A page is shown that the tab may show.
LEMMA PagesStart ==
  ASSUME NEW R, role \in [Tabs -> R], \A t \in Tabs : role[t] \in Pages[t] PROVE PagesFit
BY DEF PagesFit, Shown

\* So does going to another.
LEMMA PageIsShown ==
  ASSUME PagesFit, NEW t \in Tabs, NEW r \in Pages[t], role' = [role EXCEPT ![t] = r]
  PROVE  PagesFit'
<1>1. r \in Shown
  BY DEF Shown
<1>2. role' \in [Tabs -> Shown] /\ \A u \in Tabs : role'[u] \in Pages[u]
  BY <1>1 DEF PagesFit
<1>3. QED
  BY <1>2 DEF PagesFit, Shown

\* A change is posted only where there is room for it on its way.
LEMMA PostedFits == ASSUME TabsTyped, TabsFit, NEW t \in Tabs, Posted(t) PROVE TabsFit'
<1>1. crossed' \in 0 .. MaxCrossed /\ overtaken' \in BOOLEAN /\ stranded' \in BOOLEAN
  <2>1. /\ crossed \in 0 .. MaxCrossed /\ MaxCrossed \in Nat
        /\ crossed' \in {0, crossed} \/ (crossed < MaxCrossed /\ crossed' = crossed + 1)
    BY TabsAssumption DEF TabsFit, Posted
  <2>2. overtaken' \in BOOLEAN /\ stranded' \in BOOLEAN
    BY DEF TabsFit, Posted
  <2>3. QED
    BY <2>1, <2>2
<1>2. ASSUME NEW l \in Link PROVE Len(wire'[l]) <= MaxInFlight
  <2>1. PICK X : wire \in [Link -> Seq(X)]
    BY DEF TabsTyped
  <2>2. PICK s : wire'[l] = IF l.from = t THEN Append(wire[l], s) ELSE wire[l]
    BY DEF Posted
  <2> DEFINE q == wire[l]
             n == Len(q)
  <2>3. q \in Seq(X \cup {s}) /\ n \in Nat
    BY <2>1, LenProperties
  <2>4. n <= MaxInFlight /\ (l.from = t => n < MaxInFlight)
    BY DEF TabsFit, Posted
  <2>5. Len(Append(q, s)) = n + 1
    <3> HIDE DEF q
    <3>1. QED
      BY <2>3, AppendProperties
  <2> HIDE DEF n
  <2>6. QED
    BY <2>2, <2>3, <2>4, <2>5, TabsAssumption DEF n
<1>3. PagesFit'
  BY DEF TabsFit, PagesFit, Posted, Shown
<1>4. QED
  BY <1>1, <1>2, <1>3 DEF TabsFit, Link

\* A page that opens reads nothing that was on its way to the one before it ...
LEMMA LoadFits == ASSUME TabsTyped, TabsFit, NEW t \in Tabs, NEW r, Load(t, r) PROVE TabsFit'
<1>1. \A l \in Link : wire'[l] = <<>> \/ wire'[l] = wire[l]
  BY DEF Load
<1>2. Len(<<>>) = 0 /\ MaxInFlight \in Nat
  BY TabsAssumption
<1>3. \A l \in Link : Len(wire'[l]) <= MaxInFlight
  BY <1>1, <1>2 DEF TabsFit
<1>4. crossed' = crossed /\ overtaken' = overtaken /\ stranded' \in BOOLEAN
  BY DEF Load, TabsFit
<1>5. PagesFit'
  BY PageIsShown DEF Load, TabsFit
<1>6. QED
  BY <1>3, <1>4, <1>5 DEF TabsFit, Link

\* ... and a message received is on its way no longer.
LEMMA ReceiveFits == ASSUME TabsTyped, TabsFit, NEW l \in Link, Receive(l) PROVE TabsFit'
<1>1. PICK X : wire \in [Link -> Seq(X)]
  BY DEF TabsTyped
<1>2. wire[l] \in Seq(X) /\ wire[l] # <<>> /\ wire' = [wire EXCEPT ![l] = Tail(wire[l])]
  BY <1>1 DEF Receive
<1> DEFINE q == wire[l]
           n == Len(q)
<1>3. Len(Tail(q)) = n - 1 /\ n \in Nat
  <2> HIDE DEF q
  <2>1. q \in Seq(X) /\ q # <<>>
    BY <1>2 DEF q
  <2>2. QED
    BY <2>1, HeadTailProperties, LenProperties
<1>4. n <= MaxInFlight
  BY DEF TabsFit
<1> HIDE DEF n
<1>5. Len(Tail(q)) <= MaxInFlight
  BY <1>3, <1>4, TabsAssumption
<1>6. \A m \in Link : Len(wire'[m]) <= MaxInFlight
  BY <1>1, <1>2, <1>5 DEF TabsFit
<1>7. PagesFit'
  BY DEF TabsFit, PagesFit, Receive, Shown
<1>8. QED
  BY <1>6, <1>7 DEF TabsFit, Receive, Link

\* What each tab holds is a deal of the build, whose flags are true or false.
DealsTyped == \A s \in Held : IF ThePortal THEN Flagged(s) ELSE Proto!DealOK(s)
TabsAreTyped == TabsFit /\ DealsTyped

\* A build starts so, and every step keeps it.
LEMMA TabsTypedStart == Init => TabsAreTyped
<1> SUFFICES ASSUME Init PROVE TabsAreTyped
  OBVIOUS
<1>1. Len(<<>>) = 0 /\ MaxInFlight \in Nat /\ MaxCrossed \in Nat
  BY TabsAssumption
<1>2. CASE ThePortal
  <2> DEFINE s == Portal!freshState(1)
  <2>1. Portal!PortalInit
    BY <1>2 DEF Init, ThePortal
  <2>2. /\ copy = [t \in Tabs |-> s] /\ store = s /\ wire = [l \in Link |-> <<>>]
        /\ role \in [Tabs -> Portal!Role]
        /\ (\A t \in Tabs : role[t] \in Pages[t]) /\ crossed = 0 /\ overtaken = FALSE /\ stranded = FALSE
    BY <2>1 DEF Portal!PortalInit, Portal!TabsInit, Portal!Link, Link
  <2>3. Flagged(s)
    <3>1. /\ s.approvals = <<>> /\ s.bidsOpen = FALSE /\ s.electionsClosed = FALSE /\ s.lpacConsent = FALSE
          /\ s.closed = FALSE /\ s.failedAttempt = FALSE /\ s.closingFail = FALSE /\ s.declined = FALSE
      BY DEF Portal!freshState
    <3> HIDE DEF s
    <3>2. DOMAIN <<>> = {}
      OBVIOUS
    <3>3. QED
      BY <3>1, <3>2 DEF Flagged
  <2> HIDE DEF s
  <2>4. Held \subseteq {s} /\ PagesFit
    BY <2>2, StartsFrom, PagesStart
  <2>5. DealsTyped
    BY <1>2, <2>3, <2>4 DEF DealsTyped
  <2>6. TabsFit
    <3>1. \A l \in Link : Len(wire[l]) <= MaxInFlight
      <4>1. \A l \in Link : wire[l] = <<>>
        BY <2>2
      <4>2. 0 <= MaxInFlight
        BY <1>1
      <4>3. QED
        BY <1>1, <4>1, <4>2
    <3>2. crossed \in 0 .. MaxCrossed
      BY <1>1, <2>2
    <3>3. QED
      BY <2>2, <2>4, <3>1, <3>2 DEF TabsFit
  <2>7. QED
    BY <2>5, <2>6 DEF TabsAreTyped
<1>3. CASE ~ThePortal
  <2> DEFINE s == Proto!freshState(1)
  <2>1. Proto!PrototypeInit
    BY <1>3 DEF Init, ThePortal, NoTabs
  <2>2. /\ copy = [t \in Tabs |-> s] /\ store = s /\ wire = [l \in Link |-> <<>>]
        /\ role \in [Tabs -> Proto!Persona]
        /\ (\A t \in Tabs : role[t] \in Pages[t]) /\ crossed = 0 /\ overtaken = FALSE /\ stranded = FALSE
    BY <2>1 DEF Proto!PrototypeInit, Proto!TabsInit, Proto!Link, Link
  <2>3. Proto!DealOK(s)
    BY ProtoFreshDeal, SeedAssumption DEF Proto!SeedOK
  <2> HIDE DEF s
  <2>4. Held \subseteq {s} /\ PagesFit
    BY <2>2, StartsFrom, PagesStart
  <2>5. DealsTyped
    BY <1>3, <2>3, <2>4 DEF DealsTyped
  <2>6. TabsFit
    <3>1. \A l \in Link : Len(wire[l]) <= MaxInFlight
      <4>1. \A l \in Link : wire[l] = <<>>
        BY <2>2
      <4>2. 0 <= MaxInFlight
        BY <1>1
      <4>3. QED
        BY <1>1, <4>1, <4>2
    <3>2. crossed \in 0 .. MaxCrossed
      BY <1>1, <2>2
    <3>3. QED
      BY <2>2, <2>4, <3>1, <3>2 DEF TabsFit
  <2>7. QED
    BY <2>5, <2>6 DEF TabsAreTyped
<1>4. QED
  BY <1>2, <1>3

\* Every click, timeout, page opened and message keeps the deals held typed.
LEMMA TabsTypedStep == OfflineInv /\ TabsAreTyped /\ [Next]_vars => TabsAreTyped'
<1> SUFFICES ASSUME OfflineInv, TabsAreTyped, [Next]_vars PROVE TabsAreTyped'
  OBVIOUS
<1>1. /\ TabsTyped /\ TabsFit /\ overtaken \in BOOLEAN /\ build' = build
      /\ \A t \in Tabs : copy[t] \in Held /\ Sound(copy[t])
  BY DEF OfflineInv, Held, TabsAreTyped, TabsFit, Next, vars
<1>2. ASSUME TabsFit', Held' \subseteq Held PROVE TabsAreTyped'
  BY <1>1, <1>2 DEF TabsAreTyped, DealsTyped, ThePortal
<1>3. ASSUME NEW l \in Link, Receive(l) PROVE TabsAreTyped'
  BY <1>1, <1>2, <1>3, ReceiveFits, ReceivesNothingNew
<1>4. ASSUME NEW t \in Tabs, NEW r, Load(t, r) PROVE TabsAreTyped'
  BY <1>1, <1>2, <1>4, LoadFits, LoadsNothingNew
<1>5. CASE UNCHANGED tabVars
  <2>1. TabsFit' /\ Held' = Held
    BY <1>1, <1>5 DEF TabsFit, PagesFit, Shown, Held, tabVars
  <2>2. QED
    BY <1>2, <2>1
<1>6. ASSUME NEW t \in Tabs, NEW s, Puts(t, s), Posted(t), IF ThePortal THEN Flagged(s) ELSE Proto!DealOK(s)
      PROVE  TabsAreTyped'
  <2>1. TabsFit' /\ Held' \subseteq Held \cup {s}
    BY <1>1, <1>6, PostedFits, PutsOne
  <2>2. QED
    BY <1>1, <1>6, <2>1 DEF TabsAreTyped, DealsTyped, ThePortal
<1>7. CASE ThePortal /\ Portal!PortalNext
  <2>1. ASSUME NEW t \in Tabs, Portal!Click(t) \/ Portal!settleTimeout(t) \/ Portal!revertTimeout(t)
        PROVE  TabsAreTyped'
    <3>1. PortalShape(copy[t]) /\ Flagged(copy[t])
      BY <1>1, <1>7 DEF Sound, PortalSound, TabsAreTyped, DealsTyped
    <3>2. PICK s : PortalMakes(t, s) /\ Flagged(s)
      BY <2>1, <3>1, PortalKeepsFlags
    <3>3. QED
      BY <1>1, <1>6, <1>7, <3>2, PortalMade
  <2>2. Link = Portal!Link
    BY DEF Link, Portal!Link
  <2>3. QED
    BY <1>3, <1>4, <1>7, <2>1, <2>2, Delivered DEF Portal!PortalNext
<1>8. CASE ~ThePortal /\ Proto!PrototypeNext
  <2>1. ASSUME NEW t \in Tabs, Proto!Click(t) \/ Proto!settleTimeout(t) \/ Proto!revertTimeout(t)
        PROVE  TabsAreTyped'
    <3>1. ProtoShape(copy[t]) /\ Proto!DealOK(copy[t])
      BY <1>1, <1>8 DEF Sound, TabsAreTyped, DealsTyped
    <3>2. PICK s : ProtoMakes(t, s) /\ Proto!DealOK(s)
      BY <2>1, <3>1, ProtoKeepsDeals
    <3>3. QED
      BY <1>1, <1>6, <1>8, <3>2, ProtoMade
  <2>2. ASSUME NEW t \in Tabs, NEW r, Proto!personaSelect(t, r) PROVE TabsAreTyped'
    <3>1. r \in Pages[t] /\ role' = [role EXCEPT ![t] = r]
          /\ UNCHANGED <<copy, timer, store, wire, crossed, overtaken, stranded>>
      BY <2>2 DEF Proto!personaSelect
    <3>2. PagesFit'
      BY <1>1, <3>1, PageIsShown DEF TabsFit
    <3>3. TabsFit' /\ Held' = Held
      BY <1>1, <3>1, <3>2 DEF TabsFit, Held
    <3>4. QED
      BY <1>2, <3>3
  <2>3. Link = Proto!Link
    BY DEF Link, Proto!Link
  <2>4. QED
    BY <1>3, <1>4, <1>8, <2>1, <2>2, <2>3, Delivered DEF Proto!PrototypeNext
<1>9. QED
  BY <1>5, <1>7, <1>8 DEF Next, vars, ThePortal

\* A deal of the portal that is booked, with its flags, is typed.
LEMMA PortalDealIsTyped ==
  ASSUME NEW s, PortalShape(s), Booked(s), Flagged(s) PROVE Portal!DealOK(s)
<1>1. s.stage \in Portal!Stage
  BY DEF PortalShape
<1>2. Portal!ToSet(Portal!deal(s).buyers) = ToSet(Portal!deal(s).buyers)
  BY SameData
<1>3. QED
  BY <1>1, <1>2 DEF Booked, Flagged, Portal!DealOK

\* What the scripts leave of the ledger is a ledger the seats could be at.
LEMMA ScriptsAreTyped == ScriptInv => SeatsTypeOK /\ ScriptsTypeOK
<1>1. SUFFICES ASSUME ScriptInv PROVE SeatsTypeOK /\ ScriptsTypeOK
  OBVIOUS
<1>2. /\ ledger \in LedgerRecord /\ epoch = 1 /\ opening = 0 /\ minting = {} /\ assembled \subseteq {1}
      /\ ScriptTyped
  BY <1>1 DEF ScriptInv, ScriptLedger
<1>3. 1 \in Epochs /\ 0 \in 0 .. MaxHandlers
  BY LegAmounts DEF Epochs
<1>4. \A i \in DOMAIN ledger.rooms : ledger.rooms[i] \in RoomRecord
  <2>1. ledger.rooms \in Seq(RoomRecord)
    BY <1>2 DEF LedgerRecord
  <2>2. QED
    BY <2>1, ElementOfSeq, LenProperties
<1>5. \A x \in DOMAIN ledger.held : ledger.held[x] \in Nat
  BY <1>2 DEF LedgerRecord
<1>6. SeatsTypeOK
  BY <1>2, <1>3, <1>4, <1>5 DEF SeatsTypeOK, RoomRecord
<1>7. ScriptsTypeOK
  BY <1>2, Plans DEF ScriptTyped, ScriptsTypeOK
<1>8. QED
  BY <1>6, <1>7

\* With the seats' own, these are their types in every build.
LEMMA SeatsAndScriptsTyped == SeatsAndScriptsInv => SeatsTypeOK /\ ScriptsTypeOK
<1>1. ASSUME script = "provision", pc = 1, ended = "running", registry = "seeded" PROVE ScriptsTypeOK
  <2>1. /\ DOMAIN Plan = {"provision", "wallets", "minimal", "lifecycle"}
        /\ DOMAIN Plan["provision"] = 1 .. 8
    BY Plans
  <2>2. QED
    BY <1>1, <2>1 DEF ScriptsTypeOK
<1>2. QED
  BY <1>1, SeatsTyped, ScriptsAreTyped DEF SeatsAndScriptsInv

\* So do the windows, in the build that opens them and at rest in the others.
WindowsHold == WindowsInv /\ WindowsKept

\* They start so and stay so.
LEMMA WindowsHoldThroughout ==
  /\ Init => WindowsHold
  /\ WindowsHold /\ [Next]_vars => WindowsHold'
<1>1. Init => WindowsHold
  BY WindowsInvInit, WindowsKeptInit DEF Init, WindowsHold
<1>2. [Next]_vars => [WindowsNext]_winVars
  BY DEF Next, vars
<1>3. QED
  BY <1>1, <1>2, WindowsInvNext, WindowsKeptNext DEF WindowsHold

\* All of it together.
EverythingInv == OfflineInv /\ SteadyInv /\ TabsAreTyped /\ SeatsAndScriptsInv /\ WindowsHold

\* It says of each variable what may be there.
LEMMA EverythingTyped == EverythingInv => TypeOK
<1>1. SUFFICES ASSUME EverythingInv PROVE TypeOK
  OBVIOUS
<1>2. /\ OfflineInv /\ SteadyInv /\ TabsFit /\ DealsTyped
      /\ SeatsTypeOK /\ ScriptsTypeOK /\ WindowsTypeOK
  BY <1>1, SeatsAndScriptsTyped, WindowsAreTyped DEF EverythingInv, TabsAreTyped, WindowsHold
<1>3. \A t \in Tabs : role[t] \in Pages[t] /\ timer[t] \in {NoTimer, "settle", "revert"}
  BY <1>2 DEF TabsFit, PagesFit, SteadyInv, KeepUpInv
<1>4. ASSUME NEW s \in Held PROVE IF ThePortal THEN Portal!DealOK(s) ELSE Proto!DealOK(s)
  <2>1. CASE ThePortal
    <3>1. PortalShape(s) /\ Booked(s) /\ Flagged(s)
      BY <1>2, <2>1 DEF OfflineInv, SteadyInv, DealsTyped, Sound, PortalSound, Tallies, PortalTallies
    <3>2. QED
      BY <2>1, <3>1, PortalDealIsTyped
  <2>2. CASE ~ThePortal
    BY <1>2, <2>2 DEF DealsTyped
  <2>3. QED
    BY <2>1, <2>2
<1>5. QED
  BY <1>2, <1>3, <1>4 DEF TypeOK, TabsFit

\* Every tab shows a page it may show and holds a deal of its build's shape, in every
\* field, whoever's change overwrote whose; the sandbox ledger, its handlers and the
\* scripts over it are at a step they have; and each window is at an address, with a
\* session, logins and keys there may be.
THEOREM EverythingIsTyped == Spec => []TypeOK
<1>1. Init => EverythingInv
  BY OfflineStarts, SteadyStarts, TabsTypedStart, SeatsAndScriptsStart,
     WindowsHoldThroughout DEF EverythingInv
<1>2. EverythingInv /\ [Next]_vars => EverythingInv'
  BY OfflineStep, SteadyStep, TabsTypedStep, SeatsAndScriptsStep, WindowsHoldThroughout DEF EverythingInv
<1>3. QED
  BY <1>1, <1>2, EverythingTyped, PTL DEF Spec
=============================================================================
