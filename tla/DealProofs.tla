----------------------------- MODULE DealProofs -----------------------------
(***************************************************************************)
(* Theorems about the registry, then about the deal with its registry,     *)
(* participations and antecedents, for any parties, instruments, legs,     *)
(* mints, deals, documents, bases and prices.                              *)
(***************************************************************************)
EXTENDS Deal, DataTheorems

-----------------------------------------------------------------------------
(* The registry: type correctness                                            *)


\* Finitely many contracts are active, so that their amounts add up.
RegFinite == IsFiniteSet(holdings) /\ IsFiniteSet(allocs)

\* Amounts of holdings add up to a natural number.
LEMMA TotalIsNat ==
  ASSUME NEW hs, hs \subseteq RegistryHolding, IsFiniteSet(hs)
  PROVE  Total(hs) \in Nat
<1> DEFINE f == [h \in hs |-> h.amount]
<1>1. \A h \in hs : f[h] \in Nat
  BY DEF RegistryHolding
<1> HIDE DEF f
<1>2. SumFunctionOnSet(f, hs) \in Nat
  BY <1>1, SumIsNat
<1>3. QED
  BY <1>2 DEF Total, f

\* Every action of the registry leaves finitely many contracts.
LEMMA RegFiniteStep == RegFinite /\ [RegNext]_regVars => RegFinite'
<1> SUFFICES ASSUME RegFinite, [RegNext]_regVars PROVE RegFinite'
  OBVIOUS
<1> USE DEF RegFinite
<1>1. ASSUME NEW m \in Mints, Mint(m) PROVE RegFinite'
  BY <1>1, FS_AddElement DEF Mint
<1>2. ASSUME NEW leg \in Legs, NEW inputs \in SUBSET holdings, Allocate(leg, inputs) PROVE RegFinite'
  <2> DEFINE change == ChangeOf(leg, Total(inputs), nextCid + 1)
             rest == holdings \ inputs
  <2>1. IsFiniteSet(change)
    BY FS_EmptySet, FS_Singleton DEF ChangeOf
  <2>2. IsFiniteSet(rest)
    BY FS_Difference
  <2>3. allocs' = allocs \cup {[cid |-> nextCid, leg |-> leg, reserved |-> leg.amount]} /\ holdings' = rest \cup change
    BY <1>2 DEF Allocate
  <2> HIDE DEF change, rest
  <2>4. IsFiniteSet(holdings')
    BY <2>1, <2>2, <2>3, FS_Union
  <2>5. QED
    BY <2>3, <2>4, FS_AddElement
<1>3. ASSUME NEW a \in allocs, ExecFor(a) \/ ExecuteDirectly(a) \/ Withdraw(a) PROVE RegFinite'
  BY <1>3, FS_AddElement, FS_RemoveElement DEF ExecFor, ExecuteDirectly, Withdraw
<1>4. ASSUME NEW p \in Delegates, ProposeDelegation(p) \/ EDP_Accept(p) PROVE RegFinite'
  BY <1>4 DEF ProposeDelegation, EDP_Accept
<1>5. CASE UNCHANGED regVars
  BY <1>5 DEF regVars
<1>6. QED
  BY <1>1, <1>2, <1>3, <1>4, <1>5 DEF RegNext

\* Every action of the registry keeps its state well typed.
LEMMA RegTypeStep == RegTypeOK /\ RegFinite /\ [RegNext]_regVars => RegTypeOK'
<1> SUFFICES ASSUME RegTypeOK, RegFinite, [RegNext]_regVars
             PROVE  RegTypeOK'
  OBVIOUS
<1> USE RegistryAssumption, PartiesAssumption DEF RegTypeOK
<1>1. ASSUME NEW m \in Mints, Mint(m)
      PROVE  RegTypeOK'
  BY <1>1 DEF Mint, NewHolding, RegistryHolding, MintSpec
<1>2. ASSUME NEW leg \in Legs, NEW inputs \in SUBSET holdings, Allocate(leg, inputs)
      PROVE  RegTypeOK'
  <2>1. allocs' \subseteq RegistryAllocation
    BY <1>2 DEF Allocate, RegistryAllocation, Leg
  <2>2. ASSUME NEW total \in Nat
        PROVE  ChangeOf(leg, total, nextCid + 1) \subseteq RegistryHolding
    <3>1. leg \in Leg
      OBVIOUS
    <3>2. total > leg.amount => total - leg.amount \in Nat \ {0}
      BY <3>1 DEF Leg
    <3>3. total > leg.amount =>
            NewHolding(nextCid + 1, leg.sender, leg.inst, total - leg.amount, FALSE)
              \in RegistryHolding
      BY <3>1, <3>2 DEF NewHolding, RegistryHolding, Leg
    <3>4. QED
      BY <3>3 DEF ChangeOf
  <2>3. Total(inputs) \in Nat
    BY TotalIsNat, FS_Subset DEF RegFinite
  <2>4. ChangeOf(leg, Total(inputs), nextCid + 1) \subseteq RegistryHolding
    BY <2>2, <2>3
  <2>5. QED
    BY <1>2, <2>1, <2>4 DEF Allocate
<1>3. ASSUME NEW a \in allocs, a.reserved > 0
      PROVE  Delivered(a) \in RegistryHolding /\ Returned(a) \in RegistryHolding
  BY <1>3 DEF Delivered, Returned, NewHolding, RegistryHolding, RegistryAllocation, Leg
<1>4. ASSUME NEW a \in allocs, ExecFor(a)
      PROVE  RegTypeOK'
  BY <1>3, <1>4 DEF ExecFor, CanExecFor, MayExecute
<1>5. ASSUME NEW a \in allocs, ExecuteDirectly(a)
      PROVE  RegTypeOK'
  BY <1>3, <1>5 DEF ExecuteDirectly, MayExecute
<1>6. ASSUME NEW a \in allocs, Withdraw(a)
      PROVE  RegTypeOK'
  BY <1>3, <1>6 DEF Withdraw
<1>7. ASSUME NEW p \in Delegates, ProposeDelegation(p) \/ EDP_Accept(p)
      PROVE  RegTypeOK'
  BY <1>7 DEF ProposeDelegation, EDP_Accept
<1>8. CASE UNCHANGED regVars
  BY <1>8 DEF regVars
<1>9. QED
  BY <1>1, <1>2, <1>4, <1>5, <1>6, <1>7, <1>8 DEF RegNext

\* Finitely many contracts are active at any time.
LEMMA RegStaysFinite == RegSpec => []RegFinite
<1>1. RegInit => RegFinite
  BY FS_EmptySet DEF RegInit, RegFinite
<1>2. QED
  BY <1>1, RegFiniteStep, PTL DEF RegSpec

\* The registry's state is always well typed.
THEOREM RegTypeCorrect == RegSpec => []RegTypeOK
<1>1. RegInit => RegTypeOK
  BY DEF RegInit, RegTypeOK
<1>2. QED
  BY <1>1, RegTypeStep, RegStaysFinite, PTL DEF RegSpec

-----------------------------------------------------------------------------
(* Double spending *)

\* Replacing an allocation by a holding of the same number spends nothing twice.
LEMMA ReplaceKeepsNumbers ==
  ASSUME RegTypeOK, NoDoubleSpend,
         NEW a \in allocs, NEW h, h.cid = a.cid,
         allocs' = allocs \ {a}, holdings' = holdings \cup {h}, nextCid' = nextCid
  PROVE  NoDoubleSpend'
BY DEF NoDoubleSpend

\* Every transaction of the registry leaves each number with one contract.
LEMMA NoDoubleSpendStep ==
  RegTypeOK /\ NoDoubleSpend /\ [RegNext]_regVars => NoDoubleSpend'
<1> SUFFICES ASSUME RegTypeOK, NoDoubleSpend, [RegNext]_regVars
             PROVE  NoDoubleSpend'
  OBVIOUS
<1>0. /\ nextCid \in Nat
      /\ \A c \in holdings \cup allocs : c.cid \in Nat
  BY DEF RegTypeOK, RegistryHolding, RegistryAllocation
<1>1. ASSUME NEW m \in Mints, Mint(m)
      PROVE  NoDoubleSpend'
  BY <1>0, <1>1 DEF NoDoubleSpend, Mint, NewHolding
<1>2. ASSUME NEW leg \in Legs, NEW inputs \in SUBSET holdings, Allocate(leg, inputs)
      PROVE  NoDoubleSpend'
  <2> DEFINE new == [cid |-> nextCid, leg |-> leg, reserved |-> leg.amount]
             change == ChangeOf(leg, Total(inputs), nextCid + 1)
  <2>1. /\ allocs' = allocs \cup {new}
        /\ holdings' = (holdings \ inputs) \cup change
        /\ nextCid' = nextCid + 2
    BY <1>2 DEF Allocate
  <2>2. /\ \A c, d \in change : c = d
        /\ \A c \in change : c.cid = nextCid + 1
    <3> DEFINE c1 == NewHolding(nextCid + 1, leg.sender, leg.inst,
                                Total(inputs) - leg.amount, FALSE)
    <3>1. change = {} \/ change = {c1}
      BY DEF ChangeOf
    <3>2. c1.cid = nextCid + 1
      BY DEF NewHolding
    <3> HIDE DEF c1, change
    <3>3. QED
      BY <3>1, <3>2
  <2>3. new.cid = nextCid
    OBVIOUS
  <2> HIDE DEF new, change
  <2>4. \A h, g \in holdings' : h.cid = g.cid => h = g
    BY <1>0, <2>1, <2>2 DEF NoDoubleSpend
  <2>5. \A a, b \in allocs' : a.cid = b.cid => a = b
    BY <1>0, <2>1, <2>3 DEF NoDoubleSpend
  <2>6. \A h \in holdings', a \in allocs' : h.cid # a.cid
    BY <1>0, <2>1, <2>2, <2>3 DEF NoDoubleSpend
  <2>7. \A c \in holdings' \cup allocs' : c.cid < nextCid'
    BY <1>0, <2>1, <2>2, <2>3 DEF NoDoubleSpend
  <2>8. QED
    BY <2>4, <2>5, <2>6, <2>7 DEF NoDoubleSpend
<1>3. ASSUME NEW a \in allocs, ExecFor(a) \/ ExecuteDirectly(a) \/ Withdraw(a)
      PROVE  NoDoubleSpend'
  <2>1. Delivered(a).cid = a.cid /\ Returned(a).cid = a.cid
    BY DEF Delivered, Returned, NewHolding
  <2>2. QED
    BY <1>3, <2>1, ReplaceKeepsNumbers DEF ExecFor, ExecuteDirectly, Withdraw
<1>4. ASSUME NEW p \in Delegates, ProposeDelegation(p) \/ EDP_Accept(p)
      PROVE  NoDoubleSpend'
  BY <1>4 DEF NoDoubleSpend, ProposeDelegation, EDP_Accept
<1>5. CASE UNCHANGED regVars
  BY <1>5 DEF NoDoubleSpend, regVars
<1>6. QED
  BY <1>1, <1>2, <1>3, <1>4, <1>5 DEF RegNext

\* No value is active twice, whoever holds it and whatever legs are agreed.
THEOREM NothingSpentTwice == RegSpec => []NoDoubleSpend
<1>1. RegInit => NoDoubleSpend
  BY DEF RegInit, NoDoubleSpend
<1>2. QED
  BY <1>1, NoDoubleSpendStep, RegTypeCorrect, PTL DEF RegSpec

-----------------------------------------------------------------------------
(* Transfers by agreement *)

\* The action that TransferByAgreement says of every step.
AgreedTransfer ==
  /\ \A h \in holdings \ holdings' :
       /\ ~h.locked
       /\ \E a \in allocs' \ allocs : a.leg.sender = h.owner /\ a.leg.inst = h.inst
  /\ \A a \in allocs \ allocs' :
       Delivered(a) \in holdings' /\ a.leg.sender # a.leg.receiver =>
         {a.leg.sender, a.leg.receiver} \subseteq delegations \cup {Admin}

\* Every transaction of the registry draws in only parties that agreed to it.
LEMMA AgreedTransferStep ==
  RegTypeOK /\ NoDoubleSpend /\ RegNext => AgreedTransfer
<1> SUFFICES ASSUME RegTypeOK, NoDoubleSpend, RegNext
             PROVE  AgreedTransfer
  OBVIOUS
<1>1. ASSUME NEW m \in Mints, Mint(m)
      PROVE  AgreedTransfer
  BY <1>1 DEF Mint, AgreedTransfer
<1>2. ASSUME NEW leg \in Legs, NEW inputs \in SUBSET holdings, Allocate(leg, inputs)
      PROVE  AgreedTransfer
  <2> DEFINE new == [cid |-> nextCid, leg |-> leg, reserved |-> leg.amount]
  <2>1. allocs' = allocs \cup {new} /\ new \in allocs'
    BY <1>2 DEF Allocate
  <2>2. new \notin allocs
    BY DEF NoDoubleSpend, RegTypeOK
  <2>3. \A h \in holdings \ holdings' : h.owner = leg.sender /\ h.inst = leg.inst /\ ~h.locked
    BY <1>2 DEF Allocate, UsableInputs
  <2>4. new.leg = leg
    OBVIOUS
  <2> HIDE DEF new
  <2>5. QED
    BY <2>1, <2>2, <2>3, <2>4 DEF AgreedTransfer
<1>3. ASSUME NEW a \in allocs, ExecFor(a) \/ ExecuteDirectly(a)
      PROVE  AgreedTransfer
  <2>1. {a.leg.sender, a.leg.receiver} \subseteq delegations \cup {Admin}
    BY <1>3 DEF ExecFor, CanExecFor, ExecuteDirectly, MayExecute, DelegatedAuthority
  <2>2. QED
    BY <1>3, <2>1 DEF ExecFor, ExecuteDirectly, AgreedTransfer
<1>4. ASSUME NEW a \in allocs, Withdraw(a)
      PROVE  AgreedTransfer
  <2>1. Delivered(a) \notin holdings
    BY DEF NoDoubleSpend, Delivered, NewHolding
  <2>2. Delivered(a) \in holdings' => a.leg.sender = a.leg.receiver
    BY <1>4, <2>1 DEF Withdraw, Delivered, Returned, NewHolding
  <2>3. QED
    BY <1>4, <2>2 DEF Withdraw, AgreedTransfer
<1>5. ASSUME NEW p \in Delegates, ProposeDelegation(p) \/ EDP_Accept(p)
      PROVE  AgreedTransfer
  BY <1>5 DEF AgreedTransfer, ProposeDelegation, EDP_Accept
<1>6. QED
  BY <1>1, <1>2, <1>3, <1>4, <1>5 DEF RegNext

\* Value leaves a party, and reaches one, only by agreement of the parties.
THEOREM TransfersAreAgreed == RegSpec => TransferByAgreement
<1>1. RegTypeOK /\ NoDoubleSpend /\ [RegNext]_regVars => [AgreedTransfer]_regVars
  BY AgreedTransferStep
<1>2. QED
  BY <1>1, RegTypeCorrect, NothingSpentTwice, PTL
     DEF RegSpec, TransferByAgreement, AgreedTransfer

-----------------------------------------------------------------------------
(* The registry implements a ledger of wealth                                *)

\* The amounts of part of the holdings, added up as part of them all.
LEMMA TotalOfPart ==
  ASSUME NEW hs, hs \subseteq RegistryHolding, IsFiniteSet(hs), NEW part \in SUBSET hs
  PROVE  Total(part) = SumFunctionOnSet([h \in hs |-> h.amount], part)
<1> DEFINE f == [h \in hs |-> h.amount]
           g == [h \in part |-> h.amount]
<1>1. \A h \in part : g[h] = f[h]
  OBVIOUS
<1>2. IsFiniteSet(part)
  BY FS_Subset
<1> HIDE DEF f, g
<1>3. SumFunctionOnSet(g, part) = SumFunctionOnSet(f, part)
  BY <1>1, <1>2, SumsOfEquals
<1>4. QED
  BY <1>3 DEF Total, f, g

\* What one contract more, or some holdings less, change of a party's part.
HeldGrows(hs, x, p, i) ==
  Held(hs \cup {x}, p, i) = Held(hs, p, i) + (IF x.owner = p /\ x.inst = i THEN x.amount ELSE 0)

HeldShrinks(hs, inputs, q, j, p, i) ==
  Held(hs, p, i) = Held(hs \ inputs, p, i) + (IF p = q /\ i = j THEN Total(inputs) ELSE 0)

ReservedGrows(as, x, p, i) ==
  /\ Reserved(as, p, i) \in Nat
  /\ Reserved(as \cup {x}, p, i)
       = Reserved(as, p, i) + (IF x.leg.sender = p /\ x.leg.inst = i THEN x.reserved ELSE 0)

FiniteHoldings(hs) == hs \subseteq RegistryHolding /\ IsFiniteSet(hs)

FiniteAllocations(as) == as \subseteq RegistryAllocation /\ IsFiniteSet(as)

\* One holding more is its owner's.
LEMMA HeldMore ==
  ASSUME NEW hs, FiniteHoldings(hs), NEW x \in RegistryHolding, x \notin hs, NEW p, NEW i
  PROVE  HeldGrows(hs, x, p, i)
<1> USE DEF FiniteHoldings, HeldGrows
<1> DEFINE all == hs \cup {x}
           its == {h \in hs : h.owner = p /\ h.inst = i}
           f == [h \in all |-> h.amount]
<1>1. IsFiniteSet(all) /\ all \subseteq RegistryHolding /\ its \in SUBSET all /\ IsFiniteSet(its) /\ x \notin its
  BY FS_AddElement, FS_Subset
<1>2. \A h \in all : f[h] = h.amount /\ h.amount \in Nat
  BY <1>1 DEF RegistryHolding
<1>3. \A part \in SUBSET all : Total(part) = SumFunctionOnSet(f, part)
  <2> HIDE DEF all
  <2>1. QED
    BY <1>1, TotalOfPart
<1>4. Held(hs, p, i) = Total(its) /\ Total(its) \in Nat
  BY <1>1, TotalIsNat DEF Held
<1>5. CASE x.owner = p /\ x.inst = i
  <2>1. {h \in all : h.owner = p /\ h.inst = i} = its \cup {x} /\ its \cup {x} \in SUBSET all
    BY <1>5
  <2>2. Held(all, p, i) = Total(its \cup {x})
    BY <2>1 DEF Held
  <2>3. \A h \in its \cup {x} : f[h] \in Int
    BY <1>2
  <2>4. x \in all
    OBVIOUS
  <2> HIDE DEF f, its
  <2>5. SumFunctionOnSet(f, its \cup {x}) = f[x] + SumFunctionOnSet(f, its)
    BY <1>1, <2>3, SumAddsOne
  <2> HIDE DEF all
  <2>6. Held(all, p, i) = x.amount + Total(its)
    BY <1>1, <1>2, <1>3, <2>1, <2>2, <2>4, <2>5
  <2>7. x.amount \in Nat
    BY <1>2, <2>4
  <2>8. Held(all, p, i) = Held(hs, p, i) + x.amount
    BY <1>4, <2>6, <2>7
  <2>9. QED
    BY <1>5, <2>8 DEF all
<1>6. CASE ~(x.owner = p /\ x.inst = i)
  <2>1. {h \in all : h.owner = p /\ h.inst = i} = its
    BY <1>6
  <2>2. Held(all, p, i) = Held(hs, p, i)
    BY <2>1 DEF Held
  <2>3. QED
    BY <1>4, <1>6, <2>2
<1>7. QED
  BY <1>5, <1>6

\* Holdings of one owner and instrument, taken away, are that owner's.
LEMMA HeldLess ==
  ASSUME NEW hs, FiniteHoldings(hs), NEW inputs \in SUBSET hs,
         NEW q, NEW j, \A h \in inputs : h.owner = q /\ h.inst = j, NEW p, NEW i
  PROVE  HeldShrinks(hs, inputs, q, j, p, i)
<1> USE DEF FiniteHoldings, HeldShrinks
<1> DEFINE its == {h \in hs : h.owner = p /\ h.inst = i}
           rest == {h \in hs \ inputs : h.owner = p /\ h.inst = i}
           f == [h \in hs |-> h.amount]
<1>1. /\ IsFiniteSet(inputs) /\ IsFiniteSet(rest)
      /\ its \in SUBSET hs /\ rest \in SUBSET hs /\ inputs \cap rest = {}
  BY FS_Subset
<1>2. \A h \in hs : f[h] \in Nat
  BY DEF RegistryHolding
<1>3. \A part \in SUBSET hs : Total(part) = SumFunctionOnSet(f, part)
  BY TotalOfPart
<1>4. Held(hs, p, i) = Total(its) /\ Held(hs \ inputs, p, i) = Total(rest)
  BY DEF Held
<1>5. Total(inputs) \in Nat /\ Total(rest) \in Nat
  BY <1>1, TotalIsNat
<1>6. CASE p = q /\ i = j
  <2>1. its = inputs \cup rest
    BY <1>6
  <2>2. \A h \in inputs \cup rest : f[h] \in Int
    BY <1>1, <1>2
  <2> HIDE DEF f, rest, its
  <2>3. SumFunctionOnSet(f, inputs \cup rest) = SumFunctionOnSet(f, inputs) + SumFunctionOnSet(f, rest)
    BY <1>1, <2>2, SumOfUnion
  <2>4. Total(its) = Total(inputs) + Total(rest)
    BY <1>1, <1>3, <2>1, <2>3
  <2>5. Held(hs, p, i) = Held(hs \ inputs, p, i) + Total(inputs)
    BY <1>4, <1>5, <2>4
  <2>6. QED
    BY <1>6, <2>5
<1>7. CASE ~(p = q /\ i = j)
  <2>1. its = rest
    BY <1>7
  <2>2. Held(hs, p, i) = Held(hs \ inputs, p, i) /\ Held(hs, p, i) \in Nat
    BY <1>4, <1>5, <2>1
  <2>3. QED
    BY <1>7, <2>2
<1>8. QED
  BY <1>6, <1>7

\* What is reserved is a natural number, and an allocation more its sender's.
LEMMA ReservedMore ==
  ASSUME NEW as, FiniteAllocations(as), NEW x \in RegistryAllocation, x \notin as, NEW p, NEW i
  PROVE  ReservedGrows(as, x, p, i)
<1> USE DEF FiniteAllocations, ReservedGrows
<1> DEFINE all == as \cup {x}
           its == {a \in as : a.leg.sender = p /\ a.leg.inst = i}
           those == {a \in all : a.leg.sender = p /\ a.leg.inst = i}
           f == [a \in those |-> a.reserved]
           g == [a \in its |-> a.reserved]
<1>1. IsFiniteSet(its) /\ x \notin its /\ its \subseteq those /\ those \subseteq all
  BY FS_Subset
<1>2. x.reserved \in Nat /\ \A a \in its : g[a] \in Nat /\ f[a] = g[a]
  BY DEF RegistryAllocation
<1>3. Reserved(as, p, i) = SumFunctionOnSet(g, its) /\ Reserved(all, p, i) = SumFunctionOnSet(f, those)
  BY DEF Reserved
<1>4. SumFunctionOnSet(g, its) \in Nat /\ SumFunctionOnSet(f, its) = SumFunctionOnSet(g, its)
  <2> HIDE DEF f, g, its
  <2>1. SumFunctionOnSet(g, its) \in Nat
    BY <1>1, <1>2, SumIsNat
  <2>2. SumFunctionOnSet(f, its) = SumFunctionOnSet(g, its)
    BY <1>1, <1>2, SumsOfEquals
  <2>3. QED
    BY <2>1, <2>2
<1>5. CASE x.leg.sender = p /\ x.leg.inst = i
  <2>1. those = its \cup {x} /\ f[x] = x.reserved
    BY <1>5
  <2> HIDE DEF f, g, its, those
  <2>2. \A a \in its \cup {x} : f[a] \in Int
    BY <1>2, <2>1
  <2>3. SumFunctionOnSet(f, its \cup {x}) = f[x] + SumFunctionOnSet(f, its)
    BY <1>1, <2>2, SumAddsOne
  <2>4. Reserved(all, p, i) = Reserved(as, p, i) + x.reserved
    BY <1>2, <1>3, <1>4, <2>1, <2>3
  <2>5. QED
    BY <1>3, <1>4, <1>5, <2>4
<1>6. CASE ~(x.leg.sender = p /\ x.leg.inst = i)
  <2>1. those = its
    BY <1>6
  <2> HIDE DEF f, g, its, those
  <2>2. Reserved(all, p, i) = Reserved(as, p, i)
    BY <1>3, <1>4, <2>1
  <2>3. QED
    BY <1>3, <1>4, <1>6, <2>2
<1>7. QED
  BY <1>5, <1>6

\* What a party holds and has reserved are natural numbers.
LEMMA WealthIsTyped ==
  ASSUME RegTypeOK, RegFinite, NEW p, NEW i
  PROVE  Held(holdings, p, i) \in Nat /\ Reserved(allocs, p, i) \in Nat
<1>1. Held(holdings, p, i) \in Nat
  <2> DEFINE its == {h \in holdings : h.owner = p /\ h.inst = i}
  <2>1. IsFiniteSet(its) /\ its \subseteq RegistryHolding
    BY FS_Subset DEF RegFinite, RegTypeOK
  <2> HIDE DEF its
  <2>2. Total(its) \in Nat
    BY <2>1, TotalIsNat
  <2>3. QED
    BY <2>2 DEF Held, its
<1>2. Reserved(allocs, p, i) \in Nat
  <2> DEFINE its == {a \in allocs : a.leg.sender = p /\ a.leg.inst = i}
             g == [a \in its |-> a.reserved]
  <2>1. IsFiniteSet(its) /\ \A a \in its : g[a] \in Nat
    BY FS_Subset DEF RegFinite, RegTypeOK, RegistryAllocation
  <2>2. Reserved(allocs, p, i) = SumFunctionOnSet(g, its)
    BY DEF Reserved
  <2> HIDE DEF its, g
  <2>3. QED
    BY <2>1, <2>2, SumIsNat
<1>3. QED
  BY <1>1, <1>2

\* Two tables of wealth with the same entries are the same.
LEMMA SameWealth ==
  ASSUME NEW w, NEW v,
         NEW X, w \in [Party -> [Inst -> X]], v \in [Party -> [Inst -> X]],
         \A p \in Party, i \in Inst : w[p][i] = v[p][i]
  PROVE  w = v
<1>1. \A p \in Party : w[p] = v[p]
  <2> TAKE p \in Party
  <2>1. w[p] \in [Inst -> X] /\ v[p] \in [Inst -> X]
    OBVIOUS
  <2>2. QED
    BY <2>1
<1>2. QED
  BY <1>1

\* One entry more, and the rest the same, is an issue.
LEMMA IssuedWealth ==
  ASSUME NEW w, NEW v,
         NEW X, w \in [Party -> [Inst -> X]], v \in [Party -> [Inst -> X]],
         NEW p \in Party, NEW i \in Inst, NEW n, v[p][i] = w[p][i] + n,
         \A r \in Party, j \in Inst : ~(r = p /\ j = i) => v[r][j] = w[r][j]
  PROVE  v = [w EXCEPT ![p][i] = @ + n]
<1>1. \A r \in Party : w[r] \in [Inst -> X] /\ v[r] \in [Inst -> X]
  OBVIOUS
<1>2. v[p] = [w[p] EXCEPT ![i] = @ + n]
  <2>1. v[p] \in [Inst -> X] /\ w[p] \in [Inst -> X]
    BY <1>1
  <2>2. QED
    BY <2>1
<1>3. \A r \in Party \ {p} : v[r] = w[r]
  <2> TAKE r \in Party \ {p}
  <2>1. v[r] \in [Inst -> X] /\ w[r] \in [Inst -> X]
    BY <1>1
  <2>2. QED
    BY <2>1
<1>4. v = [w EXCEPT ![p] = [w[p] EXCEPT ![i] = @ + n]]
  BY <1>2, <1>3
<1>5. QED
  BY <1>4

\* One entry less, one entry more by as much, and the rest the same, is a payment.
LEMMA PaidWealth ==
  ASSUME NEW w, NEW v,
         NEW X, w \in [Party -> [Inst -> X]], v \in [Party -> [Inst -> X]],
         NEW p \in Party, NEW q \in Party, p # q, NEW i \in Inst, NEW n,
         v[p][i] = w[p][i] - n, v[q][i] = w[q][i] + n,
         \A r \in Party, j \in Inst : ~(r \in {p, q} /\ j = i) => v[r][j] = w[r][j]
  PROVE  v = [w EXCEPT ![p][i] = @ - n, ![q][i] = @ + n]
<1>1. \A r \in Party : w[r] \in [Inst -> X] /\ v[r] \in [Inst -> X]
  OBVIOUS
<1>2. v[p] = [w[p] EXCEPT ![i] = @ - n] /\ v[q] = [w[q] EXCEPT ![i] = @ + n]
  <2>1. \A r \in {p, q} : v[r] \in [Inst -> X] /\ w[r] \in [Inst -> X]
    BY <1>1
  <2>2. QED
    BY <2>1
<1>3. \A r \in Party \ {p, q} : v[r] = w[r]
  <2> TAKE r \in Party \ {p, q}
  <2>1. v[r] \in [Inst -> X] /\ w[r] \in [Inst -> X]
    BY <1>1
  <2>2. QED
    BY <2>1
<1>4. v = [w EXCEPT ![p] = [w[p] EXCEPT ![i] = @ - n],
                    ![q] = [w[q] EXCEPT ![i] = @ + n]]
  BY <1>2, <1>3
<1>5. QED
  BY <1>4

\* Wealth, before and after a step, entry by entry.
LEMMA WealthEntries ==
  /\ \E X : Wealth \in [Party -> [Inst -> X]] /\ Wealth' \in [Party -> [Inst -> X]]
  /\ \A p \in Party, i \in Inst :
       /\ Wealth[p][i] = Held(holdings, p, i) + Reserved(allocs, p, i)
       /\ Wealth'[p][i] = Held(holdings', p, i) + Reserved(allocs', p, i)
<1> DEFINE f(p, i) == Held(holdings, p, i) + Reserved(allocs, p, i)
           g(p, i) == Held(holdings', p, i) + Reserved(allocs', p, i)
           X == {f(p, i) : p \in Party, i \in Inst} \cup {g(p, i) : p \in Party, i \in Inst}
<1>1. /\ Wealth = [p \in Party |-> [i \in Inst |-> f(p, i)]]
      /\ Wealth' = [p \in Party |-> [i \in Inst |-> g(p, i)]]
  BY DEF Wealth, Held, Reserved, Total
<1> HIDE DEF f, g
<1>2. \A p \in Party, i \in Inst : Wealth[p][i] = f(p, i) /\ Wealth'[p][i] = g(p, i)
  BY <1>1
<1>3. \A p \in Party, i \in Inst : f(p, i) \in X /\ g(p, i) \in X
  OBVIOUS
<1> HIDE DEF X
<1>4. Wealth \in [Party -> [Inst -> X]] /\ Wealth' \in [Party -> [Inst -> X]]
  BY <1>1, <1>3
<1>5. QED
  BY <1>2, <1>4 DEF f, g

\* Contracts that stay the same leave the wealth the same.
LEMMA WealthStays ==
  ASSUME holdings' = holdings, allocs' = allocs
  PROVE  Wealth' = Wealth
BY DEF Wealth, Held, Reserved, Total

\* A mint is an issue.
LEMMA MintIssues ==
  ASSUME RegTypeOK, RegFinite, NoDoubleSpend, NEW m \in Mints, Mint(m)
  PROVE  Value!Issue(m.owner, m.inst, m.amount)
<1> DEFINE x == NewHolding(nextCid, m.owner, m.inst, m.amount, m.locked)
<1>1. m \in MintSpec
  BY RegistryAssumption
<1>2. /\ x \in RegistryHolding /\ x \notin holdings
      /\ x.owner = m.owner /\ x.inst = m.inst /\ x.amount = m.amount
      /\ m.owner \in Party /\ m.inst \in Inst /\ m.amount \in Nat
  BY <1>1 DEF NewHolding, RegistryHolding, MintSpec, RegTypeOK, NoDoubleSpend
<1>3. holdings' = holdings \cup {x} /\ allocs' = allocs /\ delegations' = delegations
  BY DEF Mint
<1>4. FiniteHoldings(holdings)
  BY DEF FiniteHoldings, RegTypeOK, RegFinite
<1> HIDE DEF x
<1>5. ASSUME NEW p \in Party, NEW i \in Inst
      PROVE  /\ p = m.owner /\ i = m.inst => Wealth'[p][i] = Wealth[p][i] + m.amount
             /\ ~(p = m.owner /\ i = m.inst) => Wealth'[p][i] = Wealth[p][i]
  <2> DEFINE held == Held(holdings, p, i)
             more == Held(holdings', p, i)
             res == Reserved(allocs, p, i)
  <2>1. held \in Nat /\ res \in Nat
    BY WealthIsTyped
  <2>2. more = held + (IF x.owner = p /\ x.inst = i THEN x.amount ELSE 0)
    <3>1. HeldGrows(holdings, x, p, i)
      BY <1>2, <1>4, HeldMore
    <3>2. QED
      BY <1>3, <3>1 DEF HeldGrows
  <2>3. Wealth[p][i] = held + res /\ Wealth'[p][i] = more + res
    BY <1>3, WealthEntries
  <2> HIDE DEF held, more, res
  <2>4. QED
    BY <1>2, <2>1, <2>2, <2>3
<1>6. Wealth' = [Wealth EXCEPT ![m.owner][m.inst] = @ + m.amount]
  <2> DEFINE w == Wealth
             v == Wealth'
             n == m.amount
  <2>1. v[m.owner][m.inst] = w[m.owner][m.inst] + n
    BY <1>2, <1>5
  <2>2. \A r \in Party, j \in Inst : ~(r = m.owner /\ j = m.inst) => v[r][j] = w[r][j]
    BY <1>5
  <2>3. PICK X : w \in [Party -> [Inst -> X]] /\ v \in [Party -> [Inst -> X]]
    BY WealthEntries
  <2> HIDE DEF w, v, n
  <2>4. v = [w EXCEPT ![m.owner][m.inst] = @ + n]
    BY <1>2, <2>1, <2>2, <2>3, IssuedWealth
  <2>5. QED
    BY <2>4 DEF w, v, n
<1>7. QED
  BY <1>3, <1>6 DEF Value!Issue

\* An allocation turns holdings of the sender's into reserved value of the sender's.
LEMMA AllocateKeepsWealth ==
  ASSUME RegTypeOK, RegFinite, NoDoubleSpend,
         NEW leg \in Legs, NEW inputs \in SUBSET holdings, Allocate(leg, inputs)
  PROVE  Wealth' = Wealth
<1> DEFINE total == Total(inputs)
           rest == holdings \ inputs
           new == [cid |-> nextCid, leg |-> leg, reserved |-> leg.amount]
           c == NewHolding(nextCid + 1, leg.sender, leg.inst, total - leg.amount, FALSE)
<1>1. leg \in Leg
  BY RegistryAssumption
<1>2. /\ holdings \subseteq RegistryHolding /\ IsFiniteSet(holdings)
      /\ allocs \subseteq RegistryAllocation /\ IsFiniteSet(allocs)
      /\ rest \subseteq RegistryHolding /\ IsFiniteSet(rest)
      /\ inputs \subseteq RegistryHolding /\ IsFiniteSet(inputs)
      /\ leg.amount \in Nat /\ nextCid \in Nat
  BY <1>1, FS_Subset DEF RegTypeOK, RegFinite, Leg
<1>3. total \in Nat /\ total >= leg.amount
  BY <1>2, TotalIsNat DEF Allocate
<1>4. \A h \in inputs : h.owner = leg.sender /\ h.inst = leg.inst
  BY DEF Allocate, UsableInputs
<1>5. /\ allocs' = allocs \cup {new}
      /\ holdings' = rest \cup ChangeOf(leg, total, nextCid + 1)
  BY DEF Allocate
<1>6. /\ new \in RegistryAllocation /\ new \notin allocs
      /\ new.leg = leg /\ new.reserved = leg.amount
  BY <1>2 DEF RegistryAllocation, NoDoubleSpend
<1>7. /\ c \notin rest
      /\ c.owner = leg.sender /\ c.inst = leg.inst /\ c.amount = total - leg.amount
      /\ total > leg.amount => c \in RegistryHolding
  BY <1>1, <1>2, <1>3 DEF NewHolding, RegistryHolding, NoDoubleSpend, Leg
<1> HIDE DEF total, rest, new, c
<1>8. ASSUME NEW p \in Party, NEW i \in Inst
      PROVE  Wealth'[p][i] = Wealth[p][i]
  <2> DEFINE held == Held(holdings, p, i)
             left == Held(rest, p, i)
             after == Held(holdings', p, i)
             res == Reserved(allocs, p, i)
             more == Reserved(allocs', p, i)
             its == p = leg.sender /\ i = leg.inst
  <2>1. held \in Nat /\ res \in Nat
    BY WealthIsTyped
  <2>2. held = left + (IF p = leg.sender /\ i = leg.inst THEN Total(inputs) ELSE 0)
    <3>1. FiniteHoldings(holdings)
      BY <1>2 DEF FiniteHoldings
    <3>2. HeldShrinks(holdings, inputs, leg.sender, leg.inst, p, i)
      BY <1>4, <3>1, HeldLess
    <3>3. QED
      BY <3>2 DEF rest, HeldShrinks
  <2>3. left \in Nat
    <3> DEFINE mine == {h \in rest : h.owner = p /\ h.inst = i}
    <3>1. IsFiniteSet(mine) /\ mine \subseteq RegistryHolding
      BY <1>2, FS_Subset
    <3> HIDE DEF mine
    <3>2. Total(mine) \in Nat
      BY <3>1, TotalIsNat
    <3>3. QED
      BY <3>2 DEF Held, mine
  <2>4. after = left + (IF its THEN total - leg.amount ELSE 0)
    <3>1. CASE total > leg.amount
      <4>1. holdings' = rest \cup {c}
        BY <1>5, <3>1 DEF ChangeOf, c
      <4>2. Held(rest \cup {c}, p, i) = Held(rest, p, i) + (IF c.owner = p /\ c.inst = i THEN c.amount ELSE 0)
        <5>1. FiniteHoldings(rest) /\ c \in RegistryHolding /\ c \notin rest
          BY <1>2, <1>7, <3>1 DEF FiniteHoldings
        <5>2. HeldGrows(rest, c, p, i)
          BY <5>1, HeldMore
        <5>3. QED
          BY <5>2 DEF HeldGrows
      <4>3. QED
        BY <1>7, <4>1, <4>2
    <3>2. CASE ~(total > leg.amount)
      <4>1. ChangeOf(leg, total, nextCid + 1) = {}
        BY <3>2 DEF ChangeOf
      <4>2. holdings' = rest
        BY <1>5, <4>1
      <4>3. total - leg.amount = 0
        BY <1>2, <1>3, <3>2
      <4>4. after = left
        BY <4>2
      <4> HIDE DEF left, after, its
      <4>5. QED
        BY <2>3, <4>3, <4>4
    <3>3. QED
      BY <3>1, <3>2
  <2>5. more = res + (IF its THEN leg.amount ELSE 0)
    <3>1. ReservedGrows(allocs, new, p, i)
      BY <1>2, <1>6, ReservedMore DEF FiniteAllocations
    <3>2. QED
      BY <1>5, <1>6, <3>1 DEF ReservedGrows
  <2>6. Wealth[p][i] = held + res /\ Wealth'[p][i] = after + more
    BY WealthEntries
  <2>7. held = left + (IF its THEN total ELSE 0)
    BY <2>2 DEF total
  <2> HIDE DEF held, left, after, res, more, its
  <2>8. CASE its
    BY <1>2, <1>3, <2>1, <2>3, <2>4, <2>5, <2>6, <2>7, <2>8
  <2>9. CASE ~its
    BY <2>1, <2>3, <2>4, <2>5, <2>6, <2>7, <2>9
  <2>10. QED
    BY <2>8, <2>9
<1>9. QED
  <2> DEFINE w == Wealth
             v == Wealth'
  <2>1. PICK X : w \in [Party -> [Inst -> X]] /\ v \in [Party -> [Inst -> X]]
    BY WealthEntries
  <2>2. \A p \in Party, i \in Inst : v[p][i] = w[p][i]
    BY <1>8
  <2> HIDE DEF w, v
  <2>3. v = w
    BY <2>1, <2>2, SameWealth
  <2>4. QED
    BY <2>3 DEF w, v

\* An allocation replaced by a holding: reserved value of its sender's becomes the owner's.
LEMMA ReplaceMovesWealth ==
  ASSUME RegTypeOK, RegFinite, NoDoubleSpend,
         NEW a \in allocs, a.reserved > 0, NEW o \in Party,
         NEW x, x = NewHolding(a.cid, o, a.leg.inst, a.reserved, FALSE),
         allocs' = allocs \ {a}, holdings' = holdings \cup {x}
  PROVE  /\ a.leg.sender \in Party /\ a.leg.inst \in Inst
         /\ a.reserved \in 1..Wealth[a.leg.sender][a.leg.inst]
         /\ o = a.leg.sender => Wealth' = Wealth
         /\ o # a.leg.sender =>
              Wealth' = [Wealth EXCEPT ![a.leg.sender][a.leg.inst] = @ - a.reserved,
                                       ![o][a.leg.inst] = @ + a.reserved]
<1> DEFINE s == a.leg.sender
           k == a.leg.inst
           n == a.reserved
           rest == allocs \ {a}
<1>1. /\ holdings \subseteq RegistryHolding /\ IsFiniteSet(holdings)
      /\ rest \subseteq RegistryAllocation /\ IsFiniteSet(rest)
      /\ a \in RegistryAllocation /\ a \notin rest
  BY FS_Subset DEF RegTypeOK, RegFinite
<1>2. s \in Party /\ k \in Inst /\ n \in Nat /\ n > 0 /\ a.cid \in Nat
  BY <1>1, RegistryAssumption DEF RegistryAllocation, Leg
<1>3. /\ x \in RegistryHolding /\ x \notin holdings
      /\ x.owner = o /\ x.inst = k /\ x.amount = n
  BY <1>2 DEF NewHolding, RegistryHolding, NoDoubleSpend
<1>4. rest \cup {a} = allocs
  OBVIOUS
<1> HIDE DEF rest
<1>5. ASSUME NEW p \in Party, NEW i \in Inst
      PROVE  /\ Wealth[p][i] \in Nat
             /\ p = s /\ i = k => n <= Wealth[p][i]
             /\ p = s /\ i = k /\ o # s => Wealth'[p][i] = Wealth[p][i] - n
             /\ p = o /\ i = k /\ o # s => Wealth'[p][i] = Wealth[p][i] + n
             /\ ~(p \in {s, o} /\ i = k) \/ o = s => Wealth'[p][i] = Wealth[p][i]
  <2> DEFINE held == Held(holdings, p, i)
             more == Held(holdings', p, i)
             res == Reserved(allocs, p, i)
             less == Reserved(allocs', p, i)
  <2>1. held \in Nat /\ res \in Nat
    BY WealthIsTyped
  <2>2. more = held + (IF o = p /\ k = i THEN n ELSE 0)
    <3>1. FiniteHoldings(holdings)
      BY <1>1 DEF FiniteHoldings
    <3>2. HeldGrows(holdings, x, p, i)
      BY <1>3, <3>1, HeldMore
    <3>3. QED
      BY <1>3, <3>2 DEF HeldGrows
  <2>3. less \in Nat /\ res = less + (IF s = p /\ k = i THEN n ELSE 0)
    <3>1. FiniteAllocations(rest)
      BY <1>1 DEF FiniteAllocations
    <3>2. ReservedGrows(rest, a, p, i)
      BY <1>1, <3>1, ReservedMore
    <3>3. allocs' = rest
      BY DEF rest
    <3>4. QED
      BY <1>4, <3>2, <3>3 DEF ReservedGrows
  <2>4. Wealth[p][i] = held + res /\ Wealth'[p][i] = more + less
    BY WealthEntries
  <2> HIDE DEF held, more, res, less, s, k, n
  <2>5. CASE i = k
    BY <1>2, <2>1, <2>2, <2>3, <2>4, <2>5
  <2>6. CASE i # k
    BY <1>2, <2>1, <2>2, <2>3, <2>4, <2>6
  <2>7. QED
    BY <2>5, <2>6
<1> DEFINE w == Wealth
           v == Wealth'
<1>6. PICK X : w \in [Party -> [Inst -> X]] /\ v \in [Party -> [Inst -> X]]
  BY WealthEntries
<1>7. ASSUME NEW p \in Party, NEW i \in Inst
      PROVE  /\ w[p][i] \in Nat
             /\ p = s /\ i = k => n <= w[p][i]
             /\ p = s /\ i = k /\ o # s => v[p][i] = w[p][i] - n
             /\ p = o /\ i = k /\ o # s => v[p][i] = w[p][i] + n
             /\ ~(p \in {s, o} /\ i = k) \/ o = s => v[p][i] = w[p][i]
  BY <1>5
<1> HIDE DEF w, v, s, k, n
<1>8. n \in 1..w[s][k]
  BY <1>2, <1>7
<1>9. o = s => v = w
  BY <1>6, <1>7, SameWealth
<1>10. ASSUME o # s PROVE v = [w EXCEPT ![s][k] = @ - n, ![o][k] = @ + n]
  <2>1. v[s][k] = w[s][k] - n /\ v[o][k] = w[o][k] + n
    BY <1>2, <1>7, <1>10
  <2>2. \A r \in Party, j \in Inst : ~(r \in {s, o} /\ j = k) => v[r][j] = w[r][j]
    BY <1>7
  <2>3. QED
    BY <1>2, <1>6, <1>10, <2>1, <2>2, PaidWealth
<1>11. QED
  BY <1>2, <1>8, <1>9, <1>10 DEF w, v, s, k, n

\* Every transaction of the registry is a step of the ledger of wealth, or none.
LEMMA ValueStep ==
  RegTypeOK /\ RegFinite /\ NoDoubleSpend /\ [RegNext]_regVars
    => [Value!VLNext]_<<Wealth, delegations>>
<1> SUFFICES ASSUME RegTypeOK, RegFinite, NoDoubleSpend, [RegNext]_regVars
             PROVE  Value!VLNext \/ (Wealth' = Wealth /\ delegations' = delegations)
  OBVIOUS
<1>1. ASSUME NEW m \in Mints, Mint(m)
      PROVE  Value!VLNext
  BY <1>1, MintIssues DEF Value!VLNext
<1>2. ASSUME NEW leg \in Legs, NEW inputs \in SUBSET holdings, Allocate(leg, inputs)
      PROVE  Wealth' = Wealth /\ delegations' = delegations
  <2>1. Wealth' = Wealth
    BY <1>2, AllocateKeepsWealth
  <2>2. QED
    BY <1>2, <2>1 DEF Allocate
<1>3. ASSUME NEW a \in allocs, ExecFor(a) \/ ExecuteDirectly(a)
      PROVE  Value!VLNext \/ (Wealth' = Wealth /\ delegations' = delegations)
  <2> DEFINE s == a.leg.sender
             q == a.leg.receiver
             i == a.leg.inst
             n == a.reserved
  <2>1. q \in Party /\ a.reserved > 0
    BY <1>3, RegistryAssumption
       DEF RegTypeOK, RegistryAllocation, Leg, ExecFor, ExecuteDirectly, CanExecFor, MayExecute
  <2>2. /\ allocs' = allocs \ {a} /\ holdings' = holdings \cup {Delivered(a)}
        /\ delegations' = delegations
    BY <1>3 DEF ExecFor, ExecuteDirectly
  <2>3. /\ s \in Party /\ i \in Inst /\ n \in 1..Wealth[s][i]
        /\ q = s => Wealth' = Wealth
        /\ q # s => Wealth' = [Wealth EXCEPT ![s][i] = @ - n, ![q][i] = @ + n]
    <3>1. Delivered(a) = NewHolding(a.cid, q, a.leg.inst, a.reserved, FALSE)
      BY DEF Delivered
    <3>2. QED
      BY <2>1, <2>2, <3>1, ReplaceMovesWealth
  <2>4. {s, q} \subseteq delegations \cup {Admin} /\ (s # q => Admin \in {s, q})
    BY <1>3 DEF ExecFor, CanExecFor, ExecuteDirectly, MayExecute, DelegatedAuthority
  <2> HIDE DEF s, q, i, n
  <2>5. CASE q = s
    BY <2>2, <2>3, <2>5
  <2>6. CASE q # s
    <3>1. Value!Pay(s, q, i, n)
      BY <2>2, <2>3, <2>4, <2>6 DEF Value!Pay
    <3>2. QED
      BY <2>1, <2>3, <3>1 DEF Value!VLNext, q
  <2>7. QED
    BY <2>5, <2>6
<1>4. ASSUME NEW a \in allocs, Withdraw(a)
      PROVE  Wealth' = Wealth /\ delegations' = delegations
  <2>1. a.leg.sender \in Party /\ a.reserved > 0
    BY <1>4, RegistryAssumption DEF RegTypeOK, RegistryAllocation, Leg, Withdraw
  <2>2. /\ allocs' = allocs \ {a} /\ holdings' = holdings \cup {Returned(a)}
        /\ delegations' = delegations
    BY <1>4 DEF Withdraw
  <2>3. Returned(a) = NewHolding(a.cid, a.leg.sender, a.leg.inst, a.reserved, FALSE)
    BY DEF Returned
  <2>4. QED
    BY <2>1, <2>2, <2>3, ReplaceMovesWealth
<1>5. ASSUME NEW p \in Delegates, ProposeDelegation(p)
      PROVE  Wealth' = Wealth /\ delegations' = delegations
  BY <1>5, WealthStays DEF ProposeDelegation
<1>6. ASSUME NEW p \in Delegates, EDP_Accept(p)
      PROVE  Value!VLNext
  <2>1. Wealth' = Wealth /\ p \in Party
    BY <1>6, WealthStays, RegistryAssumption DEF EDP_Accept
  <2>2. QED
    BY <1>6, <2>1 DEF EDP_Accept, Value!VLNext, Value!Agree
<1>7. CASE UNCHANGED regVars
  BY <1>7, WealthStays DEF regVars
<1>8. QED
  BY <1>1, <1>2, <1>3, <1>4, <1>5, <1>6, <1>7 DEF RegNext

\* Seen as wealth, the registry makes no value, loses none and moves it by agreement.
THEOREM RegistryKeepsValue == RegSpec => ConservesValue
<1>1. RegInit => Value!VLInit
  <2> SUFFICES ASSUME RegInit PROVE Value!VLInit
    OBVIOUS
  <2>1. holdings = {} /\ allocs = {} /\ delegations = {}
    BY DEF RegInit
  <2>2. \A p, i : Held(holdings, p, i) = 0 /\ Reserved(allocs, p, i) = 0
    <3> TAKE p, i
    <3>1. {h \in holdings : h.owner = p /\ h.inst = i} = {} /\ {a \in allocs : a.leg.sender = p /\ a.leg.inst = i} = {}
      BY <2>1
    <3>2. QED
      BY <3>1, SumOfNone DEF Held, Reserved, Total
  <2>3. QED
    BY <2>1, <2>2 DEF Value!VLInit, Wealth
<1>2. QED
  BY <1>1, ValueStep, RegTypeCorrect, RegStaysFinite, NothingSpentTwice, PTL
     DEF RegSpec, ConservesValue, Value!VLSpec

-----------------------------------------------------------------------------
(* The deal: type correctness *)

\* Every step of the participations keeps their types: a burn leaves no count below 0.
LEMMA PartTypeStep == PartTypeOK /\ [PartNext]_partVars => PartTypeOK'
<1> SUFFICES ASSUME PartTypeOK, [PartNext]_partVars
             PROVE  PartTypeOK'
  OBVIOUS
<1> USE DEF PartTypeOK
<1>1. ASSUME NEW l \in LP, OfferInterest(l) \/ ProposeParticipation(l) \/ AcceptParticipation(l)
      PROVE  PartTypeOK'
  BY <1>1 DEF OfferInterest, ProposeParticipation, AcceptParticipation
<1>2. ASSUME NEW l \in LP, OFI_Accept(l)
      PROVE  PartTypeOK'
  BY <1>2 DEF OFI_Accept
<1>3. ASSUME NEW l \in LP, BurnFor(l)
      PROVE  PartTypeOK'
  BY <1>3 DEF BurnFor, Burnable, AfterBurning
<1>4. CASE UNCHANGED partVars
  BY <1>4 DEF partVars
<1>5. QED
  BY <1>1, <1>2, <1>3, <1>4 DEF PartNext

\* So does every step of the antecedents.
LEMMA IssTypeStep == IssTypeOK /\ [IssNext]_issVars => IssTypeOK'
BY DEF IssTypeOK, IssNext, issVars, SignDoc, ArchiveDoc, CreateBasis, ValidateIssuance, Spend

\* The holdings that the legs of a close deliver.
LEMMA DeliveredTyped ==
  ASSUME RegTypeOK, NEW a \in allocs, CanExecFor(a)
  PROVE  Delivered(a) \in RegistryHolding
<1>1. a.leg \in Leg /\ a.cid \in Nat
  BY RegistryAssumption DEF RegTypeOK, RegistryAllocation
<1>2. a.reserved \in Nat \ {0}
  BY DEF RegTypeOK, RegistryAllocation, CanExecFor, MayExecute
<1>3. QED
  BY <1>1, <1>2 DEF Delivered, NewHolding, RegistryHolding, Leg

\* A close, which changes parts of all four components, keeps every type.
LEMMA CloseTyped ==
  ASSUME DealTypeOK, NEW d \in Deals, NEW b \in Bases, NEW legs \in SUBSET allocs,
         NEW burns \in [LP -> 0..MaxInterest], Close(d, b, legs, burns)
  PROVE  DealTypeOK'
<1>1. RegTypeOK'
  <2>1. \A a \in legs : Delivered(a) \in RegistryHolding
    BY DeliveredTyped DEF DealTypeOK, Close, LegsSettle
  <2>2. QED
    BY <2>1 DEF DealTypeOK, RegTypeOK, Close
<1>2. PartTypeOK'
  BY ParticipationAssumption DEF DealTypeOK, PartTypeOK, Close, Burnable, AfterBurning
<1>3. IssTypeOK'
  BY DEF DealTypeOK, IssTypeOK, Close, Spend
<1>4. b \in IssuanceBasis
  BY IssuanceAssumption
<1>5. [deal |-> d, pct |-> b.pct, units |-> b.price, basis |-> b] \in Receipt
  BY <1>4 DEF Receipt, IssuanceBasis
<1>6. QED
  BY <1>1, <1>2, <1>3, <1>5 DEF DealTypeOK, Close, Stage

\* Every step of the deal's ledger leaves finitely many holdings and allocations.
LEMMA DealFiniteStep == RegFinite /\ [Next]_vars => RegFinite'
<1> SUFFICES ASSUME RegFinite, [Next]_vars PROVE RegFinite'
  OBVIOUS
<1>1. ASSUME NEW d \in Deals, NEW b \in Bases, NEW legs \in SUBSET allocs,
             NEW burns \in [LP -> 0..MaxInterest], Close(d, b, legs, burns)
      PROVE  RegFinite'
  <2> DEFINE of == [a \in legs |-> Delivered(a)]
             news == {Delivered(a) : a \in legs}
  <2>1. IsFiniteSet(legs) /\ IsFiniteSet(holdings) /\ IsFiniteSet(allocs)
    BY FS_Subset DEF RegFinite
  <2>2. of \in Surjection(legs, news)
    BY DEF Surjection
  <2>3. IsFiniteSet(news)
    <3> HIDE DEF of, news
    <3>1. QED
      BY <2>1, <2>2, FS_Surjection
  <2>4. allocs' = allocs \ legs /\ holdings' = holdings \cup news
    BY <1>1 DEF Close
  <2> HIDE DEF news
  <2>5. QED
    BY <2>1, <2>3, <2>4, FS_Union, FS_Difference DEF RegFinite
<1>2. CASE RegistryStep
  BY <1>2, RegFiniteStep DEF RegistryStep
<1>3. CASE UNCHANGED regVars
  BY <1>3 DEF regVars, RegFinite
<1>4. QED
  BY <1>1, <1>2, <1>3 DEF Next, DealStep, CloseSome, Break, RecordConsent, OpenElections,
     SetClearing, ParticipationStep, IssuanceStep, vars

\* Finitely many are active at any time.
LEMMA DealStaysFinite == Spec => []RegFinite
<1>1. Init => RegFinite
  BY FS_EmptySet DEF Init, RegInit, RegFinite
<1>2. QED
  BY <1>1, DealFiniteStep, PTL DEF Spec

\* Every step of the deal's ledger keeps its types.
LEMMA DealTypeStep == DealTypeOK /\ RegFinite /\ [Next]_vars => DealTypeOK'
<1> SUFFICES ASSUME DealTypeOK, RegFinite, [Next]_vars
             PROVE  DealTypeOK'
  OBVIOUS
<1>1. ASSUME NEW d \in Deals, Break(d) \/ RecordConsent(d) \/ OpenElections(d)
      PROVE  DealTypeOK'
  BY <1>1 DEF DealTypeOK, RegTypeOK, PartTypeOK, IssTypeOK, regVars, partVars, issVars,
              Break, RecordConsent, OpenElections, Stage
<1>2. ASSUME NEW d \in Deals, NEW p \in Prices, SetClearing(d, p)
      PROVE  DealTypeOK'
  BY <1>2 DEF DealTypeOK, RegTypeOK, PartTypeOK, IssTypeOK, regVars, partVars, issVars,
              SetClearing
<1>3. CASE CloseSome
  BY <1>3, CloseTyped DEF CloseSome
<1>4. CASE RegistryStep
  BY <1>4, RegTypeStep DEF DealTypeOK, PartTypeOK, IssTypeOK, RegistryStep, dealVars,
                           partVars, issVars
<1>5. CASE ParticipationStep
  BY <1>5, PartTypeStep DEF DealTypeOK, RegTypeOK, IssTypeOK, ParticipationStep, dealVars,
                            regVars, issVars
<1>6. CASE IssuanceStep
  BY <1>6, IssTypeStep DEF DealTypeOK, RegTypeOK, PartTypeOK, IssuanceStep, dealVars,
                           regVars, partVars
<1>7. CASE UNCHANGED vars
  BY <1>7 DEF DealTypeOK, RegTypeOK, PartTypeOK, IssTypeOK, vars, dealVars, regVars,
              partVars, issVars
<1>8. QED
  BY <1>1, <1>2, <1>3, <1>4, <1>5, <1>6, <1>7 DEF Next, DealStep

\* The whole ledger state is always well typed.
THEOREM DealTypeCorrect == Spec => []DealTypeOK
<1>1. Init => DealTypeOK
  <2> SUFFICES ASSUME Init
               PROVE  DealTypeOK
    OBVIOUS
  <2>1. RegTypeOK
    BY DEF Init, RegInit, RegTypeOK
  <2>2. PartTypeOK
    BY DEF Init, PartInit, PartTypeOK
  <2>3. IssTypeOK
    BY IssuanceAssumption DEF Init, IssInit, IssTypeOK
  <2>4. stage \in [Deals -> Stage]
    <3>1. OpeningStages \subseteq Stage
      BY DealAssumption DEF Stage
    <3>2. stage \in [Deals -> OpeningStages]
      BY DEF Init
    <3>3. QED
      BY <3>1, <3>2
  <2>5. QED
    BY <2>1, <2>2, <2>3, <2>4 DEF Init, DealTypeOK
<1>2. QED
  BY <1>1, DealTypeStep, DealStaysFinite, PTL DEF Spec

-----------------------------------------------------------------------------
(* The LPAC and the price come first *)

\* Steps that leave the deal contracts alone.
LEMMA OtherStepsKeepDeals ==
  RegistryStep \/ ParticipationStep \/ IssuanceStep \/ UNCHANGED vars => UNCHANGED dealVars
BY DEF RegistryStep, ParticipationStep, IssuanceStep, vars

\* No choice opens elections, or closes, before the LPAC and the price.
LEMMA ConsentStep == DealTypeOK /\ ConsentAndPriceFirst /\ [Next]_vars => ConsentAndPriceFirst'
<1> SUFFICES ASSUME DealTypeOK, ConsentAndPriceFirst, [Next]_vars
             PROVE  ConsentAndPriceFirst'
  OBVIOUS
<1> USE DEF ConsentAndPriceFirst, Live, Terminal
<1>0. stage \in [Deals -> Stage] /\ clearing \in [Deals -> Prices \cup {NoPrice}]
  BY DEF DealTypeOK
<1>1. ASSUME NEW d \in Deals, Break(d)
      PROVE  ConsentAndPriceFirst'
  BY <1>0, <1>1 DEF Break
<1>2. ASSUME NEW d \in Deals, RecordConsent(d)
      PROVE  ConsentAndPriceFirst'
  BY <1>0, <1>2 DEF RecordConsent
<1>3. ASSUME NEW d \in Deals, OpenElections(d)
      PROVE  ConsentAndPriceFirst'
  BY <1>0, <1>3 DEF OpenElections
<1>4. ASSUME NEW d \in Deals, NEW p \in Prices, SetClearing(d, p)
      PROVE  ConsentAndPriceFirst'
  BY <1>0, <1>4, DealAssumption DEF SetClearing
<1>5. CASE CloseSome
  BY <1>0, <1>5 DEF CloseSome, Close, Gate
<1>6. CASE UNCHANGED dealVars
  BY <1>6 DEF dealVars
<1>7. QED
  BY <1>1, <1>2, <1>3, <1>4, <1>5, <1>6, OtherStepsKeepDeals DEF Next, DealStep

\* In every behaviour a deal that is consented, electing or closed had its LPAC act
\* on it, and elections are open only on a priced deal.
THEOREM LPACAndPriceComeFirst == Spec => []ConsentAndPriceFirst
<1>1. Init => ConsentAndPriceFirst
  BY DealAssumption DEF Init, ConsentAndPriceFirst
<1>2. QED
  BY <1>1, ConsentStep, DealTypeCorrect, PTL DEF Spec

-----------------------------------------------------------------------------
(* One close for each deal and each basis *)

\* A receipt is new in a close only: no other step touches receipts or closes a deal.
LEMMA OneCloseStep == DealTypeOK /\ OneCloseEach /\ [Next]_vars => OneCloseEach'
<1> SUFFICES ASSUME DealTypeOK, OneCloseEach, [Next]_vars
             PROVE  OneCloseEach'
  OBVIOUS
<1>0. stage \in [Deals -> Stage]
  BY DEF DealTypeOK
<1>1. ASSUME NEW d \in Deals,
             \/ Break(d) \/ RecordConsent(d) \/ OpenElections(d)
             \/ \E p \in Prices : SetClearing(d, p)
      PROVE  OneCloseEach'
  <2>1. receipts' = receipts /\ bases' = bases /\ spent' = spent
    BY <1>1 DEF Break, RecordConsent, OpenElections, SetClearing, issVars
  <2>2. {e \in Deals : stage'[e] = "Closed"} = {e \in Deals : stage[e] = "Closed"}
    BY <1>0, <1>1 DEF Break, RecordConsent, OpenElections, SetClearing, Live, Terminal
  <2>3. QED
    BY <2>1, <2>2 DEF OneCloseEach
<1>2. ASSUME NEW d \in Deals, NEW b \in Bases, NEW legs \in SUBSET allocs,
             NEW burns \in [LP -> 0..MaxInterest], Close(d, b, legs, burns)
      PROVE  OneCloseEach'
  <2> DEFINE new == [deal |-> d, pct |-> b.pct, units |-> b.price, basis |-> b]
  <2>1. /\ receipts' = receipts \cup {new}
        /\ stage' = [stage EXCEPT ![d] = "Closed"]
        /\ bases' = bases \ {b} /\ spent' = spent \cup {b}
    BY <1>2 DEF Close, Spend
  <2>2. b \in bases /\ stage[d] # "Closed"
    BY <1>2 DEF Close, Gate
  <2>3. new.deal = d /\ new.basis = b
    OBVIOUS
  <2> HIDE DEF new
  <2>4. \A r \in receipts : r.deal # d /\ r.basis # b /\ r.basis \in spent \ bases
    BY <2>2 DEF OneCloseEach
  <2>5. {r.deal : r \in receipts'} = {e \in Deals : stage'[e] = "Closed"}
    <3>1. {r.deal : r \in receipts'} = {r.deal : r \in receipts} \cup {d}
      BY <2>1, <2>3
    <3>2. {e \in Deals : stage'[e] = "Closed"} = {e \in Deals : stage[e] = "Closed"} \cup {d}
      BY <1>0, <2>1
    <3>3. QED
      BY <3>1, <3>2 DEF OneCloseEach
  <2>6. \A r, q \in receipts' : r.deal = q.deal \/ r.basis = q.basis => r = q
    BY <2>1, <2>3, <2>4 DEF OneCloseEach
  <2>7. \A r \in receipts' : r.basis \in spent' \ bases'
    BY <2>1, <2>3, <2>4
  <2>8. QED
    BY <2>5, <2>6, <2>7 DEF OneCloseEach
<1>3. CASE RegistryStep \/ ParticipationStep \/ UNCHANGED vars
  BY <1>3 DEF OneCloseEach, RegistryStep, ParticipationStep, vars, dealVars, issVars
<1>4. CASE IssuanceStep
  <2>1. UNCHANGED dealVars /\ IssNext
    BY <1>4 DEF IssuanceStep
  <2>2. spent \ bases \subseteq spent' \ bases'
    BY <2>1 DEF IssNext, SignDoc, ArchiveDoc, CreateBasis, ValidateIssuance, Spend
  <2>3. QED
    BY <2>1, <2>2 DEF OneCloseEach, dealVars
<1>5. QED
  BY <1>1, <1>2, <1>3, <1>4 DEF Next, DealStep, CloseSome

\* No deal closes twice, no basis backs two closes, and each closed deal has the one
\* receipt of its close.
THEOREM EachCloseIsOne == Spec => []OneCloseEach
<1>1. Init => OneCloseEach
  <2> SUFFICES ASSUME Init
               PROVE  OneCloseEach
    OBVIOUS
  <2>1. receipts = {} /\ {d \in Deals : stage[d] = "Closed"} = {}
    BY DealAssumption DEF Init
  <2>2. QED
    BY <2>1 DEF OneCloseEach
<1>2. QED
  BY <1>1, OneCloseStep, DealTypeCorrect, PTL DEF Spec

-----------------------------------------------------------------------------
(* What a receipt rests on *)

\* ReceiptsRestOnFacts is not inductive: it needs that a document, once signed, keeps
\* its ensure clause, and it must not forget the document when it is archived.
SignedHold == \A d \in Signed : Ensure(d)

\* A document keeps its ensure clause once signed, archived or not.
LEMMA SignedStep ==
  SignedHold /\ [Next]_vars => SignedHold' /\ Signed \subseteq Signed'
<1> SUFFICES ASSUME SignedHold, [Next]_vars
             PROVE  SignedHold' /\ Signed \subseteq Signed'
  OBVIOUS
<1> USE DEF SignedHold, Signed
<1>1. CASE UNCHANGED <<facts, archived>>
  BY <1>1
<1>2. ASSUME NEW d \in Docs, SignDoc(d) \/ ArchiveDoc(d)
      PROVE  SignedHold' /\ Signed \subseteq Signed'
  BY <1>2 DEF SignDoc, ArchiveDoc
<1>3. CASE DealStep \/ RegistryStep \/ ParticipationStep \/ UNCHANGED vars
  BY <1>1, <1>3 DEF DealStep, Break, RecordConsent, OpenElections, SetClearing, CloseSome,
     Close, Spend, RegistryStep, ParticipationStep, vars, issVars
<1>4. CASE IssuanceStep
  BY <1>1, <1>2, <1>4, IssuanceAssumption
     DEF IssuanceStep, IssNext, CreateBasis, ValidateIssuance, Spend
<1>5. QED
  BY <1>3, <1>4 DEF Next

\* The body of ReceiptsRestOnFacts, of one receipt.
RestsOnFacts(r) ==
  LET b == r.basis IN
  /\ RefersTo(b) \subseteq Signed
  /\ r.pct = b.pct /\ r.units = RoundDollar(b.psa.pct, b.nav) /\ r.units = b.psa.price
  /\ b.valuations # {}
  /\ \A v \in b.valuations : v.lo <= b.nav /\ b.nav <= v.hi /\ v.signer # Admin
  /\ b.fairness.lo <= b.cert.pct /\ b.cert.pct <= b.fairness.hi /\ b.fairness.signer # Admin
  /\ b.consent.granted
  /\ {v.deal : v \in RefersTo(b)} = {b.deal}

\* A valid basis justifies the receipt that its close makes.
LEMMA ValidJustifies ==
  ASSUME SignedHold, NEW b \in Bases, Valid(b), NEW r, r.basis = b, r.pct = b.pct,
         r.units = b.price
  PROVE  RestsOnFacts(r)
<1>1. b \in IssuanceBasis
  BY IssuanceAssumption
<1>2. /\ b.valuations \subseteq ValuationReport
      /\ b.fairness \in FairnessOpinion
  BY <1>1 DEF IssuanceBasis
<1>3. RefersTo(b) \subseteq Signed
  BY DEF Valid, AllActive, Signed
<1>4. \A v \in b.valuations : v.signer # Admin
  <2>1. ASSUME NEW v \in b.valuations
        PROVE  v.kind = "valuation" /\ Ensure(v)
    BY <1>2, <1>3 DEF ValuationReport, Opinion, RefersTo, SignedHold
  <2>2. QED
    BY <2>1 DEF Ensure
<1>5. b.fairness.signer # Admin
  <2>1. b.fairness.kind = "fairness" /\ Ensure(b.fairness)
    BY <1>2, <1>3 DEF FairnessOpinion, Opinion, RefersTo, SignedHold
  <2>2. QED
    BY <2>1 DEF Ensure
<1>6. {v.deal : v \in RefersTo(b)} = {b.deal}
  BY DEF Valid, ValuationsHold, FairnessHolds, RefersTo
<1>7. r.units = RoundDollar(b.psa.pct, b.nav) /\ r.units = b.psa.price
  BY DEF Valid
<1>8. /\ b.valuations # {}
      /\ \A v \in b.valuations : v.lo <= b.nav /\ b.nav <= v.hi
      /\ b.fairness.lo <= b.cert.pct /\ b.cert.pct <= b.fairness.hi
      /\ b.consent.granted
  BY DEF Valid, ValuationsHold, FairnessHolds
<1>9. QED
  BY <1>3, <1>4, <1>5, <1>6, <1>7, <1>8 DEF RestsOnFacts

\* Every step keeps the receipts justified.
LEMMA ReceiptsStep ==
  SignedHold /\ ReceiptsRestOnFacts /\ [Next]_vars => ReceiptsRestOnFacts'
<1> SUFFICES ASSUME SignedHold, ReceiptsRestOnFacts, [Next]_vars
             PROVE  ReceiptsRestOnFacts'
  OBVIOUS
<1>1. ReceiptsRestOnFacts <=> \A r \in receipts : RestsOnFacts(r)
  BY DEF ReceiptsRestOnFacts, RestsOnFacts
<1>2. ReceiptsRestOnFacts' <=> \A r \in receipts' : RestsOnFacts(r)'
  BY DEF ReceiptsRestOnFacts, RestsOnFacts
<1>3. \A r : RestsOnFacts(r) => RestsOnFacts(r)'
  BY SignedStep DEF RestsOnFacts
<1>4. ASSUME NEW d \in Deals, NEW b \in Bases, NEW legs \in SUBSET allocs,
             NEW burns \in [LP -> 0..MaxInterest], Close(d, b, legs, burns)
      PROVE  ReceiptsRestOnFacts'
  <2> DEFINE new == [deal |-> d, pct |-> b.pct, units |-> b.price, basis |-> b]
  <2>1. receipts' = receipts \cup {new} /\ Valid(b)
    BY <1>4 DEF Close, Gate
  <2>2. RestsOnFacts(new)
    BY <2>1, ValidJustifies
  <2> HIDE DEF new
  <2>3. QED
    BY <1>1, <1>2, <1>3, <2>1, <2>2
<1>5. CASE UNCHANGED receipts
  BY <1>1, <1>2, <1>3, <1>5
<1>6. QED
  BY <1>4, <1>5 DEF Next, DealStep, Break, RecordConsent, OpenElections, SetClearing,
     CloseSome, RegistryStep, ParticipationStep, IssuanceStep, vars, dealVars

\* Every receipt follows from signed, independent documents, whatever bases the GP
\* may write and whatever is archived afterwards.
THEOREM ReceiptsAreJustified == Spec => []ReceiptsRestOnFacts
<1>1. Init => SignedHold /\ ReceiptsRestOnFacts
  BY IssuanceAssumption DEF Init, IssInit, SignedHold, Signed, ReceiptsRestOnFacts
<1>2. SignedHold /\ ReceiptsRestOnFacts /\ [Next]_vars => (SignedHold /\ ReceiptsRestOnFacts)'
  BY SignedStep, ReceiptsStep
<1>3. QED
  BY <1>1, <1>2, PTL DEF Spec

-----------------------------------------------------------------------------
(* What a step may never do *)

\* Only Close makes a receipt.
LEMMA ReceiptsComeFromClose ==
  ASSUME [Next]_vars, receipts' # receipts
  PROVE  \E d \in Deals, b \in Bases :
           /\ Gate(d, b)
           /\ receipts' = receipts \cup {[deal |-> d, pct |-> b.pct, units |-> b.price,
                                          basis |-> b]}
<1>1. CloseSome
  BY DEF Next, DealStep, Break, RecordConsent, OpenElections, SetClearing,
     RegistryStep, ParticipationStep, IssuanceStep, vars, dealVars
<1>2. QED
  BY <1>1 DEF CloseSome, Close

\* The action ClosesOnActiveFacts says of every step.
ActiveFactsBack == \A r \in receipts' \ receipts : RefersTo(r.basis) \subseteq facts

\* A close rests on documents active at that moment, whatever is archived when.
THEOREM ClosesRestOnActiveFacts == Spec => ClosesOnActiveFacts
<1>1. [Next]_vars => [ActiveFactsBack]_vars
  <2> SUFFICES ASSUME [Next]_vars, NEW r \in receipts' \ receipts
               PROVE  RefersTo(r.basis) \subseteq facts
    BY DEF ActiveFactsBack
  <2>1. PICK d \in Deals, b \in Bases :
          /\ Gate(d, b)
          /\ receipts' = receipts \cup {[deal |-> d, pct |-> b.pct, units |-> b.price,
                                         basis |-> b]}
    BY ReceiptsComeFromClose
  <2>2. r.basis = b
    BY <2>1
  <2>3. QED
    BY <2>1, <2>2 DEF Gate, Valid, AllActive
<1>2. QED
  BY <1>1, PTL DEF Spec, ClosesOnActiveFacts, ActiveFactsBack

\* The action EndedDealsRest says of every step.
EndedKeep ==
  \A d \in Deals : stage[d] \in Terminal => stage'[d] = stage[d] /\ clearing'[d] = clearing[d]

\* A deal that closed or broke stays as it ended.
THEOREM EndedDealsStay == Spec => EndedDealsRest
<1>1. DealTypeOK /\ [Next]_vars => [EndedKeep]_vars
  <2> SUFFICES ASSUME DealTypeOK, [Next]_vars
               PROVE  EndedKeep
    OBVIOUS
  <2> USE DEF EndedKeep, Terminal, Live
  <2>0. stage \in [Deals -> Stage] /\ clearing \in [Deals -> Prices \cup {NoPrice}]
    BY DEF DealTypeOK
  <2>1. ASSUME NEW d \in Deals, Break(d) \/ RecordConsent(d) \/ OpenElections(d)
        PROVE  EndedKeep
    BY <2>0, <2>1 DEF Break, RecordConsent, OpenElections
  <2>2. ASSUME NEW d \in Deals, NEW p \in Prices, SetClearing(d, p)
        PROVE  EndedKeep
    BY <2>0, <2>2 DEF SetClearing
  <2>3. CASE CloseSome
    BY <2>0, <2>3 DEF CloseSome, Close, Gate
  <2>4. CASE UNCHANGED dealVars
    BY <2>4 DEF dealVars
  <2>5. QED
    BY <2>1, <2>2, <2>3, <2>4, OtherStepsKeepDeals DEF Next, DealStep
<1>2. QED
  BY <1>1, DealTypeCorrect, PTL DEF Spec, EndedDealsRest, EndedKeep

-----------------------------------------------------------------------------
(* The registry under the deal *)

\* A close moves many legs at once; the registry's invariant survives it.
LEMMA CloseSpendsOnce ==
  ASSUME DealTypeOK, NoDoubleSpend, NEW d \in Deals, NEW b \in Bases,
         NEW legs \in SUBSET allocs, NEW burns \in [LP -> 0..MaxInterest],
         Close(d, b, legs, burns)
  PROVE  NoDoubleSpend'
<1> DEFINE news == {Delivered(a) : a \in legs}
<1>1. allocs' = allocs \ legs /\ holdings' = holdings \cup news /\ nextCid' = nextCid
  BY DEF Close
<1>2. \A h \in news : \E a \in legs : h = Delivered(a) /\ h.cid = a.cid
  BY DEF Delivered, NewHolding
<1> HIDE DEF news
<1>3. \A h, g \in news : h.cid = g.cid => h = g
  BY <1>2 DEF NoDoubleSpend
<1>4. \A h \in holdings, g \in news : h.cid # g.cid
  BY <1>2 DEF NoDoubleSpend
<1>5. \A h \in news, a \in allocs' : h.cid # a.cid
  BY <1>1, <1>2 DEF NoDoubleSpend
<1>6. \A h \in news : h.cid < nextCid
  BY <1>2 DEF NoDoubleSpend
<1>7. QED
  BY <1>1, <1>3, <1>4, <1>5, <1>6 DEF NoDoubleSpend

\* No value is active twice in the whole system, closes included.
THEOREM DealsSpendOnce == Spec => []NoDoubleSpend
<1>1. Init => NoDoubleSpend
  BY DEF Init, RegInit, NoDoubleSpend
<1>2. DealTypeOK /\ NoDoubleSpend /\ [Next]_vars => NoDoubleSpend'
  <2> SUFFICES ASSUME DealTypeOK, NoDoubleSpend, [Next]_vars
               PROVE  NoDoubleSpend'
    OBVIOUS
  <2>1. CASE CloseSome
    BY <2>1, CloseSpendsOnce DEF CloseSome
  <2>2. CASE RegistryStep
    BY <2>2, NoDoubleSpendStep DEF RegistryStep, DealTypeOK
  <2>3. CASE UNCHANGED regVars
    BY <2>3 DEF regVars, NoDoubleSpend
  <2>4. QED
    BY <2>1, <2>2, <2>3 DEF Next, DealStep, Break, RecordConsent, OpenElections,
       SetClearing, ParticipationStep, IssuanceStep, vars
<1>3. QED
  BY <1>1, <1>2, DealTypeCorrect, PTL DEF Spec

\* The holdings a close creates of an instrument are worth the legs it moves of it.
LEMMA UnitsOfClose ==
  ASSUME DealTypeOK, RegFinite, NoDoubleSpend, NEW legs \in SUBSET allocs,
         holdings' = holdings \cup {Delivered(a) : a \in legs}
  PROVE  Total({h \in holdings' \ holdings : h.inst = Unit}) = UnitTotal(legs)
<1> DEFINE ofUnits == {a \in legs : a.leg.inst = Unit}
           news == {h \in holdings' \ holdings : h.inst = Unit}
           g == [a \in ofUnits |-> Delivered(a)]
           f == [h \in news |-> h.amount]
           k == [a \in ofUnits |-> a.reserved]
<1>1. IsFiniteSet(ofUnits)
  BY FS_Subset DEF RegFinite
<1>2. \A a \in legs : /\ Delivered(a).cid = a.cid /\ Delivered(a).inst = a.leg.inst
                      /\ Delivered(a).amount = a.reserved /\ a.reserved \in Nat
  BY DEF Delivered, NewHolding, DealTypeOK, RegTypeOK, RegistryAllocation
<1>3. \A a \in legs : Delivered(a) \notin holdings
  BY <1>2 DEF NoDoubleSpend
<1>4. news = {g[a] : a \in ofUnits}
  BY <1>2, <1>3
<1>5. OneToOne(g, ofUnits)
  BY <1>2 DEF NoDoubleSpend, OneToOne
<1>6. \A a \in ofUnits : g[a] \in news
  BY <1>4
<1>7. \A a \in ofUnits : k[a] \in Int /\ f[g[a]] = k[a]
  BY <1>2, <1>6
<1>8. Total(news) = SumFunctionOnSet(f, news) /\ UnitTotal(legs) = SumFunctionOnSet(k, ofUnits)
  BY DEF Total, UnitTotal
<1> HIDE DEF f, g, k, news, ofUnits
<1>9. SumFunctionOnSet(f, {g[a] : a \in ofUnits}) = SumFunctionOnSet(k, ofUnits)
  BY <1>1, <1>5, <1>7, SumOfImage
<1>10. Total(news) = UnitTotal(legs)
  BY <1>4, <1>8, <1>9
<1>11. QED
  BY <1>10 DEF news

\* The action UnitsMatchPrice says of every step.
UnitsAsPaid ==
  \A r \in receipts' \ receipts : Total({h \in holdings' \ holdings : h.inst = Unit}) = r.units

\* The units that come into being in a close are worth the price on its receipt,
\* whatever legs the GP passes.
THEOREM UnitsAreThePrice == Spec => UnitsMatchPrice
<1>1. DealTypeOK /\ RegFinite /\ NoDoubleSpend /\ [Next]_vars => [UnitsAsPaid]_vars
  <2> SUFFICES ASSUME DealTypeOK, RegFinite, NoDoubleSpend, [Next]_vars,
                      NEW r \in receipts' \ receipts
               PROVE  Total({h \in holdings' \ holdings : h.inst = Unit}) = r.units
    BY DEF UnitsAsPaid
  <2>1. CloseSome
    BY DEF Next, DealStep, Break, RecordConsent, OpenElections, SetClearing,
       RegistryStep, ParticipationStep, IssuanceStep, vars, dealVars
  <2>2. PICK d \in Deals, b \in Bases, legs \in SUBSET allocs,
             burns \in [LP -> 0..MaxInterest] : Close(d, b, legs, burns)
    BY <2>1 DEF CloseSome
  <2>3. r.units = b.price /\ UnitTotal(legs) = b.price
    BY <2>2 DEF Close, LegsSettle
  <2>4. holdings' = holdings \cup {Delivered(a) : a \in legs}
    BY <2>2 DEF Close
  <2>5. QED
    BY <2>3, <2>4, UnitsOfClose
<1>2. QED
  BY <1>1, DealTypeCorrect, DealStaysFinite, DealsSpendOnce, PTL
     DEF Spec, UnitsMatchPrice, UnitsAsPaid

-----------------------------------------------------------------------------
(* The deal implements its outcome *)

\* The bases that are active have not been used: what makes a close use up a
\* justification no other close has used.
BasesUnspent == bases \cap spent = {}

\* A basis that was consumed never becomes active again.
LEMMA UnspentStep == BasesUnspent /\ [Next]_vars => BasesUnspent'
<1> SUFFICES ASSUME BasesUnspent, [Next]_vars
             PROVE  BasesUnspent'
  OBVIOUS
<1> USE DEF BasesUnspent
<1>1. CASE CloseSome
  BY <1>1 DEF CloseSome, Close, Spend
<1>2. CASE IssuanceStep
  BY <1>2 DEF IssuanceStep, IssNext, SignDoc, ArchiveDoc, CreateBasis, ValidateIssuance, Spend
<1>3. CASE UNCHANGED issVars
  BY <1>3 DEF issVars
<1>4. QED
  BY <1>1, <1>2, <1>3 DEF Next, DealStep, Break, RecordConsent, OpenElections, SetClearing,
     RegistryStep, ParticipationStep, vars

\* What the refinement mapping makes of the stages.
OutcomeMap == [d \in Deals |-> OutcomeOf(d)]

\* A deal whose stage changes from one live stage to another keeps its outcome.
LEMMA LiveIsOpen ==
  ASSUME NEW d \in Deals, Live(d)
  PROVE  OutcomeOf(d) = "open"
BY DEF Live, Terminal, OutcomeOf

\* Every step of the deal is a step of its outcome, or a stutter.
LEMMA OutcomeStep ==
  ASSUME DealTypeOK, ConsentAndPriceFirst, BasesUnspent, [Next]_vars
  PROVE  [Outcome!OutcomeNext]_<<OutcomeMap, recorded, spent>>
<1>0. stage \in [Deals -> Stage]
  BY DEF DealTypeOK
<1> USE DEF OutcomeMap, OutcomeOf
<1>1. ASSUME NEW d \in Deals, Break(d)
      PROVE  Outcome!Abandon(d)
  BY <1>0, <1>1 DEF Break, Live, Terminal, issVars, Outcome!Abandon
<1>2. ASSUME NEW d \in Deals, RecordConsent(d)
      PROVE  Outcome!Agree(d)
  <2>1. OutcomeMap' = OutcomeMap
    BY <1>0, <1>2 DEF RecordConsent, Live, Terminal
  <2>2. QED
    BY <1>0, <1>2, <2>1 DEF RecordConsent, Live, Terminal, issVars, Outcome!Agree
<1>3. ASSUME NEW d \in Deals, OpenElections(d) \/ \E p \in Prices : SetClearing(d, p)
      PROVE  UNCHANGED <<OutcomeMap, recorded, spent>>
  BY <1>0, <1>3 DEF OpenElections, SetClearing, issVars
<1>4. ASSUME NEW d \in Deals, NEW b \in Bases, NEW legs \in SUBSET allocs,
             NEW burns \in [LP -> 0..MaxInterest], Close(d, b, legs, burns)
      PROVE  Outcome!Settle(d, b)
  <2>1. /\ stage' = [stage EXCEPT ![d] = "Closed"]
        /\ recorded' = recorded
        /\ spent' = spent \cup {b}
    BY <1>4 DEF Close, Spend
  <2>2. stage[d] \in {"Consented", "Electing"} /\ d \in recorded /\ b \notin spent
    BY <1>4 DEF Close, Gate, ConsentAndPriceFirst, BasesUnspent
  <2>3. OutcomeMap' = [OutcomeMap EXCEPT ![d] = "closed"]
    BY <1>0, <2>1
  <2>4. OutcomeMap[d] = "open"
    BY <2>2
  <2>5. QED
    BY <2>1, <2>2, <2>3, <2>4 DEF Outcome!Settle
<1>5. ASSUME NEW b \in Bases, ValidateIssuance(b), UNCHANGED dealVars
      PROVE  Outcome!UseUp(b)
  BY <1>5 DEF ValidateIssuance, Spend, BasesUnspent, dealVars, Outcome!UseUp
<1>6. CASE RegistryStep \/ ParticipationStep \/ UNCHANGED vars
  BY <1>6 DEF RegistryStep, ParticipationStep, vars, dealVars, issVars
<1>7. ASSUME UNCHANGED dealVars, UNCHANGED spent
      PROVE  UNCHANGED <<OutcomeMap, recorded, spent>>
  BY <1>7 DEF dealVars
<1>8. CASE IssuanceStep
  BY <1>5, <1>7, <1>8 DEF IssuanceStep, IssNext, SignDoc, ArchiveDoc, CreateBasis,
     Outcome!OutcomeNext
<1>9. QED
  BY <1>1, <1>2, <1>3, <1>4, <1>6, <1>8
     DEF Next, DealStep, CloseSome, Outcome!OutcomeNext

\* The contracts implement what a closing room promises.
THEOREM DealsEndAsPromised == Spec => EndsAsPromised
<1>1. Init => Outcome!OutcomeInit
  BY DealAssumption DEF Init, IssInit, OutcomeOf, Outcome!OutcomeInit
<1>2. Init => BasesUnspent
  BY DEF Init, IssInit, BasesUnspent
<1>3. DealTypeOK /\ ConsentAndPriceFirst /\ BasesUnspent /\ [Next]_vars
        => [Outcome!OutcomeNext]_<<OutcomeMap, recorded, spent>>
  BY OutcomeStep
<1>4. QED
  BY <1>1, <1>2, <1>3, UnspentStep, DealTypeCorrect, LPACAndPriceComeFirst, PTL
     DEF Spec, EndsAsPromised, Outcome!OutcomeSpec, OutcomeMap
=============================================================================
