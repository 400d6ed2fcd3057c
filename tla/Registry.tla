------------------------------ MODULE Registry ------------------------------
(***************************************************************************)
(* The token registry of Continuum/Registry.daml: holdings of any          *)
(* instrument, allocations that reserve holdings for one transfer leg, and *)
(* the delegations with which a party lets the admin (the GP) execute a    *)
(* leg for it.  One action is one committed ledger transaction, submitted  *)
(* by ONE party: the wallets submit with a single actAs, so a choice whose *)
(* controllers are several parties needs their authority from a delegation.*)
(*                                                                         *)
(* A contract is a record; archiving it removes it from its set.  cid      *)
(* stands for the contract id: numbers are drawn from nextCid, and the     *)
(* holding that replaces an archived allocation keeps its number (they are *)
(* contracts of two templates, and each allocation is replaced once).      *)
(*                                                                         *)
(* Every template also has an implicit Archive choice for its signatories. *)
(* Nothing in the repository exercises it on the contracts modelled here,  *)
(* and it is not a step of this model.                                     *)
(***************************************************************************)
EXTENDS Parties, Integers, FiniteSets, FiniteSetsExt

\* The admin is also the executor of every leg.
CONSTANTS Inst,     \* instruments
          Mints,    \* the holdings the admin may create
          Legs,     \* the transfer legs that may be allocated
          Delegates, \* the parties the admin asks for a delegation
          MaxCid    \* bound on the contract numbers of one behaviour

MintSpec == [owner : Party, inst : Inst, amount : Nat \ {0}, locked : BOOLEAN]

\* The factory does not bound leg.amount from below; the project's callers
\* compute it from non-negative decimals, and so do these legs.
Leg == [sender : Party, receiver : Party, inst : Inst, amount : Nat]

ASSUME RegistryAssumption ==
  /\ Mints \subseteq MintSpec
  /\ Legs \subseteq Leg
  /\ Delegates \subseteq Party
  /\ MaxCid \in Nat

VARIABLES holdings,     \* active RegistryHolding contracts
          allocs,       \* active RegistryAllocation contracts
          proposals,    \* parties with an open ExecDelegationProposal
          delegations,  \* parties with an ExecDelegation
          nextCid

regVars == <<holdings, allocs, proposals, delegations, nextCid>>

RegistryHolding == [cid : Nat, owner : Party, inst : Inst, amount : Nat \ {0}, locked : BOOLEAN]

RegistryAllocation == [cid : Nat, leg : Legs, reserved : Nat]

RegTypeOK ==
  /\ holdings \subseteq RegistryHolding
  /\ allocs \subseteq RegistryAllocation
  /\ proposals \subseteq Party
  /\ delegations \subseteq Party
  /\ nextCid \in Nat

RegInit ==
  /\ holdings = {}
  /\ allocs = {}
  /\ proposals = {}
  /\ delegations = {}
  /\ nextCid = 1

-----------------------------------------------------------------------------
(* Holdings and allocations *)

NewHolding(n, owner, inst, amount, locked) ==
  [cid |-> n, owner |-> owner, inst |-> inst, amount |-> amount, locked |-> locked]

Total(hs) == SumFunctionOnSet([h \in hs |-> h.amount], hs)

\* The admin creates a holding for anyone.
Mint(m) ==
  /\ nextCid <= MaxCid
  /\ holdings' = holdings \cup {NewHolding(nextCid, m.owner, m.inst, m.amount, m.locked)}
  /\ nextCid' = nextCid + 1
  /\ UNCHANGED <<allocs, proposals, delegations>>

\* What the factory checks of the holdings handed to it.
UsableInputs(leg, inputs) ==
  /\ inputs \subseteq holdings
  /\ \A h \in inputs : h.owner = leg.sender /\ h.inst = leg.inst /\ ~h.locked

\* Slips: the change is forgotten; it is made even when nothing is left.
ChangeOf_Lost(leg, total, n) == {}
ChangeOf_Zero(leg, total, n) ==
  {NewHolding(n, leg.sender, leg.inst, total - leg.amount, FALSE)}

\* The change the factory returns to the sender, if the inputs exceed the leg.
ChangeOf(leg, total, n) ==
  IF total > leg.amount
    THEN {NewHolding(n, leg.sender, leg.inst, total - leg.amount, FALSE)}
    ELSE {}

\* The sender turns inputs into an allocation of the leg, plus change.
Allocate(leg, inputs) ==
  LET total == Total(inputs) IN
  /\ nextCid < MaxCid
  /\ UsableInputs(leg, inputs)
  /\ total >= leg.amount
  /\ allocs' = allocs \cup {[cid |-> nextCid, leg |-> leg, reserved |-> leg.amount]}
  /\ holdings' = (holdings \ inputs) \cup ChangeOf(leg, total, nextCid + 1)
  /\ nextCid' = nextCid + 2
  /\ UNCHANGED <<proposals, delegations>>

\* allocation_executeTransferImpl and returnToSender: what replaces the allocation.
Delivered(a) == NewHolding(a.cid, a.leg.receiver, a.leg.inst, a.reserved, FALSE)
Returned(a) == NewHolding(a.cid, a.leg.sender, a.leg.inst, a.reserved, FALSE)

\* Allocation_ExecuteTransfer needs the authority of sender, receiver and
\* executor, and the holding it creates must have a positive amount.
MayExecute(a, authority) ==
  /\ {a.leg.sender, a.leg.receiver, Admin} \subseteq authority
  /\ a.reserved > 0

\* Slip: a delegation lends everybody's authority.
DelegatedAuthority_All(p) == Party

\* The body of an ExecDelegation of p runs with the authority of its signatories.
DelegatedAuthority(p) == {Admin, p}

CanExecFor(a) == \E p \in delegations : MayExecute(a, DelegatedAuthority(p))

\* Slip: the interface choice does not consume the allocation.
ExecFor_Kept(a) ==
  /\ CanExecFor(a)
  /\ holdings' = holdings \cup {Delivered(a)}
  /\ UNCHANGED <<allocs, proposals, delegations, nextCid>>

\* The admin exercises ExecFor on somebody's delegation, outside any Close.
ExecFor(a) ==
  /\ CanExecFor(a)
  /\ allocs' = allocs \ {a}
  /\ holdings' = holdings \cup {Delivered(a)}
  /\ UNCHANGED <<proposals, delegations, nextCid>>

\* The admin executes a leg to itself with nobody's delegation.
ExecuteDirectly(a) ==
  /\ MayExecute(a, {Admin})
  /\ allocs' = allocs \ {a}
  /\ holdings' = holdings \cup {Delivered(a)}
  /\ UNCHANGED <<proposals, delegations, nextCid>>

\* Allocation_Withdraw by the sender.  Allocation_Cancel has the same effect and
\* three controllers, so one party can exercise it only when it may withdraw too.
Withdraw(a) ==
  /\ a.reserved > 0
  /\ allocs' = allocs \ {a}
  /\ holdings' = holdings \cup {Returned(a)}
  /\ UNCHANGED <<proposals, delegations, nextCid>>

-----------------------------------------------------------------------------
(* Delegations: the admin proposes, the party accepts in its own transaction. *)
(* Accepting twice is harmless, so a party has one proposal or none.          *)

ProposeDelegation(p) ==
  /\ proposals' = proposals \cup {p}
  /\ UNCHANGED <<holdings, allocs, delegations, nextCid>>

EDP_Accept(p) ==
  /\ p \in proposals
  /\ proposals' = proposals \ {p}
  /\ delegations' = delegations \cup {p}
  /\ UNCHANGED <<holdings, allocs, nextCid>>

RegNext ==
  \/ \E m \in Mints : Mint(m)
  \/ \E leg \in Legs, inputs \in SUBSET holdings : Allocate(leg, inputs)
  \/ \E a \in allocs : ExecFor(a) \/ ExecuteDirectly(a) \/ Withdraw(a)
  \/ \E p \in Delegates : ProposeDelegation(p) \/ EDP_Accept(p)

RegSpec == RegInit /\ [][RegNext]_regVars

\* The registry, seen as what each party has of each instrument.
Held(hs, p, i) == Total({h \in hs : h.owner = p /\ h.inst = i})

Reserved(as, p, i) ==
  LET its == {a \in as : a.leg.sender = p /\ a.leg.inst = i} IN
  SumFunctionOnSet([a \in its |-> a.reserved], its)

Wealth == [p \in Party |-> [i \in Inst |-> Held(holdings, p, i) + Reserved(allocs, p, i)]]

Value == INSTANCE ValueLedger WITH
           Issues <- Mints,
           wealth <- Wealth,
           agreed <- delegations

-----------------------------------------------------------------------------
(* Properties *)

\* No value exists twice: an allocation and the holding it was made from, or the
\* holding it became, are never active together, and every number names one
\* contract.  A transfer that forgot to archive what it consumes would break it
\* (the archive in allocateImpl, the consuming interface choices).
NoDoubleSpend ==
  /\ \A h, g \in holdings : h.cid = g.cid => h = g
  /\ \A a, b \in allocs : a.cid = b.cid => a = b
  /\ \A h \in holdings, a \in allocs : h.cid # a.cid
  /\ \A c \in holdings \cup allocs : c.cid < nextCid

\* A party other than the admin is drawn into a transfer only by its own acts:
\* its unlocked holding leaves only into an allocation it sends, and a leg reaches
\* the receiver only when sender and receiver each delegated to the admin (or are
\* the admin).  This is what the authority checks of the allocation interface and
\* the propose/accept delegation are for.
TransferByAgreement ==
  [][/\ \A h \in holdings \ holdings' :
          /\ ~h.locked
          /\ \E a \in allocs' \ allocs : a.leg.sender = h.owner /\ a.leg.inst = h.inst
     /\ \A a \in allocs \ allocs' :
          Delivered(a) \in holdings' /\ a.leg.sender # a.leg.receiver =>
            {a.leg.sender, a.leg.receiver} \subseteq delegations \cup {Admin}]_regVars

\* Seen as wealth per party and instrument, the registry is a ValueLedger: no step
\* of minting, allocating with change, executing or withdrawing makes or loses
\* value, and value changes hands only by agreement.
ConservesValue == Value!VLSpec
=============================================================================
