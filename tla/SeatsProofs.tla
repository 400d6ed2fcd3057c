----------------------------- MODULE SeatsProofs -----------------------------
(* Theorems of Seats, for any number of deals a reset apart, of tabs opening *)
(* the room, and for any holdings of the LPs and price they add up at.  The  *)
(* second part is about CloseScripts over the same ledger: which step of a   *)
(* plan comes where, what the ledger has before each of the wallet close's   *)
(* forty-three, and that every one of them then goes, up to the close.       *)
EXTENDS CloseScripts, DataTheorems

(* The shape of the ledger.                                                  *)
RoomRecord == [epoch : Epochs, stage : Stages, priced : BOOLEAN]
\* The papers of a deal, and what is between the GP and a holder, by template.
Papers == {"cert", "psa", "opinion", "consent", "valuation"}
Asked == {"proposal", "offer", "participation"}
Granted == {"delegation", "interest", "accepted"}
\* Contracts a close brings or spends, and contracts nothing takes away.
AtStake == {"receipt", "disclosure", "basis", "allocation"}
Lasting == {"valuation", "delegation", "accepted", "receipt"}
Template == Papers \cup Asked \cup Granted \cup AtStake \cup {"factory", "bid", "election"}
Subject == {"deal", "gp"} \cup Holders \cup Legs
ContractRecord == [template : Template, of : Subject, epoch : Epochs \cup {0}]
Purse == (Holders \cup {"gp"}) \X (Epochs \cup {0})
LedgerRecord == [rooms : Seq(RoomRecord), acs : SUBSET ContractRecord, held : [Purse -> Nat]]

\* A price is a whole number of dollars.
LEMMA RoundsToNat == \A pct, nav \in Nat : RoundDollar(pct, nav) \in Nat
<1> SUFFICES ASSUME NEW pct \in Nat, NEW nav \in Nat PROVE RoundDollar(pct, nav) \in Nat
  OBVIOUS
<1> DEFINE n == pct * nav
<1>1. n \in Nat /\ Whole \in Nat /\ Whole > 0
  BY MoneyAssumption
<1> HIDE DEF n
<1> DEFINE a == 2 * n + Whole
           b == 2 * Whole
<1>2. a \in Nat /\ b \in Nat /\ b > 0
  BY <1>1
<1> HIDE DEF a, b
<1>3. a \div b \in Nat
  BY <1>2
<1>4. RoundDollar(pct, nav) = a \div b
  BY DEF RoundDollar, Nearest, a, b, n
<1>5. QED
  BY <1>3, <1>4

\* The amounts of the legs; the cash leg alone has no units to account for.
LEMMA LegAmounts ==
  /\ amount \in [Legs -> Nat] /\ MaxEpoch \in Nat \ {0} /\ MaxHandlers \in Nat
  /\ unitTotal(Legs) = PsaPrice /\ unitTotal({"cash"}) # PsaPrice
<1>1. Navs.lpExiting \in Nat /\ Navs.lpRolling \in Nat /\ Clearing \in Nat
  BY SeatsAssumption DEF LPs
<1> DEFINE u == RoundDollar(Clearing, Navs.lpExiting)
           r == RoundDollar(Clearing, Navs.lpRolling)
<1>2. amount \in [Legs -> Nat]
  <2>1. u \in Nat /\ r \in Nat
    BY <1>1, RoundsToNat
  <2>2. amount = [unit |-> u, roll |-> r, cash |-> u]
    BY DEF amount
  <2> HIDE DEF u, r
  <2>3. QED
    BY <2>1, <2>2 DEF Legs
<1>3. unitTotal({"cash"}) = 0
  BY SumOfNone DEF unitTotal
<1>4. PsaPrice \in Nat
  <2>1. Navs.lpExiting + Navs.lpRolling \in Nat
    BY <1>1
  <2>2. QED
    BY <1>1, <2>1, RoundsToNat DEF PsaPrice
<1>5. QED
  BY <1>2, <1>3, <1>4, SeatsAssumption

\* A contract is what it is by its template, what it is about and its deal.
LEMMA ContractsDiffer ==
  \A t, of, e, t1, of1, e1 :
    /\ (Contract(t, of, e) = Contract(t1, of1, e1)) <=> (t = t1 /\ of = of1 /\ e = e1)
    /\ Contract(t, of, e).template = t /\ Contract(t, of, e).of = of /\ Contract(t, of, e).epoch = e
BY DEF Contract

\* Who sees what the pages look for.
LEMMA WhoSees ==
  /\ \A e : /\ \A t \in {"valuation", "opinion", "consent", "cert", "psa", "basis", "receipt", "disclosure"} :
                 "gp" \in projectionOf(Doc(t, e))
            /\ "valuer" \in projectionOf(Doc("valuation", e))
            /\ \A t \in {"opinion", "consent", "disclosure"} : "lpac" \in projectionOf(Doc(t, e))
            /\ \A h \in Holders : h \in projectionOf(Doc("receipt", e)) /\ h \notin projectionOf(Doc("disclosure", e))
            /\ "lpac" \notin projectionOf(Doc("receipt", e))
            /\ \A l \in Legs : "gp" \in projectionOf(Allocation(l, e))
  /\ "gp" \in projectionOf(factory)
  /\ \A t \in {"proposal", "delegation", "offer", "interest", "participation", "accepted"}, h \in Holders :
       {"gp", h} \subseteq projectionOf(For(t, h))
<1>1. \A t, of, e : LET c == Contract(t, of, e) IN c.template = t /\ c.of = of
  BY ContractsDiffer
<1>2. \A e : \A t \in {"valuation", "opinion", "consent", "cert", "psa", "basis", "receipt", "disclosure"} :
        "gp" \in projectionOf(Doc(t, e))
  BY <1>1 DEF projectionOf, Doc
<1>3. \A e : "valuer" \in projectionOf(Doc("valuation", e))
  BY <1>1 DEF projectionOf, Doc
<1>4. \A e : \A t \in {"opinion", "consent", "disclosure"} : "lpac" \in projectionOf(Doc(t, e))
  BY <1>1 DEF projectionOf, Doc
<1>5. \A e : \A h \in Holders : h \in projectionOf(Doc("receipt", e)) /\ h \notin projectionOf(Doc("disclosure", e))
  BY <1>1 DEF projectionOf, Doc, Holders, LPs
<1>6. \A e : "lpac" \notin projectionOf(Doc("receipt", e))
  BY <1>1 DEF projectionOf, Doc, Holders, LPs
<1>7. \A e : \A l \in Legs : "gp" \in projectionOf(Allocation(l, e))
  BY <1>1 DEF projectionOf, Allocation
<1>8. "gp" \in projectionOf(factory)
  BY <1>1 DEF projectionOf, factory
<1>9. \A t \in {"proposal", "delegation", "offer", "interest", "participation", "accepted"}, h \in Holders :
        {"gp", h} \subseteq projectionOf(For(t, h))
  BY <1>1 DEF projectionOf, For
<1>10. QED
  BY <1>2, <1>3, <1>4, <1>5, <1>6, <1>7, <1>8, <1>9

(* What a step does to the ledger.                                           *)
\* The contracts beside the close change only; the demo may be reset with it.
Beside ==
  /\ ledger' \in LedgerRecord /\ ledger'.rooms = ledger.rooms /\ ledger'.held = ledger.held
  /\ \A c \in ContractRecord :
       /\ c.template \in AtStake => (c \in ledger'.acs <=> c \in ledger.acs)
       /\ c.template \in Lasting => (c \in ledger.acs => c \in ledger'.acs)
Aside ==
  /\ Beside
  /\ assembled' = assembled
  /\ \/ epoch' = epoch /\ minting' = minting
     \/ epoch' = epoch + 1 /\ epoch' \in Epochs /\ minting' = {}

\* The rooms are as before, room last, one of them (i) gone for it or none (0).
Follows(old, i, room, new) ==
  /\ new \in Seq(RoomRecord) /\ Len(new) \in DOMAIN new /\ new[Len(new)] = room
  /\ \A j \in DOMAIN new : new[j] = room \/ \E m \in DOMAIN old : new[j] = old[m]
  /\ \A m \in DOMAIN old : m # i => \E j \in DOMAIN new : j < Len(new) /\ new[j] = old[m]

\* A room comes or gets on, short of its close.
Arranges(i, room) ==
  /\ ledger' \in LedgerRecord /\ ledger'.acs = ledger.acs /\ ledger'.held = ledger.held
  /\ room \in RoomRecord /\ room.epoch = epoch
  /\ Follows(ledger.rooms, i, room, ledger'.rooms)
  /\ \/ i = 0 /\ room.stage = "Setup"
     \/ /\ i \in RoomsOf(epoch) /\ ledger.rooms[i].stage \notin Terminal
        /\ \/ room.stage = ledger.rooms[i].stage
           \/ room.stage \in {"Consented", "Electing"}
        /\ ledger.rooms[i].priced => room.priced
  /\ UNCHANGED <<epoch, minting, assembled>>

\* The GP mints and allocates out of its own purses.
OthersKeep == \A x \in Purse : x[1] # "gp" => ledger'.held[x] = ledger.held[x]
Mints(leg) ==
  /\ ledger' \in LedgerRecord /\ ledger'.rooms = ledger.rooms /\ ledger'.acs = ledger.acs /\ OthersKeep
  /\ ~settled(epoch) /\ Allocation(leg, epoch) \notin ledger.acs /\ minting' = {leg}
  /\ UNCHANGED <<epoch, assembled>>
Allocates(leg) ==
  /\ ledger' \in LedgerRecord /\ ledger'.rooms = ledger.rooms /\ OthersKeep
  /\ ledger'.acs \in {ledger.acs, ledger.acs \cup {Allocation(leg, epoch)}}
  /\ leg \in minting /\ minting' = {}
  /\ UNCHANGED <<epoch, assembled>>

Assembles ==
  /\ ledger' \in LedgerRecord /\ ledger'.rooms = ledger.rooms /\ ledger'.held = ledger.held
  /\ ~settled(epoch) /\ Doc("basis", epoch) \notin ledger.acs
  /\ ledger'.acs = ledger.acs \cup {Doc("basis", epoch)}
  /\ assembled' = assembled \cup {epoch}
  /\ UNCHANGED <<epoch, minting>>

\* What the legs bring to x.
Brings(x) ==
  IF x = <<"buyer", 0>> THEN amount.unit
  ELSE IF x = <<"lpRolling", 0>> THEN amount.roll
  ELSE IF x = <<"lpExiting", epoch>> THEN amount.cash ELSE 0
Spent == {Doc("basis", epoch)} \cup {Allocation(l, epoch) : l \in Legs} \cup {For("interest", lp) : lp \in LPs}
Closes(i) ==
  /\ ledger' \in LedgerRecord
  /\ i \in RoomsOf(epoch) /\ ledger.rooms[i].stage \in {"Consented", "Electing"}
  /\ Follows(ledger.rooms, i, [ledger.rooms[i] EXCEPT !.stage = "Closed"], ledger'.rooms)
  /\ ~settled(epoch) /\ Needed \subseteq ledger.acs
  /\ ledger'.acs = (ledger.acs \ Spent) \cup Receipts(epoch)
  /\ \A x \in Purse : ledger'.held[x] = ledger.held[x] + Brings(x)
  /\ UNCHANGED <<epoch, minting, assembled>>

Effect ==
  \/ Aside
  \/ \E i \in Nat : \E room \in RoomRecord : Arranges(i, room)
  \/ \E leg \in Legs : Mints(leg) \/ Allocates(leg)
  \/ Assembles
  \/ \E i \in Nat : Closes(i)

(* The inductive invariant.                                                  *)
Typed ==
  /\ ledger \in LedgerRecord /\ epoch \in Epochs /\ opening \in 0 .. MaxHandlers
  /\ minting \subseteq Legs /\ assembled \subseteq Epochs

\* What is known of a deal that is settled, and of one that is not.
DealSettles(e) ==
  /\ settled(e) <=> Doc("disclosure", e) \in ledger.acs
  /\ settled(e) <=> \E i \in RoomsOf(e) : ledger.rooms[i].stage = "Closed"
  /\ e \in assembled => (settled(e) <=> Doc("basis", e) \notin ledger.acs)
  /\ settled(e) => e \in assembled /\ \A l \in Legs : Allocation(l, e) \notin ledger.acs
  /\ ledger.held["lpExiting", e] = (IF settled(e) THEN amount.cash ELSE 0)
UnitsOfTheSettled ==
  \A l \in {"unit", "roll"} :
    ledger.held[receiver[l], 0] = amount[l] * Cardinality({e \in Epochs : settled(e)})

\* A basis is of a deal one was assembled for; what is minted is of a deal that
\* is open, and not allocated; the rooms come in the order of the deals; and
\* who has let the GP act for it once has done so for good.
BasisIsAssembled == \A e \in Epochs : Doc("basis", e) \in ledger.acs => e \in assembled
MintedIsOpen == \A l \in minting : ~settled(epoch) /\ Allocation(l, epoch) \notin ledger.acs
RoomsInOrder ==
  /\ \A i \in DOMAIN ledger.rooms : ledger.rooms[i].epoch <= epoch
  /\ Opened => ledger.rooms[Len(ledger.rooms)].epoch = epoch
AuthorityLasts ==
  (\E e \in Epochs : settled(e)) =>
    (\A h \in Holders : For("delegation", h) \in ledger.acs) /\ \A lp \in LPs : For("accepted", lp) \in ledger.acs

SeatsInv ==
  /\ Typed
  /\ \A e \in Epochs : DealSettles(e)
  /\ UnitsOfTheSettled
  /\ BasisIsAssembled /\ MintedIsOpen /\ RoomsInOrder /\ AuthorityLasts

(* Sequences of rooms.                                                       *)
\* A room put last, with none taken out and with one taken out.
LEMMA FollowsAppended ==
  ASSUME NEW old \in Seq(RoomRecord), NEW room \in RoomRecord
  PROVE  Follows(old, 0, room, Append(old, room))
<1> DEFINE n == Len(old)
<1>1. n \in Nat /\ DOMAIN old = 1 .. n
  BY LenProperties
<1>2. /\ Append(old, room) \in Seq(RoomRecord) /\ Len(Append(old, room)) = n + 1
      /\ Append(old, room)[n + 1] = room
      /\ \A j \in 1 .. n : Append(old, room)[j] = old[j]
  BY AppendProperties
<1>3. DOMAIN Append(old, room) = 1 .. n + 1
  BY <1>2, LenProperties
<1> HIDE DEF n
<1>4. \A j \in 1 .. n + 1 : j = n + 1 \/ j \in 1 .. n
  BY <1>1
<1>5. \A m \in DOMAIN old : m < n + 1 /\ m \in 1 .. n + 1
  BY <1>1
<1>6. n + 1 \in 1 .. n + 1
  BY <1>1
<1>7. QED
  BY <1>1, <1>2, <1>3, <1>4, <1>5, <1>6 DEF Follows

LEMMA FollowsRemoved ==
  ASSUME NEW old \in Seq(RoomRecord), NEW i \in DOMAIN old, NEW room \in RoomRecord
  PROVE  Follows(old, i, room, Append(RemoveAt(old, i), room))
<1> DEFINE rest == RemoveAt(old, i)
           new == Append(rest, room)
<1>1. /\ rest \in Seq(RoomRecord)
      /\ \A j \in DOMAIN rest : \E m \in DOMAIN old : rest[j] = old[m]
      /\ \A m \in DOMAIN old : m # i => \E j \in DOMAIN rest : rest[j] = old[m]
  BY RemoveAtKeepsOthers
<1> HIDE DEF rest
<1>2. Follows(rest, 0, room, new)
  BY <1>1, FollowsAppended
<1> HIDE DEF new
<1>3. \A j \in DOMAIN new : new[j] = room \/ \E m \in DOMAIN old : new[j] = old[m]
  BY <1>1, <1>2 DEF Follows
<1>4. ASSUME NEW m \in DOMAIN old, m # i
      PROVE  \E j \in DOMAIN new : j < Len(new) /\ new[j] = old[m]
  <2>1. PICK k \in DOMAIN rest : rest[k] = old[m]
    BY <1>1, <1>4
  <2>2. k # 0
    BY <1>1, LenProperties
  <2>3. QED
    BY <1>2, <2>1, <2>2 DEF Follows
<1>5. QED
  BY <1>2, <1>3, <1>4 DEF Follows, rest, new

\* Of some rooms of the sequence the oldest is one of them; so is the newest,
\* which is the last where that is one of them.
LEMMA OldestIsOne ==
  ASSUME NEW X \in SUBSET Nat, X # {}
  PROVE  Oldest(X) \in X /\ \A j \in X : Oldest(X) <= j
<1>1. \E i \in X : \A j \in X : ~(<<j, i>> \in OpToRel(<, Nat))
  BY NatLessThanWellFounded, WFMin
<1>2. \E i \in X : \A j \in X : i <= j
  <2>1. PICK i \in X : \A j \in X : ~(<<j, i>> \in OpToRel(<, Nat))
    BY <1>1
  <2>2. ASSUME NEW j \in X PROVE i <= j
    <3>1. i \in Nat /\ j \in Nat
      OBVIOUS
    <3>2. ~(j < i)
      BY <2>1, <3>1 DEF OpToRel
    <3>3. QED
      BY <3>1, <3>2
  <2>3. QED
    BY <2>2
<1>3. QED
  BY <1>2 DEF Oldest

LEMMA LastIsNewest ==
  ASSUME NEW X, NEW n \in X, X \in SUBSET (1 .. n), n \in Nat
  PROVE  Newest(X) = n
<1>1. \A j \in X : j <= n
  OBVIOUS
<1>2. Newest(X) \in X /\ \A j \in X : j <= Newest(X)
  BY <1>1 DEF Newest
<1> DEFINE m == Newest(X)
<1>3. m \in 1 .. n /\ n <= m
  BY <1>2
<1> HIDE DEF m
<1>4. m = n
  BY <1>3
<1>5. QED
  BY <1>4 DEF m

\* What the invariant says of the rooms the pages take.
LEMMA TheRooms ==
  ASSUME Typed, RoomsInOrder
  PROVE  /\ \A e : RoomsOf(e) \subseteq DOMAIN ledger.rooms /\ RoomsOf(e) \subseteq Nat
         /\ \A i \in DOMAIN ledger.rooms : ledger.rooms[i] \in RoomRecord /\ i # 0
         /\ Opened => GpDeal \in RoomsOf(epoch) /\ QueueDeal \in RoomsOf(epoch)
                      /\ GpDeal = Len(ledger.rooms) /\ ledger.rooms # <<>>
<1> DEFINE rooms == ledger.rooms
<1>1. rooms \in Seq(RoomRecord)
  BY DEF Typed, LedgerRecord
<1> HIDE DEF rooms
<1>2. DOMAIN rooms = 1 .. Len(rooms) /\ Len(rooms) \in Nat
  BY <1>1, LenProperties
<1>3. \A i \in DOMAIN rooms : rooms[i] \in RoomRecord /\ i # 0 /\ i \in Nat
  BY <1>1, <1>2, ElementOfSeq
<1>4. \A e : RoomsOf(e) \subseteq DOMAIN rooms /\ RoomsOf(e) \subseteq Nat
  BY <1>3 DEF RoomsOf, rooms
<1>5. ASSUME Opened PROVE /\ GpDeal = Len(rooms) /\ Len(rooms) \in RoomsOf(epoch)
                          /\ QueueDeal \in RoomsOf(epoch) /\ rooms # <<>>
  <2>1. RoomsOf(epoch) # {} /\ rooms[Len(rooms)].epoch = epoch
    BY <1>5 DEF RoomsInOrder, rooms, Opened
  <2>2. Len(rooms) \in DOMAIN rooms
    BY <1>2, <1>4, <2>1
  <2>3. Len(rooms) \in RoomsOf(epoch)
    BY <2>1, <2>2 DEF RoomsOf, rooms
  <2>4. RoomsOf(epoch) \in SUBSET (1 .. Len(rooms))
    BY <1>2, <1>4
  <2>5. GpDeal = Len(rooms)
    BY <1>2, <2>3, <2>4, LastIsNewest DEF GpDeal
  <2>6. QueueDeal \in RoomsOf(epoch)
    BY <1>4, <2>1, OldestIsOne DEF QueueDeal
  <2>7. rooms # <<>>
    BY <1>2, <2>2, EmptySeq
  <2>8. QED
    BY <2>3, <2>5, <2>6, <2>7
<1>6. QED
  BY <1>3, <1>4, <1>5 DEF rooms

(* Each action has one of the effects.                                       *)
\* The contracts the commands name.
LEMMA ContractsTyped ==
  /\ \A t \in Template, of \in Subject, e \in Epochs \cup {0} : Contract(t, of, e) \in ContractRecord
  /\ \A t \in Template, e \in Epochs : Doc(t, e) \in ContractRecord
  /\ \A t \in Template, h \in Holders : For(t, h) \in ContractRecord
  /\ \A l \in Legs, e \in Epochs : Allocation(l, e) \in ContractRecord
  /\ factory \in ContractRecord
<1>1. \A t \in Template, of \in Subject, e \in Epochs \cup {0} : Contract(t, of, e) \in ContractRecord
  BY DEF Contract, ContractRecord
<1>2. "deal" \in Subject /\ "gp" \in Subject /\ Holders \subseteq Subject /\ Legs \subseteq Subject
  BY DEF Subject
<1>3. "allocation" \in Template /\ "factory" \in Template
  BY DEF Template, AtStake
<1>4. QED
  BY <1>1, <1>2, <1>3 DEF Doc, For, Allocation, factory

LEMMA TemplatesOf ==
  /\ \A t, e : Doc(t, e).template = t
  /\ \A t, h : For(t, h).template = t
  /\ \A l, e : Allocation(l, e).template = "allocation"
  /\ factory.template = "factory"
BY ContractsDiffer DEF Doc, For, Allocation, factory

LEMMA PapersAside ==
  /\ \A t \in Papers, e \in Epochs : Doc(t, e) \in ContractRecord /\ Doc(t, e).template \notin AtStake
  /\ \A t \in Asked, h \in Holders : For(t, h) \in ContractRecord /\ For(t, h).template \notin AtStake \cup Lasting
  /\ \A t \in Granted, h \in Holders : For(t, h) \in ContractRecord /\ For(t, h).template \notin AtStake
  /\ factory \in ContractRecord /\ factory.template \notin AtStake
<1>1. Papers \subseteq Template /\ Asked \subseteq Template /\ Granted \subseteq Template
  BY DEF Template
<1>2. Papers \cap AtStake = {} /\ Asked \cap (AtStake \cup Lasting) = {} /\ Granted \cap AtStake = {}
      /\ "factory" \notin AtStake
  BY DEF Papers, Asked, Granted, AtStake, Lasting
<1>3. \A t \in Papers, e \in Epochs : Doc(t, e) \in ContractRecord /\ Doc(t, e).template \notin AtStake
  <2>1. \A t \in Papers, e \in Epochs : Doc(t, e) \in ContractRecord
    BY <1>1, ContractsTyped
  <2>2. \A t \in Papers, e \in Epochs : Doc(t, e).template \notin AtStake
    BY <1>2, TemplatesOf
  <2>3. QED
    BY <2>1, <2>2
<1>4. \A t \in Template, h \in Holders : For(t, h) \in ContractRecord
  BY ContractsTyped
<1>5. \A t \in Asked, h \in Holders : For(t, h) \in ContractRecord /\ For(t, h).template \notin AtStake \cup Lasting
  <2>1. \A t \in Asked, h \in Holders : For(t, h) \in ContractRecord
    BY <1>1, <1>4
  <2>2. \A t \in Asked, h \in Holders : For(t, h).template \notin AtStake \cup Lasting
    BY <1>2, TemplatesOf
  <2>3. QED
    BY <2>1, <2>2
<1>6. \A t \in Granted, h \in Holders : For(t, h) \in ContractRecord /\ For(t, h).template \notin AtStake
  <2>1. \A t \in Granted, h \in Holders : For(t, h) \in ContractRecord
    BY <1>1, <1>4
  <2>2. \A t \in Granted, h \in Holders : For(t, h).template \notin AtStake
    BY <1>2, TemplatesOf
  <2>3. QED
    BY <2>1, <2>2
<1>7. factory \in ContractRecord /\ factory.template \notin AtStake
  <2>1. factory.template = "factory" /\ factory \in ContractRecord
    BY TemplatesOf, ContractsTyped
  <2>2. QED
    BY <1>2, <2>1
<1>8. QED
  BY <1>3, <1>5, <1>6, <1>7

\* Creating what no close brings or spends, and trading one for another.
LEMMA CreatesBeside ==
  ASSUME Typed, NEW C, C \subseteq ContractRecord, \A c \in C : c.template \notin AtStake,
         Submit(create(ledger, C))
  PROVE  Beside
<1> DEFINE new == [ledger EXCEPT !.acs = @ \cup C]
<1>1. ledger' = new
  BY DEF Submit, submit, create, Done
<1>2. new \in LedgerRecord /\ new.rooms = ledger.rooms /\ new.held = ledger.held /\ new.acs = ledger.acs \cup C
  BY DEF Typed, LedgerRecord
<1> HIDE DEF new
<1>3. QED
  BY <1>1, <1>2 DEF Beside

LEMMA ExchangesBeside ==
  ASSUME Typed, NEW a \in ContractRecord, NEW b \in ContractRecord,
         a.template \notin AtStake \cup Lasting, b.template \notin AtStake,
         Submit(Exchange(ledger, {a}, {b}))
  PROVE  Beside
<1> DEFINE new == [ledger EXCEPT !.acs = (@ \ {a}) \cup {b}]
<1>1. ledger' = new \/ ledger' = ledger
  BY DEF Submit, submit, Exchange, Done, Thrown
<1>2. new \in LedgerRecord /\ new.rooms = ledger.rooms /\ new.held = ledger.held
      /\ new.acs = (ledger.acs \ {a}) \cup {b}
  BY DEF Typed, LedgerRecord
<1>3. CASE ledger' = ledger
  BY <1>3 DEF Beside, Typed
<1> HIDE DEF new
<1>4. CASE ledger' = new
  <2>1. ledger'.acs = (ledger.acs \ {a}) \cup {b}
    BY <1>2, <1>4
  <2>2. \A c \in ContractRecord : c.template \in AtStake => (c \in ledger'.acs <=> c \in ledger.acs)
    BY <2>1
  <2>3. \A c \in ContractRecord : c.template \in Lasting => (c \in ledger.acs => c \in ledger'.acs)
    BY <2>1
  <2>4. QED
    BY <1>2, <1>4, <2>2, <2>3 DEF Beside
<1>5. QED
  BY <1>1, <1>3, <1>4

\* A ledger that has not changed is one beside the close.
LEMMA StaysBeside == Typed /\ ledger' = ledger => Beside
BY DEF Typed, Beside

\* The rows and buttons that create one contract.
LEMMA CreatesAside ==
  ASSUME Typed, createFactory \/ createCert \/ createPsa \/ signFairness \/ grantConsent \/ anchor
                \/ (\E seat \in Holders : proposeDelegation(seat))
                \/ (\E lp \in LPs : offerInterest(lp) \/ proposeParticipation(lp))
  PROVE  Aside
<1>1. Alone
  BY DEF createFactory, createCert, createPsa, signFairness, grantConsent, anchor, proposeDelegation,
         offerInterest, proposeParticipation
<1>2. \E c \in ContractRecord : c.template \notin AtStake /\ Submit(create(ledger, {c}))
  <2>1. CASE createFactory
    BY PapersAside, <2>1 DEF createFactory
  <2>2. CASE createCert \/ createPsa \/ signFairness \/ grantConsent \/ anchor
    BY PapersAside, <2>2 DEF Papers, Typed, createCert, createPsa, signFairness, grantConsent, anchor
  <2>3. CASE \E seat \in Holders : proposeDelegation(seat)
    BY PapersAside, <2>3 DEF Asked, proposeDelegation
  <2>4. CASE \E lp \in LPs : offerInterest(lp) \/ proposeParticipation(lp)
    BY PapersAside, <2>4 DEF Asked, offerInterest, proposeParticipation, Holders
  <2>5. QED
    BY <2>1, <2>2, <2>3, <2>4
<1>3. Beside
  BY <1>2, CreatesBeside
<1>4. QED
  BY <1>1, <1>3 DEF Aside, Alone

\* Acceptances.
LEMMA AcceptsAside ==
  ASSUME Typed, (\E seat \in Holders : acceptDelegation(seat))
                \/ (\E lp \in LPs : acceptOffer(lp) \/ acceptParticipation(lp))
  PROVE  Aside
<1>1. Alone
  BY DEF acceptDelegation, acceptOffer, acceptParticipation
<1>2. \E a, b \in ContractRecord : /\ a.template \notin AtStake \cup Lasting /\ b.template \notin AtStake
                                   /\ Submit(Exchange(ledger, {a}, {b}))
  <2>1. CASE \E seat \in Holders : acceptDelegation(seat)
    BY PapersAside, <2>1 DEF Asked, Granted, acceptDelegation, EDP_Accept
  <2>2. CASE \E lp \in LPs : acceptOffer(lp)
    BY PapersAside, <2>2 DEF Asked, Granted, acceptOffer, OFI_Accept, Holders
  <2>3. CASE \E lp \in LPs : acceptParticipation(lp)
    BY PapersAside, <2>3 DEF Asked, Granted, acceptParticipation, Accept, Holders
  <2>4. QED
    BY <2>1, <2>2, <2>3
<1>3. Beside
  BY <1>2, ExchangesBeside
<1>4. QED
  BY <1>1, <1>3 DEF Aside, Alone

\* A reset, and a page that only begins to open the room.
LEMMA ResetsAside ==
  ASSUME Typed, NEW seeded \in BOOLEAN, resetDemo(seeded)
  PROVE  Aside
<1>1. epoch + 1 \in Epochs /\ epoch' = epoch + 1 /\ minting' = {} /\ assembled' = assembled
  BY LegAmounts DEF resetDemo, Typed, Epochs
<1> DEFINE C == IF seeded THEN {Doc("valuation", epoch + 1)} ELSE {}
<1>2. C \subseteq ContractRecord /\ \A c \in C : c.template \notin AtStake
  BY <1>1, PapersAside DEF Papers
<1>3. Submit(create(ledger, C))
  BY DEF resetDemo
<1> HIDE DEF C
<1>4. Beside
  BY <1>2, <1>3, CreatesBeside
<1>5. QED
  BY <1>1, <1>4 DEF Aside

LEMMA OpensAside == Typed /\ openRoom => Aside
BY StaysBeside DEF openRoom, Aside

\* A handler that found no room makes one.
LEMMA CreatesRoom ==
  ASSUME Typed, createRoom
  PROVE  \E room \in RoomRecord : Arranges(0, room)
<1> DEFINE room == [epoch |-> epoch, stage |-> "Setup", priced |-> FALSE]
           rooms == Append(ledger.rooms, room)
           new == [ledger EXCEPT !.rooms = rooms]
<1>1. room \in RoomRecord /\ room.epoch = epoch /\ room.stage = "Setup"
  BY DEF Typed, RoomRecord, Stages
<1>2. ledger' = new /\ UNCHANGED <<epoch, minting, assembled>>
  BY DEF createRoom, Submit, submit, createDeal, Done
<1> HIDE DEF room
<1>3. Follows(ledger.rooms, 0, room, rooms)
  BY <1>1, FollowsAppended DEF Typed, LedgerRecord
<1> HIDE DEF rooms
<1>4. new \in LedgerRecord /\ new.rooms = rooms /\ new.acs = ledger.acs /\ new.held = ledger.held
  BY <1>3 DEF Typed, LedgerRecord, Follows
<1> HIDE DEF new
<1>5. QED
  BY <1>1, <1>2, <1>3, <1>4 DEF Arranges

\* A room of this deal is made anew.
LEMMA Recreates ==
  ASSUME Typed, RoomsInOrder, NEW i \in RoomsOf(epoch), NEW room \in RoomRecord,
         ledger' = recreate(ledger, i, room)
  PROVE  /\ ledger' \in LedgerRecord /\ ledger'.acs = ledger.acs /\ ledger'.held = ledger.held
         /\ Follows(ledger.rooms, i, room, ledger'.rooms)
<1> DEFINE rooms == Append(RemoveAt(ledger.rooms, i), room)
           new == [ledger EXCEPT !.rooms = rooms]
<1>1. ledger' = new
  BY DEF recreate
<1>2. Follows(ledger.rooms, i, room, rooms)
  BY TheRooms, FollowsRemoved DEF Typed, LedgerRecord
<1> HIDE DEF rooms
<1>3. new \in LedgerRecord /\ new.rooms = rooms /\ new.acs = ledger.acs /\ new.held = ledger.held
  BY <1>2 DEF Typed, LedgerRecord, Follows
<1> HIDE DEF new
<1>4. QED
  BY <1>1, <1>2, <1>3

LEMMA GetsOn ==
  ASSUME Typed, RoomsInOrder, setClearing \/ openElections \/ recordConsent
  PROVE  Aside \/ \E i \in Nat : \E room \in RoomRecord : Arranges(i, room)
<1>1. Alone /\ Opened
  BY DEF setClearing, openElections, recordConsent, CanRecordConsent
<1>2. /\ GpDeal \in RoomsOf(epoch) /\ QueueDeal \in RoomsOf(epoch) /\ RoomsOf(epoch) \subseteq Nat
      /\ \A i \in RoomsOf(epoch) : ledger.rooms[i] \in RoomRecord /\ ledger.rooms[i].epoch = epoch
  BY <1>1, TheRooms DEF RoomsOf
<1>3. ASSUME NEW i \in RoomsOf(epoch), NEW room \in RoomRecord, ledger.rooms[i].stage \notin Terminal,
             ledger' = recreate(ledger, i, room), room.epoch = epoch,
             room.stage = ledger.rooms[i].stage \/ room.stage \in {"Consented", "Electing"},
             ledger.rooms[i].priced => room.priced
      PROVE  \E k \in Nat : \E r \in RoomRecord : Arranges(k, r)
  BY <1>1, <1>2, <1>3, Recreates DEF Arranges, Alone
<1>4. CASE ledger' = ledger
  BY <1>1, <1>4, StaysBeside DEF Aside, Alone
<1>5. CASE setClearing /\ ledger' # ledger
  <2> DEFINE i == GpDeal
             room == [ledger.rooms[i] EXCEPT !.priced = TRUE]
  <2>1. room \in RoomRecord /\ room.epoch = epoch /\ room.stage = ledger.rooms[i].stage /\ room.priced
    BY <1>2 DEF RoomRecord
  <2>2. ledger.rooms[i].stage \notin Terminal /\ ledger' = recreate(ledger, i, room)
    BY <1>5 DEF setClearing, Submit, submit, SetClearing, Done, Thrown
  <2> HIDE DEF i, room
  <2>3. i \in RoomsOf(epoch)
    BY <1>2 DEF i
  <2>4. QED
    BY <1>3, <2>1, <2>2, <2>3
<1>6. CASE openElections /\ ledger' # ledger
  <2> DEFINE i == GpDeal
             room == [ledger.rooms[i] EXCEPT !.stage = "Electing"]
  <2>1. room \in RoomRecord /\ room.epoch = epoch /\ room.stage = "Electing" /\ room.priced = ledger.rooms[i].priced
    BY <1>2 DEF RoomRecord, Stages
  <2>2. ledger.rooms[i].stage = "Consented" /\ ledger' = recreate(ledger, i, room)
    BY <1>6 DEF openElections, Submit, submit, OpenElections, Done, Thrown
  <2> HIDE DEF i, room
  <2>3. i \in RoomsOf(epoch) /\ ledger.rooms[i].stage \notin Terminal
    BY <1>2, <2>2 DEF i, Terminal
  <2>4. QED
    BY <1>3, <2>1, <2>2, <2>3
<1>7. CASE recordConsent /\ ledger' # ledger
  <2> DEFINE i == QueueDeal
             room == [ledger.rooms[i] EXCEPT !.stage = "Consented"]
  <2>1. room \in RoomRecord /\ room.epoch = epoch /\ room.stage = "Consented" /\ room.priced = ledger.rooms[i].priced
    BY <1>2 DEF RoomRecord, Stages
  <2>2. ledger.rooms[i].stage \notin Terminal /\ ledger' = recreate(ledger, i, room)
    BY <1>7 DEF recordConsent, Submit, submit, RecordConsent, Done, Thrown
  <2> HIDE DEF i, room
  <2>3. i \in RoomsOf(epoch)
    BY <1>2 DEF i
  <2>4. QED
    BY <1>3, <2>1, <2>2, <2>3
<1>8. QED
  BY <1>4, <1>5, <1>6, <1>7

\* While the page has no receipt and no closed room the deal is not settled.
LEMMA NotClosed == ~dealClosed => ~settled(epoch)
BY WhoSees DEF dealClosed, GpHas, Sees, visible, settled

\* The GP's purse takes what is minted and gives what is allocated.
LEMMA PurseOfGp ==
  ASSUME Typed, NEW leg \in Legs
  PROVE  /\ <<"gp", instrument(leg, epoch)>> \in Purse
         /\ amount[leg] \in Nat /\ ledger.held \in [Purse -> Nat]
BY LegAmounts DEF Typed, LedgerRecord, Purse, instrument, Epochs

LEMMA MintsOne ==
  ASSUME Typed, NEW leg \in Legs, mintLeg(leg)
  PROVE  Mints(leg)
<1> DEFINE x == <<"gp", instrument(leg, epoch)>>
           held == Credit(ledger.held, x, amount[leg])
           new == [ledger EXCEPT !.held = held]
<1>1. ledger' = new /\ minting' = {leg} /\ UNCHANGED <<epoch, assembled>>
  BY DEF mintLeg, Submit, submit, mint, Done
<1>2. held \in [Purse -> Nat] /\ \A y \in Purse : y[1] # "gp" => held[y] = ledger.held[y]
  <2>1. x \in Purse /\ x[1] = "gp" /\ amount[leg] \in Nat /\ ledger.held \in [Purse -> Nat]
    BY PurseOfGp
  <2> HIDE DEF x
  <2>2. QED
    BY <2>1 DEF Credit
<1> HIDE DEF held
<1>3. new \in LedgerRecord /\ new.rooms = ledger.rooms /\ new.acs = ledger.acs /\ new.held = held
  BY <1>2 DEF Typed, LedgerRecord
<1>4. ~settled(epoch) /\ Allocation(leg, epoch) \notin ledger.acs
  BY NotClosed, WhoSees DEF mintLeg, CanAllocate, StepRow, Sees, visible
<1> HIDE DEF new
<1>5. QED
  BY <1>1, <1>2, <1>3, <1>4 DEF Mints, OthersKeep

LEMMA AllocatesOne ==
  ASSUME Typed, NEW leg \in Legs, allocateLeg(leg)
  PROVE  Allocates(leg)
<1> DEFINE x == <<"gp", instrument(leg, epoch)>>
           held == Credit(ledger.held, x, -amount[leg])
           new == [ledger EXCEPT !.held = held, !.acs = @ \cup {Allocation(leg, epoch)}]
<1>1. leg \in minting /\ minting' = {} /\ UNCHANGED <<epoch, assembled>>
  BY DEF allocateLeg
<1>2. CASE ledger' = ledger
  BY <1>1, <1>2 DEF Allocates, OthersKeep, Typed
<1>3. CASE ledger' # ledger
  <2>1. ledger' = new /\ ledger.held[x] >= amount[leg]
    BY <1>3 DEF allocateLeg, Submit, submit, Allocate, Done, Thrown
  <2>2. held \in [Purse -> Nat] /\ \A y \in Purse : y[1] # "gp" => held[y] = ledger.held[y]
    <3>1. x \in Purse /\ x[1] = "gp" /\ amount[leg] \in Nat /\ ledger.held \in [Purse -> Nat]
      BY PurseOfGp
    <3> HIDE DEF x
    <3>2. QED
      BY <2>1, <3>1 DEF Credit
  <2> HIDE DEF held
  <2>3. Allocation(leg, epoch) \in ContractRecord
    BY ContractsTyped DEF Typed
  <2>4. new \in LedgerRecord /\ new.rooms = ledger.rooms /\ new.held = held
        /\ new.acs = ledger.acs \cup {Allocation(leg, epoch)}
    BY <2>2, <2>3 DEF Typed, LedgerRecord
  <2> HIDE DEF new
  <2>5. QED
    BY <1>1, <2>1, <2>2, <2>4 DEF Allocates, OthersKeep
<1>4. QED
  BY <1>2, <1>3

LEMMA AssemblesOne ==
  ASSUME Typed, createBasis
  PROVE  Assembles
<1> DEFINE new == [ledger EXCEPT !.acs = @ \cup {Doc("basis", epoch)}]
<1>1. ledger' = new /\ assembled' = assembled \cup {epoch} /\ UNCHANGED <<epoch, minting>>
  BY DEF createBasis, Submit, submit, create, Done
<1>2. Doc("basis", epoch) \in ContractRecord
  BY ContractsTyped DEF Typed, Template, AtStake
<1>3. new \in LedgerRecord /\ new.rooms = ledger.rooms /\ new.held = ledger.held
      /\ new.acs = ledger.acs \cup {Doc("basis", epoch)}
  BY <1>2 DEF Typed, LedgerRecord
<1>4. ~settled(epoch) /\ Doc("basis", epoch) \notin ledger.acs
  BY NotClosed, WhoSees DEF createBasis, CanAssemble, StepRow, GpHas, Sees, visible
<1> HIDE DEF new
<1>5. QED
  BY <1>1, <1>3, <1>4 DEF Assembles

\* What a purse gets of a close of all the legs.
LEMMA PaysOut ==
  ASSUME Typed, NEW g \in LedgerRecord, NEW x \in Purse
  PROVE  /\ Executed(g, Legs, epoch).held \in [Purse -> Nat]
         /\ Executed(g, Legs, epoch).held[x] = g.held[x] + Brings(x)
<1> DEFINE More(y) == IF \E l \in Legs : y = <<receiver[l], instrument(l, epoch)>>
                      THEN amount[CHOOSE l \in Legs : y = <<receiver[l], instrument(l, epoch)>>] ELSE 0
<1>1. epoch # 0
  BY DEF Typed, Epochs
<1>2. \A y, l : l \in Legs /\ y = <<receiver[l], instrument(l, epoch)>> <=>
        \/ l = "unit" /\ y = <<"buyer", 0>>
        \/ l = "roll" /\ y = <<"lpRolling", 0>>
        \/ l = "cash" /\ y = <<"lpExiting", epoch>>
  BY DEF Legs, receiver, instrument
<1>3. \A y : More(y) = Brings(y)
  <2> SUFFICES ASSUME NEW y PROVE More(y) = Brings(y)
    OBVIOUS
  <2>1. CASE y = <<"buyer", 0>>
    <3>1. \A l : l \in Legs /\ y = <<receiver[l], instrument(l, epoch)>> <=> l = "unit"
      BY <1>1, <1>2, <2>1
    <3>2. (CHOOSE l \in Legs : y = <<receiver[l], instrument(l, epoch)>>) = "unit"
      BY <3>1
    <3>3. QED
      BY <2>1, <3>1, <3>2 DEF Brings
  <2>2. CASE y = <<"lpRolling", 0>>
    <3>1. \A l : l \in Legs /\ y = <<receiver[l], instrument(l, epoch)>> <=> l = "roll"
      BY <1>1, <1>2, <2>2
    <3>2. (CHOOSE l \in Legs : y = <<receiver[l], instrument(l, epoch)>>) = "roll"
      BY <3>1
    <3>3. QED
      BY <2>2, <3>1, <3>2 DEF Brings
  <2>3. CASE y = <<"lpExiting", epoch>>
    <3>1. \A l : l \in Legs /\ y = <<receiver[l], instrument(l, epoch)>> <=> l = "cash"
      BY <1>1, <1>2, <2>3
    <3>2. (CHOOSE l \in Legs : y = <<receiver[l], instrument(l, epoch)>>) = "cash"
      BY <3>1
    <3>3. QED
      BY <1>1, <2>3, <3>1, <3>2 DEF Brings
  <2>4. CASE y \notin {<<"buyer", 0>>, <<"lpRolling", 0>>, <<"lpExiting", epoch>>}
    <3>1. ~\E l \in Legs : y = <<receiver[l], instrument(l, epoch)>>
      BY <1>2, <2>4
    <3>2. QED
      BY <2>4, <3>1 DEF Brings
  <2>5. QED
    BY <2>1, <2>2, <2>3, <2>4
<1>4. \A y \in Purse : Brings(y) \in Nat
  BY LegAmounts DEF Brings, Legs
<1>5. Executed(g, Legs, epoch).held = [y \in Purse |-> g.held[y] + More(y)]
  BY DEF Executed, LedgerRecord
<1> HIDE DEF More
<1>6. g.held \in [Purse -> Nat]
  BY DEF LedgerRecord
<1>7. QED
  BY <1>3, <1>4, <1>5, <1>6

\* What a close of all the legs leaves.
LEMMA SettledIs ==
  ASSUME Typed, NEW i \in DOMAIN ledger.rooms
  PROVE  LET room == [ledger.rooms[i] EXCEPT !.stage = "Closed"]
             new == Settled([ledger EXCEPT !.acs = @ \ {Doc("basis", epoch)}], i, Legs, LPs, epoch)
         IN  /\ new \in LedgerRecord /\ new.rooms = Append(RemoveAt(ledger.rooms, i), room)
             /\ Follows(ledger.rooms, i, room, new.rooms)
             /\ new.acs = (ledger.acs \ Spent) \cup Receipts(epoch)
             /\ \A x \in Purse : new.held[x] = ledger.held[x] + Brings(x)
<1> DEFINE room == [ledger.rooms[i] EXCEPT !.stage = "Closed"]
           valid == [ledger EXCEPT !.acs = @ \ {Doc("basis", epoch)}]
           done == Executed(valid, Legs, epoch)
           paid == Burned(done, LPs)
           told == [paid EXCEPT !.acs = @ \cup Receipts(epoch)]
           rooms == Append(RemoveAt(ledger.rooms, i), room)
           new == [told EXCEPT !.rooms = rooms]
<1>1. valid \in LedgerRecord /\ valid.rooms = ledger.rooms /\ valid.held = ledger.held
      /\ valid.acs = ledger.acs \ {Doc("basis", epoch)}
  BY DEF Typed, LedgerRecord
<1>2. Settled(valid, i, Legs, LPs, epoch) = recreate(told, i, room)
  BY <1>1 DEF Settled
<1> HIDE DEF valid
<1>3. /\ done \in LedgerRecord /\ done.rooms = ledger.rooms
      /\ done.acs = (ledger.acs \ {Doc("basis", epoch)}) \ {Allocation(l, epoch) : l \in Legs}
      /\ \A x \in Purse : done.held[x] = ledger.held[x] + Brings(x)
  <2>1. done.held \in [Purse -> Nat] /\ \A x \in Purse : done.held[x] = ledger.held[x] + Brings(x)
    <3>1. <<"gp", 0>> \in Purse
      BY DEF Purse
    <3>2. QED
      BY <1>1, <3>1, PaysOut
  <2>2. done.rooms = valid.rooms /\ done.acs = valid.acs \ {Allocation(l, epoch) : l \in Legs}
        /\ done \in [rooms : {valid.rooms}, acs : SUBSET valid.acs, held : {done.held}]
    BY <1>1 DEF Executed, LedgerRecord
  <2> HIDE DEF done
  <2>3. QED
    BY <1>1, <2>1, <2>2 DEF LedgerRecord
<1> HIDE DEF done
<1>4. /\ paid \in LedgerRecord /\ paid.rooms = ledger.rooms /\ paid.held = done.held
      /\ paid.acs = done.acs \ {For("interest", lp) : lp \in LPs}
  BY <1>3 DEF Burned, LedgerRecord
<1> HIDE DEF paid
<1>5. Receipts(epoch) \subseteq ContractRecord
  BY ContractsTyped DEF Receipts, Typed, Template, AtStake
<1>6. /\ told \in LedgerRecord /\ told.rooms = ledger.rooms /\ told.held = done.held
      /\ told.acs = paid.acs \cup Receipts(epoch)
  BY <1>4, <1>5 DEF LedgerRecord
<1> HIDE DEF told
<1>7. room \in RoomRecord
  <2>1. ledger.rooms[i] \in RoomRecord
    BY DEF Typed, LedgerRecord
  <2>2. QED
    BY <2>1 DEF RoomRecord, Stages
<1> HIDE DEF room
<1>8. new = recreate(told, i, room)
  BY <1>6 DEF recreate
<1>9. Follows(ledger.rooms, i, room, rooms)
  BY <1>7, FollowsRemoved DEF Typed, LedgerRecord
<1> HIDE DEF rooms
<1>10. new \in LedgerRecord /\ new.rooms = rooms /\ new.acs = told.acs /\ new.held = told.held
  BY <1>6, <1>9 DEF LedgerRecord, Follows
<1> HIDE DEF new
<1>11. new.acs = (ledger.acs \ Spent) \cup Receipts(epoch)
  BY <1>3, <1>4, <1>6, <1>10 DEF Spent
<1>12. \A x \in Purse : new.held[x] = ledger.held[x] + Brings(x)
  BY <1>3, <1>4, <1>6, <1>10
<1>13. QED
  BY <1>2, <1>8, <1>9, <1>10, <1>11, <1>12 DEF room, rooms, valid

\* The close of all the legs settles the deal or is refused; that of the cash
\* leg alone is refused.
LEMMA ClosesOrNot ==
  ASSUME Typed, RoomsInOrder, close
  PROVE  Aside \/ \E i \in Nat : Closes(i)
<1> DEFINE i == GpDeal
           valid == [ledger EXCEPT !.acs = @ \ {Doc("basis", epoch)}]
<1>1. Opened /\ Alone /\ Submit(Close(ledger, i, Legs, LPs))
  BY DEF close, CanIssue
<1>2. i \in RoomsOf(epoch) /\ i \in Nat /\ ledger.rooms[i] \in RoomRecord /\ ledger.rooms[i].epoch = epoch
      /\ i \in DOMAIN ledger.rooms
  BY <1>1, TheRooms DEF RoomsOf
<1>3. CASE ledger' = ledger
  BY <1>1, <1>3, StaysBeside DEF Aside, Alone
<1>4. CASE ledger' # ledger
  <2>1. /\ ledger.rooms[i].stage \in {"Consented", "Electing"}
        /\ ledger' = Settled(valid, i, Legs, LPs, epoch)
    BY <1>1, <1>2, <1>4 DEF Submit, submit, Close, validateIssuance, Done, Thrown
  <2>2. ~settled(epoch) /\ Needed \subseteq ledger.acs
    BY WhoSees DEF close, CanIssue, GpHas, Sees, visible, settled
  <2>3. UNCHANGED <<epoch, minting, assembled>>
    BY <1>1 DEF Alone
  <2> HIDE DEF i
  <2>4. Closes(i)
    BY <1>2, <2>1, <2>2, <2>3, SettledIs DEF Closes
  <2>5. QED
    BY <1>2, <2>4
<1>5. QED
  BY <1>3, <1>4

LEMMA CashAlone == Typed /\ closeCash => Aside
<1>1. SUFFICES ASSUME Typed, closeCash PROVE Aside
  OBVIOUS
<1>2. Alone /\ Submit(Close(ledger, GpDeal, {"cash"}, {}))
  BY <1>1 DEF closeCash
<1>3. ledger' = ledger
  BY <1>2, LegAmounts DEF Submit, submit, Close, validateIssuance, Done, Thrown
<1>4. QED
  BY <1>1, <1>2, <1>3, StaysBeside DEF Aside, Alone

\* Whatever a page does has one of the effects.
LEMMA StepsHaveEffects ==
  ASSUME Typed, RoomsInOrder, SeatsNext
  PROVE  Effect
<1>1. CASE openRoom
  BY <1>1, OpensAside DEF Effect
<1>2. CASE createRoom
  BY <1>2, CreatesRoom DEF Effect
<1>3. CASE setClearing \/ openElections \/ recordConsent
  BY <1>3, GetsOn DEF Effect
<1>4. CASE createFactory \/ createCert \/ createPsa \/ signFairness \/ grantConsent \/ anchor
           \/ (\E seat \in Holders : proposeDelegation(seat))
           \/ (\E lp \in LPs : offerInterest(lp) \/ proposeParticipation(lp))
  BY <1>4, CreatesAside DEF Effect
<1>5. CASE (\E seat \in Holders : acceptDelegation(seat))
           \/ (\E lp \in LPs : acceptOffer(lp) \/ acceptParticipation(lp))
  BY <1>5, AcceptsAside DEF Effect
<1>6. CASE \E leg \in Legs : mintLeg(leg) \/ allocateLeg(leg)
  BY <1>6, MintsOne, AllocatesOne DEF Effect
<1>7. CASE createBasis
  BY <1>7, AssemblesOne DEF Effect
<1>8. CASE close \/ closeCash
  BY <1>8, ClosesOrNot, CashAlone DEF Effect
<1>9. CASE \E seeded \in BOOLEAN : resetDemo(seeded)
  BY <1>9, ResetsAside DEF Effect
<1>10. QED
  BY <1>1, <1>2, <1>3, <1>4, <1>5, <1>6, <1>7, <1>8, <1>9 DEF SeatsNext, GpStep

(* The invariant.                                                            *)
\* The purses the invariant speaks of.
LEMMA PursesOf ==
  /\ \A e \in Epochs : <<"lpExiting", e>> \in Purse
  /\ \A l \in {"unit", "roll"} : <<receiver[l], 0>> \in Purse /\ receiver[l] # "gp"
BY DEF Purse, Holders, LPs, receiver

LEMMA SeatsStart == SeatsInit => SeatsInv
<1> SUFFICES ASSUME SeatsInit PROVE SeatsInv
  OBVIOUS
<1> DEFINE new == [NewLedger EXCEPT !.acs = @ \cup {Doc("valuation", 1)}]
<1>1. ledger = new /\ epoch = 1 /\ opening = 0 /\ minting = {} /\ assembled = {}
  BY DEF SeatsInit, SeatsFrom, create, Done
<1>2. 1 \in Epochs /\ 0 \in 0 .. MaxHandlers
  BY LegAmounts DEF Epochs
<1>3. Doc("valuation", 1) \in ContractRecord /\ Doc("valuation", 1).template = "valuation"
  BY <1>2, ContractsTyped, TemplatesOf DEF Template, Papers
<1>4. <<>> \in Seq(RoomRecord) /\ DOMAIN <<>> = {}
  BY EmptySeq, LenProperties
<1>5. /\ new \in LedgerRecord /\ new.rooms = <<>> /\ new.acs = {Doc("valuation", 1)}
      /\ \A x \in Purse : new.held[x] = 0
  BY <1>3, <1>4 DEF NewLedger, LedgerRecord, Purse
<1> HIDE DEF new
<1>6. Typed
  BY <1>1, <1>2, <1>5 DEF Typed
<1>7. \A c : c \in ledger.acs => c.template = "valuation"
  BY <1>1, <1>3, <1>5
<1>8. \A e : /\ ~settled(e) /\ Doc("disclosure", e) \notin ledger.acs /\ Doc("basis", e) \notin ledger.acs
             /\ RoomsOf(e) = {}
  BY <1>1, <1>4, <1>5, <1>7, TemplatesOf DEF settled, RoomsOf
<1>9. \A e \in Epochs : ledger.held["lpExiting", e] = 0
  BY <1>1, <1>5 DEF Purse, Holders, LPs
<1>10. \A e \in Epochs : DealSettles(e)
  BY <1>1, <1>8, <1>9 DEF DealSettles
<1>11. UnitsOfTheSettled
  <2>1. {e \in Epochs : settled(e)} = {}
    BY <1>8
  <2>2. Cardinality({e \in Epochs : settled(e)}) = 0
    BY <2>1, FS_EmptySet
  <2>3. \A l \in {"unit", "roll"} : ledger.held[receiver[l], 0] = 0 /\ amount[l] \in Nat
    <3>1. \A x \in Purse : ledger.held[x] = 0
      BY <1>1, <1>5
    <3>2. amount.unit \in Nat /\ amount.roll \in Nat
      BY LegAmounts DEF Legs
    <3>3. QED
      BY <3>1, <3>2, PursesOf
  <2>4. \A n \in Nat : n * 0 = 0
    OBVIOUS
  <2>5. QED
    BY <2>2, <2>3, <2>4 DEF UnitsOfTheSettled
<1>12. BasisIsAssembled /\ MintedIsOpen /\ RoomsInOrder /\ AuthorityLasts
  BY <1>1, <1>4, <1>5, <1>8 DEF BasisIsAssembled, MintedIsOpen, RoomsInOrder, AuthorityLasts, Opened
<1>13. QED
  BY <1>6, <1>10, <1>11, <1>12 DEF SeatsInv

\* What a deal is settled by is the same where its contracts, its rooms and
\* its holders' purses are.
LEMMA DealStays ==
  ASSUME NEW e \in Epochs, DealSettles(e),
         settled(e)' <=> settled(e),
         Doc("disclosure", e) \in ledger'.acs <=> Doc("disclosure", e) \in ledger.acs,
         (\E i \in RoomsOf(e) : ledger.rooms[i].stage = "Closed")'
           <=> \E i \in RoomsOf(e) : ledger.rooms[i].stage = "Closed",
         Doc("basis", e) \in ledger'.acs <=> Doc("basis", e) \in ledger.acs,
         e \in assembled' <=> e \in assembled,
         settled(e) => \A l \in Legs : Allocation(l, e) \in ledger'.acs => Allocation(l, e) \in ledger.acs,
         ledger'.held["lpExiting", e] = ledger.held["lpExiting", e]
  PROVE  DealSettles(e)'
BY DEF DealSettles

\* The units held stay those of the deals settled.
LEMMA UnitsStay ==
  ASSUME UnitsOfTheSettled, \A e \in Epochs : settled(e)' <=> settled(e),
         \A l \in {"unit", "roll"} : ledger'.held[receiver[l], 0] = ledger.held[receiver[l], 0]
  PROVE  UnitsOfTheSettled'
<1>1. {e \in Epochs : settled(e)}' = {e \in Epochs : settled(e)}
  OBVIOUS
<1>2. QED
  BY <1>1 DEF UnitsOfTheSettled

LEMMA AsideKeeps ==
  ASSUME SeatsInv, Aside, opening' \in 0 .. MaxHandlers
  PROVE  SeatsInv'
<1>1. Typed'
  BY DEF SeatsInv, Aside, Beside, Typed
<1>2. \A e \in Epochs : \A t \in AtStake \ {"allocation"} : Doc(t, e) \in ledger'.acs <=> Doc(t, e) \in ledger.acs
  BY ContractsTyped, TemplatesOf DEF Aside, Beside, AtStake, Template
<1>3. \A e \in Epochs, l \in Legs : Allocation(l, e) \in ledger'.acs <=> Allocation(l, e) \in ledger.acs
  BY ContractsTyped, TemplatesOf DEF Aside, Beside, AtStake
<1>4. \A e \in Epochs : settled(e)' <=> settled(e)
  BY <1>2 DEF settled, AtStake
<1>5. ledger'.rooms = ledger.rooms /\ ledger'.held = ledger.held /\ assembled' = assembled
  BY DEF Aside, Beside
<1>6. \A e : RoomsOf(e)' = RoomsOf(e)
  BY <1>5 DEF RoomsOf
<1>7. \A e \in Epochs : DealSettles(e)'
  BY <1>2, <1>3, <1>4, <1>5, <1>6, DealStays DEF SeatsInv, AtStake
<1>8. UnitsOfTheSettled'
  BY <1>4, <1>5, UnitsStay DEF SeatsInv
<1>9. BasisIsAssembled'
  BY <1>2, <1>5 DEF SeatsInv, BasisIsAssembled, AtStake
<1>10. MintedIsOpen'
  BY <1>3, <1>4 DEF SeatsInv, MintedIsOpen, Aside, Typed
<1>11. RoomsInOrder'
  <2>1. CASE epoch' = epoch
    BY <1>5, <1>6, <2>1 DEF SeatsInv, RoomsInOrder, Opened
  <2>2. CASE epoch' = epoch + 1
    <3>1. \A i \in DOMAIN ledger.rooms : ledger.rooms[i].epoch \in Nat /\ ledger.rooms[i].epoch <= epoch
      BY TheRooms DEF SeatsInv, RoomsInOrder, RoomRecord, Epochs
    <3>2. epoch \in Nat
      BY DEF SeatsInv, Typed, Epochs
    <3>3. \A i \in DOMAIN ledger.rooms : ledger.rooms[i].epoch <= epoch + 1 /\ ledger.rooms[i].epoch # epoch + 1
      BY <3>1, <3>2
    <3>4. QED
      BY <1>5, <2>2, <3>3 DEF RoomsInOrder, Opened, RoomsOf
  <2>3. QED
    BY <2>1, <2>2 DEF Aside
<1>12. AuthorityLasts'
  <2>1. \A h \in Holders : For("delegation", h) \in ledger.acs => For("delegation", h) \in ledger'.acs
    BY ContractsTyped, TemplatesOf DEF Aside, Beside, Lasting, Template, Granted
  <2>2. \A lp \in LPs : For("accepted", lp) \in ledger.acs => For("accepted", lp) \in ledger'.acs
    BY ContractsTyped, TemplatesOf DEF Aside, Beside, Lasting, Template, Granted, Holders
  <2>3. QED
    BY <1>4, <2>1, <2>2 DEF SeatsInv, AuthorityLasts
<1>13. QED
  BY <1>1, <1>7, <1>8, <1>9, <1>10, <1>11, <1>12 DEF SeatsInv

\* Rooms that follow have one closed, or one of a deal, where the rooms before
\* did or the last is.
LEMMA RoomsFollow ==
  ASSUME SeatsInv, NEW i, NEW room, Follows(ledger.rooms, i, room, ledger'.rooms),
         i \in DOMAIN ledger.rooms => ledger.rooms[i].epoch = room.epoch,
         i \in DOMAIN ledger.rooms => ledger.rooms[i].stage # "Closed",
         room.epoch = epoch, epoch' = epoch
  PROVE  /\ \A e : (\E j \in RoomsOf(e) : ledger.rooms[j].stage = "Closed")'
                    <=> \/ \E j \in RoomsOf(e) : ledger.rooms[j].stage = "Closed"
                        \/ e = room.epoch /\ room.stage = "Closed"
         /\ RoomsInOrder'
         /\ GpDeal' = Len(ledger'.rooms) /\ ledger'.rooms[GpDeal'] = room /\ Opened'
<1> DEFINE old == ledger.rooms
           new == ledger'.rooms
           n == Len(new)
<1>1. /\ new \in Seq(RoomRecord) /\ n \in DOMAIN new /\ new[n] = room
      /\ \A j \in DOMAIN new : new[j] = room \/ \E m \in DOMAIN old : new[j] = old[m]
      /\ \A m \in DOMAIN old : m # i => \E j \in DOMAIN new : new[j] = old[m]
  BY DEF Follows
<1> HIDE DEF n
<1>2. \A e : (\E j \in RoomsOf(e) : ledger.rooms[j].stage = "Closed")
               <=> \E j \in DOMAIN old : old[j].epoch = e /\ old[j].stage = "Closed"
  BY DEF RoomsOf
<1>3. \A e : (\E j \in RoomsOf(e) : ledger.rooms[j].stage = "Closed")'
               <=> \E j \in DOMAIN new : new[j].epoch = e /\ new[j].stage = "Closed"
  BY DEF RoomsOf
<1>4. ASSUME NEW e
      PROVE  (\E j \in DOMAIN new : new[j].epoch = e /\ new[j].stage = "Closed")
                <=> \/ \E j \in DOMAIN old : old[j].epoch = e /\ old[j].stage = "Closed"
                    \/ e = room.epoch /\ room.stage = "Closed"
  <2> HIDE DEF old, new
  <2>1. ASSUME NEW j \in DOMAIN new, new[j].epoch = e, new[j].stage = "Closed"
        PROVE  \/ \E m \in DOMAIN old : old[m].epoch = e /\ old[m].stage = "Closed"
               \/ e = room.epoch /\ room.stage = "Closed"
    BY <1>1, <2>1
  <2>2. ASSUME NEW m \in DOMAIN old, old[m].epoch = e, old[m].stage = "Closed"
        PROVE  \E j \in DOMAIN new : new[j].epoch = e /\ new[j].stage = "Closed"
    BY <1>1, <2>2 DEF old
  <2>3. ASSUME e = room.epoch, room.stage = "Closed"
        PROVE  \E j \in DOMAIN new : new[j].epoch = e /\ new[j].stage = "Closed"
    BY <1>1, <2>3
  <2>4. QED
    BY <2>1, <2>2, <2>3
<1>5. epoch \in Nat /\ \A m \in DOMAIN old : old[m].epoch <= epoch
  BY DEF SeatsInv, RoomsInOrder, Typed, Epochs
<1>6. \A j \in DOMAIN new : new[j].epoch <= epoch
  <2> HIDE DEF old, new
  <2>1. QED
    BY <1>1, <1>5
<1>7. RoomsInOrder'
  BY <1>1, <1>6 DEF RoomsInOrder, n
<1>8. n \in RoomsOf(epoch)' /\ n \in Nat /\ DOMAIN new = 1 .. n
  BY <1>1, LenProperties DEF RoomsOf, n
<1>9. RoomsOf(epoch)' \in SUBSET (1 .. n)
  BY <1>8 DEF RoomsOf
<1>10. GpDeal' = n /\ Opened'
  BY <1>8, <1>9, LastIsNewest DEF GpDeal, Opened
<1>11. QED
  BY <1>1, <1>2, <1>3, <1>4, <1>7, <1>10 DEF n

LEMMA ArrangesKeeps ==
  ASSUME SeatsInv, NEW i, NEW room, Arranges(i, room), opening' \in 0 .. MaxHandlers
  PROVE  SeatsInv'
<1>1. Typed'
  BY DEF SeatsInv, Arranges, Typed
<1>2. ledger'.acs = ledger.acs /\ ledger'.held = ledger.held /\ UNCHANGED <<epoch, minting, assembled>>
  BY DEF Arranges
<1>3. i \in DOMAIN ledger.rooms => ledger.rooms[i].epoch = room.epoch /\ ledger.rooms[i].stage # "Closed"
  BY TheRooms DEF SeatsInv, Arranges, RoomsOf, Terminal
<1>4. room.epoch = epoch /\ room.stage # "Closed"
  BY DEF Arranges, Terminal
<1>5. /\ \A e : (\E j \in RoomsOf(e) : ledger.rooms[j].stage = "Closed")'
                 <=> \E j \in RoomsOf(e) : ledger.rooms[j].stage = "Closed"
      /\ RoomsInOrder'
  BY <1>2, <1>3, <1>4, RoomsFollow DEF Arranges
<1>6. \A e : settled(e)' <=> settled(e)
  BY <1>2 DEF settled
<1>7. \A e \in Epochs : DealSettles(e)'
  BY <1>2, <1>5, <1>6, DealStays DEF SeatsInv
<1>8. UnitsOfTheSettled'
  BY <1>2, <1>6, UnitsStay DEF SeatsInv
<1>9. BasisIsAssembled' /\ MintedIsOpen' /\ AuthorityLasts'
  BY <1>2, <1>6 DEF SeatsInv, BasisIsAssembled, MintedIsOpen, AuthorityLasts
<1>10. QED
  BY <1>1, <1>5, <1>7, <1>8, <1>9 DEF SeatsInv

LEMMA MintsKeeps ==
  ASSUME SeatsInv, NEW leg \in Legs, Mints(leg) \/ Allocates(leg), opening' \in 0 .. MaxHandlers
  PROVE  SeatsInv'
<1>1. Typed'
  BY DEF SeatsInv, Mints, Allocates, Typed
<1>2. ledger'.rooms = ledger.rooms /\ UNCHANGED <<epoch, assembled>> /\ OthersKeep
  BY DEF Mints, Allocates
<1>3. leg \in minting => ~settled(epoch)
  BY DEF SeatsInv, MintedIsOpen
<1>4. \/ ledger'.acs = ledger.acs
      \/ ledger'.acs = ledger.acs \cup {Allocation(leg, epoch)} /\ ~settled(epoch)
  BY <1>3 DEF Mints, Allocates
<1>5. \A t, e : t # "allocation" => (Doc(t, e) \in ledger'.acs <=> Doc(t, e) \in ledger.acs)
  BY <1>4, TemplatesOf
<1>6. \A t, h : t # "allocation" => (For(t, h) \in ledger'.acs <=> For(t, h) \in ledger.acs)
  BY <1>4, TemplatesOf
<1>7. \A e : settled(e)' <=> settled(e)
  BY <1>5 DEF settled
<1>8. \A l, e : Allocation(l, e) = Allocation(leg, epoch) => e = epoch
  BY ContractsDiffer DEF Allocation
<1>9. \A e : settled(e) => \A l \in Legs : Allocation(l, e) \in ledger'.acs => Allocation(l, e) \in ledger.acs
  BY <1>4, <1>8
<1>10. \A e : RoomsOf(e)' = RoomsOf(e)
  BY <1>2 DEF RoomsOf
<1>11. \A e \in Epochs : ledger'.held["lpExiting", e] = ledger.held["lpExiting", e]
  BY <1>2, PursesOf DEF OthersKeep
<1>12. \A e \in Epochs : DealSettles(e)'
  BY <1>2, <1>5, <1>7, <1>9, <1>10, <1>11, DealStays DEF SeatsInv
<1>13. \A l \in {"unit", "roll"} : ledger'.held[receiver[l], 0] = ledger.held[receiver[l], 0]
  BY <1>2, PursesOf DEF OthersKeep
<1>14. UnitsOfTheSettled'
  BY <1>7, <1>13, UnitsStay DEF SeatsInv
<1>15. BasisIsAssembled' /\ AuthorityLasts' /\ RoomsInOrder'
  BY <1>2, <1>5, <1>6, <1>7, <1>10 DEF SeatsInv, BasisIsAssembled, AuthorityLasts, RoomsInOrder, Opened
<1>16. MintedIsOpen'
  BY <1>2, <1>7 DEF MintedIsOpen, Mints, Allocates
<1>17. QED
  BY <1>1, <1>12, <1>14, <1>15, <1>16 DEF SeatsInv

LEMMA AssemblesKeeps ==
  ASSUME SeatsInv, Assembles, opening' \in 0 .. MaxHandlers
  PROVE  SeatsInv'
<1>1. Typed'
  BY DEF SeatsInv, Assembles, Typed
<1>2. /\ ledger'.rooms = ledger.rooms /\ ledger'.held = ledger.held /\ UNCHANGED <<epoch, minting>>
      /\ ledger'.acs = ledger.acs \cup {Doc("basis", epoch)} /\ assembled' = assembled \cup {epoch}
      /\ ~settled(epoch) /\ epoch \in Epochs
  BY DEF SeatsInv, Typed, Assembles
<1>3. \A t, e : t # "basis" => (Doc(t, e) \in ledger'.acs <=> Doc(t, e) \in ledger.acs)
  BY <1>2, TemplatesOf
<1>4. \A e : e # epoch => (Doc("basis", e) \in ledger'.acs <=> Doc("basis", e) \in ledger.acs)
  BY <1>2, ContractsDiffer DEF Doc
<1>5. \A h : /\ For("delegation", h) \in ledger'.acs <=> For("delegation", h) \in ledger.acs
             /\ For("accepted", h) \in ledger'.acs <=> For("accepted", h) \in ledger.acs
  BY <1>2, TemplatesOf
<1>6. \A l, e : Allocation(l, e) \in ledger'.acs <=> Allocation(l, e) \in ledger.acs
  BY <1>2, TemplatesOf
<1>7. \A e : settled(e)' <=> settled(e)
  BY <1>3 DEF settled
<1>8. \A e : RoomsOf(e)' = RoomsOf(e)
  BY <1>2 DEF RoomsOf
<1>9. ASSUME NEW e \in Epochs PROVE DealSettles(e)'
  <2>1. CASE e # epoch
    BY <1>2, <1>3, <1>4, <1>6, <1>7, <1>8, <2>1, DealStays DEF SeatsInv
  <2>2. CASE e = epoch
    <3>1. Doc("basis", e) \in ledger'.acs
      BY <1>2, <2>2
    <3>2. QED
      BY <1>2, <1>3, <1>7, <1>8, <2>2, <3>1 DEF SeatsInv, DealSettles
  <2>3. QED
    BY <2>1, <2>2
<1>10. UnitsOfTheSettled'
  BY <1>2, <1>7, UnitsStay DEF SeatsInv
<1>11. BasisIsAssembled'
  BY <1>2, <1>4 DEF SeatsInv, BasisIsAssembled
<1>12. MintedIsOpen' /\ RoomsInOrder' /\ AuthorityLasts'
  BY <1>2, <1>5, <1>6, <1>7, <1>8 DEF SeatsInv, MintedIsOpen, RoomsInOrder, Opened, AuthorityLasts
<1>13. QED
  BY <1>1, <1>9, <1>10, <1>11, <1>12 DEF SeatsInv

LEMMA ClosesKeeps ==
  ASSUME SeatsInv, NEW i, Closes(i), opening' \in 0 .. MaxHandlers
  PROVE  SeatsInv'
<1> DEFINE room == [ledger.rooms[i] EXCEPT !.stage = "Closed"]
<1>1. Typed' /\ epoch \in Epochs
  BY DEF SeatsInv, Closes, Typed
<1>2. /\ UNCHANGED <<epoch, minting, assembled>> /\ ~settled(epoch) /\ Needed \subseteq ledger.acs
      /\ ledger'.acs = (ledger.acs \ Spent) \cup Receipts(epoch)
  BY DEF Closes
<1>3. i \in DOMAIN ledger.rooms /\ ledger.rooms[i] \in RoomRecord /\ ledger.rooms[i].epoch = epoch
      /\ ledger.rooms[i].stage # "Closed"
  BY TheRooms DEF SeatsInv, Closes, RoomsOf
<1>4. room.epoch = epoch /\ room.stage = "Closed"
  BY <1>3 DEF RoomRecord
<1>5. Follows(ledger.rooms, i, room, ledger'.rooms)
  BY DEF Closes
<1> HIDE DEF room
<1>6. /\ \A e : (\E j \in RoomsOf(e) : ledger.rooms[j].stage = "Closed")'
                 <=> (\E j \in RoomsOf(e) : ledger.rooms[j].stage = "Closed") \/ e = epoch
      /\ RoomsInOrder'
  BY <1>2, <1>3, <1>4, <1>5, RoomsFollow
<1>7. \A e, l : e # epoch => /\ Doc("basis", e) \notin Spent \cup Receipts(epoch)
                             /\ Allocation(l, e) \notin Spent \cup Receipts(epoch)
                             /\ Doc("receipt", e) \notin Spent \cup Receipts(epoch)
                             /\ Doc("disclosure", e) \notin Spent \cup Receipts(epoch)
  <2>1. \A e, l, l1, lp : e # epoch =>
          /\ Doc("basis", e) \notin {Doc("basis", epoch), Allocation(l1, epoch), For("interest", lp)}
          /\ Doc("basis", e) \notin {Doc("receipt", epoch), Doc("disclosure", epoch)}
    BY ContractsDiffer DEF Doc, Allocation, For
  <2>2. \A e, l, l1, lp : e # epoch =>
          /\ Allocation(l, e) \notin {Doc("basis", epoch), Allocation(l1, epoch), For("interest", lp)}
          /\ Allocation(l, e) \notin {Doc("receipt", epoch), Doc("disclosure", epoch)}
    BY ContractsDiffer DEF Doc, Allocation, For
  <2>3. \A e, l1, lp : e # epoch => \A t \in {"receipt", "disclosure"} :
          /\ Doc(t, e) \notin {Doc("basis", epoch), Allocation(l1, epoch), For("interest", lp)}
          /\ Doc(t, e) \notin {Doc("receipt", epoch), Doc("disclosure", epoch)}
    BY ContractsDiffer DEF Doc, Allocation, For
  <2>4. QED
    BY <2>1, <2>2, <2>3 DEF Spent, Receipts
<1>8. \A l \in Legs : /\ Doc("basis", epoch) \in Spent \ Receipts(epoch)
                      /\ Allocation(l, epoch) \in Spent \ Receipts(epoch)
                      /\ Doc("receipt", epoch) \in Receipts(epoch) /\ Doc("disclosure", epoch) \in Receipts(epoch)
  BY ContractsDiffer DEF Spent, Receipts, Doc, Allocation
<1>9. \A h : /\ For("delegation", h) \notin Spent
             /\ For("accepted", h) \notin Spent
  BY ContractsDiffer DEF Spent, Doc, Allocation, For
<1>10. \A e : settled(e)' <=> settled(e) \/ e = epoch
  BY <1>2, <1>7, <1>8 DEF settled, Legs
<1>11. epoch \in assembled
  BY <1>1, <1>2 DEF Needed, SeatsInv, BasisIsAssembled
<1>12. ledger.held \in [Purse -> Nat] /\ ledger'.held \in [Purse -> Nat]
       /\ \A x \in Purse : ledger'.held[x] = ledger.held[x] + Brings(x)
  BY DEF SeatsInv, Typed, Closes, LedgerRecord
<1>13. ASSUME NEW e \in Epochs PROVE DealSettles(e)'
  <2>1. ledger'.held["lpExiting", e] = ledger.held["lpExiting", e] + Brings(<<"lpExiting", e>>)
    BY <1>12, PursesOf
  <2>2. /\ e = epoch => Brings(<<"lpExiting", e>>) = amount.cash
        /\ e # epoch => Brings(<<"lpExiting", e>>) = 0
    BY DEF Brings
  <2>3. ledger.held["lpExiting", e] \in Nat /\ amount.cash \in Nat
    BY <1>12, PursesOf, LegAmounts DEF Legs
  <2> DEFINE was == ledger.held["lpExiting", e]
             more == Brings(<<"lpExiting", e>>)
             cash == amount.cash
  <2>4. was \in Nat /\ cash \in Nat /\ ledger'.held["lpExiting", e] = was + more
        /\ (e = epoch => more = cash) /\ (e # epoch => more = 0)
    BY <2>1, <2>2, <2>3
  <2>5. CASE e # epoch
    <3>1. ledger'.held["lpExiting", e] = ledger.held["lpExiting", e]
      <4>1. more = 0 /\ was \in Nat
        BY <2>5, <2>4
      <4> HIDE DEF was, more, cash
      <4>2. was + more = was
        BY <4>1
      <4>3. QED
        BY <2>4, <4>2 DEF was
    <3>2. settled(e)' <=> settled(e)
      BY <1>10, <2>5
    <3>3. /\ Doc("disclosure", e) \in ledger'.acs <=> Doc("disclosure", e) \in ledger.acs
          /\ Doc("basis", e) \in ledger'.acs <=> Doc("basis", e) \in ledger.acs
          /\ \A l \in Legs : Allocation(l, e) \in ledger'.acs => Allocation(l, e) \in ledger.acs
      BY <1>2, <1>7, <2>5
    <3>4. DealSettles(e) /\ e \in assembled' <=> e \in assembled
      BY <1>2 DEF SeatsInv
    <3>5. (\E j \in RoomsOf(e) : ledger.rooms[j].stage = "Closed")'
            <=> \E j \in RoomsOf(e) : ledger.rooms[j].stage = "Closed"
      BY <1>6, <2>5
    <3>6. QED
      BY <3>1, <3>2, <3>3, <3>4, <3>5, DealStays DEF SeatsInv
  <2>6. CASE e = epoch
    <3>1. settled(e)' /\ (\E j \in RoomsOf(e) : ledger.rooms[j].stage = "Closed")' /\ e \in assembled'
      BY <1>2, <1>6, <1>10, <1>11, <2>6
    <3>2. /\ Doc("disclosure", e) \in ledger'.acs /\ Doc("basis", e) \notin ledger'.acs
          /\ \A l \in Legs : Allocation(l, e) \notin ledger'.acs
      BY <1>2, <1>8, <2>6 DEF Legs
    <3>3. ledger.held["lpExiting", e] = 0
      BY <1>2, <2>6 DEF SeatsInv, DealSettles
    <3>4. ledger'.held["lpExiting", e] = amount.cash
      <4>1. more = cash /\ was = 0 /\ cash \in Nat
        BY <2>6, <2>4, <3>3
      <4> HIDE DEF was, more, cash
      <4>2. was + more = cash
        BY <4>1
      <4>3. QED
        BY <2>4, <4>2 DEF cash
    <3>5. QED
      BY <3>1, <3>2, <3>4 DEF DealSettles
  <2>7. QED
    BY <2>5, <2>6
<1>14. UnitsOfTheSettled'
  <2> DEFINE before == {e \in Epochs : settled(e)}
             c == Cardinality(before)
  <2>1. {e \in Epochs : settled(e)}' = before \cup {epoch} /\ epoch \notin before
    BY <1>1, <1>2, <1>10
  <2>2. IsFiniteSet(before)
    <3>1. IsFiniteSet(Epochs)
      BY LegAmounts, FS_Interval DEF Epochs
    <3>2. QED
      BY <3>1, FS_Subset
  <2>3. Cardinality({e \in Epochs : settled(e)}') = c + 1 /\ c \in Nat
    BY <2>1, <2>2, FS_AddElement, FS_CardinalityType
  <2> HIDE DEF before
  <2>4. ASSUME NEW l \in {"unit", "roll"} PROVE ledger'.held[receiver[l], 0] = amount[l] * (c + 1)
    <3>1. ledger'.held[receiver[l], 0] = ledger.held[receiver[l], 0] + Brings(<<receiver[l], 0>>)
      BY <1>12, PursesOf
    <3>2. Brings(<<receiver[l], 0>>) = amount[l]
      BY DEF Brings, receiver
    <3>3. ledger.held[receiver[l], 0] = amount[l] * c
      BY DEF SeatsInv, UnitsOfTheSettled, before
    <3>4. amount[l] \in Nat
      BY LegAmounts DEF Legs
    <3>5. \A a, b \in Nat : a * (b + 1) = a * b + a
      OBVIOUS
    <3>6. amount[l] * (c + 1) = amount[l] * c + amount[l]
      BY <2>3, <3>4, <3>5
    <3>7. QED
      BY <3>1, <3>2, <3>3, <3>6
  <2>5. QED
    BY <2>3, <2>4 DEF UnitsOfTheSettled
<1>15. BasisIsAssembled'
  BY <1>2, <1>7, <1>8 DEF SeatsInv, BasisIsAssembled, Legs
<1>16. MintedIsOpen'
  <2>1. \A l \in Legs : Allocation(l, epoch) \in ledger.acs
    BY <1>2 DEF Needed
  <2>2. minting = {}
    BY <2>1 DEF SeatsInv, MintedIsOpen, Typed
  <2>3. QED
    BY <1>2, <2>2 DEF MintedIsOpen
<1>17. AuthorityLasts'
  <2>1. /\ \A h \in Holders : For("delegation", h) \in ledger.acs
        /\ \A lp \in LPs : For("accepted", lp) \in ledger.acs
    BY <1>2 DEF Needed
  <2>2. QED
    BY <1>2, <1>9, <2>1 DEF AuthorityLasts
<1>18. QED
  BY <1>1, <1>6, <1>13, <1>14, <1>15, <1>16, <1>17 DEF SeatsInv

LEMMA HandlersCounted == Typed /\ SeatsNext => opening' \in 0 .. MaxHandlers
<1> SUFFICES ASSUME Typed, SeatsNext PROVE opening' \in 0 .. MaxHandlers
  OBVIOUS
<1>1. opening \in 0 .. MaxHandlers /\ MaxHandlers \in Nat
  BY LegAmounts DEF Typed
<1>2. \/ opening' = opening
      \/ opening' = opening + 1 /\ opening < MaxHandlers
      \/ opening' = opening - 1 /\ opening > 0
      \/ opening' = 0
  BY DEF SeatsNext, GpStep, openRoom, createRoom, setClearing, openElections, createFactory, createCert, createPsa,
     mintLeg, allocateLeg, createBasis, proposeDelegation, offerInterest, acceptParticipation, close, closeCash,
     signFairness, grantConsent, recordConsent, anchor, acceptDelegation, acceptOffer, proposeParticipation,
     resetDemo, Alone
<1>3. QED
  BY <1>1, <1>2

\* The invariant is inductive.
LEMMA SeatsStep == SeatsInv /\ [SeatsNext]_seatVars => SeatsInv'
<1>1. ASSUME SeatsInv, SeatsNext PROVE SeatsInv'
  <2>1. Effect /\ opening' \in 0 .. MaxHandlers
    BY <1>1, StepsHaveEffects, HandlersCounted DEF SeatsInv
  <2>2. QED
    BY <1>1, <2>1, AsideKeeps, ArrangesKeeps, MintsKeeps, AssemblesKeeps, ClosesKeeps DEF Effect
<1>2. ASSUME SeatsInv, UNCHANGED seatVars PROVE SeatsInv'
  <2>1. Aside /\ opening' = opening
    BY <1>2, StaysBeside DEF seatVars, Aside, SeatsInv
  <2>2. QED
    BY <1>2, <2>1, AsideKeeps DEF SeatsInv, Typed
<1>3. QED
  BY <1>1, <1>2

\* The invariant holds throughout.
THEOREM SeatsInvariant == SeatsSpec => []SeatsInv
<1>1. QED
  BY SeatsStart, SeatsStep, PTL DEF SeatsSpec

\* In the invariant the ledger, the handlers and the deals assembled have their types.
LEMMA SeatsTyped == SeatsInv => SeatsTypeOK
<1>1. SUFFICES ASSUME SeatsInv PROVE SeatsTypeOK
  OBVIOUS
<1>2. \A i \in DOMAIN ledger.rooms : ledger.rooms[i] \in RoomRecord
  BY <1>1, TheRooms DEF SeatsInv
<1>3. \A x \in DOMAIN ledger.held : ledger.held[x] \in Nat
  BY <1>1 DEF SeatsInv, Typed, LedgerRecord
<1>4. QED
  BY <1>1, <1>2, <1>3 DEF SeatsTypeOK, SeatsInv, Typed, RoomRecord

\* The ledger, the handlers under way and the deals assembled have their types.
THEOREM SeatsAreTyped == SeatsSpec => []SeatsTypeOK
BY SeatsTyped, SeatsInvariant, PTL

\* However the pages' steps interleave, whichever commands are refused and
\* however often the demo is reset: receipt, disclosure, closed room and spent
\* basis of a deal come together, with every leg paid and none before.
THEOREM SettledAtOnce == SeatsSpec => []SettlesAtOnce
<1>1. SeatsInv => SettlesAtOnce
  <2>1. SUFFICES ASSUME SeatsInv PROVE SettlesAtOnce
    OBVIOUS
  <2>2. ASSUME NEW seat \in Room PROVE takesOver(seat) <=> settled(epoch)
    <3>1. settled(epoch) <=> Doc("disclosure", epoch) \in ledger.acs
      BY <2>1 DEF SeatsInv, DealSettles, Typed
    <3>2. seat \in Holders \/ seat = "gp" \/ seat = "lpac"
      BY DEF Room
    <3>3. takesOver(seat) <=> \/ settled(epoch) /\ seat \in projectionOf(Doc("receipt", epoch))
                              \/ Doc("disclosure", epoch) \in ledger.acs /\ seat \in projectionOf(Doc("disclosure", epoch))
      BY DEF takesOver, Receipts, Sees, visible, settled
    <3>4. QED
      BY <3>1, <3>2, <3>3, WhoSees
  <2>3. QED
    BY <2>1, <2>2 DEF SettlesAtOnce, SeatsInv, DealSettles, UnitsOfTheSettled
<1>2. QED
  BY <1>1, SeatsInvariant, PTL

\* The seats are never all waiting for each other: what the close of a deal
\* still lacks and waits for nothing, some page offers.
THEOREM CloseStaysWithinReach == SeatsSpec => []CloseIsWithinReach
<1>1. SeatsInv => CloseIsWithinReach
  <2>1. SUFFICES ASSUME SeatsInv, ~settled(epoch) PROVE \A s \in StepsToClose : s.after => s.done \/ s.offered
    BY DEF CloseIsWithinReach
  <2>2. \A e \in Epochs : DealSettles(e)
    BY <2>1 DEF SeatsInv
  <2>3. epoch \in Epochs /\ Typed /\ RoomsInOrder
    BY <2>1 DEF SeatsInv, Typed
  <2>4. ~dealClosed
    <3>1. ~GpHas("receipt")
      BY <2>1 DEF GpHas, Sees, visible, settled
    <3>2. Opened => GpDeal \in RoomsOf(epoch)
      BY <2>3, TheRooms
    <3>3. QED
      BY <2>1, <2>2, <2>3, <3>1, <3>2 DEF dealClosed, DealSettles
  <2>5. Opened => LatestStage # "Closed"
    <3>1. SUFFICES ASSUME Opened PROVE LatestStage # "Closed"
      OBVIOUS
    <3>2. GpDeal \in RoomsOf(epoch) /\ GpDeal = Len(ledger.rooms) /\ ledger.rooms # <<>>
      BY <2>3, <3>1, TheRooms
    <3>3. LatestStage = ledger.rooms[GpDeal].stage
      BY <3>2 DEF LatestStage, Last
    <3>4. QED
      BY <2>1, <2>2, <2>3, <3>2, <3>3 DEF DealSettles
  <2>6. ASSUME Units("lpRolling") > 0
        PROVE  /\ \A h \in Holders : For("delegation", h) \in ledger.acs
               /\ \A lp \in LPs : For("accepted", lp) \in ledger.acs
               /\ epoch > 1
    <3>1. \E e \in Epochs : settled(e)
      <4>1. SUFFICES ASSUME \A e \in Epochs : ~settled(e) PROVE FALSE
        OBVIOUS
      <4>2. Cardinality({e \in Epochs : settled(e)}) = 0
        <5>1. {e \in Epochs : settled(e)} = {}
          BY <4>1
        <5>2. QED
          BY <5>1, FS_EmptySet
      <4>3. ledger.held["lpRolling", 0] = amount.roll * 0
        BY <2>1, <4>2 DEF SeatsInv, UnitsOfTheSettled, receiver
      <4>4. \A n \in Nat : n * 0 = 0
        OBVIOUS
      <4>5. ledger.held["lpRolling", 0] = 0
        BY <4>3, <4>4, LegAmounts DEF Legs
      <4> DEFINE n == Units("lpRolling")
      <4>6. n = 0 /\ n > 0
        BY <2>6, <4>5 DEF Units
      <4> HIDE DEF n
      <4>7. QED
        BY <4>6
    <3>2. PICK e \in Epochs : settled(e)
      BY <3>1
    <3>3. PICK i \in RoomsOf(e) : ledger.rooms[i].stage = "Closed"
      BY <2>2, <3>2 DEF DealSettles
    <3>4. e <= epoch /\ e # epoch /\ e \in Nat /\ epoch \in Nat /\ 1 <= e
      BY <2>1, <2>3, <3>2, <3>3 DEF RoomsInOrder, RoomsOf, Epochs
    <3>5. QED
      BY <2>1, <3>1, <3>4 DEF SeatsInv, AuthorityLasts
  <2>7. ~(ledger.held["lpExiting", epoch] > 0)
    <3>1. ledger.held["lpExiting", epoch] = 0
      BY <2>1, <2>2, <2>3 DEF DealSettles
    <3> DEFINE n == ledger.held["lpExiting", epoch]
    <3>2. n = 0
      BY <3>1
    <3> HIDE DEF n
    <3>3. ~(n > 0)
      BY <3>2
    <3>4. QED
      BY <3>3 DEF n
  <2>8. \A seat \in Holders : Opened => PreauthShown(seat) \/ (seat = "lpRolling" /\ Units("lpRolling") > 0)
    BY <2>5, <2>7 DEF PreauthShown, closed, Holders, LPs
  <2>9. GpHas("valuation") \/ CanAnchor
    BY WhoSees DEF CanAnchor, GpHas, Sees, visible
  <2>10. Opened /\ ~TwoRooms => Consented \/ CanRecordConsent
    <3>1. SUFFICES ASSUME Opened, ~TwoRooms PROVE Consented \/ CanRecordConsent
      OBVIOUS
    <3>2. GpDeal = QueueDeal
      BY <2>3, <3>1, TheRooms DEF TwoRooms
    <3>3. QED
      BY <3>1, <3>2 DEF Consented, CanRecordConsent
  <2>11. \A t \in {"opinion", "consent"} : ~consentRecorded => GpHas(t) \/ CanAttest(t)
    BY WhoSees DEF CanAttest, GpHas, Sees, visible
  <2>12. \A t \in {"cert", "psa"} : GpHas(t) \/ CanSign(t)
    BY <2>4 DEF CanSign, StepRow
  <2>13. \A l \in Legs : Active(factory) => Active(Allocation(l, epoch)) \/ CanAllocate(l)
    BY <2>4, WhoSees DEF CanAllocate, StepRow, Sees, visible, Active
  <2>14. (\A c \in Antecedents(epoch) : Active(c)) => GpHas("basis") \/ CanAssemble
    <3>1. \A c \in Antecedents(epoch) : "gp" \in projectionOf(c)
      BY WhoSees DEF Antecedents
    <3>2. QED
      BY <2>4, <3>1 DEF CanAssemble, StepRow, Sees, visible, Active
  <2>15. \A h \in Holders : Opened /\ Active(For("proposal", h)) => Active(For("delegation", h)) \/ CanDelegate(h)
    BY <2>6, <2>8, WhoSees DEF CanDelegate, Sees, visible, Active
  <2>16. \A lp \in LPs : Opened /\ Active(For("offer", lp)) /\ ~MistakenForClosed(lp)
                           => Active(For("interest", lp)) \/ CanTakeOffer(lp)
    BY <2>6, <2>8, WhoSees DEF CanTakeOffer, Sees, visible, Active, MistakenForClosed, Holders
  <2>17. \A lp \in LPs : Opened => Active(For("accepted", lp)) \/ CanParticipate(lp) \/ CanAdmit(lp)
    BY <2>4, <2>6, <2>8, WhoSees DEF CanParticipate, CanAdmit, StepRow, Sees, visible, Active, Holders
  <2>18. Consented /\ (\A c \in Needed \cup Antecedents(epoch) : Active(c)) => CanIssue
    BY <2>1, WhoSees DEF CanIssue, ceremonyChecks, Consented, GpHas, Sees, visible, Active, Needed, Antecedents, settled
  <2>19. ASSUME NEW s \in StepsToClose, s.after PROVE s.done \/ s.offered
    <3> DEFINE truth(F) == F \in BOOLEAN
    <3>1. /\ truth(Opened) /\ truth(Consented) /\ truth(settled(epoch)) /\ truth(CanRecordConsent) /\ truth(CanIssue)
          /\ truth(CanAssemble) /\ truth(CanAnchor) /\ truth(CanOpen) /\ truth(TwoRooms) /\ truth(consentRecorded)
          /\ \A t : truth(GpHas(t)) /\ truth(CanAttest(t)) /\ truth(CanSign(t))
          /\ \A c : truth(Active(c))
          /\ \A x : truth(CanAllocate(x)) /\ truth(CanDelegate(x)) /\ truth(CanTakeOffer(x)) /\ truth(MistakenForClosed(x))
                   /\ truth(CanParticipate(x)) /\ truth(CanAdmit(x))
      BY DEF Opened, Consented, settled, CanRecordConsent, CanIssue, CanAssemble, CanAnchor, CanOpen, TwoRooms,
         consentRecorded, GpHas, Sees, visible, CanAttest, CanSign, StepRow, Active, CanAllocate, CanDelegate,
         CanTakeOffer, MistakenForClosed, CanParticipate, CanAdmit
    <3>2. CASE s = Step(Opened, TRUE, CanOpen)
      BY <3>1, <3>2 DEF Step, CanOpen
    <3>3. CASE s = Step(GpHas("valuation"), TRUE, CanAnchor)
      BY <2>9, <3>1, <3>3 DEF Step
    <3>4. CASE s = Step(Consented, Opened /\ ~TwoRooms, CanRecordConsent)
      BY <2>10, <2>19, <3>1, <3>4 DEF Step
    <3>5. CASE \E t \in {"opinion", "consent"} : s = Step(GpHas(t), Opened /\ ~consentRecorded, CanAttest(t))
      BY <2>11, <2>19, <3>1, <3>5 DEF Step
    <3>6. CASE \E t \in {"cert", "psa"} : s = Step(GpHas(t), Opened, CanSign(t))
      BY <2>12, <3>1, <3>6 DEF Step
    <3>7. CASE \E l \in Legs : s = Step(Active(Allocation(l, epoch)), Active(factory), CanAllocate(l))
      BY <2>13, <2>19, <3>1, <3>7 DEF Step
    <3>8. CASE s = Step(GpHas("basis"), \A c \in Antecedents(epoch) : Active(c), CanAssemble)
      BY <2>14, <2>19, <3>1, <3>8 DEF Step
    <3>9. CASE \E h \in Holders : s = Step(Active(For("delegation", h)), Opened /\ Active(For("proposal", h)), CanDelegate(h))
      BY <2>15, <2>19, <3>1, <3>9 DEF Step
    <3>10. CASE \E lp \in LPs : s = Step(Active(For("interest", lp)),
                                         Opened /\ Active(For("offer", lp)) /\ ~MistakenForClosed(lp), CanTakeOffer(lp))
      BY <2>16, <2>19, <3>1, <3>10 DEF Step
    <3>11. CASE \E lp \in LPs : s = Step(Active(For("accepted", lp)), Opened, CanParticipate(lp) \/ CanAdmit(lp))
      BY <2>17, <2>19, <3>1, <3>11 DEF Step
    <3>12. CASE s = Step(settled(epoch), Consented /\ \A c \in Needed \cup Antecedents(epoch) : Active(c), CanIssue)
      BY <2>18, <2>19, <3>1, <3>12 DEF Step
    <3>13. QED
      BY <3>2, <3>3, <3>4, <3>5, <3>6, <3>7, <3>8, <3>9, <3>10, <3>11, <3>12 DEF StepsToClose
  <2>20. QED
    BY <2>19
<1>2. QED
  BY <1>1, SeatsInvariant, PTL

(* The refinement of DealOutcome.                                            *)
\* What the ledger says of the deals: how each ended, which ones the LPAC has
\* agreed to, and the bases that are used up.
OutcomeSeen == [e \in Epochs |-> IF settled(e) THEN "closed" ELSE "open"]
AgreedSeen == {e \in Epochs : \E i \in RoomsOf(e) : ledger.rooms[i].stage # "Setup"}
UsedSeen == {e \in assembled : Doc("basis", e) \notin ledger.acs}

\* They are the same where the contracts and the rooms they rest on are.
LEMMA NothingSeen ==
  ASSUME \A e \in Epochs : settled(e)' <=> settled(e),
         \A e \in Epochs : (\E i \in RoomsOf(e) : ledger.rooms[i].stage # "Setup")'
                             <=> \E i \in RoomsOf(e) : ledger.rooms[i].stage # "Setup",
         UsedSeen' = UsedSeen
  PROVE  UNCHANGED <<OutcomeSeen, AgreedSeen, UsedSeen>>
<1>1. OutcomeSeen' = OutcomeSeen
  <2> DEFINE F(e) == IF settled(e) THEN "closed" ELSE "open"
  <2>1. \A e \in Epochs : F(e)' = F(e)
    OBVIOUS
  <2>2. OutcomeSeen' = [e \in Epochs |-> F(e)'] /\ OutcomeSeen = [e \in Epochs |-> F(e)]
    BY DEF OutcomeSeen
  <2> HIDE DEF F
  <2>3. QED
    BY <2>1, <2>2
<1>2. AgreedSeen' = AgreedSeen
  BY DEF AgreedSeen
<1>3. QED
  BY <1>1, <1>2

\* The rooms an arrangement leaves are past Setup where they were, and where
\* the room that has got on now is.
LEMMA AgreedFollows ==
  ASSUME SeatsInv, NEW i, NEW room, Follows(ledger.rooms, i, room, ledger'.rooms), room.epoch = epoch,
         i \in DOMAIN ledger.rooms =>
           ledger.rooms[i].epoch = epoch /\ (ledger.rooms[i].stage # "Setup" => room.stage # "Setup")
  PROVE  \A e : (\E j \in RoomsOf(e) : ledger.rooms[j].stage # "Setup")'
                  <=> \/ \E j \in RoomsOf(e) : ledger.rooms[j].stage # "Setup"
                      \/ e = epoch /\ room.stage # "Setup"
<1> DEFINE old == ledger.rooms
           new == ledger'.rooms
<1>1. /\ Len(new) \in DOMAIN new /\ new[Len(new)] = room
      /\ \A j \in DOMAIN new : new[j] = room \/ \E m \in DOMAIN old : new[j] = old[m]
      /\ \A m \in DOMAIN old : m # i => \E j \in DOMAIN new : new[j] = old[m]
  BY DEF Follows
<1>2. \A e : (\E j \in RoomsOf(e) : ledger.rooms[j].stage # "Setup")
               <=> \E j \in DOMAIN old : old[j].epoch = e /\ old[j].stage # "Setup"
  BY DEF RoomsOf
<1>3. \A e : (\E j \in RoomsOf(e) : ledger.rooms[j].stage # "Setup")'
               <=> \E j \in DOMAIN new : new[j].epoch = e /\ new[j].stage # "Setup"
  BY DEF RoomsOf
<1>4. i \in DOMAIN old => old[i].epoch = epoch /\ (old[i].stage # "Setup" => room.stage # "Setup")
  OBVIOUS
<1> HIDE DEF old, new
<1>5. ASSUME NEW e
      PROVE  (\E j \in DOMAIN new : new[j].epoch = e /\ new[j].stage # "Setup")
                <=> \/ \E j \in DOMAIN old : old[j].epoch = e /\ old[j].stage # "Setup"
                    \/ e = epoch /\ room.stage # "Setup"
  <2>1. ASSUME NEW j \in DOMAIN new, new[j].epoch = e, new[j].stage # "Setup"
        PROVE  \/ \E m \in DOMAIN old : old[m].epoch = e /\ old[m].stage # "Setup"
               \/ e = epoch /\ room.stage # "Setup"
    BY <1>1, <2>1
  <2>2. ASSUME NEW m \in DOMAIN old, old[m].epoch = e, old[m].stage # "Setup"
        PROVE  \E j \in DOMAIN new : new[j].epoch = e /\ new[j].stage # "Setup"
    <3>1. CASE m # i
      BY <1>1, <2>2, <3>1
    <3>2. CASE m = i
      BY <1>1, <1>4, <2>2, <3>2
    <3>3. QED
      BY <3>1, <3>2
  <2>3. ASSUME e = epoch, room.stage # "Setup"
        PROVE  \E j \in DOMAIN new : new[j].epoch = e /\ new[j].stage # "Setup"
    BY <1>1, <2>3
  <2>4. QED
    BY <2>1, <2>2, <2>3
<1>6. QED
  BY <1>2, <1>3, <1>5

PromiseVars == <<OutcomeSeen, AgreedSeen, UsedSeen>>
PromiseStep ==
  \/ \E d \in Epochs : /\ OutcomeSeen[d] = "open" /\ AgreedSeen' = AgreedSeen \cup {d}
                       /\ UNCHANGED <<OutcomeSeen, UsedSeen>>
  \/ \E d \in Epochs : /\ OutcomeSeen[d] = "open" /\ d \in AgreedSeen /\ d \notin UsedSeen
                       /\ OutcomeSeen' = [OutcomeSeen EXCEPT ![d] = "closed"]
                       /\ UsedSeen' = UsedSeen \cup {d} /\ UNCHANGED AgreedSeen
  \/ UNCHANGED PromiseVars

LEMMA ArrangesPromised ==
  ASSUME SeatsInv, NEW i, NEW room, Arranges(i, room)
  PROVE  PromiseStep
<1>1. ledger'.acs = ledger.acs /\ UNCHANGED <<epoch, assembled>> /\ room.epoch = epoch /\ epoch \in Epochs
  BY DEF Arranges, SeatsInv, Typed
<1>2. \A e : settled(e)' <=> settled(e)
  BY <1>1 DEF settled
<1>3. UsedSeen' = UsedSeen
  BY <1>1 DEF UsedSeen
<1>4. i \in DOMAIN ledger.rooms =>
        ledger.rooms[i].epoch = epoch /\ (ledger.rooms[i].stage # "Setup" => room.stage # "Setup")
  BY TheRooms DEF SeatsInv, Arranges, RoomsOf
<1>5. \A e : (\E j \in RoomsOf(e) : ledger.rooms[j].stage # "Setup")'
               <=> \/ \E j \in RoomsOf(e) : ledger.rooms[j].stage # "Setup"
                   \/ e = epoch /\ room.stage # "Setup"
  BY <1>1, <1>4, AgreedFollows DEF Arranges
<1>6. CASE room.stage = "Setup" \/ epoch \in AgreedSeen
  <2>1. \A e \in Epochs : (\E j \in RoomsOf(e) : ledger.rooms[j].stage # "Setup")'
                            <=> \E j \in RoomsOf(e) : ledger.rooms[j].stage # "Setup"
    BY <1>5, <1>6 DEF AgreedSeen
  <2>2. UNCHANGED PromiseVars
    BY <1>2, <1>3, <2>1, NothingSeen DEF PromiseVars
  <2>3. QED
    BY <2>2 DEF PromiseStep
<1>7. CASE room.stage # "Setup" /\ epoch \notin AgreedSeen
  <2>1. AgreedSeen' = AgreedSeen \cup {epoch}
    BY <1>1, <1>5, <1>7 DEF AgreedSeen
  <2>2. ~settled(epoch)
    <3>1. settled(epoch) => \E j \in RoomsOf(epoch) : ledger.rooms[j].stage = "Closed"
      BY <1>1 DEF SeatsInv, DealSettles
    <3>2. QED
      BY <1>1, <1>7, <3>1 DEF AgreedSeen
  <2>3. OutcomeSeen[epoch] = "open"
    BY <1>1, <2>2 DEF OutcomeSeen
  <2>4. OutcomeSeen' = OutcomeSeen
    <3>1. \A e \in Epochs : (IF settled(e) THEN "closed" ELSE "open")' = IF settled(e) THEN "closed" ELSE "open"
      BY <1>2
    <3>2. QED
      BY <3>1 DEF OutcomeSeen
  <2>5. QED
    BY <1>1, <1>3, <2>1, <2>3, <2>4 DEF PromiseStep
<1>8. QED
  BY <1>6, <1>7

LEMMA ClosesPromised ==
  ASSUME SeatsInv, NEW i, Closes(i), SeatsInv'
  PROVE  PromiseStep
<1> DEFINE room == [ledger.rooms[i] EXCEPT !.stage = "Closed"]
<1>1. /\ UNCHANGED <<epoch, assembled>> /\ ~settled(epoch) /\ Needed \subseteq ledger.acs /\ epoch \in Epochs
      /\ ledger'.acs = (ledger.acs \ Spent) \cup Receipts(epoch)
  BY DEF Closes, SeatsInv, Typed
<1>2. i \in RoomsOf(epoch) /\ ledger.rooms[i] \in RoomRecord /\ ledger.rooms[i].epoch = epoch
      /\ ledger.rooms[i].stage # "Setup"
  BY TheRooms DEF SeatsInv, Closes, RoomsOf
<1>3. room.epoch = epoch /\ room.stage = "Closed" /\ Follows(ledger.rooms, i, room, ledger'.rooms)
  BY <1>2 DEF RoomRecord, Closes
<1> HIDE DEF room
<1>4. \A e : (\E j \in RoomsOf(e) : ledger.rooms[j].stage # "Setup")'
               <=> \/ \E j \in RoomsOf(e) : ledger.rooms[j].stage # "Setup"
                   \/ e = epoch
  BY <1>2, <1>3, AgreedFollows
<1>5. epoch \in AgreedSeen /\ AgreedSeen' = AgreedSeen
  BY <1>1, <1>2, <1>4 DEF AgreedSeen
<1>6. \A e : settled(e)' <=> settled(e) \/ e = epoch
  BY <1>1, ContractsDiffer DEF settled, Spent, Receipts, Doc, Allocation, For
<1>7. \A e : Doc("basis", e) \in ledger'.acs <=> Doc("basis", e) \in ledger.acs /\ e # epoch
  BY <1>1, ContractsDiffer DEF Spent, Receipts, Doc, Allocation, For
<1>8. epoch \in assembled /\ Doc("basis", epoch) \in ledger.acs
  BY <1>1 DEF Needed, SeatsInv, BasisIsAssembled
<1>9. UsedSeen' = UsedSeen \cup {epoch} /\ epoch \notin UsedSeen
  BY <1>1, <1>7, <1>8 DEF UsedSeen
<1>10. OutcomeSeen[epoch] = "open"
  BY <1>1 DEF OutcomeSeen
<1>11. OutcomeSeen' = [OutcomeSeen EXCEPT ![epoch] = "closed"]
  <2>1. \A e \in Epochs : (IF settled(e) THEN "closed" ELSE "open")'
                            = IF e = epoch THEN "closed" ELSE OutcomeSeen[e]
    BY <1>6 DEF OutcomeSeen
  <2>2. OutcomeSeen' = [e \in Epochs |-> IF e = epoch THEN "closed" ELSE OutcomeSeen[e]]
    BY <2>1 DEF OutcomeSeen
  <2>3. QED
    BY <1>1, <2>2 DEF OutcomeSeen
<1>12. QED
  BY <1>1, <1>5, <1>9, <1>10, <1>11 DEF PromiseStep

LEMMA OthersPromised ==
  ASSUME SeatsInv, Aside \/ Assembles \/ \E leg \in Legs : Mints(leg) \/ Allocates(leg)
  PROVE  PromiseStep
<1>1. ledger'.rooms = ledger.rooms
  BY DEF Aside, Beside, Assembles, Mints, Allocates
<1>2. \A e : (\E i \in RoomsOf(e) : ledger.rooms[i].stage # "Setup")'
               <=> \E i \in RoomsOf(e) : ledger.rooms[i].stage # "Setup"
  BY <1>1 DEF RoomsOf
<1>3. (\A e \in Epochs : settled(e)' <=> settled(e)) /\ UsedSeen' = UsedSeen
  <2>1. CASE Aside
    <3>1. \A e \in Epochs : \A t \in {"receipt", "basis"} : Doc(t, e) \in ledger'.acs <=> Doc(t, e) \in ledger.acs
      BY <2>1, ContractsTyped, TemplatesOf DEF Aside, Beside, AtStake, Template
    <3>2. assembled' = assembled /\ assembled \subseteq Epochs
      BY <2>1 DEF Aside, SeatsInv, Typed
    <3>3. QED
      BY <3>1, <3>2 DEF settled, UsedSeen
  <2>2. CASE Assembles
    <3>1. ledger'.acs = ledger.acs \cup {Doc("basis", epoch)} /\ assembled' = assembled \cup {epoch}
          /\ ~settled(epoch) /\ Doc("basis", epoch) \notin ledger.acs /\ epoch \in Epochs
      BY <2>2 DEF Assembles, SeatsInv, Typed
    <3>2. \A e : settled(e)' <=> settled(e)
      BY <3>1, TemplatesOf DEF settled
    <3>3. epoch \notin assembled
      BY <3>1 DEF SeatsInv, DealSettles
    <3>4. \A e : e # epoch => (Doc("basis", e) \in ledger'.acs <=> Doc("basis", e) \in ledger.acs)
      BY <3>1, ContractsDiffer DEF Doc
    <3>5. UsedSeen' = UsedSeen
      BY <3>1, <3>3, <3>4 DEF UsedSeen
    <3>6. QED
      BY <3>2, <3>5
  <2>3. CASE \E leg \in Legs : Mints(leg) \/ Allocates(leg)
    <3>1. PICK leg \in Legs : Mints(leg) \/ Allocates(leg)
      BY <2>3
    <3>2. ledger'.acs \in {ledger.acs, ledger.acs \cup {Allocation(leg, epoch)}} /\ assembled' = assembled
      BY <3>1 DEF Mints, Allocates
    <3>3. \A t, e : t # "allocation" => (Doc(t, e) \in ledger'.acs <=> Doc(t, e) \in ledger.acs)
      BY <3>2, TemplatesOf
    <3>4. QED
      BY <3>2, <3>3 DEF settled, UsedSeen
  <2>4. QED
    BY <2>1, <2>2, <2>3
<1>4. QED
  BY <1>2, <1>3, NothingSeen DEF PromiseStep, PromiseVars

LEMMA PromiseKept ==
  ASSUME SeatsInv, SeatsInv', [SeatsNext]_seatVars
  PROVE  PromiseStep
<1>1. CASE SeatsNext
  <2>1. Effect
    BY <1>1, StepsHaveEffects DEF SeatsInv
  <2>2. QED
    BY <2>1, ArrangesPromised, ClosesPromised, OthersPromised DEF Effect
<1>2. CASE UNCHANGED seatVars
  BY <1>2 DEF seatVars, PromiseStep, PromiseVars, OutcomeSeen, AgreedSeen, UsedSeen, settled, RoomsOf
<1>3. QED
  BY <1>1, <1>2

\* The sandbox ledger, driven by the pages, implements the closing room's
\* promise: each deal closes at most once, after the consent to it, on a basis
\* no other close has spent.
THEOREM SandboxKeepsThePromise == SeatsSpec => SandboxEndsAsPromised
<1>1. SeatsInit => Promise!OutcomeInit
  <2>1. SUFFICES ASSUME SeatsInit PROVE Promise!OutcomeInit
    OBVIOUS
  <2>2. assembled = {} /\ ledger = create(NewLedger, {Doc("valuation", 1)}).ledger
    BY <2>1 DEF SeatsInit, SeatsFrom
  <2>3. ledger.rooms = <<>> /\ \A e : ~settled(e)
    BY <2>2, ContractsDiffer DEF create, Done, NewLedger, settled, Doc
  <2>4. \A e : RoomsOf(e) = {}
    BY <2>3, EmptySeq, LenProperties DEF RoomsOf
  <2>5. QED
    BY <2>2, <2>3, <2>4 DEF Promise!OutcomeInit
<1>2. SeatsInv /\ SeatsInv' /\ [SeatsNext]_seatVars
        => [Promise!OutcomeNext]_<<OutcomeSeen, AgreedSeen, UsedSeen>>
  <2>1. SUFFICES ASSUME SeatsInv, SeatsInv', [SeatsNext]_seatVars
                 PROVE  [Promise!OutcomeNext]_<<OutcomeSeen, AgreedSeen, UsedSeen>>
    OBVIOUS
  <2>2. PromiseStep
    BY <2>1, PromiseKept
  <2>3. QED
    BY <2>2 DEF PromiseStep, PromiseVars, Promise!OutcomeNext, Promise!Agree, Promise!Settle, OutcomeSeen, AgreedSeen,
           UsedSeen
<1>3. QED
  BY <1>1, <1>2, SeatsInvariant, PTL
     DEF SeatsSpec, SandboxEndsAsPromised, Promise!OutcomeSpec, OutcomeSeen, AgreedSeen, UsedSeen

(* What the steppers show.                                                   *)
Past == {"Consented", "Electing", "Closed"}

\* The only room of the deal gets on and never back.
LEMMA RoomGoesOn ==
  ASSUME SeatsInv, SeatsInv', Effect, epoch' = epoch, ~TwoRooms', Opened
  PROVE  /\ Opened'
         /\ ledger.rooms[GpDeal].stage \in Past => ledger'.rooms[GpDeal'].stage \in Past
         /\ ledger.rooms[GpDeal].stage = "Closed" => ledger'.rooms[GpDeal'].stage = "Closed"
         /\ ledger.rooms[GpDeal].priced => ledger'.rooms[GpDeal'].priced
<1>1. CASE ledger'.rooms = ledger.rooms
  <2>1. RoomsOf(epoch)' = RoomsOf(epoch)
    BY <1>1 DEF RoomsOf
  <2>2. GpDeal' = GpDeal /\ Opened'
    BY <2>1 DEF GpDeal, Opened
  <2>3. QED
    BY <1>1, <2>2
<1>2. ASSUME NEW i, NEW room, Follows(ledger.rooms, i, room, ledger'.rooms), room.epoch = epoch,
             i \in DOMAIN ledger.rooms => ledger.rooms[i].epoch = epoch /\ ledger.rooms[i].stage # "Closed",
             i = GpDeal =>
               /\ ledger.rooms[GpDeal].stage \in Past => room.stage \in Past
               /\ ledger.rooms[GpDeal].priced => room.priced
      PROVE  /\ Opened'
             /\ ledger.rooms[GpDeal].stage \in Past => ledger'.rooms[GpDeal'].stage \in Past
             /\ ledger.rooms[GpDeal].stage = "Closed" => ledger'.rooms[GpDeal'].stage = "Closed"
             /\ ledger.rooms[GpDeal].priced => ledger'.rooms[GpDeal'].priced
  <2>1. GpDeal' = Len(ledger'.rooms) /\ ledger'.rooms[GpDeal'] = room /\ Opened'
    BY <1>2, RoomsFollow
  <2>2. GpDeal \in DOMAIN ledger.rooms /\ ledger.rooms[GpDeal].epoch = epoch
    BY TheRooms DEF SeatsInv, RoomsOf
  <2>3. i = GpDeal
    <3>1. SUFFICES ASSUME i # GpDeal PROVE FALSE
      OBVIOUS
    <3>2. PICK j \in DOMAIN ledger'.rooms : j < Len(ledger'.rooms) /\ ledger'.rooms[j] = ledger.rooms[GpDeal]
      BY <1>2, <2>2, <3>1 DEF Follows
    <3>3. j \in RoomsOf(epoch)'
      BY <2>2, <3>2 DEF RoomsOf
    <3>4. Len(ledger'.rooms) \in RoomsOf(epoch)'
      BY <1>2 DEF RoomsOf, Follows
    <3>5. j # Len(ledger'.rooms)
      <4>1. ledger'.rooms \in Seq(RoomRecord)
        BY <1>2 DEF Follows
      <4>2. Len(ledger'.rooms) \in Nat /\ j \in Nat
        BY <3>2, <4>1, LenProperties
      <4> DEFINE n == Len(ledger'.rooms)
      <4>3. n \in Nat /\ j < n
        BY <3>2, <4>2
      <4> HIDE DEF n
      <4>4. j # n
        BY <4>2, <4>3
      <4>5. QED
        BY <4>4 DEF n
    <3>6. TwoRooms'
      BY <3>3, <3>4, <3>5 DEF TwoRooms
    <3>7. QED
      BY <3>6
  <2>4. QED
    BY <1>2, <2>1, <2>2, <2>3
<1>3. CASE \E i \in Nat : \E room \in RoomRecord : Arranges(i, room)
  <2>1. PICK i \in Nat, room \in RoomRecord : Arranges(i, room)
    BY <1>3
  <2>2. i \in DOMAIN ledger.rooms => ledger.rooms[i].epoch = epoch /\ ledger.rooms[i].stage # "Closed"
    BY <2>1, TheRooms DEF SeatsInv, Arranges, RoomsOf, Terminal
  <2>3. GpDeal # 0
    BY TheRooms DEF SeatsInv
  <2>4. i = GpDeal => /\ ledger.rooms[GpDeal].stage \in Past => room.stage \in Past
                      /\ ledger.rooms[GpDeal].priced => room.priced
    BY <2>1, <2>3 DEF Arranges, Past
  <2>5. Follows(ledger.rooms, i, room, ledger'.rooms) /\ room.epoch = epoch
    BY <2>1 DEF Arranges
  <2>6. QED
    BY <1>2, <2>2, <2>4, <2>5
<1>4. CASE \E i \in Nat : Closes(i)
  <2>1. PICK i \in Nat : Closes(i)
    BY <1>4
  <2> DEFINE room == [ledger.rooms[i] EXCEPT !.stage = "Closed"]
  <2>2. ledger.rooms[i] \in RoomRecord /\ ledger.rooms[i].epoch = epoch /\ ledger.rooms[i].stage # "Closed"
    BY <2>1, TheRooms DEF SeatsInv, Closes, RoomsOf
  <2>3. room.epoch = epoch /\ room.stage = "Closed" /\ room.priced = ledger.rooms[i].priced
    BY <2>2 DEF RoomRecord
  <2>4. Follows(ledger.rooms, i, room, ledger'.rooms)
    BY <2>1 DEF Closes
  <2> HIDE DEF room
  <2>5. i = GpDeal => /\ ledger.rooms[GpDeal].stage \in Past => room.stage \in Past
                      /\ ledger.rooms[GpDeal].priced => room.priced
    BY <2>3 DEF Past
  <2>6. QED
    BY <1>2, <2>2, <2>3, <2>4, <2>5
<1>5. QED
  BY <1>1, <1>3, <1>4 DEF Effect, Aside, Beside, Mints, Allocates, Assembles

\* No step takes a valuation or a receipt away, nor from a holder's purse.
LEMMA NothingTaken ==
  ASSUME SeatsInv, Effect
  PROVE  /\ \A t \in {"valuation", "receipt"} : Doc(t, epoch) \in ledger.acs => Doc(t, epoch) \in ledger'.acs
         /\ \A x \in Purse : x[1] # "gp" =>
              ledger.held[x] \in Nat /\ ledger'.held[x] \in Nat /\ ledger.held[x] <= ledger'.held[x]
<1>1. ledger.held \in [Purse -> Nat] /\ ledger'.held \in [Purse -> Nat] /\ epoch \in Epochs
  BY DEF SeatsInv, Typed, LedgerRecord, Effect, Aside, Beside, Arranges, Mints, Allocates, Assembles, Closes
<1>2. CASE Aside
  <2>1. \A t \in {"valuation", "receipt"} : Doc(t, epoch) \in ContractRecord /\ Doc(t, epoch).template \in Lasting
    BY <1>1, ContractsTyped, TemplatesOf DEF Template, Papers, AtStake, Lasting
  <2>2. ledger'.held = ledger.held
    BY <1>2 DEF Aside, Beside
  <2>3. QED
    BY <1>1, <1>2, <2>1, <2>2 DEF Aside, Beside
<1>3. CASE Assembles \/ \E i \in Nat : \E room \in RoomRecord : Arranges(i, room)
  BY <1>1, <1>3 DEF Assembles, Arranges
<1>4. CASE \E leg \in Legs : Mints(leg) \/ Allocates(leg)
  BY <1>1, <1>4 DEF Mints, Allocates, OthersKeep
<1>5. CASE \E i \in Nat : Closes(i)
  <2>1. ledger'.acs = (ledger.acs \ Spent) \cup Receipts(epoch)
        /\ \A x \in Purse : ledger'.held[x] = ledger.held[x] + Brings(x)
    BY <1>5 DEF Closes
  <2>2. \A t \in {"valuation", "receipt"} : Doc(t, epoch) \notin Spent
    BY ContractsDiffer DEF Spent, Doc, Allocation, For
  <2>3. \A x \in Purse : Brings(x) \in Nat
    BY LegAmounts DEF Brings, Legs
  <2>4. ASSUME NEW x \in Purse PROVE ledger.held[x] <= ledger'.held[x]
    <3> DEFINE n == ledger.held[x]
               b == Brings(x)
    <3>1. n \in Nat /\ b \in Nat /\ ledger'.held[x] = n + b
      BY <1>1, <2>1, <2>3
    <3> HIDE DEF n, b
    <3>2. n <= ledger'.held[x]
      BY <3>1
    <3>3. QED
      BY <3>2 DEF n
  <2>5. QED
    BY <1>1, <2>1, <2>2, <2>4
<1>6. QED
  BY <1>2, <1>3, <1>4, <1>5 DEF Effect

LEMMA ShownStays ==
  ASSUME SeatsInv, SeatsInv', Effect, epoch' = epoch, ~TwoRooms'
  PROVE  \A seat \in Room : stepper(seat) \subseteq stepper(seat)'
<1>1. /\ DealIn(Past) => DealIn(Past)'
      /\ DealIn({"Closed"}) => DealIn({"Closed"})'
      /\ priced => priced'
  BY RoomGoesOn DEF DealIn, priced
<1>2. /\ GpHas("valuation") => GpHas("valuation")'
      /\ \A seat \in Room : Sees(seat, Doc("receipt", epoch)) => Sees(seat, Doc("receipt", epoch))'
  BY NothingTaken DEF GpHas, Sees, visible
<1>3. dealClosed => dealClosed'
  BY <1>1, <1>2 DEF dealClosed, GpHas, DealIn, Room
<1>4. \A seat \in Holders, e \in {0, epoch} : ledger.held[seat, e] > 0 => ledger'.held[seat, e] > 0
  <2>1. ASSUME NEW seat \in Holders, NEW e \in {0, epoch}, ledger.held[seat, e] > 0
        PROVE  ledger'.held[seat, e] > 0
    <3>1. <<seat, e>> \in Purse /\ seat # "gp"
      BY DEF Purse, Holders, LPs, SeatsInv, Typed
    <3> DEFINE m == ledger.held[seat, e]
               n == ledger'.held[seat, e]
    <3>2. m \in Nat /\ n \in Nat /\ m <= n /\ m > 0
      BY <2>1, <3>1, NothingTaken
    <3> HIDE DEF m, n
    <3>3. n > 0
      BY <3>2
    <3>4. QED
      BY <3>3 DEF n
  <2>2. QED
    BY <2>1
<1>5. deriveStages \subseteq deriveStages'
  BY <1>1, <1>2, <1>3 DEF deriveStages, Past
<1>6. ASSUME NEW seat \in Room, seat # "gp" PROVE miniStages(seat) \subseteq miniStages(seat)'
  <2> DEFINE over == DealIn({"Closed"}) \/ Sees(seat, Doc("receipt", epoch))
             paid == ledger.held[seat, IF seat = "lpExiting" THEN epoch ELSE 0] > 0
  <2>1. over => over'
    BY <1>1, <1>2
  <2>a. over \in BOOLEAN /\ over' \in BOOLEAN /\ paid \in BOOLEAN /\ paid' \in BOOLEAN
    OBVIOUS
  <2>b. /\ DealIn(Past) \in BOOLEAN /\ DealIn(Past)' \in BOOLEAN
        /\ priced \in BOOLEAN /\ priced' \in BOOLEAN
    BY DEF DealIn, priced, Past
  <2>c. (over \/ paid) \in BOOLEAN /\ (over \/ paid)' \in BOOLEAN
    OBVIOUS
  <2>2. CASE seat = "lpac"
    <3>1. /\ miniStages(seat) = LET shown == [consent |-> DealIn(Past), close |-> over]
                                IN {f \in DOMAIN shown : shown[f]}
          /\ miniStages(seat)' = LET shown == [consent |-> DealIn(Past)', close |-> over']
                                 IN {f \in DOMAIN shown : shown[f]}
      BY <2>2 DEF miniStages, Past
    <3> HIDE DEF over
    <3>2. QED
      BY <1>1, <2>a, <2>b, <2>1, <3>1
  <2>3. CASE seat # "lpac"
    <3>1. seat \in Holders
      BY <1>6, <2>3 DEF Room
    <3>2. paid => paid'
      BY <1>4, <3>1
    <3>3. /\ miniStages(seat) = LET shown == [clearing |-> priced, close |-> over \/ paid]
                                IN {f \in DOMAIN shown : shown[f]}
          /\ miniStages(seat)' = LET shown == [clearing |-> priced', close |-> (over \/ paid)']
                                 IN {f \in DOMAIN shown : shown[f]}
      BY <2>3 DEF miniStages
    <3> HIDE DEF over, paid
    <3>4. QED
      BY <1>1, <2>a, <2>b, <2>c, <2>1, <3>2, <3>3
  <2>4. QED
    BY <2>2, <2>3
<1>7. QED
  BY <1>5, <1>6 DEF stepper

\* What a seat's stepper shows as done stays shown until the reset, with one
\* room opened.
THEOREM SteppersGoOn == SeatsSpec => StepperNeverGoesBack
<1>1. SeatsInv /\ SeatsInv' /\ [SeatsNext]_seatVars
        => [ledger' # ledger /\ epoch' = epoch /\ ~TwoRooms'
              => \A seat \in Room : stepper(seat) \subseteq stepper(seat)']_seatVars
  BY ShownStays, StepsHaveEffects DEF SeatsInv
<1>2. QED
  BY <1>1, SeatsInvariant, PTL DEF SeatsSpec, StepperNeverGoesBack

-----------------------------------------------------------------------------
(* The scripts: the steps of their plans                                     *)

ScriptSeat == Room \cup {"valuer"}
StepRecord ==
  [by : ScriptSeat, op : LedgerOps \cup {"onboard", "register", "keep"},
   of : {"wallet", "file", "deal"} \cup Legs \cup Holders \cup ContractRecord, reader : ScriptSeat]

\* What comes where in two sequences joined.
LEMMA JoinedAt ==
  ASSUME NEW X, NEW s \in Seq(X), NEW t \in Seq(X)
  PROVE  /\ s \o t \in Seq(X) /\ Len(s \o t) = Len(s) + Len(t)
         /\ \A i \in 1 .. Len(s) : (s \o t)[i] = s[i]
         /\ \A i \in 1 .. Len(t) : (s \o t)[Len(s) + i] = t[i]
OBVIOUS

\* What the scripts create is a contract of the ledger.
LEMMA ContractsAreTyped ==
  /\ factory \in ContractRecord
  /\ \A h \in Holders : Bid(h) \in ContractRecord /\ Filed(h) \in ContractRecord
  /\ \A t \in Papers \cup {"basis"} : Doc(t, 1) \in ContractRecord
  /\ \A l \in Legs : Allocation(l, 1) \in ContractRecord
  /\ \A t \in Asked \cup Granted, h \in Holders : For(t, h) \in ContractRecord
<1>1. \A t \in Template, of \in Subject, e \in {0, 1} : Contract(t, of, e) \in ContractRecord
  <2>1. {0, 1} \subseteq Epochs \cup {0}
    BY LegAmounts DEF Epochs
  <2>2. QED
    BY <2>1 DEF Contract, ContractRecord
<1>2. QED
  BY <1>1 DEF factory, Bid, Filed, Doc, Allocation, For, Template, Subject, AtStake, Holders, LPs

(* The wallet script, a part at a time *)
\* Steps W has s from the step after m on.
Holds(W, m, s) == \A i \in DOMAIN s : W[m + i] = s[i]

\* The seats, operations and contracts steps are made of.
LEMMA StepsAreTyped ==
  /\ \A by \in ScriptSeat, reader \in ScriptSeat, op \in LedgerOps \cup {"onboard", "register", "keep"},
       of \in {"wallet", "file", "deal"} \cup Legs \cup Holders \cup ContractRecord : S(by, op, of, reader) \in StepRecord
  /\ {"gp", "lpac", "buyer", "lpExiting", "lpRolling", "valuer"} \subseteq ScriptSeat
  /\ {"buyer", "lpExiting", "lpRolling"} \subseteq Holders /\ {"lpExiting", "lpRolling"} \subseteq LPs
BY DEF S, StepRecord, ScriptSeat, Room, Holders, LPs

\* Steps that have two parts joined have the one, and then the other.
LEMMA Joined ==
  ASSUME NEW s \in Seq(StepRecord), NEW t \in Seq(StepRecord), NEW W, NEW m \in Nat, Holds(W, m, s \o t)
  PROVE  Holds(W, m, s) /\ Holds(W, m + Len(s), t)
<1>1. /\ s \o t \in Seq(StepRecord) /\ Len(s \o t) = Len(s) + Len(t)
      /\ \A i \in 1 .. Len(s) : (s \o t)[i] = s[i]
      /\ \A i \in 1 .. Len(t) : (s \o t)[Len(s) + i] = t[i]
  BY JoinedAt
<1>2. /\ DOMAIN s = 1 .. Len(s) /\ DOMAIN t = 1 .. Len(t) /\ DOMAIN (s \o t) = 1 .. (Len(s) + Len(t))
      /\ Len(s) \in Nat /\ Len(t) \in Nat
  BY <1>1, LenProperties
<1>3. ASSUME NEW i \in DOMAIN s PROVE W[m + i] = s[i]
  BY <1>1, <1>2, <1>3 DEF Holds
<1>4. ASSUME NEW i \in DOMAIN t PROVE W[m + Len(s) + i] = t[i]
  <2>1. Len(s) + i \in DOMAIN (s \o t) /\ m + Len(s) + i = m + (Len(s) + i)
    BY <1>2, <1>4
  <2>2. W[m + (Len(s) + i)] = (s \o t)[Len(s) + i]
    BY <2>1 DEF Holds
  <2>3. QED
    BY <1>1, <1>2, <2>1, <2>2
<1>5. QED
  BY <1>3, <1>4 DEF Holds

\* Each part of the wallet close is so many steps long.
LEMMA PartsOfThePlan ==
  /\ ProvisionSteps \in Seq(StepRecord) /\ Len(ProvisionSteps) = 8
  /\ RoomSteps \in Seq(StepRecord) /\ Len(RoomSteps) = 5
  /\ DecisionSteps \in Seq(StepRecord) /\ Len(DecisionSteps) = 3
  /\ BasisSteps \in Seq(StepRecord) /\ Len(BasisSteps) = 6
  /\ \A l \in Legs : Arranged(l) \in Seq(StepRecord) /\ Len(Arranged(l)) = 2
  /\ \A h \in Holders : LET s == Accepted("EDP_Accept", "proposal", "gp", h, h) IN s \in Seq(StepRecord) /\ Len(s) = 2
  /\ \A h \in LPs : oldFund(h) \in Seq(StepRecord) /\ Len(oldFund(h)) = 2
  /\ \A h \in LPs : participations(h) \in Seq(StepRecord) /\ Len(participations(h)) = 2
  /\ <<Chooses("gp", "Close")>> \in Seq(StepRecord) /\ Len(<<Chooses("gp", "Close")>>) = 1
<1>1. ProvisionSteps \in Seq(StepRecord) /\ Len(ProvisionSteps) = 8
  <2> DEFINE s == [i \in DOMAIN Onboarding |-> S(Onboarding[i], "onboard", "wallet", Onboarding[i])]
             a == S("gp", "register", "file", "gp")
             b == S("gp", "keep", "file", "gp")
             t == <<a, b>>
  <2>1. DOMAIN Onboarding = 1 .. 6 /\ \A i \in 1 .. 6 : Onboarding[i] \in ScriptSeat
    BY StepsAreTyped DEF Onboarding
  <2>2. s \in [1 .. 6 -> StepRecord]
    BY <2>1, StepsAreTyped
  <2>3. a \in StepRecord /\ b \in StepRecord
    BY StepsAreTyped
  <2> HIDE DEF s, a, b
  <2>4. s \in Seq(StepRecord) /\ Len(s) = 6
    <3>1. 6 \in Nat /\ DOMAIN s = 1 .. 6
      BY ONLY <2>2
    <3>2. s \in UNION {[1 .. n -> StepRecord] : n \in Nat}
      BY ONLY <2>2, <3>1
    <3>3. Seq(StepRecord) = UNION {[1 .. n -> StepRecord] : n \in Nat}
      BY SeqDef
    <3>4. s \in Seq(StepRecord)
      BY ONLY <3>2, <3>3, Zenon
    <3>5. QED
      BY ONLY <3>1, <3>4
  <2>5. t \in Seq(StepRecord) /\ Len(t) = 2
    BY ONLY <2>3
  <2> HIDE DEF t
  <2>6. ProvisionSteps = s \o t
    BY DEF ProvisionSteps, s, t, a, b
  <2>7. s \o t \in Seq(StepRecord) /\ Len(s \o t) = Len(s) + Len(t)
    BY ONLY <2>4, <2>5, JoinedAt
  <2>8. QED
    BY ONLY <2>4, <2>5, <2>6, <2>7
<1>2. RoomSteps \in Seq(StepRecord) /\ Len(RoomSteps) = 5
  <2>1. /\ Creates("gp", factory) \in StepRecord /\ Chooses("gp", "room") \in StepRecord
        /\ Chooses("gp", "SetClearing") \in StepRecord /\ Chooses("lpac", "RecordConsent") \in StepRecord
        /\ Chooses("gp", "OpenElections") \in StepRecord
    BY StepsAreTyped, ContractsAreTyped DEF Creates, Chooses, LedgerOps
  <2>2. QED
    BY ONLY <2>1 DEF RoomSteps
<1>3. DecisionSteps \in Seq(StepRecord) /\ Len(DecisionSteps) = 3
  <2>1. /\ Creates("buyer", Bid("buyer")) \in StepRecord /\ Creates("lpExiting", Filed("lpExiting")) \in StepRecord
        /\ Creates("lpRolling", Filed("lpRolling")) \in StepRecord
    BY StepsAreTyped, ContractsAreTyped DEF Creates, LedgerOps
  <2>2. QED
    BY ONLY <2>1 DEF DecisionSteps
<1>4. BasisSteps \in Seq(StepRecord) /\ Len(BasisSteps) = 6
  <2>1. /\ ForGp("valuer", Doc("valuation", 1)) \in StepRecord /\ ForGp("lpac", Doc("opinion", 1)) \in StepRecord
        /\ ForGp("gp", Doc("cert", 1)) \in StepRecord /\ ForGp("lpac", Doc("consent", 1)) \in StepRecord
        /\ ForGp("gp", Doc("psa", 1)) \in StepRecord /\ ForGp("gp", Doc("basis", 1)) \in StepRecord
    BY StepsAreTyped, ContractsAreTyped DEF ForGp, LedgerOps, Papers
  <2>2. QED
    BY ONLY <2>1 DEF BasisSteps
<1>5. ASSUME NEW l \in Legs PROVE Arranged(l) \in Seq(StepRecord) /\ Len(Arranged(l)) = 2
  <2>1. S("gp", "mint", l, "gp") \in StepRecord /\ S("gp", "Allocate", l, "gp") \in StepRecord
    BY StepsAreTyped DEF LedgerOps
  <2>2. QED
    BY ONLY <2>1 DEF Arranged
<1>6. ASSUME NEW op \in LedgerOps, NEW t \in Asked, NEW proposer \in ScriptSeat, NEW party \in Holders, NEW acceptor \in ScriptSeat
      PROVE  Accepted(op, t, proposer, party, acceptor) \in Seq(StepRecord)
             /\ Len(Accepted(op, t, proposer, party, acceptor)) = 2
  <2>1. "create" \in LedgerOps /\ For(t, party) \in ContractRecord
    BY ContractsAreTyped DEF LedgerOps
  <2>2. S(proposer, "create", For(t, party), acceptor) \in StepRecord /\ S(acceptor, op, party, acceptor) \in StepRecord
    BY <2>1, StepsAreTyped
  <2>3. QED
    BY ONLY <2>2 DEF Accepted
<1>7. /\ \A h \in Holders : LET s == Accepted("EDP_Accept", "proposal", "gp", h, h) IN s \in Seq(StepRecord) /\ Len(s) = 2
      /\ \A h \in LPs : oldFund(h) \in Seq(StepRecord) /\ Len(oldFund(h)) = 2
      /\ \A h \in LPs : participations(h) \in Seq(StepRecord) /\ Len(participations(h)) = 2
  <2>1. {"EDP_Accept", "OFI_Accept", "Accept"} \subseteq LedgerOps /\ {"proposal", "offer", "participation"} \subseteq Asked
        /\ Holders \subseteq ScriptSeat /\ LPs \subseteq Holders /\ "gp" \in ScriptSeat
    BY DEF LedgerOps, Asked, ScriptSeat, Room, Holders
  <2>2. QED
    BY <1>6, <2>1 DEF oldFund, participations
<1>8. <<Chooses("gp", "Close")>> \in Seq(StepRecord) /\ Len(<<Chooses("gp", "Close")>>) = 1
  <2>1. Chooses("gp", "Close") \in StepRecord
    BY StepsAreTyped DEF Chooses, LedgerOps
  <2>2. QED
    BY ONLY <2>1
<1>9. QED
  BY ONLY <1>1, <1>2, <1>3, <1>4, <1>5, <1>7, <1>8

\* Where each part of the wallet close comes.
LEMMA WalletPlan ==
  /\ WalletSteps \in Seq(StepRecord) /\ Len(WalletSteps) = 43
  /\ Holds(WalletSteps, 0, ProvisionSteps) /\ Holds(WalletSteps, 8, RoomSteps)
  /\ Holds(WalletSteps, 13, DecisionSteps) /\ Holds(WalletSteps, 16, BasisSteps)
  /\ Holds(WalletSteps, 22, Arranged("unit")) /\ Holds(WalletSteps, 24, Arranged("roll"))
  /\ Holds(WalletSteps, 26, Arranged("cash"))
  /\ Holds(WalletSteps, 28, Accepted("EDP_Accept", "proposal", "gp", "buyer", "buyer"))
  /\ Holds(WalletSteps, 30, Accepted("EDP_Accept", "proposal", "gp", "lpExiting", "lpExiting"))
  /\ Holds(WalletSteps, 32, Accepted("EDP_Accept", "proposal", "gp", "lpRolling", "lpRolling"))
  /\ Holds(WalletSteps, 34, oldFund("lpExiting")) /\ Holds(WalletSteps, 36, oldFund("lpRolling"))
  /\ Holds(WalletSteps, 38, participations("lpExiting")) /\ Holds(WalletSteps, 40, participations("lpRolling"))
  /\ Holds(WalletSteps, 42, <<Chooses("gp", "Close")>>)
<1> DEFINE last == <<Chooses("gp", "Close")>>
           d(h) == Accepted("EDP_Accept", "proposal", "gp", h, h)
           T == StepRecord
           Long(s, n) == s \in Seq(T) /\ Len(s) = n
<1>1. ASSUME NEW s, NEW t, NEW m \in Nat, NEW n \in Nat, Long(s, m), Long(t, n) PROVE Long(s \o t, m + n)
  BY ONLY <1>1
<1>2. /\ {"unit", "roll", "cash"} \subseteq Legs /\ {"buyer", "lpExiting", "lpRolling"} \subseteq Holders
      /\ {"lpExiting", "lpRolling"} \subseteq LPs
  BY DEF Legs, Holders, LPs
<1>3. /\ Long(ProvisionSteps, 8) /\ Long(RoomSteps, 5) /\ Long(DecisionSteps, 3) /\ Long(BasisSteps, 6) /\ Long(last, 1)
      /\ Long(Arranged("unit"), 2) /\ Long(Arranged("roll"), 2) /\ Long(Arranged("cash"), 2)
      /\ Long(d("buyer"), 2) /\ Long(d("lpExiting"), 2) /\ Long(d("lpRolling"), 2)
      /\ Long(oldFund("lpExiting"), 2) /\ Long(oldFund("lpRolling"), 2)
      /\ Long(participations("lpExiting"), 2) /\ Long(participations("lpRolling"), 2)
  BY <1>2, PartsOfThePlan
<1> HIDE DEF Long, last, d
<1>4. Long(DealSteps, 14) /\ Long(RoomSteps \o DecisionSteps, 8)
  BY ONLY <1>1, <1>3 DEF DealSteps
<1>5. Long(LegSteps, 6)
  BY ONLY <1>1, <1>3 DEF LegSteps
<1>6. Long(delegations, 6)
  BY ONLY <1>1, <1>3 DEF delegations, d
<1>7. Long(AuthoritySteps, 14)
  BY ONLY <1>1, <1>3, <1>6 DEF AuthoritySteps
<1>8. Long(WalletSteps, 43)
  BY ONLY <1>1, <1>3, <1>4, <1>5, <1>7 DEF WalletSteps, last
<1>9. ASSUME NEW s, NEW t, NEW V, NEW m \in Nat, NEW n \in Nat, NEW k \in Nat, Long(s, n), Long(t, k), Holds(V, m, s \o t)
      PROVE  Holds(V, m, s) /\ Holds(V, m + n, t)
  BY <1>9, Joined DEF Long
<1>10. Holds(WalletSteps, 0, WalletSteps)
  <2>1. DOMAIN WalletSteps = 1 .. 43
    BY ONLY <1>8 DEF Long
  <2>2. QED
    BY <2>1 DEF Holds
<1>11. WalletSteps = (((ProvisionSteps \o DealSteps) \o LegSteps) \o AuthoritySteps) \o last
  BY DEF WalletSteps, last
<1>12. /\ Long(ProvisionSteps \o DealSteps, 22) /\ Long((ProvisionSteps \o DealSteps) \o LegSteps, 28)
       /\ Long(((ProvisionSteps \o DealSteps) \o LegSteps) \o AuthoritySteps, 42)
  BY ONLY <1>1, <1>3, <1>4, <1>5, <1>7
<1> DEFINE W == WalletSteps
<1> HIDE DEF W
<1>13. W = WalletSteps
  BY DEF W
<1>14. Holds(W, 0, ProvisionSteps \o DealSteps) /\ Holds(W, 22, LegSteps) /\ Holds(W, 28, AuthoritySteps) /\ Holds(W, 42, last)
  <2>1. Holds(W, 0, ((ProvisionSteps \o DealSteps) \o LegSteps) \o AuthoritySteps) /\ Holds(W, 0 + 42, last)
    BY ONLY <1>3, <1>9, <1>10, <1>11, <1>12, <1>13
  <2>2. Holds(W, 0, (ProvisionSteps \o DealSteps) \o LegSteps) /\ Holds(W, 0 + 28, AuthoritySteps)
    BY ONLY <1>7, <1>9, <1>12, <2>1
  <2>3. Holds(W, 0, ProvisionSteps \o DealSteps) /\ Holds(W, 0 + 22, LegSteps)
    BY ONLY <1>5, <1>9, <1>12, <2>2
  <2>4. QED
    BY ONLY <2>1, <2>2, <2>3
<1>15. /\ Holds(W, 0, ProvisionSteps) /\ Holds(W, 8, RoomSteps) /\ Holds(W, 13, DecisionSteps) /\ Holds(W, 16, BasisSteps)
  <2>1. Holds(W, 0, ProvisionSteps) /\ Holds(W, 0 + 8, (RoomSteps \o DecisionSteps) \o BasisSteps)
    BY ONLY <1>3, <1>4, <1>9, <1>14 DEF DealSteps
  <2>2. Holds(W, 8, RoomSteps \o DecisionSteps) /\ Holds(W, 8 + 8, BasisSteps)
    BY ONLY <1>3, <1>4, <1>9, <2>1
  <2>3. Holds(W, 8, RoomSteps) /\ Holds(W, 8 + 5, DecisionSteps)
    BY ONLY <1>3, <1>9, <2>2
  <2>4. QED
    BY ONLY <2>1, <2>2, <2>3
<1>16. Holds(W, 22, Arranged("unit")) /\ Holds(W, 24, Arranged("roll")) /\ Holds(W, 26, Arranged("cash"))
  <2>1. Long(Arranged("unit") \o Arranged("roll"), 4)
    BY ONLY <1>1, <1>3
  <2>2. Holds(W, 22, Arranged("unit") \o Arranged("roll")) /\ Holds(W, 22 + 4, Arranged("cash"))
    BY ONLY <1>3, <1>9, <1>14, <2>1 DEF LegSteps
  <2>3. Holds(W, 22, Arranged("unit")) /\ Holds(W, 22 + 2, Arranged("roll"))
    BY ONLY <1>3, <1>9, <2>2
  <2>4. QED
    BY ONLY <2>2, <2>3
<1>17. /\ Holds(W, 28, delegations) /\ Holds(W, 34, oldFund("lpExiting")) /\ Holds(W, 36, oldFund("lpRolling"))
       /\ Holds(W, 38, participations("lpExiting")) /\ Holds(W, 40, participations("lpRolling"))
  <2> DEFINE a == delegations \o oldFund("lpExiting")
             b == a \o oldFund("lpRolling")
             c == b \o participations("lpExiting")
  <2>1. Long(a, 8)
    BY ONLY <1>1, <1>3, <1>6
  <2>2. Long(b, 10)
    BY ONLY <1>1, <1>3, <2>1
  <2>3. Long(c, 12)
    BY ONLY <1>1, <1>3, <2>2
  <2>4. Holds(W, 28, c) /\ Holds(W, 28 + 12, participations("lpRolling"))
    BY ONLY <1>3, <1>9, <1>14, <2>3 DEF AuthoritySteps
  <2>5. Holds(W, 28, b) /\ Holds(W, 28 + 10, participations("lpExiting"))
    BY ONLY <1>3, <1>9, <2>2, <2>4
  <2>6. Holds(W, 28, a) /\ Holds(W, 28 + 8, oldFund("lpRolling"))
    BY ONLY <1>3, <1>9, <2>1, <2>5
  <2>7. Holds(W, 28, delegations) /\ Holds(W, 28 + 6, oldFund("lpExiting"))
    BY ONLY <1>3, <1>6, <1>9, <2>6
  <2>8. QED
    BY ONLY <2>4, <2>5, <2>6, <2>7
<1>18. Holds(W, 28, d("buyer")) /\ Holds(W, 30, d("lpExiting")) /\ Holds(W, 32, d("lpRolling"))
  <2>1. Long(d("buyer") \o d("lpExiting"), 4)
    BY ONLY <1>1, <1>3
  <2>2. delegations = (d("buyer") \o d("lpExiting")) \o d("lpRolling")
    BY DEF delegations, d
  <2>3. Holds(W, 28, d("buyer") \o d("lpExiting")) /\ Holds(W, 28 + 4, d("lpRolling"))
    BY ONLY <1>3, <1>9, <1>17, <2>1, <2>2
  <2>4. Holds(W, 28, d("buyer")) /\ Holds(W, 28 + 2, d("lpExiting"))
    BY ONLY <1>3, <1>9, <2>3
  <2>5. QED
    BY ONLY <2>3, <2>4
<1>19. QED
  BY ONLY <1>8, <1>13, <1>14, <1>15, <1>16, <1>17, <1>18 DEF Long, last, d

(* What the wallet close has of the ledger before its step n.                *)
\* The steps that write a paper, mint a leg, propose a delegation or an offer
\* and ask for a participation: the step after each takes it up.
PaperNo == [valuation |-> 17, opinion |-> 18, cert |-> 19, consent |-> 20, psa |-> 21, basis |-> 22]
LegNo == [unit |-> 23, roll |-> 25, cash |-> 27]
DelegationNo == [buyer |-> 29, lpExiting |-> 31, lpRolling |-> 33]
InterestNo == [lpExiting |-> 35, lpRolling |-> 37]
AdmissionNo == [lpExiting |-> 39, lpRolling |-> 41]
RoomFresh == [epoch |-> 1, stage |-> "Setup", priced |-> FALSE]
RoomPriced == [RoomFresh EXCEPT !.priced = TRUE]
RoomConsented == [RoomPriced EXCEPT !.stage = "Consented"]
RoomElecting == [RoomConsented EXCEPT !.stage = "Electing"]
RoomAt(n) ==
  IF n <= 10 THEN <<>>
  ELSE <<IF n = 11 THEN RoomFresh ELSE IF n = 12 THEN RoomPriced ELSE IF n = 13 THEN RoomConsented ELSE RoomElecting>>
\* Not before the close, or not at all.
Never == {Doc("receipt", 1)} \cup {For(t, "buyer") : t \in {"offer", "participation", "interest"}}
WalletAt(g, n) ==
  /\ g.rooms = RoomAt(n)
  /\ n > 9 => factory \in g.acs
  /\ \A t \in DOMAIN PaperNo : n > PaperNo[t] => Doc(t, 1) \in g.acs
  /\ \A l \in Legs : /\ n = LegNo[l] + 1 => g.held[<<"gp", instrument(l, 1)>>] >= amount[l]
                     /\ n > LegNo[l] + 1 => Allocation(l, 1) \in g.acs
  /\ \A p \in Holders : /\ For("proposal", p) \in g.acs <=> n = DelegationNo[p] + 1
                        /\ n > DelegationNo[p] + 1 => For("delegation", p) \in g.acs
  /\ \A p \in LPs : /\ For("offer", p) \in g.acs <=> n = InterestNo[p] + 1
                    /\ n > InterestNo[p] + 1 => For("interest", p) \in g.acs
  /\ \A p \in LPs : /\ For("participation", p) \in g.acs <=> n = AdmissionNo[p] + 1
                    /\ n > AdmissionNo[p] + 1 => For("accepted", p) \in g.acs
  /\ g.acs \cap Never = {}

\* Contracts of different kinds, parties or deals are different.
LEMMA ContractsApart ==
  /\ \A t, e, t1, e1 : Doc(t, e) = Doc(t1, e1) <=> t = t1 /\ e = e1
  /\ \A t, h, t1, h1 : For(t, h) = For(t1, h1) <=> t = t1 /\ h = h1
  /\ \A l, e, l1, e1 : Allocation(l, e) = Allocation(l1, e1) <=> l = l1 /\ e = e1
  /\ \A t, e : Doc(t, e).template = t
  /\ \A t, h : For(t, h).template = t
  /\ \A l, e : Allocation(l, e).template = "allocation"
  /\ factory.template = "factory"
  /\ \A h : Bid(h).template = "bid" /\ Filed(h).template = "election"
BY ContractsDiffer DEF Doc, For, Allocation, factory, Bid, Filed

\* What the steps create before the close is none of what there must not be.
LEMMA NotThose ==
  /\ factory \notin Never
  /\ \A h : Bid(h) \notin Never /\ Filed(h) \notin Never
  /\ \A t, e : t # "receipt" => Doc(t, e) \notin Never
  /\ \A l, e : Allocation(l, e) \notin Never
  /\ \A t, p : t \in {"proposal", "delegation", "accepted"} \/ p # "buyer" => For(t, p) \notin Never
<1>1. \A c \in Never : c.template \in {"receipt", "offer", "participation", "interest"}
  BY ContractsApart DEF Never
<1>2. factory \notin Never /\ \A l, e : Allocation(l, e) \notin Never
  BY <1>1, ContractsApart
<1>3. \A h : Bid(h) \notin Never /\ Filed(h) \notin Never
  BY <1>1, ContractsApart
<1>4. \A t, e : t # "receipt" => Doc(t, e) \notin Never
  BY ContractsDiffer DEF Never, Doc, For
<1>5. \A t, p : t \in {"proposal", "delegation", "accepted"} \/ p # "buyer" => For(t, p) \notin Never
  BY ContractsDiffer DEF Never, Doc, For
<1>6. QED
  BY <1>2, <1>3, <1>4, <1>5

\* The step after n leaves the rest as it was.
LEMMA CreatedKeeps ==
  ASSUME NEW g, NEW h, NEW n \in 9 .. 42, NEW c, WalletAt(g, n),
         h.acs = g.acs \cup {c}, h.held = g.held, h.rooms = RoomAt(n + 1),
         n = 9 => c = factory,
         \A t \in DOMAIN PaperNo : n = PaperNo[t] => c = Doc(t, 1),
         \A l \in Legs : n # LegNo[l] /\ n # LegNo[l] + 1,
         \A p \in Holders : n # DelegationNo[p] + 1 /\ (n = DelegationNo[p] <=> c = For("proposal", p)),
         \A p \in LPs : n # InterestNo[p] + 1 /\ (n = InterestNo[p] <=> c = For("offer", p)),
         \A p \in LPs : n # AdmissionNo[p] + 1 /\ (n = AdmissionNo[p] <=> c = For("participation", p)),
         c \notin Never
  PROVE  WalletAt(h, n + 1)
<1>1. /\ \A t \in DOMAIN PaperNo : PaperNo[t] \in Nat
      /\ \A l \in Legs : LegNo[l] \in Nat
      /\ \A p \in Holders : DelegationNo[p] \in Nat
      /\ \A p \in LPs : InterestNo[p] \in Nat /\ AdmissionNo[p] \in Nat
  BY DEF PaperNo, LegNo, DelegationNo, InterestNo, AdmissionNo, Legs, Holders, LPs
<1>2. QED
  BY <1>1 DEF WalletAt

\* Step n takes up a, and b comes of it.
TakesUp(n, a, b) ==
  /\ n # 9 /\ \A t \in DOMAIN PaperNo : n # PaperNo[t]
  /\ \A l \in Legs : n # LegNo[l] /\ n # LegNo[l] + 1
  /\ \A p \in Holders : /\ n # DelegationNo[p] /\ (n = DelegationNo[p] + 1 <=> a = For("proposal", p))
                        /\ n = DelegationNo[p] + 1 => b = For("delegation", p)
  /\ \A p \in LPs : /\ n # InterestNo[p] /\ (n = InterestNo[p] + 1 <=> a = For("offer", p))
                    /\ n = InterestNo[p] + 1 => b = For("interest", p)
  /\ \A p \in LPs : /\ n # AdmissionNo[p] /\ (n = AdmissionNo[p] + 1 <=> a = For("participation", p))
                    /\ n = AdmissionNo[p] + 1 => b = For("accepted", p)
  /\ a.template \in Asked /\ b.template \in Granted /\ b \notin Never
Swapped(g, h, a, b) == h.acs = (g.acs \ {a}) \cup {b} /\ h.held = g.held

\* A step that grants what was asked for leaves what later steps need.
LEMMA TakenUpKeeps ==
  ASSUME NEW g, NEW h, NEW n \in 9 .. 42, NEW a, NEW b, WalletAt(g, n), TakesUp(n, a, b), Swapped(g, h, a, b),
         h.rooms = RoomAt(n + 1)
  PROVE  WalletAt(h, n + 1)
<1>1. /\ \A t \in DOMAIN PaperNo : PaperNo[t] \in Nat
      /\ \A l \in Legs : LegNo[l] \in Nat
      /\ \A p \in Holders : DelegationNo[p] \in Nat
      /\ \A p \in LPs : InterestNo[p] \in Nat /\ AdmissionNo[p] \in Nat
  BY DEF PaperNo, LegNo, DelegationNo, InterestNo, AdmissionNo, Legs, Holders, LPs
<1>2. a.template \in Asked /\ b.template \in Granted /\ h.acs = (g.acs \ {a}) \cup {b} /\ h.held = g.held /\ n # 9 /\ b \notin Never
  BY DEF TakesUp, Swapped
<1>3. \A c : c.template \notin Asked \cup Granted => (c \in h.acs <=> c \in g.acs)
  BY <1>2
<1>4. \A c : c.template \in Granted => (c \in g.acs => c \in h.acs)
  BY <1>2 DEF Asked, Granted
<1>5. \A c : c.template \in Asked => (c \in h.acs <=> c \in g.acs /\ c # a)
  BY <1>2 DEF Asked, Granted
<1>6. \A t \in DOMAIN PaperNo : t \notin Asked \cup Granted
  BY DEF PaperNo, Asked, Granted
<1>7. /\ {"proposal", "offer", "participation"} \subseteq Asked /\ {"delegation", "interest", "accepted"} \subseteq Granted
      /\ "factory" \notin Asked \cup Granted /\ "allocation" \notin Asked \cup Granted /\ "receipt" \notin Asked \cup Granted
  BY DEF Asked, Granted
<1>8. factory \in h.acs /\ h.acs \cap Never = {}
  BY <1>3, <1>7, <1>2, ContractsApart DEF WalletAt, TakesUp
<1>9. \A t \in DOMAIN PaperNo : n + 1 > PaperNo[t] => Doc(t, 1) \in h.acs
  BY <1>1, <1>3, <1>6, <1>2, ContractsApart DEF WalletAt, TakesUp
<1>10. \A l \in Legs : /\ n + 1 = LegNo[l] + 1 => h.held[<<"gp", instrument(l, 1)>>] >= amount[l]
                       /\ n + 1 > LegNo[l] + 1 => Allocation(l, 1) \in h.acs
  BY <1>1, <1>3, <1>7, <1>2, ContractsApart DEF WalletAt, TakesUp
<1>11. \A p \in Holders : /\ For("proposal", p) \in h.acs <=> n + 1 = DelegationNo[p] + 1
                          /\ n + 1 > DelegationNo[p] + 1 => For("delegation", p) \in h.acs
  BY <1>1, <1>4, <1>5, <1>7, <1>2, ContractsApart DEF WalletAt, TakesUp
<1>12. \A p \in LPs : /\ For("offer", p) \in h.acs <=> n + 1 = InterestNo[p] + 1
                      /\ n + 1 > InterestNo[p] + 1 => For("interest", p) \in h.acs
  BY <1>1, <1>4, <1>5, <1>7, <1>2, ContractsApart DEF WalletAt, TakesUp
<1>13. \A p \in LPs : /\ For("participation", p) \in h.acs <=> n + 1 = AdmissionNo[p] + 1
                      /\ n + 1 > AdmissionNo[p] + 1 => For("accepted", p) \in h.acs
  BY <1>1, <1>4, <1>5, <1>7, <1>2, ContractsApart DEF WalletAt, TakesUp
<1>14. h.rooms = RoomAt(n + 1)
  OBVIOUS
<1>15. QED
  BY ONLY <1>8, <1>9, <1>10, <1>11, <1>12, <1>13, <1>14 DEF WalletAt

\* What a step s makes of g, and that the script is told so.
Does(s, g, h) == s.op \in LedgerOps \ {"Close"} /\ s.by = authority(s) /\ Command(s, g) = Done(h) /\ Found(s, h) /\ h \in LedgerRecord

\* A contract that is created by its signatory is there for its reader.
LEMMA CreateDoes ==
  ASSUME NEW g \in LedgerRecord, NEW c \in ContractRecord, NEW reader, reader \in projectionOf(c)
  PROVE  LET h == [g EXCEPT !.acs = @ \cup {c}] IN
         Does(S(signatory(c), "create", c, reader), g, h) /\ h.acs = g.acs \cup {c} /\ h.held = g.held /\ h.rooms = g.rooms
<1> DEFINE h == [g EXCEPT !.acs = @ \cup {c}]
           s == S(signatory(c), "create", c, reader)
<1>1. s.by = signatory(c) /\ s.op = "create" /\ s.of = c /\ s.reader = reader
  BY DEF S
<1> HIDE DEF s
<1>2. h \in LedgerRecord /\ h.acs = g.acs \cup {c} /\ h.held = g.held /\ h.rooms = g.rooms
  BY DEF LedgerRecord
<1>3. authority(s) = signatory(c)
  BY <1>1 DEF authority
<1>4. Command(s, g) = Done(h)
  BY <1>1 DEF Command, create
<1> HIDE DEF h
<1>5. Found(s, h)
  BY <1>1, <1>2 DEF Found, visible
<1>6. QED
  BY <1>1, <1>2, <1>3, <1>4, <1>5 DEF Does, LedgerOps, s, h

Takes == [proposal |-> "EDP_Accept", offer |-> "OFI_Accept", participation |-> "Accept"]
Gives == [proposal |-> "delegation", offer |-> "interest", participation |-> "accepted"]

\* What was asked for is there to grant, and is granted.
LEMMA AcceptDoes ==
  ASSUME NEW g \in LedgerRecord, NEW t \in Asked, NEW p \in Holders, NEW reader, For(t, p) \in g.acs
  PROVE  LET h == [g EXCEPT !.acs = (@ \ {For(t, p)}) \cup {For(Gives[t], p)}]
             by == IF t = "participation" THEN "gp" ELSE p
         IN /\ Does(S(by, Takes[t], p, reader), g, h)
            /\ h.acs = (g.acs \ {For(t, p)}) \cup {For(Gives[t], p)} /\ h.held = g.held /\ h.rooms = g.rooms
<1> DEFINE h == [g EXCEPT !.acs = (@ \ {For(t, p)}) \cup {For(Gives[t], p)}]
           by == IF t = "participation" THEN "gp" ELSE p
           s == S(by, Takes[t], p, reader)
<1>1. s.by = by /\ s.op = Takes[t] /\ s.of = p
  BY DEF S
<1> HIDE DEF s
<1>2. For(Gives[t], p) \in ContractRecord
  BY ContractsAreTyped DEF Asked, Granted, Gives
<1>3. h \in LedgerRecord /\ h.acs = (g.acs \ {For(t, p)}) \cup {For(Gives[t], p)} /\ h.held = g.held /\ h.rooms = g.rooms
  BY <1>2 DEF LedgerRecord
<1>4. Takes[t] \in {"EDP_Accept", "OFI_Accept", "Accept"} /\ (Takes[t] = "Accept" <=> t = "participation")
      /\ (Takes[t] = "EDP_Accept" <=> t = "proposal")
  BY DEF Takes, Asked
<1>5. authority(s) = by
  BY <1>1, <1>4 DEF authority
<1>6. Command(s, g) = Exchange(g, {For(t, p)}, {For(Gives[t], p)})
  <2>1. CASE t = "proposal"
    BY <1>1, <1>4, <2>1 DEF Command, EDP_Accept, Gives
  <2>2. CASE t = "offer"
    BY <1>1, <1>4, <2>2 DEF Command, OFI_Accept, Gives, Takes
  <2>3. CASE t = "participation"
    BY <1>1, <1>4, <2>3 DEF Command, Accept, Gives
  <2>4. QED
    BY <2>1, <2>2, <2>3 DEF Asked
<1>7. Command(s, g) = Done(h)
  BY <1>6 DEF Exchange
<1> HIDE DEF h
<1>8. Found(s, h)
  BY <1>1, <1>4 DEF Found
<1>9. QED
  BY <1>1, <1>3, <1>4, <1>5, <1>7, <1>8 DEF Does, LedgerOps, s, h

(* The room.                                                                 *)
OneRoom(g, r) == [g EXCEPT !.rooms = <<r>>]

\* A choice on the only room leaves the only room.
LEMMA TheOneRoom ==
  ASSUME NEW r, NEW x
  PROVE  /\ Append(RemoveAt(<<r>>, 1), x) = <<x>> /\ Append(<<>>, x) = <<x>>
         /\ Len(<<r>>) = 1 /\ <<r>>[1] = r
<1>1. \A s \in Seq({r}) : SubSeq(s, 1, 0) = <<>> /\ SubSeq(s, 2, 1) = <<>>
  OBVIOUS
<1>2. <<r>> \in Seq({r}) /\ Len(<<r>>) = 1 /\ <<r>>[1] = r
  OBVIOUS
<1>3. RemoveAt(<<r>>, 1) = <<>> \o <<>>
  BY <1>1, <1>2 DEF RemoveAt
<1>4. <<>> \o <<>> = <<>>
  OBVIOUS
<1>5. Append(<<>>, x) = <<x>>
  OBVIOUS
<1>6. RemoveAt(<<r>>, 1) = <<>>
  BY ONLY <1>3, <1>4
<1>7. QED
  BY ONLY <1>2, <1>5, <1>6

\* A ledger with one room is a ledger.
LEMMA OneRoomIsTyped ==
  ASSUME NEW g \in LedgerRecord, NEW r \in RoomRecord
  PROVE  /\ OneRoom(g, r) \in LedgerRecord
         /\ OneRoom(g, r).rooms = <<r>> /\ OneRoom(g, r).acs = g.acs /\ OneRoom(g, r).held = g.held
<1>1. <<r>> \in Seq(RoomRecord)
  OBVIOUS
<1>2. QED
  BY <1>1 DEF OneRoom, LedgerRecord

\* Creating the deal on a ledger without one.
LEMMA RoomComes ==
  ASSUME NEW g \in LedgerRecord
  PROVE  /\ RoomFresh \in RoomRecord
         /\ g.rooms = <<>> => createDeal(g, 1) = Done(OneRoom(g, RoomFresh))
<1>1. RoomFresh \in RoomRecord
  BY LegAmounts DEF RoomFresh, RoomRecord, Stages, Epochs
<1>2. g.rooms = <<>> => Append(g.rooms, RoomFresh) = <<RoomFresh>>
  BY TheOneRoom
<1>3. QED
  BY <1>1, <1>2 DEF createDeal, Done, OneRoom, RoomFresh

\* The choices of the room, at the stage each asks for.
LEMMA RoomGetsOn ==
  ASSUME NEW g \in LedgerRecord, NEW r \in RoomRecord, g.rooms = <<r>>, r.stage \notin Terminal
  PROVE  /\ Len(g.rooms) = 1 /\ g.rooms[1] = r
         /\ SetClearing(g, 1) = Done(OneRoom(g, [r EXCEPT !.priced = TRUE]))
         /\ RecordConsent(g, 1) = Done(OneRoom(g, [r EXCEPT !.stage = "Consented"]))
         /\ r.stage = "Consented" /\ r.priced => OpenElections(g, 1) = Done(OneRoom(g, [r EXCEPT !.stage = "Electing"]))
<1>1. \A x : recreate(g, 1, x) = OneRoom(g, x)
  BY TheOneRoom DEF recreate, OneRoom
<1>2. Len(g.rooms) = 1 /\ g.rooms[1] = r
  BY TheOneRoom
<1>3. QED
  BY <1>1, <1>2 DEF SetClearing, RecordConsent, OpenElections

\* A step of the room leaves the contracts that later steps need.
LEMMA RoomKeeps ==
  ASSUME NEW g, NEW h, NEW n \in 10 .. 13, WalletAt(g, n), h.acs = g.acs, h.held = g.held, h.rooms = RoomAt(n + 1)
  PROVE  WalletAt(h, n + 1)
<1>1. /\ \A t \in DOMAIN PaperNo : PaperNo[t] \in 17 .. 22
      /\ \A l \in Legs : LegNo[l] \in 23 .. 27
      /\ \A p \in Holders : DelegationNo[p] \in 29 .. 33
      /\ \A p \in LPs : InterestNo[p] \in 35 .. 37 /\ AdmissionNo[p] \in 39 .. 41
  BY DEF PaperNo, LegNo, DelegationNo, InterestNo, AdmissionNo, Legs, Holders, LPs
<1>2. QED
  BY <1>1 DEF WalletAt

\* The room at each step.
LEMMA RoomStages ==
  /\ {RoomFresh, RoomPriced, RoomConsented, RoomElecting} \subseteq RoomRecord
  /\ RoomFresh.stage = "Setup" /\ RoomPriced.stage = "Setup" /\ RoomConsented.stage = "Consented" /\ RoomConsented.priced
  /\ RoomElecting.stage = "Electing" /\ RoomFresh.epoch = 1 /\ RoomPriced.epoch = 1 /\ RoomConsented.epoch = 1 /\ RoomElecting.epoch = 1
  /\ RoomAt(10) = <<>> /\ RoomAt(11) = <<RoomFresh>> /\ RoomAt(12) = <<RoomPriced>> /\ RoomAt(13) = <<RoomConsented>>
  /\ \A n \in 14 .. 43 : RoomAt(n) = <<RoomElecting>>
<1>1. RoomFresh \in RoomRecord /\ RoomFresh.stage = "Setup" /\ RoomFresh.epoch = 1
  BY LegAmounts DEF RoomFresh, RoomRecord, Stages, Epochs
<1>2. RoomPriced \in RoomRecord /\ RoomPriced.stage = "Setup" /\ RoomPriced.epoch = 1 /\ RoomPriced.priced
  BY <1>1 DEF RoomPriced, RoomRecord
<1>3. RoomConsented \in RoomRecord /\ RoomConsented.stage = "Consented" /\ RoomConsented.epoch = 1 /\ RoomConsented.priced
  BY <1>2 DEF RoomConsented, RoomRecord, Stages
<1>4. RoomElecting \in RoomRecord /\ RoomElecting.stage = "Electing" /\ RoomElecting.epoch = 1
  BY <1>3 DEF RoomElecting, RoomRecord, Stages
<1>5. /\ RoomAt(10) = <<>> /\ RoomAt(11) = <<RoomFresh>> /\ RoomAt(12) = <<RoomPriced>> /\ RoomAt(13) = <<RoomConsented>>
      /\ \A n \in 14 .. 43 : RoomAt(n) = <<RoomElecting>>
  BY DEF RoomAt
<1>6. QED
  BY <1>1, <1>2, <1>3, <1>4, <1>5

\* The room comes and gets on, a step at a time.
LEMMA RoomDoes ==
  ASSUME NEW g \in LedgerRecord
  PROVE  /\ g.rooms = <<>> => Does(Chooses("gp", "room"), g, OneRoom(g, RoomFresh))
         /\ g.rooms = <<RoomFresh>> => Does(Chooses("gp", "SetClearing"), g, OneRoom(g, RoomPriced))
         /\ g.rooms = <<RoomPriced>> => Does(Chooses(lpac, "RecordConsent"), g, OneRoom(g, RoomConsented))
         /\ g.rooms = <<RoomConsented>> => Does(Chooses("gp", "OpenElections"), g, OneRoom(g, RoomElecting))
<1>1. \A by, op : LET s == Chooses(by, op) IN s.by = by /\ s.op = op
  BY DEF Chooses, S
<1>2. /\ \A r \in RoomRecord : OneRoom(g, r) \in LedgerRecord
      /\ "Setup" \notin Terminal /\ "Consented" \notin Terminal
  BY OneRoomIsTyped DEF Terminal
<1>3. \A by : /\ Command(Chooses(by, "room"), g) = createDeal(g, 1)
              /\ Command(Chooses(by, "SetClearing"), g) = SetClearing(g, Len(g.rooms))
              /\ Command(Chooses(by, "RecordConsent"), g) = RecordConsent(g, Len(g.rooms))
              /\ Command(Chooses(by, "OpenElections"), g) = OpenElections(g, Len(g.rooms))
  BY <1>1 DEF Command
<1>4. /\ \A op \in {"room", "SetClearing", "OpenElections"} : authority(Chooses("gp", op)) = "gp"
      /\ authority(Chooses(lpac, "RecordConsent")) = lpac
  BY <1>1 DEF authority
<1>5. ASSUME NEW op \in {"room", "SetClearing", "RecordConsent", "OpenElections"},
             NEW by, by = authority(Chooses(by, op)), NEW h \in LedgerRecord, Command(Chooses(by, op), g) = Done(h)
      PROVE  Does(Chooses(by, op), g, h)
  BY <1>1, <1>5 DEF Does, Found, LedgerOps
<1>6. ASSUME g.rooms = <<>> PROVE Does(Chooses("gp", "room"), g, OneRoom(g, RoomFresh))
  BY <1>2, <1>3, <1>4, <1>5, <1>6, RoomComes
<1>7. ASSUME g.rooms = <<RoomFresh>> PROVE Does(Chooses("gp", "SetClearing"), g, OneRoom(g, RoomPriced))
  <2>1. Command(Chooses("gp", "SetClearing"), g) = Done(OneRoom(g, RoomPriced))
    BY <1>2, <1>3, <1>7, RoomGetsOn, RoomStages DEF RoomPriced
  <2>2. QED
    BY <1>2, <1>4, <1>5, <2>1, RoomStages
<1>8. ASSUME g.rooms = <<RoomPriced>> PROVE Does(Chooses(lpac, "RecordConsent"), g, OneRoom(g, RoomConsented))
  <2>1. Command(Chooses(lpac, "RecordConsent"), g) = Done(OneRoom(g, RoomConsented))
    BY <1>2, <1>3, <1>8, RoomGetsOn, RoomStages DEF RoomConsented
  <2>2. QED
    BY <1>2, <1>4, <1>5, <2>1, RoomStages
<1>9. ASSUME g.rooms = <<RoomConsented>> PROVE Does(Chooses("gp", "OpenElections"), g, OneRoom(g, RoomElecting))
  <2>1. Command(Chooses("gp", "OpenElections"), g) = Done(OneRoom(g, RoomElecting))
    BY <1>2, <1>3, <1>9, RoomGetsOn, RoomStages DEF RoomElecting
  <2>2. QED
    BY <1>2, <1>4, <1>5, <2>1, RoomStages
<1>10. QED
  BY <1>6, <1>7, <1>8, <1>9

\* The steps of the room go, each by whom it is for.
LEMMA RoomStep ==
  ASSUME NEW g \in LedgerRecord, NEW n \in 10 .. 13, WalletAt(g, n), script = "wallets"
  PROVE  \E h : Does(WalletSteps[n], g, h) /\ WalletAt(h, n + 1)
<1>1. \A i \in 1 .. 5 : WalletSteps[8 + i] = RoomSteps[i]
  <2>1. DOMAIN RoomSteps = 1 .. 5
    BY DEF RoomSteps
  <2>2. QED
    BY <2>1, WalletPlan DEF Holds
<1>2. /\ WalletSteps[10] = Chooses("gp", "room") /\ WalletSteps[11] = Chooses("gp", "SetClearing")
      /\ WalletSteps[12] = Chooses("lpac", "RecordConsent") /\ WalletSteps[13] = Chooses("gp", "OpenElections")
  <2>1. /\ RoomSteps[2] = Chooses("gp", "room") /\ RoomSteps[3] = Chooses("gp", "SetClearing")
        /\ RoomSteps[4] = Chooses("lpac", "RecordConsent") /\ RoomSteps[5] = Chooses("gp", "OpenElections")
    BY DEF RoomSteps
  <2>2. QED
    BY ONLY <1>1, <2>1
<1>3. g.rooms = RoomAt(n) /\ lpac = "lpac"
  BY DEF WalletAt, lpac
<1>4. ASSUME NEW r \in RoomRecord, RoomAt(n + 1) = <<r>> PROVE WalletAt(OneRoom(g, r), n + 1)
  <2> DEFINE h == OneRoom(g, r)
  <2>1. h.rooms = <<r>> /\ h.acs = g.acs /\ h.held = g.held
    BY OneRoomIsTyped
  <2> HIDE DEF h
  <2>2. WalletAt(h, n + 1)
    BY <1>4, <2>1, RoomKeeps
  <2>3. QED
    BY <2>2 DEF h
<1>5. \A r \in {RoomFresh, RoomPriced, RoomConsented, RoomElecting} : r \in RoomRecord
  BY RoomStages
<1>6. CASE n = 10
  <2>1. g.rooms = <<>> /\ RoomAt(n + 1) = <<RoomFresh>>
    BY <1>3, <1>6, RoomStages
  <2>2. QED
    BY <1>2, <1>4, <1>5, <1>6, <2>1, RoomDoes
<1>7. CASE n = 11
  <2>1. g.rooms = <<RoomFresh>> /\ RoomAt(n + 1) = <<RoomPriced>>
    BY <1>3, <1>7, RoomStages
  <2>2. QED
    BY <1>2, <1>4, <1>5, <1>7, <2>1, RoomDoes
<1>8. CASE n = 12
  <2>1. g.rooms = <<RoomPriced>> /\ RoomAt(n + 1) = <<RoomConsented>>
    BY <1>3, <1>8, RoomStages
  <2>2. QED
    BY <1>2, <1>3, <1>4, <1>5, <1>8, <2>1, RoomDoes
<1>9. CASE n = 13
  <2>1. g.rooms = <<RoomConsented>> /\ RoomAt(n + 1) = <<RoomElecting>>
    BY <1>3, <1>9, RoomStages
  <2>2. QED
    BY <1>2, <1>4, <1>5, <1>9, <2>1, RoomDoes
<1>10. QED
  BY <1>6, <1>7, <1>8, <1>9

\* Which step is which part's.
LEMMA StepNumbers ==
  /\ \A t \in DOMAIN PaperNo : PaperNo[t] \in 17 .. 22
  /\ \A l \in Legs : LegNo[l] \in {23, 25, 27}
  /\ \A p \in Holders : DelegationNo[p] \in {29, 31, 33}
  /\ \A p \in LPs : InterestNo[p] \in {35, 37} /\ AdmissionNo[p] \in {39, 41}
  /\ \A t, u \in DOMAIN PaperNo : PaperNo[t] = PaperNo[u] => t = u
  /\ \A l, k \in Legs : LegNo[l] = LegNo[k] => l = k
  /\ \A p, q \in Holders : DelegationNo[p] = DelegationNo[q] => p = q
  /\ \A p, q \in LPs : (InterestNo[p] = InterestNo[q] => p = q) /\ (AdmissionNo[p] = AdmissionNo[q] => p = q)
BY DEF PaperNo, LegNo, DelegationNo, InterestNo, AdmissionNo, Legs, Holders, LPs

\* Whose authority each kind of contract needs.
LEMMA WhoSigns ==
  /\ signatory(factory) = "gp"
  /\ \A h \in Holders : /\ signatory(Bid(h)) = h /\ h \in projectionOf(Bid(h))
                        /\ signatory(Filed(h)) = h /\ h \in projectionOf(Filed(h))
  /\ signatory(Doc("valuation", 1)) = "valuer"
  /\ \A t \in {"opinion", "consent"} : signatory(Doc(t, 1)) = "lpac"
  /\ \A t \in {"cert", "psa", "basis"} : signatory(Doc(t, 1)) = "gp"
  /\ \A t \in {"proposal", "offer"}, h \in Holders : signatory(For(t, h)) = "gp"
  /\ \A h \in Holders : signatory(For("participation", h)) = h
<1>1. \A t, of, e : LET c == Contract(t, of, e) IN c.template = t /\ c.of = of
  BY ContractsDiffer
<1>2. signatory(factory) = "gp"
  BY <1>1 DEF signatory, factory
<1>3. ASSUME NEW h \in Holders
      PROVE  /\ signatory(Bid(h)) = h /\ h \in projectionOf(Bid(h))
             /\ signatory(Filed(h)) = h /\ h \in projectionOf(Filed(h))
  BY <1>1 DEF signatory, projectionOf, Bid, Filed
<1>4. /\ signatory(Doc("valuation", 1)) = "valuer"
      /\ \A t \in {"opinion", "consent"} : signatory(Doc(t, 1)) = "lpac"
      /\ \A t \in {"cert", "psa", "basis"} : signatory(Doc(t, 1)) = "gp"
  BY <1>1 DEF signatory, Doc
<1>5. /\ \A t \in {"proposal", "offer"}, h \in Holders : signatory(For(t, h)) = "gp"
      /\ \A h \in Holders : signatory(For("participation", h)) = h
  BY <1>1 DEF signatory, For
<1>6. QED
  BY <1>2, <1>3, <1>4, <1>5

\* A step that creates goes, and leaves what the next one needs.
LEMMA CreateGoes ==
  ASSUME NEW g \in LedgerRecord, NEW n \in (14 .. 42) \cup {9}, WalletAt(g, n),
         NEW c \in ContractRecord, NEW reader, reader \in projectionOf(c), c \notin Never,
         n = 9 => c = factory,
         \A t \in DOMAIN PaperNo : n = PaperNo[t] => c = Doc(t, 1),
         \A l \in Legs : n # LegNo[l] /\ n # LegNo[l] + 1,
         \A p \in Holders : n # DelegationNo[p] + 1 /\ (n = DelegationNo[p] <=> c = For("proposal", p)),
         \A p \in LPs : n # InterestNo[p] + 1 /\ (n = InterestNo[p] <=> c = For("offer", p)),
         \A p \in LPs : n # AdmissionNo[p] + 1 /\ (n = AdmissionNo[p] <=> c = For("participation", p))
  PROVE  \E h : Does(S(signatory(c), "create", c, reader), g, h) /\ WalletAt(h, n + 1)
<1>1. PICK h : /\ Does(S(signatory(c), "create", c, reader), g, h)
               /\ h.acs = g.acs \cup {c} /\ h.held = g.held /\ h.rooms = g.rooms
  <2> DEFINE k == [g EXCEPT !.acs = @ \cup {c}]
  <2>1. /\ Does(S(signatory(c), "create", c, reader), g, k)
        /\ k.acs = g.acs \cup {c} /\ k.held = g.held /\ k.rooms = g.rooms
    BY CreateDoes
  <2> HIDE DEF k
  <2>2. QED
    BY <2>1
<1>2. RoomAt(n + 1) = RoomAt(n) /\ n \in 9 .. 42
  BY DEF RoomAt
<1>4. h.rooms = RoomAt(n + 1)
  BY <1>1, <1>2 DEF WalletAt
<1>5. WalletAt(h, n + 1)
  BY <1>1, <1>2, <1>4, CreatedKeeps
<1>6. QED
  BY <1>1, <1>5

\* What is created for no part of its own: the sealed decisions.
LEMMA DecisionGoes ==
  ASSUME NEW g \in LedgerRecord, NEW n \in 14 .. 16, WalletAt(g, n), NEW p \in Holders,
         NEW c \in {Bid(p), Filed(p)}
  PROVE  \E h : Does(S(p, "create", c, p), g, h) /\ WalletAt(h, n + 1)
<1>1. c \in ContractRecord /\ p \in projectionOf(c) /\ signatory(c) = p
  BY ContractsAreTyped, WhoSigns
<1>2. c.template \in {"bid", "election"}
  BY ContractsApart
<1>3. \A q : c # For("proposal", q) /\ c # For("offer", q) /\ c # For("participation", q)
  BY <1>2, ContractsApart
<1>4. QED
  BY <1>1, <1>2, <1>3, NotThose, StepNumbers, CreateGoes

\* The deal factory is created.
LEMMA FactoryGoes ==
  ASSUME NEW g \in LedgerRecord, WalletAt(g, 9)
  PROVE  \E h : Does(S("gp", "create", factory, "gp"), g, h) /\ WalletAt(h, 10)
<1>1. factory \in ContractRecord /\ "gp" \in projectionOf(factory) /\ signatory(factory) = "gp"
  BY ContractsAreTyped, WhoSigns, WhoSees
<1>2. \A q : factory # For("proposal", q) /\ factory # For("offer", q) /\ factory # For("participation", q)
  BY ContractsApart
<1>3. factory \notin Never
  BY NotThose
<1>4. 9 + 1 = 10 /\ 9 \in (14 .. 42) \cup {9}
  OBVIOUS
<1>5. QED
  BY <1>1, <1>2, <1>3, <1>4, NotThose, StepNumbers, CreateGoes

\* The antecedents and the basis are created.
LEMMA PaperGoes ==
  ASSUME NEW g \in LedgerRecord, NEW t \in DOMAIN PaperNo, WalletAt(g, PaperNo[t])
  PROVE  \E h : Does(S(signatory(Doc(t, 1)), "create", Doc(t, 1), "gp"), g, h) /\ WalletAt(h, PaperNo[t] + 1)
<1>1. t \in Papers \cup {"basis"} /\ t \notin Asked \cup {"receipt"}
  BY DEF PaperNo, Papers, Asked
<1>2. Doc(t, 1) \in ContractRecord /\ "gp" \in projectionOf(Doc(t, 1)) /\ Doc(t, 1).template = t
  BY <1>1, ContractsAreTyped, ContractsApart, WhoSees DEF Papers
<1>3. \A q : Doc(t, 1) # For("proposal", q) /\ Doc(t, 1) # For("offer", q) /\ Doc(t, 1) # For("participation", q)
  BY <1>1, <1>2, ContractsApart DEF Asked
<1>4. PaperNo[t] \in 17 .. 22 /\ \A u \in DOMAIN PaperNo : PaperNo[t] = PaperNo[u] => t = u
  BY StepNumbers
<1>5. QED
  BY <1>1, <1>2, <1>3, <1>4, NotThose, StepNumbers, CreateGoes

\* The step that asks for a delegation, an interest or an admission.
AskedNo(t, p) ==
  IF t = "proposal" THEN DelegationNo[p] ELSE IF t = "offer" THEN InterestNo[p] ELSE AdmissionNo[p]

\* What needs another's consent is asked for.
LEMMA AskingGoes ==
  ASSUME NEW g \in LedgerRecord, NEW t \in Asked, NEW p \in Holders, t = "proposal" \/ p \in LPs,
         WalletAt(g, AskedNo(t, p)), NEW reader \in {"gp", p}
  PROVE  \E h : Does(S(signatory(For(t, p)), "create", For(t, p), reader), g, h) /\ WalletAt(h, AskedNo(t, p) + 1)
<1>1. For(t, p) \in ContractRecord /\ reader \in projectionOf(For(t, p)) /\ For(t, p).template = t
  BY ContractsAreTyped, ContractsApart, WhoSees DEF Asked
<1>2. For(t, p) \notin Never
  BY NotThose DEF LPs
<1>3. \A u, q : For(t, p) = For(u, q) <=> t = u /\ p = q
  BY ContractsApart
<1> DEFINE n == AskedNo(t, p)
<1>4. n \in 29 .. 41 /\ \A l \in Legs : n # LegNo[l] /\ n # LegNo[l] + 1
  BY StepNumbers DEF AskedNo, Asked
<1>5. \A u \in DOMAIN PaperNo : n # PaperNo[u]
  BY <1>4, StepNumbers
<1>6. \A q \in Holders : n # DelegationNo[q] + 1 /\ (n = DelegationNo[q] <=> t = "proposal" /\ p = q)
  BY StepNumbers DEF AskedNo, Asked
<1>7. \A q \in LPs : n # InterestNo[q] + 1 /\ (n = InterestNo[q] <=> t = "offer" /\ p = q)
  BY StepNumbers DEF AskedNo, Asked
<1>8. \A q \in LPs : n # AdmissionNo[q] + 1 /\ (n = AdmissionNo[q] <=> t = "participation" /\ p = q)
  BY StepNumbers DEF AskedNo, Asked
<1> HIDE DEF n
<1>9. n \in (14 .. 42) \cup {9} /\ n # 9 /\ WalletAt(g, n)
  BY <1>4 DEF n
<1>10. \E h : Does(S(signatory(For(t, p)), "create", For(t, p), reader), g, h) /\ WalletAt(h, n + 1)
  BY <1>1, <1>2, <1>3, <1>4, <1>5, <1>6, <1>7, <1>8, <1>9, CreateGoes
<1>11. QED
  BY <1>10 DEF n

\* A leg is minted for and then allocated.
LEMMA MintGoes ==
  ASSUME NEW g \in LedgerRecord, NEW l \in Legs, WalletAt(g, LegNo[l])
  PROVE  \E h : Does(S("gp", "mint", l, "gp"), g, h) /\ WalletAt(h, LegNo[l] + 1)
<1> DEFINE x == <<"gp", instrument(l, 1)>>
           held == Credit(g.held, x, amount[l])
           h == [g EXCEPT !.held = held]
           s == S("gp", "mint", l, "gp")
<1>1. s.by = "gp" /\ s.op = "mint" /\ s.of = l
  BY DEF S
<1>2. Command(s, g) = Done(h) /\ s.by = authority(s)
  BY <1>1 DEF Command, mint, authority
<1> HIDE DEF s
<1>3. held \in [Purse -> Nat] /\ held[x] >= amount[l]
  <2>1. x \in Purse /\ amount[l] \in Nat /\ g.held \in [Purse -> Nat]
    BY LegAmounts DEF LedgerRecord, Purse, instrument, Epochs
  <2> HIDE DEF x
  <2>2. g.held[x] \in Nat
    BY <2>1
  <2>3. QED
    BY <2>1, <2>2 DEF Credit
<1> HIDE DEF held
<1>4. h \in LedgerRecord /\ h.rooms = g.rooms /\ h.acs = g.acs /\ h.held = held
  BY <1>3 DEF LedgerRecord
<1> HIDE DEF h
<1>5. Does(s, g, h)
  BY <1>1, <1>2, <1>4 DEF Does, Found, LedgerOps
<1>6. WalletAt(h, LegNo[l] + 1)
  <2> DEFINE n == LegNo[l]
  <2>1. n \in 23 .. 27 /\ \A k \in Legs : (n + 1 = LegNo[k] + 1 => k = l) /\ n # LegNo[k] + 1
    BY StepNumbers
  <2>2. /\ \A t \in DOMAIN PaperNo : n > PaperNo[t]
        /\ \A p \in Holders : n + 1 < DelegationNo[p]
        /\ \A p \in LPs : n + 1 < InterestNo[p] /\ n + 1 < AdmissionNo[p]
    BY StepNumbers
  <2>3. \A k \in Legs : n + 1 > LegNo[k] + 1 => n > LegNo[k] + 1
    BY StepNumbers
  <2>4. WalletAt(g, n) /\ RoomAt(n + 1) = RoomAt(n)
    BY <2>1 DEF RoomAt
  <2> HIDE DEF n
  <2>5. \A k \in Legs : /\ n + 1 = LegNo[k] + 1 => h.held[<<"gp", instrument(k, 1)>>] >= amount[k]
                        /\ n + 1 > LegNo[k] + 1 => Allocation(k, 1) \in h.acs
    BY <1>3, <1>4, <2>1, <2>3, <2>4 DEF WalletAt
  <2>6. \A p \in Holders : /\ For("proposal", p) \in h.acs <=> n + 1 = DelegationNo[p] + 1
                           /\ n + 1 > DelegationNo[p] + 1 => For("delegation", p) \in h.acs
    BY <1>4, <2>1, <2>2, <2>4, StepNumbers DEF WalletAt
  <2>7. \A p \in LPs : /\ For("offer", p) \in h.acs <=> n + 1 = InterestNo[p] + 1
                       /\ n + 1 > InterestNo[p] + 1 => For("interest", p) \in h.acs
    BY <1>4, <2>1, <2>2, <2>4, StepNumbers DEF WalletAt
  <2>8. \A p \in LPs : /\ For("participation", p) \in h.acs <=> n + 1 = AdmissionNo[p] + 1
                       /\ n + 1 > AdmissionNo[p] + 1 => For("accepted", p) \in h.acs
    BY <1>4, <2>1, <2>2, <2>4, StepNumbers DEF WalletAt
  <2>9. /\ h.rooms = RoomAt(n + 1) /\ factory \in h.acs /\ h.acs \cap Never = {}
        /\ \A t \in DOMAIN PaperNo : Doc(t, 1) \in h.acs
    BY <1>4, <2>1, <2>2, <2>4 DEF WalletAt
  <2>10. WalletAt(h, n + 1)
    BY ONLY <2>1, <2>5, <2>6, <2>7, <2>8, <2>9 DEF WalletAt
  <2>11. QED
    BY <2>10 DEF n
<1>7. QED
  BY <1>5, <1>6 DEF s

\* The leg minted for by the step before is allocated.
LEMMA AllocateGoes ==
  ASSUME NEW g \in LedgerRecord, NEW l \in Legs, WalletAt(g, LegNo[l] + 1)
  PROVE  \E h : Does(S("gp", "Allocate", l, "gp"), g, h) /\ WalletAt(h, LegNo[l] + 2)
<1> DEFINE x == <<"gp", instrument(l, 1)>>
           held == Credit(g.held, x, -amount[l])
           h == [g EXCEPT !.held = held, !.acs = @ \cup {Allocation(l, 1)}]
           s == S("gp", "Allocate", l, "gp")
           n == LegNo[l] + 1
<1>1. s.by = "gp" /\ s.op = "Allocate" /\ s.of = l
  BY DEF S
<1>2. n \in 24 .. 28 /\ WalletAt(g, n)
  BY StepNumbers
<1>3. g.held[x] >= amount[l] /\ factory \in g.acs
  BY <1>2 DEF WalletAt
<1>4. Command(s, g) = Done(h) /\ s.by = authority(s)
  BY <1>1, <1>3 DEF Command, Allocate, authority
<1> HIDE DEF s
<1>5. held \in [Purse -> Nat]
  <2>1. x \in Purse /\ amount[l] \in Nat /\ g.held \in [Purse -> Nat]
    BY LegAmounts DEF LedgerRecord, Purse, instrument, Epochs
  <2> HIDE DEF x
  <2>2. g.held[x] \in Nat
    BY <2>1
  <2>3. QED
    BY <1>3, <2>1, <2>2 DEF Credit
<1> HIDE DEF held
<1>6. h \in LedgerRecord /\ h.rooms = g.rooms /\ h.acs = g.acs \cup {Allocation(l, 1)}
  BY <1>5, ContractsAreTyped DEF LedgerRecord
<1> HIDE DEF h
<1>7. Does(s, g, h)
  BY <1>1, <1>4, <1>6 DEF Does, Found, LedgerOps
<1>8. WalletAt(h, n + 1)
  <2>1. \A k \in Legs : n + 1 # LegNo[k] + 1 /\ (n + 1 > LegNo[k] + 1 => k = l \/ n > LegNo[k] + 1)
    BY StepNumbers
  <2>2. /\ \A t \in DOMAIN PaperNo : n > PaperNo[t]
        /\ \A p \in Holders : n < DelegationNo[p]
        /\ \A p \in LPs : n < InterestNo[p] /\ n < AdmissionNo[p]
    BY StepNumbers
  <2>3. RoomAt(n + 1) = RoomAt(n)
    BY <1>2 DEF RoomAt
  <2>4. \A c : c.template # "allocation" => (c \in h.acs <=> c \in g.acs)
    BY <1>6, ContractsApart
  <2> HIDE DEF n
  <2>5. \A k \in Legs : /\ n + 1 = LegNo[k] + 1 => h.held[<<"gp", instrument(k, 1)>>] >= amount[k]
                        /\ n + 1 > LegNo[k] + 1 => Allocation(k, 1) \in h.acs
    BY <1>2, <1>6, <2>1 DEF WalletAt
  <2>6. \A p \in Holders : /\ For("proposal", p) \in h.acs <=> n + 1 = DelegationNo[p] + 1
                           /\ n + 1 > DelegationNo[p] + 1 => For("delegation", p) \in h.acs
    BY <1>2, <2>2, <2>4, StepNumbers, ContractsApart DEF WalletAt
  <2>7. \A p \in LPs : /\ For("offer", p) \in h.acs <=> n + 1 = InterestNo[p] + 1
                       /\ n + 1 > InterestNo[p] + 1 => For("interest", p) \in h.acs
    BY <1>2, <2>2, <2>4, StepNumbers, ContractsApart DEF WalletAt
  <2>8. \A p \in LPs : /\ For("participation", p) \in h.acs <=> n + 1 = AdmissionNo[p] + 1
                       /\ n + 1 > AdmissionNo[p] + 1 => For("accepted", p) \in h.acs
    BY <1>2, <2>2, <2>4, StepNumbers, ContractsApart DEF WalletAt
  <2>9. /\ h.rooms = RoomAt(n + 1) /\ factory \in h.acs /\ h.acs \cap Never = {}
        /\ \A t \in DOMAIN PaperNo : Doc(t, 1) \in h.acs
    <3>1. \A t \in DOMAIN PaperNo : t # "allocation"
      BY DEF PaperNo
    <3>2. QED
      BY <1>2, <1>6, <2>2, <2>3, <2>4, <3>1, ContractsApart, NotThose DEF WalletAt
  <2>10. QED
    BY ONLY <1>2, <2>5, <2>6, <2>7, <2>8, <2>9 DEF WalletAt
<1>9. LegNo[l] + 2 = n + 1
  BY StepNumbers
<1> HIDE DEF n
<1>10. QED
  BY <1>7, <1>8, <1>9 DEF s

\* What was asked for is granted.
LEMMA GrantingGoes ==
  ASSUME NEW g \in LedgerRecord, NEW t \in Asked, NEW p \in Holders, t = "proposal" \/ p \in LPs,
         WalletAt(g, AskedNo(t, p) + 1), NEW reader
  PROVE  \E h : /\ Does(S(IF t = "participation" THEN "gp" ELSE p, Takes[t], p, reader), g, h)
                /\ WalletAt(h, AskedNo(t, p) + 2)
<1> DEFINE n == AskedNo(t, p) + 1
           s == S(IF t = "participation" THEN "gp" ELSE p, Takes[t], p, reader)
           was == For(t, p)
           got == For(Gives[t], p)
<1>1. n \in 30 .. 42 /\ WalletAt(g, n)
  BY StepNumbers DEF AskedNo
<1>2. was \in g.acs
  BY <1>1 DEF AskedNo, WalletAt, Asked
<1>3. PICK h : Does(s, g, h) /\ h.acs = (g.acs \ {was}) \cup {got} /\ h.held = g.held /\ h.rooms = g.rooms
  <2> DEFINE k == [g EXCEPT !.acs = (@ \ {For(t, p)}) \cup {For(Gives[t], p)}]
  <2>1. Does(s, g, k) /\ k.acs = (g.acs \ {was}) \cup {got} /\ k.held = g.held /\ k.rooms = g.rooms
    BY <1>2, AcceptDoes
  <2> HIDE DEF k, s
  <2>2. QED
    BY <2>1
<1>4. \A u, q : For(t, p) = For(u, q) <=> t = u /\ p = q
  BY ContractsApart
<1>5. /\ \A q \in Holders : n # DelegationNo[q] /\ (n = DelegationNo[q] + 1 <=> t = "proposal" /\ p = q)
      /\ \A q \in LPs : n # InterestNo[q] /\ (n = InterestNo[q] + 1 <=> t = "offer" /\ p = q)
      /\ \A q \in LPs : n # AdmissionNo[q] /\ (n = AdmissionNo[q] + 1 <=> t = "participation" /\ p = q)
  BY StepNumbers DEF AskedNo, Asked
<1>6. /\ n # 9 /\ \A u \in DOMAIN PaperNo : n # PaperNo[u]
      /\ \A l \in Legs : n # LegNo[l] /\ n # LegNo[l] + 1
  BY <1>1, StepNumbers
<1>7. RoomAt(n + 1) = RoomAt(n)
  BY <1>1 DEF RoomAt
<1>8. /\ t = "proposal" => got = For("delegation", p)
      /\ t = "offer" => got = For("interest", p)
      /\ t = "participation" => got = For("accepted", p)
  BY DEF Gives
<1>9. was.template \in Asked /\ got.template \in Granted /\ got \notin Never
  BY ContractsApart, NotThose DEF Gives, Asked, Granted, LPs
<1>10. AskedNo(t, p) + 2 = n + 1
  BY <1>1, StepNumbers DEF AskedNo
<1>11. h.rooms = RoomAt(n + 1)
  BY <1>1, <1>3, <1>7 DEF WalletAt
<1> HIDE DEF n, s, got
<1>12. n \in 9 .. 42
  BY <1>1
<1>13. WalletAt(h, n + 1)
  <2>1. TakesUp(n, was, got)
    <3>1. /\ \A q \in Holders : /\ n # DelegationNo[q] /\ (n = DelegationNo[q] + 1 <=> was = For("proposal", q))
                                /\ n = DelegationNo[q] + 1 => got = For("delegation", q)
          /\ \A q \in LPs : /\ n # InterestNo[q] /\ (n = InterestNo[q] + 1 <=> was = For("offer", q))
                            /\ n = InterestNo[q] + 1 => got = For("interest", q)
          /\ \A q \in LPs : /\ n # AdmissionNo[q] /\ (n = AdmissionNo[q] + 1 <=> was = For("participation", q))
                            /\ n = AdmissionNo[q] + 1 => got = For("accepted", q)
      BY <1>4, <1>5, <1>8
    <3>2. QED
      BY <1>6, <1>9, <3>1 DEF TakesUp
  <2> HIDE DEF was
  <2>2. Swapped(g, h, was, got)
    BY <1>3 DEF Swapped
  <2>3. QED
    BY ONLY <1>1, <1>11, <1>12, <2>1, <2>2, TakenUpKeeps
<1>14. QED
  BY <1>3, <1>10, <1>13 DEF s

\* The step at each of these numbers.
LEMMA TwoSteps ==
  ASSUME NEW m \in Nat, NEW a, NEW b, Holds(WalletSteps, m, <<a, b>>)
  PROVE  WalletSteps[m + 1] = a /\ WalletSteps[m + 2] = b
<1>1. DOMAIN <<a, b>> = 1 .. 2 /\ <<a, b>>[1] = a /\ <<a, b>>[2] = b
  OBVIOUS
<1>2. 1 \in DOMAIN <<a, b>> /\ 2 \in DOMAIN <<a, b>>
  BY <1>1
<1>3. WalletSteps[m + 1] = <<a, b>>[1] /\ WalletSteps[m + 2] = <<a, b>>[2]
  BY <1>2 DEF Holds
<1>4. QED
  BY <1>1, <1>3

\* The first step on the ledger.
LEMMA FactoryStep == WalletSteps[9] = S("gp", "create", factory, "gp")
<1>1. RoomSteps[1] = Creates("gp", factory) /\ 1 \in DOMAIN RoomSteps
  BY DEF RoomSteps
<1>2. WalletSteps[8 + 1] = RoomSteps[1]
  BY <1>1, WalletPlan DEF Holds
<1>3. QED
  BY <1>1, <1>2 DEF Creates

\* The steps of the sealed decisions.
LEMMA DecisionsSteps ==
  /\ WalletSteps[14] = S("buyer", "create", Bid("buyer"), "buyer")
  /\ WalletSteps[15] = S("lpExiting", "create", Filed("lpExiting"), "lpExiting")
  /\ WalletSteps[16] = S("lpRolling", "create", Filed("lpRolling"), "lpRolling")
<1>1. /\ DOMAIN DecisionSteps = 1 .. 3 /\ DecisionSteps[1] = Creates("buyer", Bid("buyer"))
      /\ DecisionSteps[2] = Creates("lpExiting", Filed("lpExiting"))
      /\ DecisionSteps[3] = Creates("lpRolling", Filed("lpRolling"))
  BY DEF DecisionSteps
<1>2. \A i \in 1 .. 3 : WalletSteps[13 + i] = DecisionSteps[i]
  BY <1>1, WalletPlan DEF Holds
<1>3. QED
  BY <1>1, <1>2 DEF Creates

\* The steps of the papers.
LEMMA PapersSteps ==
  \A t \in DOMAIN PaperNo : WalletSteps[PaperNo[t]] = S(signatory(Doc(t, 1)), "create", Doc(t, 1), "gp")
<1>1. /\ DOMAIN BasisSteps = 1 .. 6
      /\ BasisSteps[1] = ForGp("valuer", Doc("valuation", 1)) /\ BasisSteps[2] = ForGp("lpac", Doc("opinion", 1))
      /\ BasisSteps[3] = ForGp("gp", Doc("cert", 1)) /\ BasisSteps[4] = ForGp("lpac", Doc("consent", 1))
      /\ BasisSteps[5] = ForGp("gp", Doc("psa", 1)) /\ BasisSteps[6] = ForGp("gp", Doc("basis", 1))
  BY DEF BasisSteps
<1>2. \A i \in 1 .. 6 : WalletSteps[16 + i] = BasisSteps[i]
  BY <1>1, WalletPlan DEF Holds
<1>3. /\ WalletSteps[17] = ForGp("valuer", Doc("valuation", 1)) /\ WalletSteps[18] = ForGp("lpac", Doc("opinion", 1))
      /\ WalletSteps[19] = ForGp("gp", Doc("cert", 1)) /\ WalletSteps[20] = ForGp("lpac", Doc("consent", 1))
      /\ WalletSteps[21] = ForGp("gp", Doc("psa", 1)) /\ WalletSteps[22] = ForGp("gp", Doc("basis", 1))
  BY ONLY <1>1, <1>2
<1>4. \A t \in DOMAIN PaperNo : WalletSteps[PaperNo[t]] = ForGp(signatory(Doc(t, 1)), Doc(t, 1))
  BY <1>3, WhoSigns DEF PaperNo
<1>5. QED
  BY <1>4 DEF ForGp

\* The steps of the legs.
LEMMA LegsSteps ==
  \A l \in Legs : /\ WalletSteps[LegNo[l]] = S("gp", "mint", l, "gp")
                  /\ WalletSteps[LegNo[l] + 1] = S("gp", "Allocate", l, "gp")
<1>1. ASSUME NEW l \in Legs
      PROVE  /\ WalletSteps[LegNo[l]] = S("gp", "mint", l, "gp")
             /\ WalletSteps[LegNo[l] + 1] = S("gp", "Allocate", l, "gp")
  <2>1. LegNo[l] \in {23, 25, 27} /\ Holds(WalletSteps, LegNo[l] - 1, Arranged(l))
    BY WalletPlan DEF LegNo, Legs
  <2>2. LegNo[l] - 1 \in Nat /\ LegNo[l] = (LegNo[l] - 1) + 1 /\ LegNo[l] + 1 = (LegNo[l] - 1) + 2
    BY <2>1
  <2>3. QED
    BY <2>1, <2>2, TwoSteps DEF Arranged
<1>2. QED
  BY <1>1

\* The step that asks is another's than the step that grants.
grantor(t, p) == IF t = "participation" THEN "gp" ELSE p

\* The steps of the delegations, interests and participations.
LEMMA AuthoritiesSteps ==
  ASSUME NEW t \in Asked, NEW p \in Holders, t = "proposal" \/ p \in LPs
  PROVE  /\ WalletSteps[AskedNo(t, p)] = S(signatory(For(t, p)), "create", For(t, p), grantor(t, p))
         /\ WalletSteps[AskedNo(t, p) + 1] = S(grantor(t, p), Takes[t], p, grantor(t, p))
<1> DEFINE n == AskedNo(t, p)
<1>1. n \in 29 .. 41
  BY StepNumbers DEF AskedNo
<1>2. Holds(WalletSteps, n - 1, Accepted(Takes[t], t, signatory(For(t, p)), p, grantor(t, p)))
  <2>1. CASE t = "proposal"
    <3>1. Takes[t] = "EDP_Accept" /\ signatory(For(t, p)) = "gp" /\ grantor(t, p) = p
      BY <2>1, WhoSigns DEF Takes, grantor
    <3>2. Holds(WalletSteps, n - 1, Accepted("EDP_Accept", "proposal", "gp", p, p))
      BY <2>1, WalletPlan DEF AskedNo, DelegationNo, Holders, LPs
    <3>3. QED
      BY <2>1, <3>1, <3>2
  <2>2. CASE t = "offer"
    <3>1. Takes[t] = "OFI_Accept" /\ signatory(For(t, p)) = "gp" /\ grantor(t, p) = p
      BY <2>2, WhoSigns DEF Takes, grantor
    <3>2. Holds(WalletSteps, n - 1, oldFund(p))
      BY <2>2, WalletPlan DEF AskedNo, InterestNo, LPs
    <3>3. QED
      BY <2>2, <3>1, <3>2 DEF oldFund
  <2>3. CASE t = "participation"
    <3>1. Takes[t] = "Accept" /\ signatory(For(t, p)) = p /\ grantor(t, p) = "gp"
      BY <2>3, WhoSigns DEF Takes, grantor
    <3>2. Holds(WalletSteps, n - 1, participations(p))
      BY <2>3, WalletPlan DEF AskedNo, AdmissionNo, LPs
    <3>3. QED
      BY <2>3, <3>1, <3>2 DEF participations
  <2>4. QED
    BY <2>1, <2>2, <2>3 DEF Asked
<1>3. n - 1 \in Nat /\ n = (n - 1) + 1 /\ n + 1 = (n - 1) + 2
  BY <1>1
<1> HIDE DEF n
<1>4. WalletSteps[n] = S(signatory(For(t, p)), "create", For(t, p), grantor(t, p))
      /\ WalletSteps[n + 1] = S(grantor(t, p), Takes[t], p, grantor(t, p))
  BY <1>2, <1>3, TwoSteps DEF Accepted
<1>5. QED
  BY <1>4 DEF n

\* Every step short of the close is one of these.
LEMMA EveryStep ==
  ASSUME NEW n \in 9 .. 42
  PROVE  \/ n \in 9 .. 16
         \/ \E t \in DOMAIN PaperNo : n = PaperNo[t]
         \/ \E l \in Legs : n = LegNo[l] \/ n = LegNo[l] + 1
         \/ \E t \in Asked : \E p \in Holders : (t = "proposal" \/ p \in LPs) /\ n \in {AskedNo(t, p), AskedNo(t, p) + 1}
<1>1. CASE n \in 17 .. 22
  BY <1>1 DEF PaperNo
<1>2. CASE n \in 23 .. 28
  BY <1>2 DEF LegNo, Legs
<1>3. CASE n \in 29 .. 34
  <2>1. \E p \in Holders : n \in {DelegationNo[p], DelegationNo[p] + 1}
    BY <1>3 DEF DelegationNo, Holders, LPs
  <2>2. QED
    BY <2>1 DEF AskedNo, Asked
<1>4. CASE n \in 35 .. 38
  <2>1. \E p \in LPs : n \in {InterestNo[p], InterestNo[p] + 1}
    BY <1>4 DEF InterestNo, LPs
  <2>2. QED
    BY <2>1 DEF AskedNo, Asked, Holders
<1>5. CASE n \in 39 .. 42
  <2>1. \E p \in LPs : n \in {AdmissionNo[p], AdmissionNo[p] + 1}
    BY <1>5 DEF AdmissionNo, LPs
  <2>2. QED
    BY <2>1 DEF AskedNo, Asked, Holders
<1>6. QED
  BY <1>1, <1>2, <1>3, <1>4, <1>5

\* No step of the wallet close is refused.
LEMMA WalletGoes ==
  ASSUME NEW g \in LedgerRecord, NEW n \in 9 .. 42, WalletAt(g, n), script = "wallets"
  PROVE  \E h : Does(WalletSteps[n], g, h) /\ WalletAt(h, n + 1)
<1>1. CASE n = 9
  <2>1. WalletAt(g, 9) /\ n + 1 = 10
    BY <1>1
  <2>2. QED
    BY <1>1, <2>1, FactoryGoes, FactoryStep
<1>2. CASE n \in 10 .. 13
  BY <1>2, RoomStep
<1>3. CASE n \in 14 .. 16
  <2>1. \A p \in Holders : \A c \in {Bid(p), Filed(p)} : \E h : Does(S(p, "create", c, p), g, h) /\ WalletAt(h, n + 1)
    BY <1>3, DecisionGoes
  <2>2. {"buyer", "lpExiting", "lpRolling"} \subseteq Holders
    BY DEF Holders, LPs
  <2>3. CASE n = 14
    BY <2>1, <2>2, <2>3, DecisionsSteps
  <2>4. CASE n = 15
    BY <2>1, <2>2, <2>4, DecisionsSteps
  <2>5. CASE n = 16
    BY <2>1, <2>2, <2>5, DecisionsSteps
  <2>6. QED
    BY <1>3, <2>3, <2>4, <2>5
<1>4. CASE \E t \in DOMAIN PaperNo : n = PaperNo[t]
  BY <1>4, PaperGoes, PapersSteps
<1>5. ASSUME NEW l \in Legs, n = LegNo[l] PROVE \E h : Does(WalletSteps[n], g, h) /\ WalletAt(h, n + 1)
  BY <1>5, MintGoes, LegsSteps
<1>6. ASSUME NEW l \in Legs, n = LegNo[l] + 1 PROVE \E h : Does(WalletSteps[n], g, h) /\ WalletAt(h, n + 1)
  <2>1. LegNo[l] + 2 = n + 1
    BY <1>6, StepNumbers
  <2>2. WalletSteps[n] = S("gp", "Allocate", l, "gp")
    BY <1>6, LegsSteps
  <2>3. WalletAt(g, LegNo[l] + 1)
    BY <1>6
  <2>4. \E h : Does(S("gp", "Allocate", l, "gp"), g, h) /\ WalletAt(h, LegNo[l] + 2)
    BY <2>3, AllocateGoes
  <2>5. QED
    BY <2>1, <2>2, <2>4
<1>7. ASSUME NEW t \in Asked, NEW p \in Holders, t = "proposal" \/ p \in LPs, n = AskedNo(t, p)
      PROVE  \E h : Does(WalletSteps[n], g, h) /\ WalletAt(h, n + 1)
  <2>1. grantor(t, p) \in {"gp", p}
    BY DEF grantor
  <2>2. WalletAt(g, AskedNo(t, p))
    BY <1>7
  <2>3. \E h : Does(S(signatory(For(t, p)), "create", For(t, p), grantor(t, p)), g, h) /\ WalletAt(h, AskedNo(t, p) + 1)
    BY <1>7, <2>1, <2>2, AskingGoes
  <2>4. QED
    BY <1>7, <2>3, AuthoritiesSteps
<1>8. ASSUME NEW t \in Asked, NEW p \in Holders, t = "proposal" \/ p \in LPs, n = AskedNo(t, p) + 1
      PROVE  \E h : Does(WalletSteps[n], g, h) /\ WalletAt(h, n + 1)
  <2>1. AskedNo(t, p) + 2 = n + 1
    BY <1>8, StepNumbers DEF AskedNo
  <2>2. WalletAt(g, AskedNo(t, p) + 1)
    BY <1>8
  <2>3. \E h : Does(S(grantor(t, p), Takes[t], p, grantor(t, p)), g, h) /\ WalletAt(h, AskedNo(t, p) + 2)
    BY <1>8, <2>2, GrantingGoes DEF grantor
  <2>4. QED
    BY <1>8, <2>1, <2>3, AuthoritiesSteps
<1>9. QED
  BY <1>1, <1>2, <1>3, <1>4, <1>5, <1>6, <1>7, <1>8, EveryStep

\* The last step of the wallet close settles the deal.
LEMMA CloseGoes ==
  ASSUME Typed, epoch = 1, WalletAt(ledger, 43), script = "wallets"
  PROVE  /\ WalletSteps[43].op = "Close" /\ WalletSteps[43].by = authority(WalletSteps[43])
         /\ \E h \in LedgerRecord : /\ Command(WalletSteps[43], ledger) = Done(h) /\ Proves(WalletSteps[43], h)
                                    /\ Doc("receipt", 1) \in h.acs /\ h.acs \cap LeftOver = {}
<1> DEFINE s == WalletSteps[43]
           g == ledger
           valid == [g EXCEPT !.acs = @ \ {Doc("basis", 1)}]
           h == Settled(valid, 1, Legs, LPs, 1)
<1>1. s.op = "Close" /\ s.by = "gp"
  <2>1. <<Chooses("gp", "Close")>>[1] = Chooses("gp", "Close") /\ 1 \in DOMAIN <<Chooses("gp", "Close")>>
    OBVIOUS
  <2>2. WalletSteps[42 + 1] = <<Chooses("gp", "Close")>>[1]
    BY <2>1, WalletPlan DEF Holds
  <2>3. QED
    BY <2>1, <2>2 DEF Chooses, S
<1> HIDE DEF s
<1>2. s.by = authority(s)
  BY <1>1 DEF authority
<1>3. g.rooms = <<RoomElecting>> /\ Len(g.rooms) = 1 /\ g.rooms[1] = RoomElecting /\ 1 \in DOMAIN g.rooms
  BY RoomStages DEF WalletAt
<1>4. Command(s, g) = Close(g, 1, Legs, LPs)
  BY <1>1, <1>3 DEF Command
<1>5. /\ \A t \in {"valuation", "opinion", "cert", "consent", "psa", "basis"} : Doc(t, 1) \in g.acs
      /\ \A l \in Legs : Allocation(l, 1) \in g.acs
      /\ \A p \in Holders : For("delegation", p) \in g.acs /\ For("proposal", p) \notin g.acs
      /\ \A p \in LPs : For("interest", p) \in g.acs /\ For("accepted", p) \in g.acs
      /\ \A p \in LPs : For("offer", p) \notin g.acs /\ For("participation", p) \notin g.acs
  <2>1. \A t \in {"valuation", "opinion", "cert", "consent", "psa", "basis"} : t \in DOMAIN PaperNo
    BY DEF PaperNo
  <2>2. WalletAt(g, 43)
    OBVIOUS
  <2>3. \A t \in {"valuation", "opinion", "cert", "consent", "psa", "basis"} : Doc(t, 1) \in g.acs
    BY <2>1, <2>2, StepNumbers DEF WalletAt
  <2>4. ASSUME NEW l \in Legs PROVE Allocation(l, 1) \in g.acs
    <3>1. 43 > LegNo[l] + 1
      BY StepNumbers
    <3>2. QED
      BY <2>2, <3>1 DEF WalletAt
  <2>7. \A p \in Holders : For("delegation", p) \in g.acs /\ For("proposal", p) \notin g.acs
    BY <2>2, StepNumbers DEF WalletAt
  <2>5. /\ \A p \in LPs : For("interest", p) \in g.acs /\ For("accepted", p) \in g.acs
        /\ \A p \in LPs : For("offer", p) \notin g.acs /\ For("participation", p) \notin g.acs
    BY <2>2, StepNumbers DEF WalletAt
  <2>6. QED
    BY <2>3, <2>4, <2>5, <2>7
<1>6. valid.acs = g.acs \ {Doc("basis", 1)}
  BY DEF Typed, LedgerRecord
<1>7. validateIssuance(g, 1) = Done(valid)
  <2>1. Antecedents(1) \subseteq g.acs
    BY <1>5 DEF Antecedents
  <2>2. QED
    BY <2>1 DEF validateIssuance
<1> HIDE DEF valid
<1>8. Executable(valid, Legs, 1) /\ Burnable(valid, LPs)
  <2>1. \A l \in Legs : receiver[l] \in Holders
    BY DEF receiver, Legs, Holders, LPs
  <2>2. \A l \in Legs : Allocation(l, 1) # Doc("basis", 1)
    BY ContractsDiffer DEF Allocation, Doc
  <2>3. \A p \in Holders : /\ For("delegation", p) # Doc("basis", 1) /\ For("accepted", p) # Doc("basis", 1)
                           /\ For("interest", p) # Doc("basis", 1)
    BY ContractsDiffer DEF For, Doc
  <2>4. LPs \subseteq Holders
    BY DEF Holders
  <2>5. Executable(valid, Legs, 1)
    BY <1>5, <1>6, <2>1, <2>2, <2>3 DEF Executable
  <2>6. Burnable(valid, LPs)
    BY <1>5, <1>6, <2>3, <2>4 DEF Burnable
  <2>7. QED
    BY <2>5, <2>6
<1>9. Close(g, 1, Legs, LPs) = Done(h)
  <2>1. g.rooms[1].epoch = 1 /\ g.rooms[1].stage = "Electing"
    BY <1>3, RoomStages
  <2>2. validateIssuance(g, 1).ok /\ validateIssuance(g, 1).ledger = valid
    BY <1>7 DEF Done
  <2>3. unitTotal(Legs) = PsaPrice
    BY LegAmounts
  <2>4. Doc("basis", 1) \in g.acs
    BY <1>5
  <2> HIDE DEF h
  <2>5. Close(g, 1, Legs, LPs) = Done(Settled(valid, 1, Legs, LPs, 1))
    BY <1>8, <2>1, <2>2, <2>3, <2>4 DEF Close
  <2>6. QED
    BY <2>5 DEF h
<1>10. /\ h \in LedgerRecord /\ h.acs = (g.acs \ Spent) \cup Receipts(1)
       /\ \A x \in Purse : h.held[x] = g.held[x] + Brings(x)
  BY <1>3, SettledIs DEF valid
<1> HIDE DEF h
<1>11. \A c : c \in Spent => c.template \in {"basis", "allocation", "interest"}
  BY ContractsApart DEF Spent
<1>12. Doc("receipt", 1) \in h.acs \ g.acs
  BY <1>10 DEF Receipts, WalletAt, Never
<1>13. \A c : c \in Receipts(1) => c.template \in {"receipt", "disclosure"}
  BY ContractsApart DEF Receipts
<1>14. h.acs \cap LeftOver = {}
  <2>1. ASSUME NEW l \in Legs PROVE Allocation(l, 1) \notin h.acs
    BY <1>10, <1>13, ContractsApart DEF Spent
  <2>2. ASSUME NEW t \in {"proposal", "offer", "participation", "interest"}, NEW p \in Holders
        PROVE  For(t, p) \notin h.acs
    <3>1. For(t, p) \notin Receipts(1)
      BY <1>13, ContractsApart
    <3>2. CASE p = "buyer" /\ t # "proposal"
      BY <1>10, <3>1, <3>2 DEF WalletAt, Never
    <3>3. CASE t = "interest" /\ p \in LPs
      BY <1>10, <3>1, <3>3 DEF Spent
    <3>4. CASE t = "proposal" \/ (t \in {"offer", "participation"} /\ p \in LPs)
      BY <1>5, <1>10, <3>1, <3>4
    <3>5. QED
      BY <3>2, <3>3, <3>4 DEF Holders
  <2>3. QED
    BY <2>1, <2>2 DEF LeftOver
<1>15. Moved(g, h)
  <2>1. ASSUME NEW l \in Legs
        PROVE  LET x == <<receiver[l], instrument(l, 1)>> IN h.held[x] - g.held[x] = amount[l]
    <3> DEFINE x == <<receiver[l], instrument(l, 1)>>
    <3>1. x \in Purse /\ Brings(x) = amount[l]
      <4>1. {0, 1} \subseteq Epochs \cup {0}
        BY LegAmounts DEF Epochs
      <4>2. CASE l = "unit"
        BY <4>1, <4>2 DEF receiver, instrument, Purse, Brings, Holders, LPs
      <4>3. CASE l = "roll"
        BY <4>1, <4>3 DEF receiver, instrument, Purse, Brings, Holders, LPs
      <4>4. CASE l = "cash"
        BY <4>1, <4>4 DEF receiver, instrument, Purse, Brings, Holders, LPs
      <4>5. QED
        BY <4>2, <4>3, <4>4 DEF Legs
    <3> HIDE DEF x
    <3>2. g.held[x] \in Nat /\ amount[l] \in Nat
      BY <3>1, LegAmounts DEF Typed, LedgerRecord
    <3>3. h.held[x] - g.held[x] = amount[l]
      BY <1>10, <3>1, <3>2
    <3>4. QED
      BY <3>3 DEF x
  <2>2. \A lp \in LPs : For("interest", lp) \notin h.acs
    BY <1>14 DEF LeftOver, Holders
  <2>3. QED
    BY <1>12, <2>1, <2>2 DEF Moved
<1>16. Proves(s, h)
  BY <1>1, <1>15 DEF Proves, Found
<1>17. QED
  BY <1>1, <1>2, <1>4, <1>9, <1>10, <1>12, <1>14, <1>16 DEF s

(* The scripts with the seeded parties.                                      *)
LifeRoom(n) ==
  IF n = 1 THEN <<>>
  ELSE <<IF n <= 3 THEN RoomFresh ELSE IF n = 4 THEN RoomPriced ELSE IF n = 5 THEN RoomConsented ELSE RoomElecting>>
MinimalRoom(n) == IF n = 1 THEN <<>> ELSE <<IF n = 2 THEN RoomFresh ELSE RoomPriced>>

\* The steps of the two scripts that use the seeded parties.
LEMMA SeededSteps ==
  /\ DOMAIN LifecycleSteps = 1 .. 6 /\ DOMAIN MinimalSteps = 1 .. 4 /\ Len(LifecycleSteps) = 6 /\ Len(MinimalSteps) = 4
  /\ LifecycleSteps[1] = Chooses("gp", "room") /\ LifecycleSteps[2] = Creates("buyer", Bid("buyer"))
  /\ LifecycleSteps[3] = Chooses("gp", "SetClearing") /\ LifecycleSteps[4] = Chooses("gp", "RecordConsent")
  /\ LifecycleSteps[5] = Chooses("gp", "OpenElections") /\ LifecycleSteps[6] = Creates("lpExiting", Filed("lpExiting"))
  /\ MinimalSteps[1] = Chooses("gp", "room") /\ MinimalSteps[2] = Chooses("gp", "SetClearing")
  /\ MinimalSteps[3] = Chooses("gp", "RecordConsent")
BY DEF LifecycleSteps, MinimalSteps

\* A bid or an election filed in the seeded scripts leaves the room.
LEMMA FilesOne ==
  ASSUME NEW g \in LedgerRecord, NEW p \in Holders, NEW c \in {Bid(p), Filed(p)}
  PROVE  \E h : Does(Creates(p, c), g, h) /\ h.rooms = g.rooms
<1>1. c \in ContractRecord /\ p \in projectionOf(c) /\ signatory(c) = p
  BY ContractsAreTyped, WhoSigns
<1> DEFINE h == [g EXCEPT !.acs = @ \cup {c}]
<1>2. Does(S(signatory(c), "create", c, p), g, h) /\ h.rooms = g.rooms
  BY <1>1, CreateDoes
<1> HIDE DEF h
<1>3. QED
  BY <1>1, <1>2 DEF Creates

\* With the seeded parties every step of the lifecycle check goes.
LEMMA LifecycleGoes ==
  ASSUME NEW g \in LedgerRecord, NEW n \in 1 .. 6, g.rooms = LifeRoom(n), script = "lifecycle"
  PROVE  \E h : Does(LifecycleSteps[n], g, h) /\ h.rooms = LifeRoom(n + 1)
<1>1. lpac = "gp"
  BY DEF lpac
<1>2. \A r \in {RoomFresh, RoomPriced, RoomConsented, RoomElecting} : OneRoom(g, r).rooms = <<r>>
  BY RoomStages, OneRoomIsTyped
<1>3. /\ LifeRoom(1) = <<>> /\ LifeRoom(2) = <<RoomFresh>> /\ LifeRoom(3) = <<RoomFresh>> /\ LifeRoom(4) = <<RoomPriced>>
      /\ LifeRoom(5) = <<RoomConsented>> /\ LifeRoom(6) = <<RoomElecting>> /\ LifeRoom(7) = <<RoomElecting>>
  BY DEF LifeRoom
<1>4. "buyer" \in Holders /\ "lpExiting" \in Holders
  BY DEF Holders, LPs
<1>5. CASE n = 1
  <2>1. g.rooms = <<>> /\ LifeRoom(n + 1) = <<RoomFresh>>
    BY <1>3, <1>5
  <2>2. QED
    BY <1>2, <1>5, <2>1, RoomDoes, SeededSteps
<1>6. CASE n = 2
  <2>1. LifeRoom(n + 1) = g.rooms
    BY <1>3, <1>6
  <2>2. QED
    BY <1>4, <1>6, <2>1, FilesOne, SeededSteps
<1>7. CASE n = 3
  <2>1. g.rooms = <<RoomFresh>> /\ LifeRoom(n + 1) = <<RoomPriced>>
    BY <1>3, <1>7
  <2>2. QED
    BY <1>2, <1>7, <2>1, RoomDoes, SeededSteps
<1>8. CASE n = 4
  <2>1. g.rooms = <<RoomPriced>> /\ LifeRoom(n + 1) = <<RoomConsented>>
    BY <1>3, <1>8
  <2>2. QED
    BY <1>1, <1>2, <1>8, <2>1, RoomDoes, SeededSteps
<1>9. CASE n = 5
  <2>1. g.rooms = <<RoomConsented>> /\ LifeRoom(n + 1) = <<RoomElecting>>
    BY <1>3, <1>9
  <2>2. QED
    BY <1>2, <1>9, <2>1, RoomDoes, SeededSteps
<1>10. CASE n = 6
  <2>1. LifeRoom(n + 1) = g.rooms
    BY <1>3, <1>10
  <2>2. QED
    BY <1>4, <1>10, <2>1, FilesOne, SeededSteps
<1>11. QED
  BY <1>5, <1>6, <1>7, <1>8, <1>9, <1>10

\* The minimal close goes as far as the clearing price.
LEMMA MinimalGoes ==
  ASSUME NEW g \in LedgerRecord, NEW n \in 1 .. 2, g.rooms = MinimalRoom(n)
  PROVE  \E h : Does(MinimalSteps[n], g, h) /\ h.rooms = MinimalRoom(n + 1)
<1>1. \A r \in {RoomFresh, RoomPriced} : OneRoom(g, r).rooms = <<r>>
  BY RoomStages, OneRoomIsTyped
<1>2. MinimalRoom(1) = <<>> /\ MinimalRoom(2) = <<RoomFresh>> /\ MinimalRoom(3) = <<RoomPriced>>
  BY DEF MinimalRoom
<1>3. CASE n = 1
  <2>1. g.rooms = <<>> /\ MinimalRoom(n + 1) = <<RoomFresh>>
    BY <1>2, <1>3
  <2>2. QED
    BY <1>1, <1>3, <2>1, RoomDoes, SeededSteps
<1>4. CASE n = 2
  <2>1. g.rooms = <<RoomFresh>> /\ MinimalRoom(n + 1) = <<RoomPriced>>
    BY <1>2, <1>4
  <2>2. QED
    BY <1>1, <1>4, <2>1, RoomDoes, SeededSteps
<1>5. QED
  BY <1>3, <1>4

\* The consent is not the GP's to record.
LEMMA MinimalStops ==
  script = "minimal" => /\ MinimalSteps[3].op = "RecordConsent" /\ MinimalSteps[3].by # authority(MinimalSteps[3])
<1>1. MinimalSteps[3].by = "gp" /\ MinimalSteps[3].op = "RecordConsent"
  BY SeededSteps DEF Chooses, S
<1>2. QED
  BY <1>1 DEF authority, lpac

(* The inductive invariant of the scripts.                                   *)
\* The keys come after the registry, and only a lost call or their refusal ends
\* a script that onboards wallets.
OnboardsInOrder ==
  /\ ended = "running" => (pc > 7 => registry = "wallets") /\ (keys <=> pc > 8)
  /\ ended = "failed" => lost \/ ~keys
  /\ ended = "proven" => keys /\ registry = "wallets"
ClosesAtLast ==
  /\ ended = "running" => WalletAt(ledger, IF pc <= 8 THEN 9 ELSE pc)
  /\ ended = "failed" => lost \/ ~settled(1)
  /\ ended = "proven" => settled(1) /\ ledger.acs \cap LeftOver = {}
ComesToElections ==
  /\ ended = "running" => ledger.rooms = LifeRoom(pc) /\ (pc > 1 => registry = "seeded")
  /\ ended = "failed" => lost \/ registry = "wallets"
  /\ ended = "proven" => registry = "seeded" /\ ledger.rooms = <<RoomElecting>>
StopsAtConsent ==
  /\ pc <= 3 /\ ended # "proven"
  /\ \A i \in DOMAIN ledger.rooms : ledger.rooms[i].stage = "Setup"
  /\ ended = "running" => ledger.rooms = MinimalRoom(pc)

ScriptLedger == ledger \in LedgerRecord /\ epoch = 1 /\ opening = 0 /\ minting = {} /\ assembled \subseteq {1}
ScriptTyped ==
  /\ script \in {"provision", "wallets", "minimal", "lifecycle"} /\ pc \in 1 .. Len(Plan[script])
  /\ ended \in {"running", "proven", "failed"} /\ registry \in {"seeded", "wallets"}
ScriptInv ==
  /\ ScriptLedger
  /\ ScriptTyped
  /\ script \in {"wallets", "provision"} => OnboardsInOrder
  /\ script = "wallets" => ClosesAtLast
  /\ script = "lifecycle" => ComesToElections
  /\ script = "minimal" => StopsAtConsent

scriptState == <<seatVars, scriptVars>>

\* The plans and their lengths.
LEMMA Plans ==
  /\ DOMAIN Plan = {"provision", "wallets", "minimal", "lifecycle"}
  /\ Plan["provision"] = ProvisionSteps /\ Plan["wallets"] = WalletSteps
  /\ Plan["minimal"] = MinimalSteps /\ Plan["lifecycle"] = LifecycleSteps
  /\ Len(ProvisionSteps) = 8 /\ Len(WalletSteps) = 43 /\ Len(MinimalSteps) = 4 /\ Len(LifecycleSteps) = 6
  /\ \A s \in DOMAIN Plan : DOMAIN Plan[s] = 1 .. Len(Plan[s]) /\ Len(Plan[s]) \in Nat
<1>1. /\ DOMAIN Plan = {"provision", "wallets", "minimal", "lifecycle"}
      /\ Plan["provision"] = ProvisionSteps /\ Plan["wallets"] = WalletSteps
      /\ Plan["minimal"] = MinimalSteps /\ Plan["lifecycle"] = LifecycleSteps
  BY DEF Plan
<1>2. /\ Len(ProvisionSteps) = 8 /\ Len(WalletSteps) = 43 /\ Len(MinimalSteps) = 4 /\ Len(LifecycleSteps) = 6
      /\ DOMAIN MinimalSteps = 1 .. 4 /\ DOMAIN LifecycleSteps = 1 .. 6
  BY PartsOfThePlan, WalletPlan, SeededSteps
<1>3. DOMAIN ProvisionSteps = 1 .. 8 /\ DOMAIN WalletSteps = 1 .. 43
  <2>1. ProvisionSteps \in Seq(StepRecord) /\ WalletSteps \in Seq(StepRecord)
    BY PartsOfThePlan, WalletPlan
  <2>2. QED
    BY <1>2, <2>1
<1>4. \A s \in DOMAIN Plan : DOMAIN Plan[s] = 1 .. Len(Plan[s]) /\ Len(Plan[s]) \in Nat
  BY ONLY <1>1, <1>2, <1>3
<1>5. QED
  BY ONLY <1>1, <1>2, <1>4

\* What comes where in six elements and two more.
LEMMA SixAndTwo ==
  ASSUME NEW X, NEW s \in Seq(X), NEW t \in Seq(X), Len(s) = 6, Len(t) = 2
  PROVE  /\ \A i \in 1 .. 6 : (s \o t)[i] = s[i]
         /\ (s \o t)[7] = t[1] /\ (s \o t)[8] = t[2]
<1> DEFINE u == s \o t
<1>1. /\ \A i \in 1 .. Len(s) : u[i] = s[i]
      /\ \A i \in 1 .. Len(t) : u[Len(s) + i] = t[i]
  <2>1. s \in Seq(X) /\ t \in Seq(X)
    OBVIOUS
  <2>2. \A i \in 1 .. Len(s) : u[i] = s[i]
    BY ONLY <2>1
  <2>3. \A i \in 1 .. Len(t) : u[Len(s) + i] = t[i]
    BY ONLY <2>1
  <2>4. QED
    BY ONLY <2>2, <2>3
<1> HIDE DEF u
<1>2. \A i \in 1 .. 6 : u[i] = s[i]
  BY ONLY <1>1, Len(s) = 6
<1>3. u[6 + 1] = t[1] /\ u[6 + 2] = t[2]
  BY ONLY <1>1, Len(s) = 6, Len(t) = 2
<1>4. (6 + 1) = 7 /\ (6 + 2) = 8
  OBVIOUS
<1>5. u[7] = t[1] /\ u[8] = t[2]
  BY ONLY <1>3, <1>4
<1>6. QED
  BY <1>2, <1>5 DEF u

\* The steps before the ledger: the wallets, the registry, the keys.
LEMMA OnboardingSteps ==
  /\ \A i \in 1 .. 6 : ProvisionSteps[i].op = "onboard" /\ WalletSteps[i].op = "onboard"
  /\ ProvisionSteps[7].op = "register" /\ WalletSteps[7].op = "register"
  /\ ProvisionSteps[8].op = "keep" /\ WalletSteps[8].op = "keep"
<1> DEFINE s == [i \in DOMAIN Onboarding |-> S(Onboarding[i], "onboard", "wallet", Onboarding[i])]
           a == S("gp", "register", "file", "gp")
           b == S("gp", "keep", "file", "gp")
<1>1. DOMAIN Onboarding = 1 .. 6 /\ \A i \in 1 .. 6 : Onboarding[i] \in ScriptSeat
  BY StepsAreTyped DEF Onboarding
<1>2. s \in [1 .. 6 -> StepRecord] /\ a \in StepRecord /\ b \in StepRecord
  BY <1>1, StepsAreTyped
<1>3. /\ \A i \in 1 .. 6 : s[i].op = "onboard"
      /\ a.op = "register" /\ b.op = "keep"
  BY <1>1 DEF S
<1>4. ProvisionSteps = s \o <<a, b>>
  BY DEF ProvisionSteps
<1> HIDE DEF s, a, b
<1>5. s \in Seq(StepRecord) /\ Len(s) = 6
  <2>1. 6 \in Nat /\ DOMAIN s = 1 .. 6
    BY ONLY <1>2
  <2>2. s \in UNION {[1 .. n -> StepRecord] : n \in Nat}
    BY ONLY <1>2, <2>1
  <2>3. Seq(StepRecord) = UNION {[1 .. n -> StepRecord] : n \in Nat}
    BY SeqDef
  <2>4. s \in Seq(StepRecord)
    BY ONLY <2>2, <2>3, Zenon
  <2>5. QED
    BY ONLY <2>1, <2>4
<1>6. <<a, b>> \in Seq(StepRecord) /\ Len(<<a, b>>) = 2 /\ <<a, b>>[1] = a /\ <<a, b>>[2] = b
  BY ONLY <1>2
<1>7. /\ \A i \in 1 .. 6 : ProvisionSteps[i] = s[i]
      /\ ProvisionSteps[7] = a /\ ProvisionSteps[8] = b
  <2>1. /\ \A i \in 1 .. 6 : (s \o <<a, b>>)[i] = s[i]
        /\ (s \o <<a, b>>)[7] = a /\ (s \o <<a, b>>)[8] = b
    BY ONLY <1>5, <1>6, SixAndTwo
  <2>2. QED
    BY ONLY <1>4, <2>1
<1>8. /\ \A i \in 1 .. 6 : ProvisionSteps[i].op = "onboard"
      /\ ProvisionSteps[7].op = "register" /\ ProvisionSteps[8].op = "keep"
  BY ONLY <1>3, <1>7
<1>9. \A i \in 1 .. 8 : WalletSteps[i] = ProvisionSteps[i]
  <2>1. DOMAIN ProvisionSteps = 1 .. 8
    BY Plans
  <2>2. QED
    BY <2>1, WalletPlan DEF Holds
<1>10. QED
  BY ONLY <1>8, <1>9

\* The steps of a script that the ledger is asked for, and the others.
LEMMA WhichOps ==
  ASSUME ScriptInv, ended = "running"
  PROVE  /\ Now.op = "onboard" => script \in {"provision", "wallets"} /\ pc \in 1 .. 6
         /\ Now.op = "register" => script \in {"provision", "wallets"} /\ pc = 7
         /\ Now.op = "keep" => script \in {"provision", "wallets"} /\ pc = 8
         /\ Now.op \in LedgerOps => script # "provision" /\ (script = "wallets" => pc \in 9 .. 43)
<1>1. "onboard" \notin LedgerOps /\ "register" \notin LedgerOps /\ "keep" \notin LedgerOps
  BY DEF LedgerOps
<1>2. CASE script = "provision"
  <2>1. pc \in 1 .. 8 /\ Now = ProvisionSteps[pc]
    BY <1>2, Plans DEF ScriptInv, ScriptTyped, Now
  <2>2. QED
    BY <1>1, <1>2, <2>1, OnboardingSteps
<1>3. CASE script = "wallets"
  <2>1. pc \in 1 .. 43 /\ Now = WalletSteps[pc]
    BY <1>3, Plans DEF ScriptInv, ScriptTyped, Now
  <2>2. CASE pc \in 1 .. 8
    BY <1>1, <1>3, <2>1, <2>2, OnboardingSteps
  <2>3. CASE pc \in 9 .. 42
    <3>1. ledger \in LedgerRecord /\ WalletAt(ledger, pc)
      BY <1>3, <2>3 DEF ScriptInv, ScriptLedger, ClosesAtLast
    <3>2. Now.op \in LedgerOps
      BY <1>3, <2>1, <2>3, <3>1, WalletGoes DEF Does
    <3>3. QED
      BY <1>1, <1>3, <2>3, <3>2
  <2>4. CASE pc = 43
    <3>1. WalletAt(ledger, 43) /\ Typed /\ epoch = 1
      BY <1>3, <2>4, LegAmounts DEF ScriptInv, ScriptLedger, ClosesAtLast, Typed, Epochs
    <3>2. Now.op = "Close"
      BY <1>3, <2>1, <2>4, <3>1, CloseGoes
    <3>3. QED
      BY <1>3, <2>4, <3>2
  <2>5. QED
    BY <2>1, <2>2, <2>3, <2>4
<1>4. CASE script = "lifecycle"
  <2>1. pc \in 1 .. 6 /\ Now = LifecycleSteps[pc]
    BY <1>4, Plans DEF ScriptInv, ScriptTyped, Now
  <2>2. ledger \in LedgerRecord /\ ledger.rooms = LifeRoom(pc)
    BY <1>4 DEF ScriptInv, ScriptLedger, ComesToElections
  <2>3. Now.op \in LedgerOps
    BY <1>4, <2>1, <2>2, LifecycleGoes DEF Does
  <2>4. QED
    BY <1>1, <1>4, <2>3
<1>5. CASE script = "minimal"
  <2>1. pc \in 1 .. 3 /\ Now = MinimalSteps[pc]
    BY <1>5, Plans DEF ScriptInv, ScriptTyped, StopsAtConsent, Now
  <2>2. ledger \in LedgerRecord /\ ledger.rooms = MinimalRoom(pc)
    BY <1>5 DEF ScriptInv, ScriptLedger, StopsAtConsent
  <2>3. CASE pc \in 1 .. 2
    BY <1>1, <1>5, <2>1, <2>2, <2>3, MinimalGoes DEF Does
  <2>4. CASE pc = 3
    BY <1>1, <1>5, <2>1, <2>4, MinimalStops DEF LedgerOps
  <2>5. QED
    BY <2>1, <2>3, <2>4
<1>6. QED
  BY <1>2, <1>3, <1>4, <1>5 DEF ScriptInv, ScriptTyped

\* What the script has of the ledger h its step leaves.
After(h) ==
  /\ script = "wallets" => /\ pc < 43 => WalletAt(h, pc + 1)
                           /\ pc = 43 => Doc("receipt", 1) \in h.acs /\ h.acs \cap LeftOver = {}
  /\ script = "lifecycle" => registry = "seeded" /\ h.rooms = LifeRoom(pc + 1)
  /\ script = "minimal" => pc < 3 /\ h.rooms = MinimalRoom(pc + 1)
Stopped == script = "minimal" \/ (script = "lifecycle" /\ registry = "wallets")

\* Every step the ledger is asked for is taken and told so, but the two that
\* have no authority or no party for it.
LEMMA Answers ==
  ASSUME ScriptInv, ended = "running", Now.op \in LedgerOps
  PROVE  \/ \E h \in LedgerRecord : Answer(Now) = Done(h) /\ Proves(Now, h) /\ After(h)
         \/ Answer(Now) = Thrown(ledger) /\ Stopped
<1>1. script # "provision" /\ (script = "wallets" => pc \in 9 .. 43) /\ ledger \in LedgerRecord
  BY WhichOps DEF ScriptInv, ScriptLedger
<1>2. ASSUME NEW h, Does(Now, ledger, h), ~Nameless(Now)
      PROVE  h \in LedgerRecord /\ Answer(Now) = Done(h) /\ Proves(Now, h)
  BY <1>2 DEF Does, Answer, Proves
<1>3. CASE script = "wallets"
  <2>1. Now = WalletSteps[pc] /\ pc \in 9 .. 43
    BY <1>1, <1>3, Plans DEF ScriptInv, ScriptTyped, Now
  <2>2. ~Nameless(Now)
    BY <1>3 DEF Nameless
  <2>3. CASE pc = 43
    <3>1. WalletAt(ledger, 43) /\ Typed /\ epoch = 1
      BY <1>3, <2>3, LegAmounts DEF ScriptInv, ScriptLedger, ClosesAtLast, Typed, Epochs
    <3>2. PICK h \in LedgerRecord : /\ Command(Now, ledger) = Done(h) /\ Proves(Now, h)
                                    /\ Doc("receipt", 1) \in h.acs /\ h.acs \cap LeftOver = {}
      BY <1>3, <2>1, <2>3, <3>1, CloseGoes
    <3>3. Now.by = authority(Now)
      BY <1>3, <2>1, <2>3, <3>1, CloseGoes
    <3>4. Answer(Now) = Done(h) /\ After(h)
      BY <1>3, <2>2, <2>3, <3>2, <3>3 DEF Answer, After
    <3>5. QED
      BY <3>2, <3>4
  <2>4. CASE pc \in 9 .. 42
    <3>1. WalletAt(ledger, pc)
      BY <1>3, <2>4 DEF ScriptInv, ClosesAtLast
    <3>2. PICK h : Does(Now, ledger, h) /\ WalletAt(h, pc + 1)
      BY <1>1, <1>3, <2>1, <2>4, <3>1, WalletGoes
    <3>3. h \in LedgerRecord /\ Answer(Now) = Done(h) /\ Proves(Now, h)
      BY <1>2, <2>2, <3>2
    <3>4. After(h)
      BY <1>3, <2>4, <3>2 DEF After
    <3>5. QED
      BY <3>3, <3>4
  <2>5. QED
    BY <2>1, <2>3, <2>4
<1>4. CASE script = "lifecycle"
  <2>1. pc \in 1 .. 6 /\ Now = LifecycleSteps[pc] /\ registry \in {"seeded", "wallets"}
    BY <1>4, Plans DEF ScriptInv, ScriptTyped, Now
  <2>2. ledger.rooms = LifeRoom(pc) /\ (pc > 1 => registry = "seeded")
    BY <1>4 DEF ScriptInv, ComesToElections
  <2>3. CASE registry = "wallets"
    <3>1. Now.op = "room"
      BY <2>1, <2>2, <2>3, SeededSteps DEF Chooses, S
    <3>2. Answer(Now) = Thrown(ledger)
      BY <1>4, <2>3, <3>1 DEF Answer, Nameless
    <3>3. QED
      BY <1>4, <2>3, <3>2 DEF Stopped
  <2>4. CASE registry = "seeded"
    <3>1. ~Nameless(Now)
      BY <2>4 DEF Nameless
    <3>2. PICK h : Does(Now, ledger, h) /\ h.rooms = LifeRoom(pc + 1)
      BY <1>1, <1>4, <2>1, <2>2, LifecycleGoes
    <3>3. After(h)
      BY <1>4, <2>4, <3>2 DEF After
    <3>4. QED
      BY <1>2, <3>1, <3>2, <3>3
  <2>5. QED
    BY <2>1, <2>3, <2>4
<1>5. CASE script = "minimal"
  <2>1. pc \in 1 .. 3 /\ Now = MinimalSteps[pc] /\ ledger.rooms = MinimalRoom(pc)
    BY <1>5, Plans DEF ScriptInv, ScriptTyped, StopsAtConsent, Now
  <2>2. CASE Nameless(Now)
    BY <1>5, <2>2 DEF Answer, Stopped
  <2>3. CASE pc = 3
    BY <1>5, <2>1, <2>3, MinimalStops DEF Answer, Stopped
  <2>4. CASE pc \in 1 .. 2 /\ ~Nameless(Now)
    <3>1. PICK h : Does(Now, ledger, h) /\ h.rooms = MinimalRoom(pc + 1)
      BY <1>1, <2>1, <2>4, MinimalGoes
    <3>2. After(h)
      BY <1>5, <2>4, <3>1 DEF After
    <3>3. QED
      BY <1>2, <2>4, <3>1, <3>2
  <2>5. QED
    BY <2>1, <2>2, <2>3, <2>4
<1>6. QED
  BY <1>1, <1>3, <1>4, <1>5 DEF ScriptInv, ScriptTyped

(* The steps of a run.                                                       *)
\* How long each plan is.
LEMMA HowLong ==
  /\ Len(Plan["provision"]) = 8 /\ Len(Plan["wallets"]) = 43 /\ Len(Plan["minimal"]) = 4 /\ Len(Plan["lifecycle"]) = 6
  /\ \A s \in DOMAIN Plan : Len(Plan[s]) \in {4, 6, 8, 43}
  /\ \A s \in {"provision", "wallets"} : Len(Plan[s]) = IF s = "provision" THEN 8 ELSE 43
<1>1. Len(Plan["provision"]) = 8 /\ Len(Plan["wallets"]) = 43 /\ Len(Plan["minimal"]) = 4 /\ Len(Plan["lifecycle"]) = 6
  BY Plans, Zenon
<1>2. DOMAIN Plan = {"provision", "wallets", "minimal", "lifecycle"}
  BY Plans
<1>3. QED
  BY ONLY <1>1, <1>2

\* The minimal close's room is in Setup.
LEMMA MinimalStages ==
  ASSUME NEW g, NEW n \in 1 .. 3, g.rooms = MinimalRoom(n)
  PROVE  \A i \in DOMAIN g.rooms : g.rooms[i].stage = "Setup"
<1>1. DOMAIN <<>> = {} /\ \A r : DOMAIN <<r>> = {1} /\ <<r>>[1] = r
  OBVIOUS
<1>2. RoomFresh.stage = "Setup" /\ RoomPriced.stage = "Setup"
  BY RoomStages
<1>3. MinimalRoom(1) = <<>> /\ MinimalRoom(2) = <<RoomFresh>> /\ MinimalRoom(3) = <<RoomPriced>>
  BY DEF MinimalRoom
<1>4. n = 1 \/ n = 2 \/ n = 3
  OBVIOUS
<1>5. QED
  BY <1>1, <1>2, <1>3, <1>4

\* A run starts with nothing on the ledger.
LEMMA ScriptsStart == ScriptsInit /\ SeatsFrom(NewLedger) => ScriptInv
<1> SUFFICES ASSUME ScriptsInit, SeatsFrom(NewLedger) PROVE ScriptInv
  OBVIOUS
<1>1. ledger = NewLedger /\ epoch = 1 /\ opening = 0 /\ minting = {} /\ assembled = {}
  BY DEF SeatsFrom
<1>2. <<>> \in Seq(RoomRecord)
  BY EmptySeq
<1>3. NewLedger \in LedgerRecord /\ NewLedger.rooms = <<>> /\ NewLedger.acs = {}
  BY <1>2 DEF NewLedger, LedgerRecord, Purse
<1>4. ScriptLedger
  BY <1>1, <1>3 DEF ScriptLedger
<1>5. /\ script \in DOMAIN Plan /\ pc = 1 /\ ended = "running" /\ lost = FALSE
      /\ registry \in {"seeded", "wallets"} /\ keys = FALSE
  BY DEF ScriptsInit
<1>6. ScriptTyped
  <2>1. DOMAIN Plan = {"provision", "wallets", "minimal", "lifecycle"} /\ Len(Plan[script]) \in {4, 6, 8, 43}
    BY <1>5, Plans, HowLong
  <2>2. QED
    BY <1>5, <2>1 DEF ScriptTyped
<1>7. OnboardsInOrder
  BY <1>5 DEF OnboardsInOrder
<1>8. WalletAt(NewLedger, 9)
  <2>1. RoomAt(9) = <<>>
    BY DEF RoomAt
  <2>2. /\ \A t \in DOMAIN PaperNo : ~(9 > PaperNo[t])
        /\ \A l \in Legs : 9 # LegNo[l] + 1 /\ ~(9 > LegNo[l] + 1)
        /\ \A p \in Holders : 9 # DelegationNo[p] + 1 /\ ~(9 > DelegationNo[p] + 1)
        /\ \A p \in LPs : 9 # InterestNo[p] + 1 /\ ~(9 > InterestNo[p] + 1)
        /\ \A p \in LPs : 9 # AdmissionNo[p] + 1 /\ ~(9 > AdmissionNo[p] + 1)
    BY DEF PaperNo, LegNo, DelegationNo, InterestNo, AdmissionNo, Legs, Holders, LPs
  <2>3. QED
    BY <1>3, <2>1, <2>2 DEF WalletAt
<1>9. ClosesAtLast
  BY <1>1, <1>5, <1>8 DEF ClosesAtLast
<1>10. ComesToElections
  BY <1>1, <1>3, <1>5 DEF ComesToElections, LifeRoom
<1>11. StopsAtConsent
  <2>1. ledger.rooms = MinimalRoom(1)
    BY <1>1, <1>3 DEF MinimalRoom
  <2>2. QED
    BY <1>5, <2>1, MinimalStages DEF StopsAtConsent
<1>12. QED
  BY <1>4, <1>6, <1>7, <1>9, <1>10, <1>11 DEF ScriptInv

\* A step leaves a ledger of the scripts' deal.
LEMMA LeavesWhat ==
  ASSUME ScriptLedger, NEW g \in LedgerRecord, Leaves(g)
  PROVE  ScriptLedger' /\ ledger' = g
BY DEF ScriptLedger, Leaves

\* A step off the ledger leaves the room and the contracts as they were.
LEMMA OnboardKeeps == ScriptInv /\ onboard => ScriptInv'
<1> SUFFICES ASSUME ScriptInv, onboard PROVE ScriptInv'
  OBVIOUS
<1>1. ended = "running" /\ Now.op = "onboard"
  BY DEF onboard, Runs
<1>2. script \in {"provision", "wallets"} /\ pc \in 1 .. 6
  BY <1>1, WhichOps
<1>3. pc # Len(Plan[script]) /\ Len(Plan[script]) \in {8, 43}
  <2>1. Len(Plan[script]) = IF script = "provision" THEN 8 ELSE 43
    BY ONLY <1>2, HowLong
  <2>2. QED
    BY ONLY <1>2, <2>1
<1>4. pc' = pc + 1 /\ ended' = ended /\ UNCHANGED <<ledger, epoch, opening, minting, assembled, script, lost, registry, keys>>
  BY <1>3 DEF onboard, Advance, seatVars
<1>5. ScriptLedger' /\ ScriptTyped'
  <2>1. ScriptLedger'
    BY <1>4 DEF ScriptInv, ScriptLedger
  <2>2. pc' \in 1 .. Len(Plan[script'])
    <3> DEFINE n == Len(Plan[script'])
    <3>1. n \in {8, 43}
      BY ONLY <1>3, <1>4
    <3> HIDE DEF n
    <3>2. pc' \in 1 .. n
      BY ONLY <1>2, <1>4, <3>1
    <3>3. QED
      BY ONLY <3>2 DEF n
  <2>3. script' = script /\ registry' \in {registry, "wallets"} /\ ended' = ended
    BY <1>4
  <2>4. ScriptTyped'
    BY <2>2, <2>3 DEF ScriptInv, ScriptTyped
  <2>5. QED
    BY <2>1, <2>4
<1>6. OnboardsInOrder'
  BY <1>1, <1>2, <1>4 DEF ScriptInv, OnboardsInOrder
<1>7. script' = "wallets" => ClosesAtLast'
  BY <1>1, <1>2, <1>4 DEF ScriptInv, ClosesAtLast
<1>8. QED
  BY <1>2, <1>4, <1>5, <1>6, <1>7 DEF ScriptInv

\* The registry comes before the keys.
LEMMA RegisterKeeps == ScriptInv /\ register => ScriptInv'
<1> SUFFICES ASSUME ScriptInv, register PROVE ScriptInv'
  OBVIOUS
<1>1. ended = "running" /\ Now.op = "register"
  BY DEF register, Runs
<1>2. script \in {"provision", "wallets"} /\ pc = 7
  BY <1>1, WhichOps
<1>3. pc # Len(Plan[script]) /\ Len(Plan[script]) \in {8, 43}
  <2>1. Len(Plan[script]) = IF script = "provision" THEN 8 ELSE 43
    BY ONLY <1>2, HowLong
  <2>2. QED
    BY ONLY <1>2, <2>1
<1>4. /\ pc' = pc + 1 /\ ended' = ended /\ registry' = "wallets"
      /\ UNCHANGED <<ledger, epoch, opening, minting, assembled, script, lost, keys>>
  BY <1>3 DEF register, Advance, seatVars
<1>5. ScriptLedger' /\ ScriptTyped'
  <2>1. ScriptLedger'
    BY <1>4 DEF ScriptInv, ScriptLedger
  <2>2. pc' \in 1 .. Len(Plan[script'])
    <3> DEFINE n == Len(Plan[script'])
    <3>1. n \in {8, 43}
      BY ONLY <1>3, <1>4
    <3> HIDE DEF n
    <3>2. pc' \in 1 .. n
      BY ONLY <1>2, <1>4, <3>1
    <3>3. QED
      BY ONLY <3>2 DEF n
  <2>3. script' = script /\ registry' \in {registry, "wallets"} /\ ended' = ended
    BY <1>4
  <2>4. ScriptTyped'
    BY <2>2, <2>3 DEF ScriptInv, ScriptTyped
  <2>5. QED
    BY <2>1, <2>4
<1>6. OnboardsInOrder'
  BY <1>1, <1>2, <1>4 DEF ScriptInv, OnboardsInOrder
<1>7. script' = "wallets" => ClosesAtLast'
  BY <1>1, <1>2, <1>4 DEF ScriptInv, ClosesAtLast
<1>8. QED
  BY <1>2, <1>4, <1>5, <1>6, <1>7 DEF ScriptInv

\* Before the close there is no receipt.
LEMMA UnsettledAt ==
  ASSUME NEW g, NEW n, WalletAt(g, n)
  PROVE  Doc("receipt", 1) \notin g.acs
BY DEF WalletAt, Never

\* The keys come before the ledger.
LEMMA KeepKeeps == ScriptInv /\ keep => ScriptInv'
<1> SUFFICES ASSUME ScriptInv, keep PROVE ScriptInv'
  OBVIOUS
<1>1. ended = "running" /\ Now.op = "keep"
  BY DEF keep, Runs
<1>2. script \in {"provision", "wallets"} /\ pc = 8
  BY <1>1, WhichOps
<1>3. Len(Plan[script]) = IF script = "provision" THEN 8 ELSE 43
  BY <1>2, HowLong
<1>4. UNCHANGED <<ledger, epoch, opening, minting, assembled, script, lost, registry>>
  BY DEF keep, seatVars
<1>5. registry = "wallets" /\ ~keys
  BY <1>1, <1>2 DEF ScriptInv, OnboardsInOrder
<1>6. script = "wallets" => WalletAt(ledger, 9)
  BY <1>1, <1>2 DEF ScriptInv, ClosesAtLast
<1>7. \/ keys' = TRUE /\ pc' = 8 /\ ended' = "proven" /\ script = "provision"
      \/ keys' = TRUE /\ pc' = 9 /\ ended' = "running" /\ script = "wallets"
      \/ keys' = keys /\ pc' = 8 /\ ended' = "failed"
  BY <1>1, <1>2, <1>3 DEF keep, Advance, Fail
<1>8. ScriptLedger' /\ ScriptTyped'
  <2>1. ScriptLedger'
    BY <1>4 DEF ScriptInv, ScriptLedger
  <2>2. pc' \in 1 .. Len(Plan[script'])
    BY ONLY <1>3, <1>4, <1>7
  <2>3. script' = script /\ registry' = registry /\ ended' \in {"running", "proven", "failed"}
    BY <1>4, <1>7
  <2>4. ScriptTyped'
    BY <2>2, <2>3 DEF ScriptInv, ScriptTyped
  <2>5. QED
    BY <2>1, <2>4
<1>9. OnboardsInOrder'
  BY <1>4, <1>5, <1>7 DEF OnboardsInOrder
<1>10. script' = "wallets" => ClosesAtLast'
  <2> SUFFICES ASSUME script = "wallets" PROVE ClosesAtLast'
    BY <1>4
  <2>1. ~settled(1)'
    BY <1>4, <1>6, UnsettledAt DEF settled
  <2>2. CASE ended' = "failed"
    BY <2>1, <2>2 DEF ClosesAtLast
  <2>3. CASE pc' = 9 /\ ended' = "running"
    BY <1>4, <1>6, <2>3 DEF ClosesAtLast
  <2>4. QED
    BY <1>7, <2>2, <2>3
<1>11. QED
  BY <1>2, <1>4, <1>8, <1>9, <1>10 DEF ScriptInv

\* A step the ledger is asked for.
LEMMA StepGoesOn ==
  ASSUME ScriptInv, ended = "running", NEW h \in LedgerRecord, After(h), Leaves(h), Advance,
         script # "provision", script = "wallets" => pc \in 9 .. 43, UNCHANGED <<script, lost, registry, keys>>
  PROVE  ScriptInv'
<1>1. ScriptLedger' /\ ledger' = h
  BY LeavesWhat DEF ScriptInv
<1>2. /\ script \in {"wallets", "minimal", "lifecycle"} /\ pc \in 1 .. Len(Plan[script])
      /\ registry \in {"seeded", "wallets"}
  BY DEF ScriptInv, ScriptTyped
<1>3. Len(Plan[script]) = IF script = "wallets" THEN 43 ELSE IF script = "minimal" THEN 4 ELSE 6
  BY ONLY <1>2, HowLong
<1> DEFINE n == Len(Plan[script])
<1>4. n \in Nat /\ pc \in 1 .. n /\ (pc' = IF pc = n THEN pc ELSE pc + 1) /\ (ended' = IF pc = n THEN "proven" ELSE "running")
  BY <1>2, <1>3 DEF Advance
<1>5. ScriptTyped'
  <2>1. pc' \in 1 .. n /\ ended' \in {"running", "proven"}
    BY ONLY <1>4
  <2>2. pc' \in 1 .. Len(Plan[script'])
    BY <2>1
  <2>3. QED
    BY <1>2, <2>1, <2>2 DEF ScriptTyped
<1> HIDE DEF n
<1>6. CASE script = "wallets"
  <2>1. n = 43 /\ pc \in 9 .. 43
    BY <1>3, <1>6 DEF n
  <2>2. OnboardsInOrder /\ ClosesAtLast /\ registry = "wallets" /\ keys
    BY <1>6, <2>1 DEF ScriptInv, OnboardsInOrder
  <2>3. OnboardsInOrder'
    BY <1>4, <2>1, <2>2 DEF OnboardsInOrder
  <2>4. ClosesAtLast'
    <3>1. CASE pc = 43
      <4>1. ended' = "proven" /\ Doc("receipt", 1) \in h.acs /\ h.acs \cap LeftOver = {}
        BY <1>4, <1>6, <2>1, <3>1 DEF After
      <4>2. QED
        BY <1>1, <4>1 DEF ClosesAtLast, settled
    <3>2. CASE pc \in 9 .. 42
      <4>1. ended' = "running" /\ pc' = pc + 1 /\ ~(pc' <= 8) /\ WalletAt(h, pc + 1)
        BY <1>4, <1>6, <2>1, <3>2 DEF After
      <4>2. QED
        BY <1>1, <4>1 DEF ClosesAtLast
    <3>3. QED
      BY <2>1, <3>1, <3>2
  <2>5. QED
    BY <1>1, <1>5, <1>6, <2>3, <2>4 DEF ScriptInv
<1>7. CASE script = "lifecycle"
  <2>1. n = 6 /\ registry = "seeded" /\ h.rooms = LifeRoom(pc + 1)
    BY <1>3, <1>7 DEF After, n
  <2>2. ComesToElections'
    <3>1. CASE pc = 6
      <4>1. ended' = "proven" /\ h.rooms = <<RoomElecting>>
        BY <1>4, <2>1, <3>1 DEF LifeRoom
      <4>2. QED
        BY <1>1, <2>1, <4>1 DEF ComesToElections
    <3>2. CASE pc \in 1 .. 5
      <4>1. ended' = "running" /\ pc' = pc + 1
        BY <1>4, <2>1, <3>2
      <4>2. QED
        BY <1>1, <2>1, <4>1 DEF ComesToElections
    <3>3. QED
      BY <1>4, <2>1, <3>1, <3>2
  <2>3. QED
    BY <1>1, <1>5, <1>7, <2>2 DEF ScriptInv
<1>8. CASE script = "minimal"
  <2>1. n = 4 /\ pc < 3 /\ h.rooms = MinimalRoom(pc + 1)
    BY <1>3, <1>8 DEF After, n
  <2>2. pc' = pc + 1 /\ ended' = "running" /\ pc + 1 \in 1 .. 3
    BY <1>4, <2>1
  <2>3. \A i \in DOMAIN h.rooms : h.rooms[i].stage = "Setup"
    BY <2>1, <2>2, MinimalStages
  <2>4. StopsAtConsent'
    BY <1>1, <2>1, <2>2, <2>3 DEF StopsAtConsent
  <2>5. QED
    BY <1>1, <1>5, <1>8, <2>4 DEF ScriptInv
<1>9. QED
  BY <1>2, <1>6, <1>7, <1>8

\* A script that ends before its last step does so where it may.
LEMMA GivesUp ==
  ASSUME ScriptInv, ended = "running", NEW h \in LedgerRecord, Leaves(h), Fail, UNCHANGED <<script, registry, keys>>,
         lost' \/ (h = ledger /\ Stopped), script = "minimal" => h = ledger \/ After(h)
  PROVE  ScriptInv'
<1>1. ScriptLedger' /\ ledger' = h
  BY LeavesWhat DEF ScriptInv
<1>2. ended' = "failed" /\ pc' = pc
  BY DEF Fail
<1>3. ScriptTyped'
  <2>1. pc' \in 1 .. Len(Plan[script'])
    BY <1>2 DEF ScriptInv, ScriptTyped
  <2>2. QED
    BY <1>2, <2>1 DEF ScriptInv, ScriptTyped
<1>4. script' \in {"wallets", "provision"} => OnboardsInOrder'
  BY <1>2 DEF OnboardsInOrder, Stopped
<1>5. script' = "wallets" => ClosesAtLast'
  BY <1>2 DEF ClosesAtLast, Stopped
<1>6. script' = "lifecycle" => ComesToElections'
  BY <1>2 DEF ComesToElections, Stopped
<1>7. script' = "minimal" => StopsAtConsent'
  <2> SUFFICES ASSUME script = "minimal" PROVE StopsAtConsent'
    OBVIOUS
  <2>1. StopsAtConsent /\ pc \in 1 .. 3
    BY HowLong DEF ScriptInv, ScriptTyped, StopsAtConsent
  <2>2. \A i \in DOMAIN h.rooms : h.rooms[i].stage = "Setup"
    <3>1. CASE h = ledger
      BY <2>1, <3>1 DEF StopsAtConsent
    <3>2. CASE After(h)
      <4>1. pc + 1 \in 1 .. 3 /\ h.rooms = MinimalRoom(pc + 1)
        BY <2>1, <3>2 DEF After
      <4>2. QED
        BY <4>1, MinimalStages
    <3>3. QED
      BY <3>1, <3>2
  <2>3. QED
    BY <1>1, <1>2, <2>1, <2>2 DEF StopsAtConsent
<1>8. QED
  BY <1>1, <1>3, <1>4, <1>5, <1>6, <1>7 DEF ScriptInv

\* A command is taken, or refused where the script must stop.
LEMMA ActKeeps == ScriptInv /\ act => ScriptInv'
<1> SUFFICES ASSUME ScriptInv, act PROVE ScriptInv'
  OBVIOUS
<1>1. ended = "running" /\ Now.op \in LedgerOps
  BY DEF act, Runs
<1>2. script # "provision" /\ (script = "wallets" => pc \in 9 .. 43)
  BY <1>1, WhichOps
<1> DEFINE r == Answer(Now)
           g == submit(ledger, r)
<1>3. /\ Leaves(g) /\ UNCHANGED <<script, lost, registry, keys>>
      /\ IF r.ok /\ Proves(Now, g) THEN Advance ELSE Fail
  BY DEF act
<1>4. CASE \E h \in LedgerRecord : r = Done(h) /\ Proves(Now, h) /\ After(h)
  <2>1. PICK h \in LedgerRecord : r = Done(h) /\ Proves(Now, h) /\ After(h)
    BY <1>4
  <2>2. r.ok /\ g = h
    BY <2>1 DEF submit, Done
  <2> HIDE DEF r, g
  <2>3. Advance /\ Leaves(h)
    BY <1>3, <2>1, <2>2
  <2>4. QED
    BY <1>1, <1>2, <1>3, <2>1, <2>3, StepGoesOn
<1>5. CASE r = Thrown(ledger) /\ Stopped
  <2>1. ~r.ok /\ g = ledger
    BY <1>5 DEF submit, Thrown
  <2> HIDE DEF r, g
  <2>2. Fail /\ Leaves(ledger) /\ ledger \in LedgerRecord
    BY <1>3, <2>1 DEF ScriptInv, ScriptLedger
  <2>3. QED
    BY <1>1, <1>3, <1>5, <2>2, GivesUp
<1>6. QED
  BY <1>1, <1>4, <1>5, Answers

\* A lost call ends the script, whatever the ledger made of it.
LEMMA CutOffKeeps == ScriptInv /\ cutOff => ScriptInv'
<1> SUFFICES ASSUME ScriptInv, cutOff PROVE ScriptInv'
  OBVIOUS
<1>1. /\ ended = "running" /\ lost' = TRUE /\ Fail /\ UNCHANGED <<script, registry, keys>>
      /\ ledger \in LedgerRecord
  BY DEF cutOff, Runs, ScriptInv, ScriptLedger
<1>2. PICK g \in {ledger} \cup {submit(ledger, Answer(Now)) : x \in {Now.op} \cap LedgerOps} : Leaves(g)
  BY DEF cutOff
<1>3. g = ledger \/ (g \in LedgerRecord /\ After(g))
  <2> SUFFICES ASSUME g # ledger PROVE g \in LedgerRecord /\ After(g)
    OBVIOUS
  <2>1. Now.op \in LedgerOps /\ g = submit(ledger, Answer(Now))
    BY <1>2
  <2>2. CASE \E h \in LedgerRecord : Answer(Now) = Done(h) /\ Proves(Now, h) /\ After(h)
    BY <2>1, <2>2 DEF submit, Done
  <2>3. CASE Answer(Now) = Thrown(ledger)
    BY <2>1, <2>3 DEF submit, Thrown
  <2>4. QED
    BY <1>1, <2>1, <2>2, <2>3, Answers
<1>4. QED
  BY <1>1, <1>2, <1>3, GivesUp

\* Every step of a run keeps the invariant.
LEMMA ScriptsStep == ScriptInv /\ (ScriptsNext \/ UNCHANGED scriptState) => ScriptInv'
<1> SUFFICES ASSUME ScriptInv, ScriptsNext \/ UNCHANGED scriptState PROVE ScriptInv'
  OBVIOUS
<1>1. CASE UNCHANGED scriptState
  <2>1. UNCHANGED <<ledger, epoch, opening, minting, assembled, script, pc, ended, lost, registry, keys>>
    BY <1>1 DEF scriptState, seatVars, scriptVars
  <2>2. ScriptLedger' /\ ScriptTyped' /\ (OnboardsInOrder' <=> OnboardsInOrder)
    BY <2>1 DEF ScriptInv, ScriptLedger, ScriptTyped, OnboardsInOrder
  <2>3. (ClosesAtLast' <=> ClosesAtLast) /\ (ComesToElections' <=> ComesToElections) /\ (StopsAtConsent' <=> StopsAtConsent)
    BY <2>1 DEF ClosesAtLast, ComesToElections, StopsAtConsent, settled
  <2>4. QED
    BY <2>1, <2>2, <2>3 DEF ScriptInv
<1>2. CASE exited
  <2>1. UNCHANGED scriptState
    BY <1>2 DEF exited, scriptState
  <2>2. QED
    BY <1>1, <2>1
<1>3. QED
  BY <1>1, <1>2, OnboardKeeps, RegisterKeeps, KeepKeeps, ActKeeps, CutOffKeeps DEF ScriptsNext

\* The invariant is what the scripts prove, and more.
LEMMA ScriptInvProves == ScriptInv => ScriptsProveTheClose
<1> SUFFICES ASSUME ScriptInv PROVE ScriptsProveTheClose
  OBVIOUS
<1>1. ended \in {"running", "proven", "failed"} /\ registry \in {"seeded", "wallets"}
  BY DEF ScriptInv, ScriptTyped
<1>2. script \in {"wallets", "provision"} =>
        (ended = "failed" => lost \/ ~keys) /\ (ended = "proven" => keys /\ registry = "wallets")
  BY DEF ScriptInv, OnboardsInOrder
<1>3. script = "wallets" =>
        (ended = "proven" => settled(1) /\ ledger.acs \cap LeftOver = {}) /\ (settled(1) => ended = "proven" \/ lost)
  <2>1. script = "wallets" => (ended = "running" => ~settled(1))
    BY UnsettledAt DEF ScriptInv, ClosesAtLast, settled
  <2>2. QED
    BY <1>1, <2>1 DEF ScriptInv, ClosesAtLast
<1>4. script = "lifecycle" /\ ended # "running" /\ ~lost =>
        (ended = "proven" <=> registry = "seeded") /\ (ended = "proven" => ledger.rooms[1].stage = "Electing")
  <2>1. <<RoomElecting>>[1].stage = "Electing"
    BY RoomStages
  <2>2. QED
    BY <1>1, <2>1 DEF ScriptInv, ComesToElections
<1>5. script = "minimal" => ended # "proven" /\ \A i \in DOMAIN ledger.rooms : ledger.rooms[i].stage = "Setup"
  BY DEF ScriptInv, StopsAtConsent
<1>6. QED
  BY <1>2, <1>3, <1>4, <1>5 DEF ScriptsProveTheClose
=============================================================================
