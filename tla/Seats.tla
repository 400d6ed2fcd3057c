------------------------------- MODULE Seats -------------------------------
(* The close as the web app's seats run it against the sandbox ledger: the   *)
(* GP's page (views/Advisor.tsx), the LPAC's page and its approval queue,    *)
(* the valuer's, the buyer's and the LPs'.  A button is there when the page  *)
(* shows it enabled for what its seat sees of the ledger; pressing it        *)
(* submits one command.  Two handlers take more than one: opening the room   *)
(* reads and then creates, allocating a leg mints and then allocates.  A     *)
(* reset begins the next deal and reloads every page.                        *)
EXTENDS SandboxLedger

CONSTANT MaxHandlers  \* bound: tabs of the GP opening the room at once

\* The unit legs make up the price of the purchase agreement, which is not nothing.
ASSUME SeatsAssumption ==
  /\ MaxEpoch \in Nat \ {0} /\ MaxHandlers \in Nat \ {0}
  /\ Navs \in [LPs -> Nat] /\ Clearing \in Nat
  /\ unitTotal(Legs) = PsaPrice /\ PsaPrice > 0

VARIABLES
  ledger,    \* the ledger's active contracts
  epoch,     \* the deal the pages are about
  opening,   \* openRoom handlers that have found no room
  minting,   \* legs minted by a handler that is yet to allocate them
  assembled  \* history: the deals an issuance basis was assembled for

seatVars == <<ledger, epoch, opening, minting, assembled>>

SeatsFrom(g) ==
  /\ ledger = g
  /\ epoch = 1
  /\ opening = 0
  /\ minting = {}
  /\ assembled = {}
\* The backend has signed the first deal's valuation.
SeatsInit == SeatsFrom(create(NewLedger, {Doc("valuation", 1)}).ledger)

(* What the pages read.                                                      *)
Sees(seat, c) == visible(ledger, seat, c)
GpHas(t) == Sees("gp", Doc(t, epoch))
RoomsOf(e) == {i \in DOMAIN ledger.rooms : ledger.rooms[i].epoch = e}
Newest(S) == CHOOSE i \in S : \A j \in S : j <= i
Oldest(S) == CHOOSE i \in S : \A j \in S : i <= j

\* The GP's page and the queue look among the deals of this epoch, the
\* partners' and the LPAC's page take the newest there is.
Opened == RoomsOf(epoch) # {}
GpDeal == Newest(RoomsOf(epoch))
QueueDeal == Oldest(RoomsOf(epoch))
LatestStage == IF ledger.rooms = <<>> THEN "none" ELSE Last(ledger.rooms).stage

\* Mutant: the receipt of an earlier deal counts.
dealClosed_AnyReceipt ==
  \/ \E e \in Epochs : Sees("gp", Doc("receipt", e))
  \/ Opened /\ ledger.rooms[GpDeal].stage = "Closed"

dealClosed == GpHas("receipt") \/ (Opened /\ ledger.rooms[GpDeal].stage = "Closed")

\* An LP takes the deal for closed when the newest is, or once it holds what
\* its leg brings: units of any deal, cash of this one.
Units(seat) == ledger.held[seat, 0]
closed(seat) ==
  \/ LatestStage = "Closed"
  \/ seat = "lpRolling" /\ Units(seat) > 0
  \/ seat = "lpExiting" /\ ledger.held[seat, epoch] > 0

(* The buttons.                                                              *)
StepRow(done, disabled) == ~done /\ ~dealClosed /\ ~disabled
CanOpen == ~Opened
CanSign(t) == StepRow(GpHas(t), FALSE)
CanAllocate(leg) == StepRow(Sees("gp", Allocation(leg, epoch)), ~Sees("gp", factory))
CanAssemble ==
  StepRow(GpHas("basis"), \E c \in Antecedents(epoch) : ~Sees("gp", c))
CanPropose == StepRow(FALSE, FALSE)
CanOffer(lp) == StepRow(Sees("gp", For("offer", lp)), FALSE)
CanAdmit(lp) == StepRow(FALSE, FALSE) /\ Sees("gp", For("participation", lp))

ceremonyChecks == \A t \in {"valuation", "opinion", "consent", "cert"} : GpHas(t)
CanIssue == ceremonyChecks /\ GpHas("basis") /\ ~GpHas("receipt") /\ Opened

consentRecorded == LatestStage \notin {"none", "Setup"}
CanAttest(t) == ~consentRecorded /\ ~Sees("lpac", Doc(t, epoch))
CanRecordConsent == Opened /\ ledger.rooms[QueueDeal].stage = "Setup"
CanAnchor == ~Sees("valuer", Doc("valuation", epoch))

PreauthShown(seat) == seat = "buyer" \/ ~closed(seat)
CanDelegate(seat) ==
  PreauthShown(seat) /\ Sees(seat, For("proposal", seat)) /\ ~Sees(seat, For("delegation", seat))
CanTakeOffer(lp) == PreauthShown(lp) /\ Sees(lp, For("offer", lp)) /\ ~Sees(lp, For("interest", lp))
CanParticipate(lp) == PreauthShown(lp) /\ ~Sees(lp, For("participation", lp))

(* Bounds: a contract is active once, and the GP signs its rows from the top. *)
Once(c) == c \notin ledger.acs
Rows == <<
  factory \in ledger.acs, GpHas("cert"), GpHas("psa"), Sees("gp", Allocation("unit", epoch)),
  Sees("gp", Allocation("roll", epoch)), Sees("gp", Allocation("cash", epoch)), GpHas("basis"),
  ~Once(For("proposal", "buyer")) \/ ~Once(For("delegation", "buyer")),
  ~Once(For("proposal", "lpExiting")) \/ ~Once(For("delegation", "lpExiting")),
  ~Once(For("proposal", "lpRolling")) \/ ~Once(For("delegation", "lpRolling")),
  ~Once(For("offer", "lpExiting")) \/ ~Once(For("interest", "lpExiting")),
  ~Once(For("offer", "lpRolling")) \/ ~Once(For("interest", "lpRolling")),
  ~Once(For("accepted", "lpExiting"))>>
FromTheTop(k) == Opened /\ \A j \in 1 .. k - 1 : Rows[j]

\* A page submits a command: what it comes to is what the ledger is then.
Submit(r) == ledger' = submit(ledger, r)
Alone == UNCHANGED <<epoch, opening, minting, assembled>>

openRoom ==
  /\ CanOpen
  /\ opening < MaxHandlers
  /\ opening' = opening + 1
  /\ UNCHANGED <<ledger, epoch, minting, assembled>>
createRoom ==
  /\ opening > 0
  /\ opening' = opening - 1
  /\ Submit(createDeal(ledger, epoch))
  /\ UNCHANGED <<epoch, minting, assembled>>

setClearing == Opened /\ Submit(SetClearing(ledger, GpDeal)) /\ Alone
openElections == Opened /\ ledger.rooms[GpDeal].priced /\ Submit(OpenElections(ledger, GpDeal)) /\ Alone

createFactory ==
  StepRow(Sees("gp", factory), FALSE) /\ FromTheTop(1) /\ Submit(create(ledger, {factory})) /\ Alone
createCert == CanSign("cert") /\ FromTheTop(2) /\ Submit(create(ledger, {Doc("cert", epoch)})) /\ Alone
createPsa == CanSign("psa") /\ FromTheTop(3) /\ Submit(create(ledger, {Doc("psa", epoch)})) /\ Alone

\* A page runs one handler of several steps at a time.  Bound: it is open once.
NotBusy == minting = {}
RowOf == [unit |-> 4, roll |-> 5, cash |-> 6]
mintLeg(leg) ==
  /\ CanAllocate(leg)
  /\ FromTheTop(RowOf[leg])
  /\ NotBusy
  /\ Submit(mint(ledger, leg, epoch))
  /\ minting' = {leg}
  /\ UNCHANGED <<epoch, opening, assembled>>
allocateLeg(leg) ==
  /\ leg \in minting
  /\ Submit(Allocate(ledger, leg, epoch))
  /\ minting' = {}
  /\ UNCHANGED <<epoch, opening, assembled>>

createBasis ==
  /\ CanAssemble
  /\ FromTheTop(7)
  /\ Submit(create(ledger, {Doc("basis", epoch)}))
  /\ assembled' = assembled \cup {epoch}
  /\ UNCHANGED <<epoch, opening, minting>>

proposeDelegation(seat) ==
  /\ CanPropose
  /\ FromTheTop([buyer |-> 8, lpExiting |-> 9, lpRolling |-> 10][seat])
  /\ Once(For("proposal", seat)) /\ Once(For("delegation", seat))
  /\ Submit(create(ledger, {For("proposal", seat)}))
  /\ Alone
offerInterest(lp) ==
  /\ CanOffer(lp)
  /\ FromTheTop([lpExiting |-> 11, lpRolling |-> 12][lp])
  /\ Once(For("interest", lp))
  /\ Submit(create(ledger, {For("offer", lp)}))
  /\ Alone
acceptParticipation(lp) ==
  /\ CanAdmit(lp)
  /\ FromTheTop([lpExiting |-> 13, lpRolling |-> 14][lp])
  /\ Once(For("accepted", lp))
  /\ Submit(Accept(ledger, lp))
  /\ Alone

\* The page reads that everything a close names is there.
Needed ==
  {Doc("basis", epoch)}
    \cup {Allocation(l, epoch) : l \in Legs} \cup {For("delegation", h) : h \in Holders}
    \cup {For(t, lp) : t \in {"accepted", "interest"}, lp \in LPs}
close ==
  /\ CanIssue
  /\ \A c \in Needed : Sees("gp", c)
  /\ Submit(Close(ledger, GpDeal, Legs, LPs))
  /\ Alone
\* The test's close of the cash leg alone.
closeCash ==
  /\ CanIssue
  /\ \A c \in {Allocation("cash", epoch), For("delegation", "lpExiting")} : Sees("gp", c)
  /\ Submit(Close(ledger, GpDeal, {"cash"}, {}))
  /\ Alone

signFairness == CanAttest("opinion") /\ Submit(create(ledger, {Doc("opinion", epoch)})) /\ Alone
grantConsent == CanAttest("consent") /\ Submit(create(ledger, {Doc("consent", epoch)})) /\ Alone
recordConsent == CanRecordConsent /\ Submit(RecordConsent(ledger, QueueDeal)) /\ Alone
anchor == CanAnchor /\ Submit(create(ledger, {Doc("valuation", epoch)})) /\ Alone

acceptDelegation(seat) == CanDelegate(seat) /\ Submit(EDP_Accept(ledger, seat)) /\ Alone
acceptOffer(lp) == CanTakeOffer(lp) /\ Submit(OFI_Accept(ledger, lp)) /\ Alone
proposeParticipation(lp) ==
  /\ CanParticipate(lp)
  /\ Once(For("accepted", lp))
  /\ Submit(create(ledger, {For("participation", lp)}))
  /\ Alone

\* Bound: the demo is reset once the deal has closed or is ready to.  The seed
\* of the new deal's valuation may fail.
Ready == \A c \in Needed : Sees("gp", c)
resetDemo(seeded) ==
  /\ epoch < MaxEpoch
  /\ dealClosed \/ Ready
  /\ epoch' = epoch + 1
  /\ opening' = 0
  /\ minting' = {}
  /\ Submit(create(ledger, IF seeded THEN {Doc("valuation", epoch + 1)} ELSE {}))
  /\ UNCHANGED assembled

GpStep ==
  \/ openRoom
  \/ createRoom
  \/ setClearing
  \/ openElections
  \/ createFactory
  \/ createCert
  \/ createPsa
  \/ \E leg \in Legs : mintLeg(leg) \/ allocateLeg(leg)
  \/ createBasis
  \/ \E seat \in Holders : proposeDelegation(seat)
  \/ \E lp \in LPs : offerInterest(lp) \/ acceptParticipation(lp)
  \/ close
  \/ closeCash

SeatsNext ==
  \/ GpStep
  \/ signFairness
  \/ grantConsent
  \/ recordConsent
  \/ anchor
  \/ \E seat \in Holders : acceptDelegation(seat)
  \/ \E lp \in LPs : acceptOffer(lp) \/ proposeParticipation(lp)
  \/ \E seeded \in BOOLEAN : resetDemo(seeded)

SeatsSpec == SeatsInit /\ [][SeatsNext]_seatVars

(* What the seats rely on.                                                   *)
Stages == {"Setup", "Consented", "Electing", "Closed", "Broken"}
SeatsTypeOK ==
  /\ \A i \in DOMAIN ledger.rooms : ledger.rooms[i] \in [epoch : Epochs, stage : Stages, priced : BOOLEAN]
  /\ \A x \in DOMAIN ledger.held : ledger.held[x] \in Nat
  /\ epoch \in Epochs /\ opening \in 0 .. MaxHandlers /\ minting \subseteq Legs /\ assembled \subseteq Epochs

\* A seat is told SETTLED by the receipt of the room or, outside the room, by
\* the fairness disclosure.
settled(e) == Doc("receipt", e) \in ledger.acs
takesOver(seat) == \E c \in Receipts(epoch) : Sees(seat, c)

\* A deal's receipt, the fairness disclosure, the closed room and the spent
\* basis come together, with every leg paid and none before, whatever closes
\* were refused on the way; and every seat is told then, of its own deal only.
SettlesAtOnce ==
  /\ \A seat \in Room : takesOver(seat) <=> settled(epoch)
  /\ \A e \in Epochs :
       /\ settled(e) <=> Doc("disclosure", e) \in ledger.acs
       /\ settled(e) <=> \E i \in RoomsOf(e) : ledger.rooms[i].stage = "Closed"
       /\ e \in assembled => (settled(e) <=> Doc("basis", e) \notin ledger.acs)
       /\ settled(e) => e \in assembled /\ \A l \in Legs : Allocation(l, e) \notin ledger.acs
       /\ ledger.held["lpExiting", e] = (IF settled(e) THEN amount.cash ELSE 0)
  /\ \A l \in {"unit", "roll"} :
       ledger.held[receiver[l], 0] = amount[l] * Cardinality({e \in Epochs : settled(e)})

\* The sandbox keeps the promise of the closing room: a deal closes once, after
\* the LPAC's consent to it, and spends a basis no other close has spent.
Promise == INSTANCE DealOutcome WITH
  Deals <- Epochs, Justifications <- Epochs,
  outcome <- [e \in Epochs |-> IF settled(e) THEN "closed" ELSE "open"],
  agreed <- {e \in Epochs : \E i \in RoomsOf(e) : ledger.rooms[i].stage # "Setup"},
  used <- {e \in assembled : Doc("basis", e) \notin ledger.acs}
SandboxEndsAsPromised == Promise!OutcomeSpec

(* What a close takes: done, all it waits for done (after), and whether a    *)
(* page offers to do it.  Three steps are not waited for where the pages     *)
(* leave a deal without a way on: consent to the newer of two rooms, the     *)
(* opinion and the waiver once consent is recorded, and the interest of an   *)
(* LP that holds units of an earlier deal.                                   *)
Step(done, after, offered) == [done |-> done, after |-> after, offered |-> offered]
Active(c) == c \in ledger.acs
TwoRooms == \E i, j \in RoomsOf(epoch) : i # j
Consented == Opened /\ ledger.rooms[GpDeal].stage # "Setup"
MistakenForClosed(lp) == lp = "lpRolling" /\ epoch > 1 /\ Units(lp) > 0

StepsToClose ==
  {Step(Opened, TRUE, CanOpen), Step(GpHas("valuation"), TRUE, CanAnchor),
   Step(Consented, Opened /\ ~TwoRooms, CanRecordConsent)}
  \cup {Step(GpHas(t), Opened /\ ~consentRecorded, CanAttest(t)) : t \in {"opinion", "consent"}}
  \cup {Step(GpHas(t), Opened, CanSign(t)) : t \in {"cert", "psa"}}
  \cup {Step(Active(Allocation(l, epoch)), Active(factory), CanAllocate(l)) : l \in Legs}
  \cup {Step(GpHas("basis"), \A c \in Antecedents(epoch) : Active(c), CanAssemble)}
  \cup {Step(Active(For("delegation", h)), Opened /\ Active(For("proposal", h)), CanDelegate(h)) : h \in Holders}
  \cup {Step(Active(For("interest", lp)), Opened /\ Active(For("offer", lp)) /\ ~MistakenForClosed(lp),
              CanTakeOffer(lp)) : lp \in LPs}
  \cup {Step(Active(For("accepted", lp)), Opened, CanParticipate(lp) \/ CanAdmit(lp)) : lp \in LPs}
  \cup {Step(settled(epoch), Consented /\ \A c \in Needed \cup Antecedents(epoch) : Active(c), CanIssue)}

\* Until a deal is closed, what the close still lacks and waits for nothing is
\* offered by a page: the seats are never all waiting for each other.
CloseIsWithinReach == settled(epoch) \/ \A s \in StepsToClose : s.after => s.done \/ s.offered

\* What the steppers show as done: the deal page's, of the facts its six
\* stages rest on, and a partner's or the LPAC's, of its three cues.  An LP's
\* own election, another cue, is not in the ledger here.
DealIn(stages) == Opened /\ ledger.rooms[GpDeal].stage \in stages
priced == Opened /\ ledger.rooms[GpDeal].priced
deriveStages ==
  LET shown == [consent |-> DealIn({"Consented", "Electing", "Closed"}), valuation |-> GpHas("valuation"),
                clearing |-> priced, close |-> dealClosed]
  IN {f \in DOMAIN shown : shown[f]}
miniStages(seat) ==
  LET over == DealIn({"Closed"}) \/ Sees(seat, Doc("receipt", epoch))
      shown == IF seat = "lpac" THEN [consent |-> DealIn({"Consented", "Electing", "Closed"}), close |-> over]
               ELSE [clearing |-> priced,
                     close |-> over \/ ledger.held[seat, IF seat = "lpExiting" THEN epoch ELSE 0] > 0]
  IN {f \in DOMAIN shown : shown[f]}
stepper(seat) == IF seat = "gp" THEN deriveStages ELSE miniStages(seat)

\* What a seat's stepper shows as done stays so until the demo is reset, unless
\* there is a second room.
StepperNeverGoesBack ==
  [][ledger' # ledger /\ epoch' = epoch /\ ~TwoRooms' => \A seat \in Room : stepper(seat) \subseteq stepper(seat)']_seatVars
=============================================================================
