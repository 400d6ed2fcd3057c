# Continuum, specified

TLA+ models of Continuum, a closing room for GP-led continuation deals: Daml
contracts that hold the deal, a custody backend that signs for each party and
serves its reads, and web seats that drive the two. Beside them the repository
keeps builds that need no ledger: the web app over an in-memory sandbox, a portal
and a prototype whose tabs share one deal, and scripts that run a whole close. TLC
checks the models on small instances; TLAPS proves the safety properties of the
contracts, of the clearing, of the backend's reads and resets, of the browser windows,
of the sandbox under its pages and of the static builds for any instance. Line numbers refer to the files under `continuum-daml/`, `app/`, `portal/`
and `prototype/`.

## 1. The system

One GP party signs for the sponsor, the old fund and the new vehicle and
administers the token registry. Limited partners, buyers, the LPAC and a valuer
are parties of their own. Every wallet submits with a single `actAs`, one command
per transaction, so whatever needs two signatures is built by propose and accept.

| Component (source) | State | Operations | Module |
|---|---|---|---|
| Token registry (`Registry.daml`) | holdings, allocations, delegations and proposals | mint, allocate with change, execute (alone or by `ExecFor`), withdraw, propose and accept a delegation | `Registry`; abstract: `ValueLedger` |
| Participation (`Participation.daml`) | offers, interests, participations | offer/accept an interest, propose/accept a participation, `BurnFor` | `Participation` |
| Antecedents and the gate (`Valuation`, `Auction`, `Consent`, `Issuance.daml`) | signed documents, issuance bases | sign, archive, assemble a basis, `ValidateIssuance` | `Issuance` |
| Continuation deal (`Deal.daml`) | stage, price, receipts | `SetClearing`, `RecordConsent`, `OpenElections`, `Break`, `Close` | `Deal`; abstract: `DealOutcome` |
| Sealed-bid auction (`Auction.daml`) | bids, markers | file, withdraw, mark | `Auction` |
| Elections (`Election.daml`) | sealed elections | file, `Amend` | `Election` |
| Clearing (`Clearing.daml`) | none (pure) | `allocateBuyers`, `computeClearing`, `undersubscribed` | `Clearing`, used by `Filings` |
| LPAC recusal (`Consent.daml`) | requests, consents | request, `Grant`, create directly | `Consent` |
| Read path (`custody/app.ts`, `ledger-client/src/client.ts`) | read cache, requests in flight, the tab's shared ledger-end request | poll, act, acknowledge, clear, expire | `ReadPath` |
| Submission (`ledger-client/src/wallet.ts`) | none between calls | sequential single-command transactions, retry of contention | partly, in `ReadPath` and `DemoEpoch` |
| Demo epoch (`custody/app.ts:358-497`, `678-686`) | epoch counter, seeds in flight | reset, boot, seed, stop | `DemoEpoch` |
| Sandbox ledger (`web/sandbox/ledger.ts`) | in-memory contracts | submit with rollback, the choices of the deal, who sees what | `SandboxLedger` |
| Seats (`web/src/views/*.tsx`) | what each page reads of the ledger | the buttons and the commands behind them, reset | `Seats`; abstract: `DealOutcome` |
| Sessions and windows (`App.tsx`, `WalletSession.tsx`, `SignIn.tsx`, `custody/session.ts`) | address, token, identity, keys, logins and resets under way; the backend's epoch and secret | login, sign out, Back and Forward, reset and its broadcast, reload, restart | `Windows` |
| Headless scripts (`app/scripts`) | the step they are at, the registry and key files | onboard, one command per step, assert | `CloseScripts` |
| Portal (`portal/shared`) | one deal per tab, the store, messages between tabs | the engine's actions, the pages that offer them, the figures | `Tabs`, `Portal`, `PortalPages`, `PortalBook` |
| Prototype (`prototype/app.js`) | the same, in its own way | the page's handlers | `Tabs`, `Prototype` |
| Documents, verification, static files, token proxy, mock backend, credentials | - | - | not modelled, see section 8 |

How they interact. Contracts call each other inside one ledger transaction, which
commits whole or not at all: `Close` exercises `ValidateIssuance` on the basis,
`ExecFor` on one delegation per leg and `BurnFor` on one participation per
interest. A seat reads its party's contracts through the backend (HTTP, cached)
and posts commands, which the backend signs and submits one after another. Windows
of one browser tell each other of a reset. The sandbox replaces backend and ledger
by one in-memory object; portal and prototype replace them by a copy of the deal in
each tab, kept in step over `localStorage` and a `BroadcastChannel`.

What is hard, by component:

* *Registry*: value must neither double nor vanish over any sequence of archives
  and creates, and a delegation lends authority for ever.
* *Deal*: every choice archives the deal and makes a new one; the stages can be
  revisited; the guards alone keep their order. `Close` touches four components.
* *Issuance*: the GP writes the whole basis; documents may be archived between its
  assembly and its use.
* *Clearing*: shares are rounded one by one, of ratios rounded before.
* *Recusal*: the gate sees what its caller shows it.
* *Read path*: a cache with requests in flight, cleared by writes that race them.
* *Demo epoch*: a counter in memory, derived again after each start while requests
  are already served; a seed that looks, then signs, through calls that are retried
  and aborted.
* *Sandbox and seats*: a close that throws half-way has to leave no trace, a seat is
  told of the close by a receipt only, and each button waits for what other seats
  do: the seats might all wait for each other.
* *Windows*: several logins under way at once, answered in any order; the automatic
  sign-in that reacts to the address; an epoch that changes under loaded pages; a
  backend whose secret dies with it.
* *Scripts*: dozens of single-signature steps, each of which may be refused, or given
  up after it was committed.
* *Portal and prototype*: each tab overwrites the whole deal with its copy, messages
  cross, and a close is ended by a timeout that looks at nothing.

## 2. Modules

`Parties`, `Money` declare what all share. Every other module models one
component and extends only what the code imports:

    Registry   Participation   Issuance        Auction   Election   Clearing
         \           |           /                |   \      |        /
          \          |          /              Consent  \    |       /
                   Deal                                  Filings
                     \____________ ClosingRoom _____________/    ReadPath   DemoEpoch

    SandboxLedger   PortalBook
         |              |
       Seats       PortalPages   Tabs
         |              |       /    \
    CloseScripts      Portal     Prototype   Windows
          \_______________|__________|_________/
                    OfflineBuilds

`Registry` implements `ValueLedger`; `Deal`, and `Seats` over the sandbox, implement
`DealOutcome`. The three mappings are checked as properties and proved. `OfflineBuilds` puts the builds that need no ledger, the scripts and the
windows side by side: the initial state picks one of them, and the others rest.
`MC*` modules give the constants values. The theorems are in `DealProofs` (registry
and deal), `FilingsProofs`, `EpochProofs`, `ReadPathProofs`, `WindowsProofs`,
`SeatsProofs` and `OfflineProofs`; `DataTheorems` has the facts about sequences and sums
that they share.

### Ledger modules

One action is one committed transaction of one party. `assertMsg` and `ensure`
are guards, because a failed transaction changes nothing. A contract is a record
in a set (or, for contracts with no payload that matters, a party in a set), and
archiving removes it.

* A contract id is a number (`cid`) in the registry, and the element itself in
  `Issuance`: a member of `Docs` or `Bases` stands for an id with its payload and
  can be created once. `archived` and `spent` remember what was consumed.
* `authority` is modelled where it decides: `MayExecute` asks for the authority of
  sender, receiver and executor; `ExecFor` runs with that of the delegation's two
  signatories, a direct execution with the admin's alone. The executor is always
  the admin, as in every allocation the project makes.
* Where the template's controllers are one party, the action is that party's and
  needs no more.
* Documents are bound to a deal id and a GP; there is one GP, so the pair is one
  value. `Close` compares the basis's GP, not its deal id, with the deal's
  (`Deal.daml:78-80`): a basis of one deal may close another, and `Deal` lets it.
* `stage[d]` and `clearing[d]` describe the one active contract of deal `d`.
  A room is opened at `Setup` by the GP's page and at `Bidding` by the scripts;
  `LeadSelected` is a stage no code sets.
* History variables: `recorded`, `spent`, `archived`, and `basis` in a receipt.
* The implicit `Archive` choice of a signatory is an action for the documents and
  the bid markers. The GP is the only signatory of holdings, allocations, deals
  and bases and could archive them too; no code of the repository does, and
  neither does the model.
* Decimals are whole numbers of a unit: prices are `pct * nav / Whole`, ratios
  whole numbers of `1 / Scale`. Rounding is the code's: half away from zero for
  dollars (`round`), half to even for division.
* Legs have amounts of 0 or more. The factory accepts any amount; a leg of 0
  yields an allocation that can neither be executed nor withdrawn, since the
  holding it would become has no positive amount. The model keeps such legs.

`Filings` composes auction and elections and reads the clearing off what stands
filed; a buyer may have two bids standing at once, as after a POST of which only the
first command was committed. The GP's choice of lead is fixed in the initial state; percentages and
amounts include values the templates refuse. `ClosingRoom` puts the deal beside
the filings; the two share no state, which is the point of its run.

### ReadPath

The ledger is a counter of commits (`tip`). A snapshot is the offset it was asked
at, and a read goes through the awaits of the code: wait for the tab's shared
ledger-end request, then use the cached snapshot, join the flight of its party or
start one. What runs between two awaits is one action. An action of a user
(`POST /action`) commits its commands one by one, then is acknowledged, which
clears every snapshot (`bustReadCache`), or fails, which clears none. The time to
live of an entry is `Expire`, enabled whenever there is an entry. `last` and
`settled` are history: what the last completed read of one watched party returned,
and whether reads of that party overlapped the last acknowledgement.

### DemoEpoch

The ledger is a number of valuation reports for each epoch (`reports`) and the
commands it has not decided though nobody waits for them (`late`). History variables
keep which epochs a reset was answered with: by any process (`answered`), by the one
that runs (`here`), and with the report signed (`seeded`), since a reset whose seed
failed or was late is answered all the same (`app.ts:491-496`). The server's
state is that of `app.ts`: the counter, the map of seeds in flight, the resets that
wait for one, and the ledger-end request that the backend's own reads share. A seed
goes through the awaits of the code - the ledger's end, the contracts at that end,
`prepare`, `execute` - and each of the wallet's calls may be contended and tried
again (`Contended`, `Wake`; the code allows 8 retries), refused, or aborted after
25 s, which of `execute` leaves a late command. The start of the process only asks
the ledger; requests are served from then on, as `createApp` does not wait. `Stop`
is the machine stopped when idle, or a crash: the memory is gone, the ledger and
its undecided commands are not. A contended call is taken to have committed
nothing, which only the ledger can say. The valuer's page, which may sign a report
by hand, is left out.

### SandboxLedger and Seats

The sandbox is a value `g`: the deals in the order they were created (`rooms`), the
other active contracts (`acs`) and what each party holds (`held`). A choice is an
operator on `g` that comes to `Done(g2)` or `Thrown(g2)`, where `g2` is what it had
done when it threw; `submit` restores `g` then, as `ledger.ts:186` does. `visible` is
the projection: whom the ledger shows a contract.

`Seats` is what the pages make of it. Each button is a predicate (`CanOpen`,
`CanAllocate`, `CanDelegate`, ...) translated from the page's own conditions on what
its seat sees, and each handler an action guarded by it. Handlers that submit more
than once are split: `openRoom` reads and `createRoom` creates, `mintLeg` mints and
`allocateLeg` allocates. The pages disagree on which deal they are about, and the
model keeps that: the GP's page takes the newest deal of the epoch (`GpDeal`), the
approval queue the oldest (`QueueDeal`), the partners' pages the newest of any epoch
(`LatestStage`). `resetDemo` begins the next deal and reloads every page. `closeCash`
is the aborted close of `sandbox.test.ts:280-298`. `minting` and `opening` are the
handlers under way, `assembled` is history.

### CloseScripts

A script is a sequence of steps, in the order of its file; a step is a command with
the seat that signs it, and the ledger refuses one whose authority is another's or
whose choice aborts. `act` is a step that is answered, `cutOff` one whose call is
given up after its time, committed or not; the script ends at the first failure. The
contracts' effect is `SandboxLedger`'s, of which the choices are those of the Daml
contracts; whose authority each takes (`signatory`, `authority`) is read off the
Daml. `ScriptsProveTheClose` says what a script's end tells of the ledger.

### Windows

A window is a record: address, session token, the step of loading it is at, the keys
it read the registry with (0 while they are those it was built with), whom it takes
itself for, the logins under way, whether it is leaving, a reset it asked for, and a
reload message on its way. Every step of a window ends with `Gate`, the effect of
`App.tsx:33` that signs a window in to the seat of its address. A token is good for
the secret it was signed with; a restart of the backend makes another
(`server.ts:35-38`), and `outlived` (history) marks the windows that lived through
one. `unannounced` (history) is a reset whose window could not tell the others.

### Tabs, Portal, Prototype

`Tabs` is how both static builds share a deal: `commit` writes the tab's copy, the
store and a message to every other tab over both transports; `Receive` puts a message
in place of the copy; `Load` starts from the store and loses timeout and mail. A
close is `Begin`, which sets a timeout, and `End`, which makes its state of whatever
the tab holds by then. `crossed`, `overtaken` and `stranded` are history.

`PortalBook` computes the figures (amounts in whole 0.0001M, rounded where the code
rounds), `PortalPages` says what each role's page offers, tells and asks for, and
`Portal` has one action per button, guarded by the page that shows it. What a page tells of the
elections comes in two parts: `figures`, which every role is shown - who has
filed, the totals sold and rolled on the dashboard, what the activity log says of the
allocation and of the authorizations that stand, the receipt - and `Contents`, which depends on the
role: ballots, legs, and what each LP is asked to approve. The numbers of the legs a role is
given (`legNumbers`) count those it is not. Log lines of authorizations that were withdrawn are not kept. `Prototype` is
one module: its buttons, views and handlers are in one file.

## 3. Runs

| Run | Module, cfg | Shows |
|---|---|---|
| `registry` | `MCRegistry` | `NoDoubleSpend`, `TransferByAgreement`, and `ConservesValue`: the registry implements `ValueLedger` |
| `close` | `MCDeal`, `MCClose` | `ConsentAndPriceFirst`, `EndedDealsRest`, `UnitsMatchPrice` for one deal with everything around it |
| `gate` | `MCDeal`, `MCGate` | `OneCloseEach`, `ReceiptsRestOnFacts`, `ClosesOnActiveFacts`, and `EndsAsPromised`: deals implement `DealOutcome` |
| `filings` | `MCFilings` | the clearing's promises in every state of the filings |
| `readpath` | `MCReadPath` | `OwnSnapshotsOnly`, `FreshWhenSettled`, and that acknowledged writes are eventually seen |
| `offline` | `MCOfflineBuilds` | see the next table |
| `epoch` | `DemoEpoch`, `MCDemoEpoch` | `AnsweredIsSigned`, `ResumesWhereItWas`, `SignedOnce`, and that every reset is answered |
| `undersubscribed` | `MCClosingRoom`, `MCUndersubscribed` | violated: `Close` does not look at demand |
| `backdoor` | `MCDeal`, `MCBackdoor` | violated: a delegated leg moves outside `Close` |
| `recusal` | `MCRecusal` | violated: a grant misses a bidding member |
| `stale_read` | `MCReadPath`, `MCStaleRead` | violated: the next read of a party that wrote may miss its write |
| `reset_race` | `DemoEpoch`, `MCResetRace` | violated: a reset before the boot has read the ledger lands in an old epoch |

What `offline` checks, besides the type invariant:

| Property | Of | Says |
|---|---|---|
| `GatesInOrder` | portal, prototype | no copy of the deal, in a tab, in the store or on its way, is past a gate it has not been through |
| `AllocationIsCurrent` | portal, prototype | stored legs and approvers are those of the bids and elections stored with them |
| `LegsTieOut` | portal | units, cash and capacities tie out up to rounding |
| `PagesServe` | portal, prototype | a task a page lists has its button; no view throws |
| `TabsKeepUp` | portal, prototype | tabs that have received everything agree, and one of them will end a close under way |
| `SealedBehindTotals` | portal | away from the approvals, the page of an LP, of a buyer, or of oversight before the close looks the same, had the others elected otherwise for the same totals |
| `SettlesAtOnce` | seats | receipt, disclosure, closed deal, spent basis and paid legs come together |
| `SandboxEndsAsPromised` | seats | the sandbox implements `DealOutcome` |
| `CloseIsWithinReach` | seats | what a close still lacks is offered by a page: the seats never all wait |
| `StepperNeverGoesBack` | seats | what a stepper shows as done stays so until a reset |
| `ScriptsProveTheClose` | scripts | what the end of each script tells of the ledger |
| `WindowsAreCurrent` | windows | a window is whom its token says, signs in where it has to and reads the epoch served |

The passing runs are exhaustive within their bounds. `offline` checks for deadlock;
a script that has ended stutters. The others do not: the ledger may stop whenever
no user acts, and every bounded behaviour ends.

### Bounds

* `MaxCid` (registry 6, close 6, gate 5): contract numbers. Each mint takes one and
  each allocation two, so 6 lets two mints, two allocations and their change
  coexist; the gate needs one leg.
* `registry`: three parties, two instruments, five legs - between the admin and
  another party either way, between two others, to oneself, and of amount 0 - and
  a locked holding. A delegation may be proposed to anyone, the admin included.
* `close`: one deal with its documents signed, one partner with one interest at a time (`MaxInterest`), one
  leg of units and one of cash. 9/10 of a NAV of 3 is 2.7: the price is a rounded 3.
* `gate`: two deals, two good bases of the first and one of the second, and eight
  bases that are wrong in one place each (price, stale valuation, NAV out of range,
  another deal's certificate, fairness range, certificate's percentage, refused
  consent, a close before the documents' dates); one basis is active at a time (`MaxBases`), and
  the second deal's documents are signed from the start (`Published`). Only the
  consent of the first deal can be archived (`Archivable`). The mint of 6 units
  leaves change, from which a second close can be funded.
* `filings`: two buyers with up to two bids each, of 0, 3, 5 or 8, and two partners with positions of
  10, splits of -1, 0, 3, 5, 7, 10, 11, so under-, exactly and over-subscribed pools
  with every lead occur, and a buyer's bids that stand doubled. `Scale` is 1000, where the code has 10^10: coarser ratios,
  so rounding is worse here than there.
* `readpath`: two seats with a tab each, one of them with two reads at once, one
  commit (`MaxTip`) of one command (`MaxCommands`). Staleness needs no more than
  one write; with `MaxTip` 2 the safety properties hold as well. A POST of which some
  commands are committed and the next fails does not occur in this run; the theorems
  about the read path hold for any number of commands, and promise nothing of such a POST.

* `epoch`: two epochs, two stops, one retry. The theorems of `EpochProofs` hold for
  any of the three; with three epochs and one stop TLC confirms the same invariants
  (1.6 million states). The third epoch is what one exception of `SignedOnce`
  needs: a seed that joins a ledger-end request answered before the report was
  signed, because a boot moved the counter back and a reset asked for the epoch
  again.
* `offline`, portal and prototype: two tabs, the advisor's and one that shows the
  other roles' pages (`Pages`), with one message of a tab on its way per transport
  (`MaxInFlight`) and one change made while another is (`MaxCrossed`): two changes
  that cross are what makes tabs diverge. Two deals; the first has two buyers, of which one is seeded, and three LPs, of which
  two are seeded, with interests of one size: had they elected each as the other did,
  every total would be the same, which is what `SealedBehindTotals` compares with; prices at and above the fairness range (`PortalPrices`), a split election
  with an amount that has to be rounded, and in the prototype an amount below
  zero (`Amounts`). The transports are symmetric.
* `offline`, seats: two epochs, so that what one deal leaves behind meets the next;
  two tabs of the GP that open the room at once (`MaxHandlers`). A contract is active
  once, the GP signs its rows from the top, and the demo is reset once the deal has
  closed or is ready to: other orders only repeat what these show of the other seats.
* `offline`, windows: two windows of which one goes to two seats and the other stays
  at the landing page (`Visits`), two logins under way (`MaxLogins`), one reset or one
  restart (`MaxUpsets`), one reset asked for at a time. `WindowsStayCurrent` holds for
  any of them.
* `offline`, constraint `Followed`: some states are checked and not followed further
  - a deal whose close was overtaken or stranded; the second deal beyond its opening;
  a decline that crossed another change; a reset that crossed the
  approvals; the approvals of a deal that its LP has not elected in, once changes crossed;
  a sandbox deal opened twice, beyond the next reset. A state space of 270 000 remains.

### Fairness

The ledger runs and `offline` have none: users drive the ledger and the pages, and
nothing must happen.
`ReadPath` assumes what the code arranges or cannot do without: tabs poll
on a timer (`useRefresh`, weak fairness of `BeginRead`), callbacks run, entries
expire, and the ledger does not fail every time (strong fairness of its answers).
The proxy's `fetch` has no timeout of its own (`server.ts:80`), so a ledger call that
never returns would stop all reads of its party; the fairness excludes that. Nobody has
to act: `Begin/Commit/AckAction` have no fairness. `DemoEpoch` assumes of the
backend that its timers fire (a call without an answer is aborted, `server.ts:56`, a
sleeping one wakes) and nothing of the ledger; the token exchange inside
`authFetch` is not under that timer and is taken to end by the runtime's own limit.

## 4. What the properties say, and where the code disagrees with its text

`FreshWhenSettled` is what clearing all parties' snapshots buys: a read that
begins after an acknowledged write of anyone returns it, unless reads of the same
party were under way at the acknowledgement. Clearing the actor's entry only
breaks it. `NextReadSeesWrite` is what the comments promise without that proviso,
and is violated: a flight that started earlier lands after the clearing and
stores its snapshot, or the next read joins it, or shares its ledger-end request.

`ResumesWhereItWas` excepts a boot whose read failed, one that a reset overtook, and
the epochs that were answered without their report by a process that has stopped
(`Forgotten`). The third is what `app.ts:457-462` says does not happen: a reset whose seed
failed, or took longer than the reset waits, is answered with the new deal (`app.ts:491-496`), no
report of it is on the ledger, and the next process resumes the old deal: the reset is reverted.
The second exception is a defect (`reset_race`): on a machine that stops when idle,
the request that wakes it may be the reset itself; it counts from epoch 1, and the
derived epoch then replaces it, so that the reset is lost. `SignedOnce` excepts the
epochs whose search for a report was impaired (`doubtful`): a read failed, a command
was given up and is undecided, or the search used a ledger end asked for before it.
`app.ts:426` says that the search "covers restarts"; it does, but for such a command,
after which an epoch may get a second report.

`TotalsTieOut` allows a dollar between the units owed and the price, since
rollers and buyers are rounded apart (`Clearing.daml:54-55`) and the price is
rounded once (`:50`). `Close` asks for equality (`Deal.daml:90`): legs built from those
figures may be refused. A pool of 10 sold in half, at 9/10, shows it: 4.5 and 4.5 are 5 and
5 units for a price of 9. `FillsTakeThePool` allows half a dollar per syndicate
member, where the matrix asks for the cent: 4.5 "`sum(buyerAlloc)==sellNav`,
`sum(rollAlloc)==rollNav` to the cent; defined rounding rule", 4.2 "sum buyer alloc ==
$20.4M", and the contracts' design gives the residual to the lead buyer
(`2026-07-08-continuum-daml-contracts-design.md:92`). `allocateBuyers` gives it to nobody
(`Clearing.daml:38`): beside a lead of 5, two members of 5 each are due 2.5 of a pool of
10, and take 3. Both assume one commitment of the lead: with two, each takes up to the
whole pool. `FillsTakeThePool` and `FillsWithinCapacity` hold as long as the capacities
are no larger than the decimals can tell apart (`FineEnough`: syndicate capacity times
members stays under the 10^10 steps of a ratio); above that a rounded ratio times a
capacity is off by more than the dollar the properties allow, in the code as in the model.

`GatesInOrder` and `PagesServe` except a close that was overtaken (a retry then shows
the approvals of a deal that has no legs), `TabsKeepUp` one
that was overtaken or stranded, `SealedBehindTotals` the approvals and the advisor,
`CloseIsWithinReach` three places where the pages leave a deal without a way on
(`TwoRooms`, consent recorded before opinion and waiver, `MistakenForClosed`), and
`WindowsAreCurrent` a registry that failed to load, a reset nobody announced and the
windows a restart outlived. Each exception is the code as it is, listed below.

The five violated runs are findings in `PROJECT.json`. Smaller gaps met while
modelling, between the code and the test matrix
(`docs/specs/2026-07-08-continuation-fund-test-matrix.md`) or its comments:

* `Close` accepts the stage `Consented`, so elections need not have been opened.
* The LPAC can exercise `RecordConsent` from `Electing`, and the GP can reprice
  while elections run.
* `BurnFor` may be exercised by the GP alone, before any close (`Participation.daml:47-52`),
  although `ApprovalQueue.tsx:113-114` tells the partner that accepts "the old-fund interest
  the Close burns as your rolled units are issued".
* The list of burns of a close may be empty and is not compared with the legs
  (`Deal.daml:93`): an old interest may survive beside the new units, which matrix 5.5
  rules out ("old interest does NOT survive alongside new CV units").
* Several bids of one buyer, or elections of one partner, can stand at once.
* `Buyer.tsx:54-58` says that bid and marker go in one transaction; the wallet
  submits them as two (`wallet.ts:144-152`), so the second can fail alone. The
  actions `SubmitBid` and `FileMarker` are therefore independent.
* A failed `POST /action` that had committed some commands clears no snapshot.
* Delegations cannot be revoked, nor does a close spend them, as some texts say.
* `Close` settles at the basis's clearing percentage, which is compared with the
  certificate's, not with the price the deal disclosed (`Deal.daml:70-102`).

In the web app and its sandbox (`web/src/views` unless a path is given):

* `LPAC.tsx:223` offers opinion and waiver until consent is recorded, while
  `ApprovalQueue.tsx:130-146` offers to record it at `Setup`. Recorded first, there is
  no basis and no close any more.
* The unit instrument is the same in every epoch (`app.ts:366-377`), and
  `RollingLP.tsx:74` takes units held for a closed deal: after one close and a reset
  the card with the rolling LP's authorizations stays hidden, though `app.ts:363` calls every
  seat's view pristine. Cues of the buyer and of the steppers err in the same way.
* `ExitingLP` and `RollingLP` pick their election without its deal, so that after a
  reset a partner that has elected once cannot again.
* With two rooms of one deal the GP's page acts on the newest, the queue on the oldest.
* `ops.ts`'s `createDeal` names the GP as LPAC; `pollForContract`
  (`useLedger.ts:189`) returns the newest contract there is, perhaps not the one it
  waits for; `IssueUnitsGate.tsx` says that the ledger mints no units until all four
  documents are signed, but the handlers that mint look at the factory only.
* In the sandbox `Allocate` counts a holding named twice twice, `ExecFor` accepts the
  delegation of any of three parties, and creates check no authority.
* A POST of several commands is one transaction in the sandbox and several elsewhere.
* `close-minimal.ts` and `lifecycle-check.ts` record the LPAC's consent as the GP. The
  contract refuses (`Deal.daml:45`) unless the GP is the LPAC, as in the second; the
  first can no longer prove the close it announces. Both need a party `lp`, which registries written
  by `provision.ts` and `close-wallets.ts` lack. Those two write the public registry
  before they check that git ignores the keys.
* A registry that fails to load is "non-fatal" and never asked for again: the window
  reads the first epoch's keys for good (`WalletSession.tsx`).
* A reset whose answer is lost after the epoch was advanced is told to nobody.
* A handler of several commands goes on when a late login changes the window's token:
  the next command is signed by another seat.
* The secret that signs sessions is random per process unless configured
  (`server.ts:35-38`): after a restart every token is refused, while windows that
  are not reloaded go on showing their seat.
* `ApprovalQueue`'s branches for buyer and partners are shown to neither: only the
  LPAC's and the GP's pages have the queue.
* The mock store's `RecordConsent` does nothing, so elections open there without it.

In the static builds:

* At the approvals every role is shown every party's leg (`portal/shared/app.js:733-741`), and with
  it each LP's choice; `app.js:656` says "never what they chose".
* Two tabs that commit at once swap their copies and stay apart, although they
  "stay live-synced"; `sync.js:39` says that messages are deduplicated, which
  nothing does.
* The timeout that settles does not look at the deal: one reset, declined or
  overwritten in the meantime is closed without consent or approvals. In the prototype such a
  deal may have no room and no legs, and `view` throws on every rendering; after a reload not even
  Reset works.
* Reloading the tab that fired the close leaves the deal in settlement for ever
  (`prototype/README.md` says that the state survives a refresh).
* The portal's task "Compute allocation" leads to the section `allocation`, its
  button is in `elections` (`state.js:434`, `app.js:604`); a lead out of range is
  refused silently, with a toast that it was selected (`app.js:921`).
* The advisor has every LP's legs from the allocation on (`state.js:408`), while its page
  says that contents stay sealed until the close (`app.js:615`).
* Every page shows the totals sold and rolled once somebody has filed (`app.js:231-239`),
  and the activity log those of the allocation (`state.js:529`): with two LPs in all, or on
  comparing a page before and after a peer files, they tell its election, which
  `app.js:425` and `:656` call sealed. `SealedBehindTotals` therefore takes the totals as known.
* The prototype's allocation ignores what was chosen, and takes any price although
  it calls it validated for fairness (`app.js:799-803`). Both builds use the same
  key of the store, though `sync.js:17` says that its namespace was bumped.

## 5. Proofs

TLAPS checks all of the following, for any parties, instruments, legs, deals,
documents, bases, prices, filings, tabs, handlers and bounds, from the named assumptions
on the constants, which TLC evaluates in the runs: `PartiesAssumption`,
`MoneyAssumption`, `RegistryAssumption`, `ParticipationAssumption`,
`IssuanceAssumption`, `DealAssumption`, `AuctionAssumption`, `ElectionAssumption`,
`ClearingAssumption`, `DemoEpochAssumption`, `ReadPathAssumption`,
`WindowsAssumption`, `SeatsAssumption` (the sandbox's legs of units are worth its
price, `web/sandbox/setup.ts`, and there is one), `TabsAssumption` (there is a
transport, and room for a message) and `SeedAssumption` (what `state.js` has as
data: finitely many LPs, in the order of the register, and buyers, none of them both, navs, a range of fair prices; and
what can be typed into its forms).

| Theorem | States |
|---|---|
| `RegTypeCorrect`, `DealTypeCorrect` | the type invariants |
| `NothingSpentTwice`, `DealsSpendOnce` | `NoDoubleSpend`, of the registry alone and under closes |
| `TransfersAreAgreed` | `TransferByAgreement` |
| `RegistryKeepsValue` | `ConservesValue`: the registry implements `ValueLedger` |
| `LPACAndPriceComeFirst` | `ConsentAndPriceFirst` |
| `EachCloseIsOne` | `OneCloseEach` |
| `ReceiptsAreJustified` | `ReceiptsRestOnFacts` |
| `ClosesRestOnActiveFacts`, `EndedDealsStay` | the action properties of the same content |
| `UnitsAreThePrice` | `UnitsMatchPrice` |
| `DealsEndAsPromised` | `Deal` implements `DealOutcome` |
| `FilingTypeCorrect` | the type invariant of `Filings` |
| `TotalsAreTied` | `TotalsTieOut` |
| `TheLeadComesFirst` | `LeadComesFirst` |
| `FillsAreWithinCapacity`, `TheFillsTakeThePool` | `FillsWithinCapacity`, `FillsTakeThePool` |
| `EpochTypeCorrect` | the type invariant of `DemoEpoch` |
| `AnswersAreSigned` | `AnsweredIsSigned` |
| `BackendsResume` | `ResumesWhereItWas` |
| `ReportsAreSignedOnce` | `SignedOnce` |
| `ReadTypeCorrect` | the type invariant of `ReadPath` |
| `PartiesReadTheirOwn` | `OwnSnapshotsOnly` |
| `ReadsAreFresh` | `FreshWhenSettled` |
| `WindowsStayCurrent` | `WindowsAreCurrent` |
| `SeatsAreTyped` | the types of `Seats` |
| `SettledAtOnce` | `SettlesAtOnce` |
| `CloseStaysWithinReach` | `CloseIsWithinReach` |
| `SandboxKeepsThePromise` | `SandboxEndsAsPromised`: the sandbox under its pages implements `DealOutcome` |
| `SteppersGoOn` | `StepperNeverGoesBack` |
| `SandboxBuildHolds` | the last four, of the specification of `OfflineBuilds` |
| `GatesAreKept` | `GatesInOrder` |
| `ElectionsStaySealed` | `SealedBehindTotals` |
| `TabsKeepTogether` | `TabsKeepUp` |
| `AllocationsAreCurrent` | `AllocationIsCurrent` |
| `LegsAlwaysTieOut` | `LegsTieOut` |
| `PagesServeTheirReaders` | `PagesServe` |
| `ScriptsProve` | `ScriptsProveTheClose` |
| `WindowsTypeCorrect` | the types of `Windows` |
| `EverythingIsTyped` | the type invariant of `OfflineBuilds`, whichever build runs |

Arguments. `NoDoubleSpend` is inductive because it says of every number that it
is below `nextCid` and names one contract; a delivered or returned holding takes
the number its allocation gives up, and a close does that for many legs at once
(`DealsSpendOnce`). `ConsentAndPriceFirst` and `OneCloseEach` are inductive over
the types: the latter carries that a receipt's basis is spent and no longer
active, without which a second use could not be excluded. `ReceiptsRestOnFacts`
is not inductive: it needs `SignedHold`, that a document keeps its template's
`ensure` once signed, archived or not, since a receipt outlives its documents.
The refinement needs `BasesUnspent`, that no active basis has been used, and
`ConsentAndPriceFirst`, which gives each close the agreement that
`DealOutcome!Settle` demands.

Sums. A sum over a set is a fold, which no step of a proof can unfold over a set that
is not written out. `DataTheorems` gets round the induction: a fact about all finite sets
that failed would fail for a smallest set, which has an element, without which it
holds (the library's `FS_Induction` cannot be cited, so the smallest set is found by
the least cardinality). Thus the sum over a set is that of one element and the rest, sums grow
with their terms, scale, and carry over along a one to one map (`SumOfImage`).
`ConservesValue` then needs that there are finitely many contracts (`RegFinite`). It
goes entry by entry of a party's wealth: a mint is `ValueLedger!Issue`; an allocation or a
withdrawal takes holdings and returns their worth, which is a stutter; an execution
takes from the sender and gives to the receiver, which is `Pay`. `UnitsMatchPrice`
rests on the fact that the new holdings of a close are one to one with its legs.

Clearing. `NearestIsNear` and `RatioIsNear` bound each rounding by half of what it rounds to.
`TotalsTieOut` adds two such bounds. The fills of a syndicate are rounded products of a
rounded ratio: each is within half a dollar plus the ratio's error times its capacity, and
the sum of these scaled inequalities is within half a dollar a member as long as
`FineEnough` holds (`DigitsAreEnough`). That the lead comes first needs that the pool left
to the syndicate is nothing until the lead is full.

In `EpochProofs` three invariants carry the rest. `SeedsSpeakTrue`: what a flight
found or committed, and what an end answered, is on the ledger. `BootIsSound`:
while a boot that no reset overtook is under way no reset is pending, so nothing is
answered, and its snapshot has every epoch answered before with its report signed; this is
where the exceptions of `ResumesWhereItWas` come from. What the running process
answered it has in its counter, signed or not. `SearchesFind`: once a report of an
undoubted epoch is signed, every later search for it finds it, and no flight that
searched before is about to sign another. That
`deriveEpoch` returns a largest element (`LargestEpoch`) rests on the
well-foundedness of the natural numbers.

In `ReadPathProofs`, `PartiesReadTheirOwn` needs that the cache and the flights are
keyed by party and that a request has the readers that wait for it (`KeyedByParty`,
`RequestsHaveReaders`). `ReadsAreFresh` is about what no longer exists: when an
acknowledgement finds no read of the party under way, there is neither a flight of
that party nor a ledger-end request of its tab nor, the cache having been cleared, a
snapshot (`NothingBefore`). Every step keeps it so, for offsets below the
acknowledged one.

In `WindowsProofs` the invariant adds to the property that logins under way were sent
to the backend that runs, or that the window has outlived a restart (`Faithful`), and that a window
which takes an automatic sign-in for under way has one (`SigningIn`). The latter is
what `App.tsx`'s gate rests on, since it signs in only where it does not take a sign-in to
that seat for under way, and each answer has to preserve it: a login is removed from
the list and its mark in one step (`MaySignIn`, `FinallyReady`). `GateSignsIn` then
gives the third part of the property after any step of a window.

`SeatsProofs` has one invariant for the five results (`SeatsInv`). Besides the types it
says, for each deal, what the ledger holds of it: no receipt, disclosure, closed room or
spent basis without the others (`DealSettles`); the units a party holds of any deal are its legs'
times the deals settled; a spent or active basis was assembled (`BasisIsAssembled`); a leg
being minted belongs to an open deal (`MintedIsOpen`); rooms are in the order of the epochs
(`RoomsInOrder`); once a deal is settled the authority it took lasts (`AuthorityLasts`).
Every step of the seats has one of six effects on these (`StepsHaveEffects`) - papers
change beside the deals, a room is created or moves on, a leg is minted, a leg is allocated, a basis is
assembled, a deal closes - so that the invariant is shown six times and the twenty-odd
buttons only have to be sorted into the six. `CloseIsWithinReach` is shown of any state of the
invariant, one step of a close after the other: what it waits for is there, it is not
done, hence the page's own conditions on its button are met. The refinement reads the outcome of a deal off
its rooms and receipts, and `SettlesAtOnce` makes each close one step of it.

`OfflineProofs` rests on one fact about `Tabs`: whatever is stored, held or on its way
was made whole by one click or timeout, so that a message or a page that opens brings
nothing new (`PutsOne`, `ReceivesNothingNew`, `LoadsNothingNew`). It is therefore
enough that each click makes of a sound deal a sound one and of one in order one in
order (`PortalClick`, `ProtoClick`), which is what the buttons of a section
tell of the stage. `GatesInOrder` is not inductive: a retry goes back before the
close, so a deal that failed must not be closed (`PortalInOrder`, `ProtoInOrder`).
`ElectionsStaySealed` compares two deals with the same totals in which the reader elected the
same. Where there are legs, they are those computed from the elections (`Current`, which
`SteadyInv` has of every copy held), and the leg of an LP or a buyer depends on its
own election and on totals only (`OwnLegsAlike`); no buyer is an LP, and a role acts for one of
its kind (`SeedOK`, from the `lps` and `buyers` of `state.js`). It holds, unlike
`GatesInOrder`, also after a close was overtaken.
`AllocationsAreCurrent` needs that the figures depend on seven fields of the deal only, of which no
later click changes one. `LegsAlwaysTieOut` follows the rounding from the figures to the
legs. The sellers are filled, and the buyers fund, what was filled within half a unit of
the last digit for each of them and half a hundredth for the whole (`SellersAreFilled`,
`BuyersFund`, by `SumsTrack`: sums of terms that are near are near); priced, these stay
near (`PricedNear`, `PricedSum`), and the legs pay just these amounts (`LegsOfKind`). The slack
of `LegsTieOut`, 6 units of 0.0001M for an LP, 10 for a buyer that funds and 105 besides, is
the sum of these bounds, each rounded up. It is about deals with a lead, so the
invariant has to say who the lead is from its choice to the allocation (`Booked`).
`TabsKeepTogether` is about the tabs
together (`SteadyInv`): while no two changes crossed, the last message of each transport
brings a tab to the stored deal, and a close under way has its timeout
in some tab unless that page was left.

`ScriptsProve` is about sequences of commands that are written out. Its invariant
(`ScriptInv`) says what a script that is still running has on the ledger: the wallet close
(`ClosesAtLast`), before each of its 43 steps, what that step and every later one need
(`WalletAt`); the lifecycle check (`ComesToElections`) and the minimal close
(`StopsAtConsent`), one room at the stage of the step. There is a lemma for every kind of
command (`CreateGoes`, `MintGoes`, `CloseGoes` ...): from the contracts it needs, signed
by the party whose step it is, it is carried out, proves what the script looks for and
leaves what comes after. A call that is cut off, committed or not, ends the script, so that
nothing has to be known of the ledger but its type. For the parties registered on the way,
`OnboardsInOrder` ties the step to the registry and the keys written.

`EverythingIsTyped` joins an invariant for each build (`EverythingInv`). Of the tabs
(`TabsAreTyped`) it needs that what a click makes of a deal is typed in every field, which
of the portal follows from what the earlier theorems know of the bids, ballots and stages
(`Booked`, `PortalShape`) and from its flags (`Flagged`); of the prototype from what an LP
may elect. Here the proof found that the model had left out the floor of zero in
`submitElection` (`app.js:793`), without which an amount typed below zero would have
been kept; it is in the model now and the run types such an amount (`MCAmounts`). Of the
windows (`WindowsKept`) it needs that a login is under way only where a window has become ready, and
that the gate has room for the one it sends: the answer that leaves a window on another
seat's page has taken a login out of the list. Of seats and scripts
(`SeatsAndScriptsInv`) it takes `SeatsInv` and `ScriptInv`.

Model-checked only. Liveness (`WritesAreSeen`, `ResetsEnd`) rests on fairness, hence on
ENABLED, which the prover does not handle. Every other property of a passing run is a
theorem. The theorems cover the specifications without the constraint `Followed` and without
symmetry, so that what the `offline` run does not follow further is covered too.

## 6. What is left

1. The handlers of `Seats` inside the windows of `Windows`: a handler that goes on
   under another token. The two composed are too large for one run.
2. Bids and elections filed from the sandbox's pages, with the cues that depend on
   them; they are in `Filings` and in the scripts.
3. A commit whose answer was lost, which the wallet takes for contention.

## 7. Running

    tlc -workers 2 -config MCClose.cfg MCDeal
    tlapm DataTheorems.tla
    tlapm DealProofs.tla
    tlapm FilingsProofs.tla
    tlapm EpochProofs.tla
    tlapm ReadPathProofs.tla
    tlapm WindowsProofs.tla
    tlapm SeatsProofs.tla
    tlapm OfflineProofs.tla

The longest run is `offline`, about three minutes with two workers.

## 8. Not modelled, and why

Documents, verification, static files, the ledger inspector and the audit trail only
read. The token proxy refreshes a token that expires in hours. The mock backend
replays recorded data. Credentials, signed documents and transfer-leg requests are
templates that no other contract reads. Of the sessions, the HMAC and the table of
tenants with its passwords are left out: a token names a seat and a secret. Of the
sandbox, `Break`, `Withdraw`, `Amend` and the withdrawing choices, which no page offers,
and the transaction trees. Of the scripts, what `close-minimal.ts` does beyond the
consent it cannot record. Of portal and prototype, names, the document room, the
audit log and wording. `ElectionFiled` and the ratios of `ClearingResult` are left
out: nothing that changes state reads them; so is an LP's own election as a cue of its
stepper. Confidentiality is a subject where code decides it - who reads which snapshot
(`ReadPath`), what a portal page tells of the elections (`PortalPages`), the sandbox's
projection - and not where the templates' observers do.
