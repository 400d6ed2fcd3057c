---------------------------- MODULE CloseScripts ----------------------------
(* The headless scripts: provision.ts and close-wallets.ts, which onboard a  *)
(* wallet for each seat and write who they are; close-wallets.ts, which then *)
(* runs a whole close, one party's signature per command; close-minimal.ts   *)
(* and lifecycle-check.ts, which drive a deal with the parties seed.ts wrote.*)
(* A script is a list of steps.  A step is a command of one seat: refused if *)
(* another's authority is needed or its choice aborts, and cut off when its  *)
(* call takes too long, committed or not.  The script ends at the first      *)
(* failure.  Whom the ledger takes a command from is the contracts' own      *)
(* (continuum-daml); what it makes of it is SandboxLedger's.                 *)
EXTENDS Seats

VARIABLES
  script,    \* the script that runs
  pc,        \* the step it is at
  ended,     \* "running", then "proven" or "failed"
  lost,      \* history: a call was cut off
  registry,  \* whose parties party-registry.json names: "seeded", "wallets"
  keys       \* the keys file is of this run's wallets

scriptVars == <<script, pc, ended, lost, registry, keys>>

S(by, op, of, reader) == [by |-> by, op |-> op, of |-> of, reader |-> reader]
Creates(by, c) == S(by, "create", c, by)
ForGp(by, c) == S(by, "create", c, "gp")
Chooses(by, op) == S(by, op, "deal", "gp")

\* The six wallets, then the public file, then the keys if git ignores them.
Onboarding == <<"gp", "buyer", "lpExiting", "lpRolling", "lpac", "valuer">>
ProvisionSteps ==
  [i \in DOMAIN Onboarding |-> S(Onboarding[i], "onboard", "wallet", Onboarding[i])]
    \o <<S("gp", "register", "file", "gp"), S("gp", "keep", "file", "gp")>>

Bid(seat) == Contract("bid", seat, 1)
Filed(seat) == Contract("election", seat, 1)

\* Setup to Electing, the sealed decisions, the antecedents and the basis.
RoomSteps ==
  <<Creates("gp", factory), Chooses("gp", "room"), Chooses("gp", "SetClearing"),
    Chooses("lpac", "RecordConsent"), Chooses("gp", "OpenElections")>>
DecisionSteps ==
  <<Creates("buyer", Bid("buyer")), Creates("lpExiting", Filed("lpExiting")), Creates("lpRolling", Filed("lpRolling"))>>
BasisSteps ==
  <<ForGp("valuer", Doc("valuation", 1)), ForGp("lpac", Doc("opinion", 1)), ForGp("gp", Doc("cert", 1)),
    ForGp("lpac", Doc("consent", 1)), ForGp("gp", Doc("psa", 1)), ForGp("gp", Doc("basis", 1))>>
DealSteps == RoomSteps \o DecisionSteps \o BasisSteps

Arranged(leg) == <<S("gp", "mint", leg, "gp"), S("gp", "Allocate", leg, "gp")>>
LegSteps == Arranged("unit") \o Arranged("roll") \o Arranged("cash")

\* The GP proposes and the party accepts, or the LP proposes and the GP does.
Accepted(op, template, proposer, party, acceptor) ==
  <<S(proposer, "create", For(template, party), acceptor), S(acceptor, op, party, acceptor)>>

\* Mutant: the GP accepts the rolling LP's delegation for it.
delegations_ByGp ==
  Accepted("EDP_Accept", "proposal", "gp", "buyer", "buyer")
    \o Accepted("EDP_Accept", "proposal", "gp", "lpExiting", "lpExiting")
    \o Accepted("EDP_Accept", "proposal", "gp", "lpRolling", "gp")

delegations ==
  Accepted("EDP_Accept", "proposal", "gp", "buyer", "buyer")
    \o Accepted("EDP_Accept", "proposal", "gp", "lpExiting", "lpExiting")
    \o Accepted("EDP_Accept", "proposal", "gp", "lpRolling", "lpRolling")
oldFund(lp) == Accepted("OFI_Accept", "offer", "gp", lp, lp)
participations(lp) == Accepted("Accept", "participation", lp, lp, "gp")
AuthoritySteps ==
  delegations \o oldFund("lpExiting") \o oldFund("lpRolling")
    \o participations("lpExiting") \o participations("lpRolling")

WalletSteps == ProvisionSteps \o DealSteps \o LegSteps \o AuthoritySteps \o <<Chooses("gp", "Close")>>

\* As far as it comes: the consent is the LPAC's to record.
MinimalSteps ==
  <<Chooses("gp", "room"), Chooses("gp", "SetClearing"), Chooses("gp", "RecordConsent"), Chooses("gp", "OpenElections")>>
\* The stage Bidding is Setup to every choice.
LifecycleSteps ==
  <<Chooses("gp", "room"), Creates("buyer", Bid("buyer")), Chooses("gp", "SetClearing"),
    Chooses("gp", "RecordConsent"), Chooses("gp", "OpenElections"), Creates("lpExiting", Filed("lpExiting"))>>
Plan == [provision |-> ProvisionSteps, wallets |-> WalletSteps, minimal |-> MinimalSteps, lifecycle |-> LifecycleSteps]
LedgerOps ==
  {"create", "room", "SetClearing", "RecordConsent", "OpenElections", "mint", "Allocate",
   "EDP_Accept", "OFI_Accept", "Accept", "Close"}

ScriptsInit ==
  /\ script \in DOMAIN Plan
  /\ pc = 1
  /\ ended = "running"
  /\ lost = FALSE
  /\ registry \in {"seeded", "wallets"}
  /\ keys = FALSE

(* Whose authority a command needs, and what it comes to.                    *)
signatory(c) ==
  CASE c.template = "valuation"                            -> "valuer"
    [] c.template \in {"opinion", "consent"}               -> "lpac"
    [] c.template \in {"bid", "election", "participation"} -> c.of
    [] OTHER                                               -> "gp"
\* The lifecycle check's room has the GP for its LPAC.
lpac == IF script = "lifecycle" THEN "gp" ELSE "lpac"
authority(s) ==
  CASE s.op = "create"                       -> signatory(s.of)
    [] s.op \in {"EDP_Accept", "OFI_Accept"} -> s.of
    [] s.op = "RecordConsent"                -> lpac
    [] OTHER                                 -> "gp"

Command(s, g) ==
  LET i == Len(g.rooms) IN
  CASE s.op = "create"        -> create(g, {s.of})
    [] s.op = "room"          -> createDeal(g, 1)
    [] s.op = "SetClearing"   -> SetClearing(g, i)
    [] s.op = "RecordConsent" -> RecordConsent(g, i)
    [] s.op = "OpenElections" -> OpenElections(g, i)
    [] s.op = "mint"          -> mint(g, s.of, 1)
    [] s.op = "Allocate"      -> Allocate(g, s.of, 1)
    [] s.op = "EDP_Accept"    -> EDP_Accept(g, s.of)
    [] s.op = "OFI_Accept"    -> OFI_Accept(g, s.of)
    [] s.op = "Accept"        -> Accept(g, s.of)
    [] s.op = "Close"         -> Close(g, i, Legs, LPs)

\* A registry of wallets has no party "lp", and a deal must name its room.
Nameless(s) == registry = "wallets" /\ s.op = "room" /\ script \in {"minimal", "lifecycle"}
Answer(s) == IF s.by = authority(s) /\ ~Nameless(s) THEN Command(s, ledger) ELSE Thrown(ledger)

\* act looks for the contract it made among those its reader sees.
Found(s, g) == s.op # "create" \/ visible(g, s.reader, s.of)

\* What the script asserts of a close, from what it read before and after.
Moved(g, h) ==
  /\ Doc("receipt", 1) \in h.acs \ g.acs
  /\ \A l \in Legs : LET x == <<receiver[l], instrument(l, 1)>> IN h.held[x] - g.held[x] = amount[l]
  /\ \A lp \in LPs : For("interest", lp) \notin h.acs
Proves(s, g) == Found(s, g) /\ (s.op = "Close" => Moved(ledger, g))

(* The steps.                                                                *)
Now == Plan[script][pc]
Runs(ops) == ended = "running" /\ Now.op \in ops
Advance ==
  /\ pc' = IF pc = Len(Plan[script]) THEN pc ELSE pc + 1
  /\ ended' = IF pc = Len(Plan[script]) THEN "proven" ELSE ended
Fail == ended' = "failed" /\ UNCHANGED pc
Leaves(g) ==
  /\ ledger' = g
  /\ assembled' = IF Doc("basis", 1) \in g.acs THEN {1} ELSE assembled
  /\ UNCHANGED <<epoch, opening, minting>>

onboard ==
  /\ Runs({"onboard"})
  /\ Advance
  /\ UNCHANGED <<seatVars, script, lost, registry, keys>>
register ==
  /\ Runs({"register"})
  /\ registry' = "wallets"
  /\ Advance
  /\ UNCHANGED <<seatVars, script, lost, keys>>
\* The keys are refused where git would not ignore them.
keep ==
  /\ Runs({"keep"})
  /\ \/ keys' = TRUE /\ Advance
     \/ Fail /\ UNCHANGED keys
  /\ UNCHANGED <<seatVars, script, lost, registry>>

act ==
  /\ Runs(LedgerOps)
  /\ LET r == Answer(Now)  g == submit(ledger, r) IN
       /\ Leaves(g)
       /\ IF r.ok /\ Proves(Now, g) THEN Advance ELSE Fail
  /\ UNCHANGED <<script, lost, registry, keys>>
\* The call is given up; the ledger may have taken the command all the same.
cutOff ==
  /\ Runs(LedgerOps \cup {"onboard"})
  /\ lost' = TRUE
  /\ \E g \in {ledger} \cup {submit(ledger, Answer(Now)) : x \in {Now.op} \cap LedgerOps} : Leaves(g)
  /\ Fail
  /\ UNCHANGED <<script, registry, keys>>
exited == ended # "running" /\ UNCHANGED <<seatVars, scriptVars>>

ScriptsNext ==
  \/ onboard
  \/ register
  \/ keep
  \/ act
  \/ cutOff
  \/ exited

ScriptsTypeOK ==
  /\ script \in DOMAIN Plan /\ pc \in DOMAIN Plan[script]
  /\ ended \in {"running", "proven", "failed"} /\ registry \in {"seeded", "wallets"}

LeftOver ==
  {Allocation(l, 1) : l \in Legs}
    \cup {For(t, p) : t \in {"proposal", "offer", "participation", "interest"}, p \in Holders}

\* The wallet close signs every step as the one party whose step it is: it
\* fails for a lost call or refused keys only, and what it proves has closed,
\* with nothing left to settle and a key for every party it registered.  The
\* lifecycle check comes to elections, with the seeded parties; the minimal
\* close does not come past the LPAC's consent.
ScriptsProveTheClose ==
  /\ script \in {"wallets", "provision"} =>
       /\ ended = "failed" => lost \/ ~keys
       /\ ended = "proven" => keys /\ registry = "wallets"
  /\ script = "wallets" =>
       /\ ended = "proven" => settled(1) /\ ledger.acs \cap LeftOver = {}
       /\ settled(1) => ended = "proven" \/ lost
  /\ script = "lifecycle" /\ ended # "running" /\ ~lost =>
       (ended = "proven" <=> registry = "seeded") /\ (ended = "proven" => ledger.rooms[1].stage = "Electing")
  /\ script = "minimal" => ended # "proven" /\ \A i \in DOMAIN ledger.rooms : ledger.rooms[i].stage = "Setup"
=============================================================================
