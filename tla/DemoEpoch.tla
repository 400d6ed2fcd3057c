----------------------------- MODULE DemoEpoch -----------------------------
(***************************************************************************)
(* The demo's epoch (custody/app.ts): a counter in the backend's memory,   *)
(* moved by POST /demo/reset and, after a restart, derived from the ledger,*)
(* where the valuer signs one report for each epoch.  With it, the wallet  *)
(* (ledger-client/src/wallet.ts) through which the backend signs a report: *)
(* prepare, then execute, each call retried while the ledger is contended  *)
(* and given up after 25 s (custody/server.ts).                            *)
(*                                                                         *)
(* Of a report only the epoch it is for matters.  The steps between two    *)
(* awaits are one action.                                                  *)
(***************************************************************************)
EXTENDS Integers, FiniteSets, FiniteSetsExt

CONSTANTS MaxEpoch,    \* bound on the epochs of one behaviour
          MaxRestarts, \* bound on the times the backend stops
          Retries      \* how often the wallet retries a contended call

ASSUME DemoEpochAssumption ==
  MaxEpoch \in Nat \ {0} /\ MaxRestarts \in Nat /\ Retries \in Nat

Epoch == 1..MaxEpoch

VARIABLES
  boot,      \* where the boot's derivation of the epoch is; "off": not running
  bootSaw,   \* the epochs with a report in the boot's snapshot
  demoEpoch, \* the epoch served
  end,       \* endInflight: a request, and once answered the epochs reported by that end
  seeding,   \* seedingByEpoch
  resets,    \* the epochs whose POST /demo/reset awaits its seed
  reports,   \* ledger: the number of reports for each epoch
  late,      \* ledger: commands nobody waits for, neither committed nor refused
  answered,  \* history: epochs that a reset was answered with, by any process
  here,      \* history: those that the running process answered with
  seeded,    \* history: those answered with the report signed
  doubtful,  \* history: epochs whose search for a report may have missed one
  clean,     \* history: the boot read the ledger and no reset came before it had
  restarts   \* how often the backend has stopped

serverVars == <<boot, bootSaw, demoEpoch, end, seeding, resets>>
ledgerVars == <<reports, late>>
answers == <<answered, here, seeded>>
historyVars == <<answers, doubtful, clean, restarts>>
vars == <<serverVars, ledgerVars, historyVars>>

\* A seed in flight: found says that its snapshot has a report; a call to prepare or to
\* execute has been tried again so many times, and sleeps before the next.
Seed == [pc : {"idle", "end", "acs", "prepare", "execute", "committed"},
         found : BOOLEAN, tries : 0..Retries, asleep : BOOLEAN]
At(pc) == [pc |-> pc, found |-> FALSE, tries |-> 0, asleep |-> FALSE]
Idle == At("idle")

EndRequest == [pc : {"none", "asked", "answered"}, saw : SUBSET Epoch]
None == [pc |-> "none", saw |-> {}]
Asked == [pc |-> "asked", saw |-> {}]

TypeOK ==
  /\ boot \in {"off", "end", "acs", "done"}
  /\ bootSaw \subseteq Epoch
  /\ demoEpoch \in Epoch
  /\ end \in EndRequest
  /\ seeding \in [Epoch -> Seed]
  /\ resets \subseteq Epoch
  /\ reports \in [Epoch -> Nat] /\ late \in [Epoch -> Nat]
  /\ answered \subseteq Epoch /\ here \subseteq Epoch /\ seeded \subseteq Epoch
  /\ doubtful \subseteq Epoch
  /\ clean \in BOOLEAN
  /\ restarts \in 0..MaxRestarts

Init ==
  /\ boot = "off" /\ bootSaw = {} /\ demoEpoch = 1 /\ end = None
  /\ seeding = [e \in Epoch |-> Idle] /\ resets = {}
  /\ reports = [e \in Epoch |-> 0] /\ late = [e \in Epoch |-> 0]
  /\ answered = {} /\ here = {} /\ seeded = {}
  /\ doubtful = {} /\ clean = TRUE /\ restarts = 0

Reported == {e \in Epoch : reports[e] > 0}

-----------------------------------------------------------------------------
(* Seeding: one flight for each epoch *)

\* ledgerEnd joins the request under way or sends one.
AskEnd == IF end = None THEN Asked ELSE end

\* Slip: a seed under way is not joined; it goes on, and another one starts.
seedValuation_NoDedup(e) ==
  /\ seeding' = [seeding EXCEPT ![e] = At("end")]
  /\ late' = [late EXCEPT ![e] = @ + IF seeding[e].pc \in {"prepare", "execute"} THEN 1 ELSE 0]
  /\ end' = AskEnd
  /\ doubtful' = IF end.pc = "answered" THEN doubtful \cup {e} ELSE doubtful

\* A seed of the epoch under way is joined.  A new one asks for the ledger's end; if the
\* request it joins was already answered, that answer may be older than a report.
seedValuation(e) ==
  \/ /\ seeding[e] # Idle
     /\ UNCHANGED <<seeding, end, doubtful, late>>
  \/ /\ seeding[e] = Idle
     /\ seeding' = [seeding EXCEPT ![e] = At("end")]
     /\ end' = AskEnd
     /\ doubtful' = IF end.pc = "answered" THEN doubtful \cup {e} ELSE doubtful
     /\ UNCHANGED late

\* The flight ends, and with it what awaited it: a reset is answered either way.
EndSeed(e, signed) ==
  /\ seeding' = [seeding EXCEPT ![e] = Idle]
  /\ resets' = resets \ {e}
  /\ answered' = answered \cup (resets \cap {e})
  /\ here' = here \cup (resets \cap {e})
  /\ seeded' = IF signed THEN seeded \cup (resets \cap {e}) ELSE seeded

\* The snapshot at the end answered: with a report in it there is nothing to do.
LandSeedRead(e) ==
  /\ seeding[e].pc = "acs"
  /\ \/ seeding[e].found /\ EndSeed(e, TRUE)
     \/ /\ ~seeding[e].found
        /\ seeding' = [seeding EXCEPT ![e] = At("prepare")]
        /\ UNCHANGED <<resets, answers>>
  /\ UNCHANGED <<boot, bootSaw, demoEpoch, end, ledgerVars, doubtful, clean, restarts>>

\* The read fails, and the report is signed without having looked.
DropSeedRead(e) ==
  /\ seeding[e].pc = "acs"
  /\ seeding' = [seeding EXCEPT ![e] = At("prepare")]
  /\ doubtful' = doubtful \cup {e}
  /\ UNCHANGED <<boot, bootSaw, demoEpoch, end, resets, ledgerVars, answers, clean, restarts>>

Calling(e) == seeding[e].pc \in {"prepare", "execute"} /\ ~seeding[e].asleep

Prepared(e) ==
  /\ seeding[e].pc = "prepare" /\ Calling(e)
  /\ seeding' = [seeding EXCEPT ![e] = At("execute")]
  /\ UNCHANGED <<boot, bootSaw, demoEpoch, end, resets, ledgerVars, historyVars>>

\* Slips: one retry too many; contention is retried without limit.
Contended_OneMore(e) ==
  /\ Calling(e)
  /\ seeding[e].tries <= Retries
  /\ seeding' = [seeding EXCEPT ![e].tries = @ + 1, ![e].asleep = TRUE]
  /\ UNCHANGED <<boot, bootSaw, demoEpoch, end, resets, ledgerVars, historyVars>>

Contended_Always(e) ==
  /\ Calling(e)
  /\ seeding' = [seeding EXCEPT ![e].asleep = TRUE]
  /\ UNCHANGED <<boot, bootSaw, demoEpoch, end, resets, ledgerVars, historyVars>>

\* The ledger is contended and commits nothing: the call is made again, some time later.
Contended(e) ==
  /\ Calling(e)
  /\ seeding[e].tries < Retries
  /\ seeding' = [seeding EXCEPT ![e].tries = @ + 1, ![e].asleep = TRUE]
  /\ UNCHANGED <<boot, bootSaw, demoEpoch, end, resets, ledgerVars, historyVars>>

Wake(e) ==
  /\ seeding[e].asleep
  /\ seeding' = [seeding EXCEPT ![e].asleep = FALSE]
  /\ UNCHANGED <<boot, bootSaw, demoEpoch, end, resets, ledgerVars, historyVars>>

\* Any other error, or contention once more, ends the seed.
Refused(e) ==
  /\ Calling(e)
  /\ EndSeed(e, FALSE)
  /\ UNCHANGED <<boot, bootSaw, demoEpoch, end, ledgerVars, doubtful, clean, restarts>>

CommitReport(e) ==
  /\ seeding[e].pc = "execute" /\ Calling(e)
  /\ reports' = [reports EXCEPT ![e] = @ + 1]
  /\ seeding' = [seeding EXCEPT ![e] = At("committed")]
  /\ UNCHANGED <<boot, bootSaw, demoEpoch, end, resets, late, historyVars>>

\* Execute waits for the transaction, so its answer comes after the commit.
Executed(e) ==
  /\ seeding[e].pc = "committed"
  /\ EndSeed(e, TRUE)
  /\ UNCHANGED <<boot, bootSaw, demoEpoch, end, ledgerVars, doubtful, clean, restarts>>

\* 25 s without an answer: the call is aborted, but not what the ledger does with it.
TimeOutSeed(e) ==
  /\ Calling(e) \/ seeding[e].pc = "committed"
  /\ EndSeed(e, FALSE)
  /\ IF seeding[e].pc = "execute"
     THEN late' = [late EXCEPT ![e] = @ + 1] /\ doubtful' = doubtful \cup {e}
     ELSE UNCHANGED <<late, doubtful>>
  /\ UNCHANGED <<boot, bootSaw, demoEpoch, end, reports, clean, restarts>>

\* A command that nobody waits for any more is committed or refused after all.
DecideLate(e) ==
  /\ late[e] > 0
  /\ late' = [late EXCEPT ![e] = @ - 1]
  /\ reports' \in {reports, [reports EXCEPT ![e] = @ + 1]}
  /\ UNCHANGED <<serverVars, historyVars>>

-----------------------------------------------------------------------------
(* Reset, boot and stop *)

\* Slip: the reset is answered at once, while its valuation is being signed.
Reset_NoWait ==
  /\ boot # "off" /\ demoEpoch < MaxEpoch
  /\ demoEpoch' = demoEpoch + 1
  /\ seedValuation(demoEpoch + 1)
  /\ answered' = answered \cup {demoEpoch + 1}
  /\ here' = here \cup {demoEpoch + 1}
  /\ seeded' = seeded \cup {demoEpoch + 1}
  /\ clean' = (clean /\ boot = "done")
  /\ UNCHANGED <<boot, bootSaw, resets, reports, restarts>>

\* POST /demo/reset, which the backend takes as soon as it runs.
Reset ==
  /\ boot # "off" /\ demoEpoch < MaxEpoch
  /\ demoEpoch' = demoEpoch + 1
  /\ seedValuation(demoEpoch + 1)
  /\ resets' = resets \cup {demoEpoch + 1}
  /\ clean' = (clean /\ boot = "done")
  /\ UNCHANGED <<boot, bootSaw, reports, answers, restarts>>

\* The backend starts with epoch 1 and asks the ledger.
Start ==
  /\ boot = "off"
  /\ boot' = "end"
  /\ end' = AskEnd
  /\ clean' = TRUE
  /\ UNCHANGED <<bootSaw, demoEpoch, seeding, resets, ledgerVars, answers, doubtful, restarts>>

\* Slip: the epoch stays what memory says.
deriveEpoch_Memory(saw) == demoEpoch

\* The highest epoch that has a report, 1 without any.
deriveEpoch(saw) == Max(saw \cup {1})

LandBoot ==
  /\ boot = "acs"
  /\ boot' = "done" /\ bootSaw' = {}
  /\ demoEpoch' = deriveEpoch(bootSaw)
  /\ seedValuation(demoEpoch')
  /\ UNCHANGED <<resets, reports, answers, clean, restarts>>

\* The boot's read fails: the epoch stays, and is seeded.
DropBoot ==
  /\ boot = "acs"
  /\ boot' = "done" /\ bootSaw' = {}
  /\ clean' = FALSE
  /\ seedValuation(demoEpoch)
  /\ UNCHANGED <<demoEpoch, resets, reports, answers, restarts>>

\* The process ends with all it holds; the machine may be stopped when idle, or crash.
Stop ==
  LET undecided == {e \in Epoch : seeding[e].pc = "execute" /\ ~seeding[e].asleep} IN
  /\ boot # "off" /\ restarts < MaxRestarts
  /\ restarts' = restarts + 1
  /\ boot' = "off" /\ bootSaw' = {} /\ demoEpoch' = 1 /\ end' = None
  /\ seeding' = [e \in Epoch |-> Idle] /\ resets' = {}
  /\ late' = [e \in Epoch |-> late[e] + IF e \in undecided THEN 1 ELSE 0]
  /\ doubtful' = doubtful \cup undecided
  /\ here' = {}
  /\ UNCHANGED <<reports, answered, seeded, clean>>

-----------------------------------------------------------------------------
(* The ledger's end, which the boot and the seeds share *)

AnswerEnd ==
  /\ end = Asked
  /\ end' = [pc |-> "answered", saw |-> Reported]
  /\ UNCHANGED <<boot, bootSaw, demoEpoch, seeding, resets, ledgerVars, historyVars>>

Waiting == {e \in Epoch : seeding[e].pc = "end"}

\* All who share the request ask for the contracts at the end it gave.
ResolveEnd ==
  /\ end.pc = "answered"
  /\ end' = None
  /\ seeding' = [e \in Epoch |-> IF e \in Waiting THEN [At("acs") EXCEPT !.found = e \in end.saw]
                                 ELSE seeding[e]]
  /\ IF boot = "end" THEN boot' = "acs" /\ bootSaw' = end.saw ELSE UNCHANGED <<boot, bootSaw>>
  /\ UNCHANGED <<demoEpoch, resets, ledgerVars, historyVars>>

\* The request fails or is aborted, and so are the reads that share it.  The boot keeps
\* its epoch and seeds it: a seed that waited here too is joined, a new one asks again.
RejectEnd ==
  LET fresh == boot = "end" /\ seeding[demoEpoch] = Idle IN
  /\ end # None
  /\ end' = IF fresh THEN Asked ELSE None
  /\ seeding' = [e \in Epoch |-> IF e \in Waiting THEN At("prepare")
                                 ELSE IF fresh /\ e = demoEpoch THEN At("end")
                                 ELSE seeding[e]]
  /\ boot' = IF boot = "end" THEN "done" ELSE boot
  /\ clean' = (clean /\ boot # "end")
  /\ doubtful' = doubtful \cup Waiting
  /\ UNCHANGED <<bootSaw, demoEpoch, resets, ledgerVars, answers, restarts>>

Next ==
  \/ Reset \/ Start \/ LandBoot \/ DropBoot \/ Stop
  \/ AnswerEnd \/ ResolveEnd \/ RejectEnd
  \/ \E e \in Epoch :
       \/ LandSeedRead(e) \/ DropSeedRead(e)
       \/ Prepared(e) \/ Contended(e) \/ Wake(e) \/ Refused(e)
       \/ CommitReport(e) \/ Executed(e) \/ TimeOutSeed(e) \/ DecideLate(e)

Spec == Init /\ [][Next]_vars

\* The backend's own timers only: an unanswered call is aborted and a sleeping one wakes.
\* The ledger need not answer anything.
Fairness ==
  /\ WF_vars(RejectEnd)
  /\ \A e \in Epoch : WF_vars(DropSeedRead(e)) /\ WF_vars(Wake(e)) /\ WF_vars(TimeOutSeed(e))

FairSpec == Spec /\ Fairness

-----------------------------------------------------------------------------
(* Properties *)

\* The client reloads after a reset's answer; unless the seed failed, the report it then
\* looks for is on the ledger (app.ts seeds before it responds).
AnsweredIsSigned == seeded \subseteq Reported

\* Answered although the seed failed or was late, by a process that has stopped since.
Forgotten == answered \ (seeded \cup here)

\* A backend whose boot read the ledger before any reset came serves, or has gone past,
\* every epoch that a reset was answered with, in whichever process; one that was
\* answered without its report (the seed failed, or was late: app.ts answers all the same)
\* may be lost with its process, although app.ts:457-462 says that a cold start does not.
ResumesWhereItWas == boot = "done" /\ clean => \A e \in answered \ Forgotten : e <= demoEpoch

\* However resets, boots and joined requests interleave, an epoch's report is signed once,
\* unless its search was impaired: a read failed, a command was left behind undecided, or
\* the search used an answer older than itself.
SignedOnce == \A e \in Epoch \ doubtful : reports[e] <= 1

\* Every reset is answered unless the backend stops, whatever the ledger does.
ResetsEnd == \A e \in Epoch : e \in resets ~> e \notin resets

\* What app.ts says of a reset: the new epoch's keys have no contracts yet.
ResetsStartOver == [][\A e \in resets' \ resets : reports[e] = 0]_vars
=============================================================================
