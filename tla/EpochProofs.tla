---------------------------- MODULE EpochProofs ----------------------------
(* Theorems of DemoEpoch, for any number of epochs, restarts and retries.    *)
EXTENDS DemoEpoch, WellFoundedInduction, TLAPS

\* A flight that found or committed a report, and an answer to a search, speak of
\* reports that are on the ledger.
SeedsSpeakTrue ==
  /\ seeded \subseteq Reported
  /\ end.saw \subseteq Reported
  /\ bootSaw \subseteq Reported
  /\ \A e \in Epoch : seeding[e].found \/ seeding[e].pc = "committed" => reports[e] > 0

\* Where a boot that no reset has overtaken stands: nothing is answered before it has
\* its snapshot, which has every epoch seeded earlier, and the epoch served follows.
BootIsSound ==
  /\ boot = "off" => end = None /\ resets = {}
  /\ boot = "off" => here = {}
  /\ clean /\ boot # "done" => resets = {} /\ here = {}
  /\ clean /\ boot = "end" => end # None /\ (end.pc = "answered" => seeded \subseteq end.saw)
  /\ clean /\ boot = "acs" => seeded \subseteq bootSaw
  /\ clean /\ boot = "done" => \A e \in seeded \cup here \cup resets : e <= demoEpoch

\* Once the report of an epoch is signed, no undoubted search of it misses it.
SearchFinds(e) ==
  e \notin doubtful =>
    /\ late[e] = 0
    /\ reports[e] <= 1
    /\ seeding[e].pc = "end" => end # None
    /\ reports[e] = 1 =>
         /\ seeding[e].pc \notin {"prepare", "execute"}
         /\ seeding[e].pc = "acs" => seeding[e].found
         /\ seeding[e].pc = "end" /\ end.pc = "answered" => e \in end.saw

SearchesFind == \A e \in Epoch : SearchFinds(e)

-----------------------------------------------------------------------------
(* The derived epoch *)

\* A set of epochs with 1 added has a largest member: otherwise the distances of its
\* members from MaxEpoch would descend for ever.
LEMMA LargestEpoch ==
  ASSUME NEW S, S \subseteq Epoch
  PROVE  \E x \in S \cup {1} : \A y \in S \cup {1} : x >= y
<1> DEFINE T == {n \in Nat : \E x \in S \cup {1} : n = MaxEpoch - x}
<1> USE DemoEpochAssumption DEF Epoch
<1>1. MaxEpoch - 1 \in T
  OBVIOUS
<1>2. PICK n \in T : \A m \in T : ~(<<m, n>> \in OpToRel(<, Nat))
  <2> HIDE DEF T
  <2>1. T \subseteq Nat /\ T # {}
    BY <1>1 DEF T
  <2>2. QED
    BY <2>1, NatLessThanWellFounded, WFMin DEF OpToRel
<1>3. \A m \in T : ~(m < n)
  BY <1>2 DEF OpToRel
<1>4. PICK x \in S \cup {1} : n = MaxEpoch - x
  OBVIOUS
<1>5. ASSUME NEW y \in S \cup {1}
      PROVE  x >= y
  <2>1. MaxEpoch - y \in T
    OBVIOUS
  <2>2. QED
    BY <1>3, <1>4, <2>1
<1>6. QED
  BY <1>5

\* deriveEpoch returns an epoch, at least as high as any that has a report.
LEMMA DerivedIsHighest ==
  ASSUME NEW S, S \subseteq Epoch
  PROVE  deriveEpoch(S) \in Epoch /\ \A e \in S : e <= deriveEpoch(S)
<1> USE DemoEpochAssumption DEF Epoch
<1> DEFINE x == CHOOSE m \in S \cup {1} : \A y \in S \cup {1} : m >= y
<1>1. x \in S \cup {1} /\ \A y \in S \cup {1} : x >= y
  BY LargestEpoch
<1>2. deriveEpoch(S) = x
  BY DEF deriveEpoch, Max
<1> HIDE DEF x
<1>3. QED
  BY <1>1, <1>2
-----------------------------------------------------------------------------
(* Types *)

\* The records the flights are set to.
LEMMA FlightTypes ==
  /\ Idle \in Seed /\ None \in EndRequest /\ Asked \in EndRequest
  /\ \A pc \in {"idle", "end", "acs", "prepare", "execute", "committed"} : At(pc) \in Seed
  /\ \A b \in BOOLEAN : [At("acs") EXCEPT !.found = b] \in Seed
  /\ \A f \in Seed : \A b \in BOOLEAN : [f EXCEPT !.asleep = b] \in Seed
<1> USE DemoEpochAssumption
<1>1. Idle \in Seed /\ None \in EndRequest /\ Asked \in EndRequest
  BY DEF Idle, At, Seed, None, Asked, EndRequest
<1>2. ASSUME NEW pc \in {"idle", "end", "acs", "prepare", "execute", "committed"}
      PROVE  At(pc) \in Seed
  BY DEF At, Seed
<1>3. ASSUME NEW b \in BOOLEAN
      PROVE  [At("acs") EXCEPT !.found = b] \in Seed
  <2>1. At("acs") \in Seed
    BY <1>2
  <2>2. \A f \in Seed : [f EXCEPT !.found = b] \in Seed
    BY DEF Seed
  <2>3. QED
    BY <2>1, <2>2
<1>4. ASSUME NEW f \in Seed, NEW b \in BOOLEAN
      PROVE  [f EXCEPT !.asleep = b] \in Seed
  BY DEF Seed
<1>5. QED
  BY <1>1, <1>2, <1>3, <1>4

\* Seeding an epoch leaves the flights, the request and the doubtful epochs well typed.
LEMMA SeedingTypes ==
  ASSUME TypeOK, NEW e \in Epoch, seedValuation(e)
  PROVE  /\ seeding' \in [Epoch -> Seed]
         /\ end' \in EndRequest
         /\ doubtful' \subseteq Epoch
         /\ late' = late
BY FlightTypes DEF TypeOK, seedValuation, AskEnd

\* Ending a flight does, too.
LEMMA EndingTypes ==
  ASSUME TypeOK, NEW e \in Epoch, NEW signed \in BOOLEAN, EndSeed(e, signed)
  PROVE  /\ seeding' \in [Epoch -> Seed]
         /\ resets' \subseteq Epoch
         /\ answered' \subseteq Epoch /\ here' \subseteq Epoch /\ seeded' \subseteq Epoch
BY FlightTypes DEF TypeOK, EndSeed

\* Every action keeps the state well typed.
LEMMA EpochTypeStep == TypeOK /\ [Next]_vars => TypeOK'
<1> SUFFICES ASSUME TypeOK, [Next]_vars
             PROVE  TypeOK'
  OBVIOUS
<1> USE DemoEpochAssumption DEF ledgerVars, answers, historyVars, serverVars
<1>1. CASE Reset
  <2>1. demoEpoch + 1 \in Epoch
    BY <1>1 DEF Reset, TypeOK, Epoch
  <2>2. seedValuation(demoEpoch + 1)
    BY <1>1 DEF Reset
  <2>3. PICK e \in Epoch : e = demoEpoch + 1 /\ seedValuation(e)
    BY <2>1, <2>2
  <2>4. /\ seeding' \in [Epoch -> Seed]
        /\ end' \in EndRequest
        /\ doubtful' \subseteq Epoch
        /\ late' = late
    BY <2>3, SeedingTypes
  <2>5. QED
    BY <1>1, <2>1, <2>4 DEF Reset, TypeOK
<1>2. CASE Start
  BY <1>2, FlightTypes DEF Start, TypeOK, AskEnd
<1>3. CASE LandBoot
  <2>1. demoEpoch' \in Epoch
    BY <1>3, DerivedIsHighest DEF LandBoot, TypeOK
  <2>2. PICK e \in Epoch : e = demoEpoch' /\ seedValuation(e)
    BY <1>3, <2>1 DEF LandBoot
  <2>3. /\ seeding' \in [Epoch -> Seed]
        /\ end' \in EndRequest
        /\ doubtful' \subseteq Epoch
        /\ late' = late
    BY <2>2, SeedingTypes
  <2>4. QED
    BY <1>3, <2>1, <2>3 DEF LandBoot, TypeOK
<1>4. CASE DropBoot
  <2>1. PICK e \in Epoch : e = demoEpoch /\ seedValuation(e)
    BY <1>4 DEF DropBoot, TypeOK
  <2>2. /\ seeding' \in [Epoch -> Seed]
        /\ end' \in EndRequest
        /\ doubtful' \subseteq Epoch
        /\ late' = late
    BY <2>1, SeedingTypes
  <2>3. QED
    BY <1>4, <2>2 DEF DropBoot, TypeOK
<1>5. CASE Stop
  <2>1. 1 \in Epoch
    BY DEF Epoch
  <2>2. late' \in [Epoch -> Nat]
    BY <1>5 DEF Stop, TypeOK
  <2>3. QED
    BY <1>5, <2>1, <2>2, FlightTypes DEF Stop, TypeOK
<1>6. CASE AnswerEnd
  BY <1>6 DEF AnswerEnd, TypeOK, EndRequest, Reported
<1>7. CASE ResolveEnd
  <2>1. seeding' \in [Epoch -> Seed]
    <3>1. ASSUME NEW e \in Epoch
          PROVE  [At("acs") EXCEPT !.found = e \in end.saw] \in Seed
      <4>1. (e \in end.saw) \in BOOLEAN
        OBVIOUS
      <4>2. QED
        BY <4>1, FlightTypes
    <3>2. QED
      BY <1>7, <3>1 DEF ResolveEnd, TypeOK
  <2>2. end.saw \subseteq Epoch
    BY DEF TypeOK, EndRequest
  <2>3. QED
    BY <1>7, <2>1, <2>2, FlightTypes DEF ResolveEnd, TypeOK
<1>8. CASE RejectEnd
  <2>1. seeding' \in [Epoch -> Seed]
    BY <1>8, FlightTypes DEF RejectEnd, TypeOK
  <2>2. QED
    BY <1>8, <2>1, FlightTypes DEF RejectEnd, TypeOK, Waiting
<1>9. ASSUME NEW e \in Epoch, \/ LandSeedRead(e) \/ Refused(e) \/ Executed(e) \/ TimeOutSeed(e)
      PROVE  TypeOK'
  <2>1. CASE EndSeed(e, TRUE) \/ EndSeed(e, FALSE)
    <3>1. /\ seeding' \in [Epoch -> Seed]
          /\ resets' \subseteq Epoch
          /\ answered' \subseteq Epoch /\ here' \subseteq Epoch /\ seeded' \subseteq Epoch
      BY <2>1, EndingTypes
    <3>2. CASE LandSeedRead(e) \/ Refused(e) \/ Executed(e)
      BY <3>1, <3>2 DEF LandSeedRead, Refused, Executed, TypeOK
    <3>3. CASE TimeOutSeed(e)
      <4>1. late' \in [Epoch -> Nat] /\ doubtful' \subseteq Epoch
        BY <3>3 DEF TimeOutSeed, TypeOK
      <4>2. QED
        BY <3>1, <3>3, <4>1 DEF TimeOutSeed, TypeOK
    <3>4. QED
      BY <1>9, <3>2, <3>3
  <2>2. CASE LandSeedRead(e) /\ seeding' = [seeding EXCEPT ![e] = At("prepare")]
             /\ UNCHANGED <<resets, answers>>
    BY <2>2, FlightTypes DEF LandSeedRead, TypeOK
  <2>3. QED
    BY <1>9, <2>1, <2>2 DEF LandSeedRead, Refused, Executed, TimeOutSeed
<1>10. ASSUME NEW e \in Epoch, \/ DropSeedRead(e) \/ Prepared(e) \/ Wake(e) \/ CommitReport(e)
       PROVE  TypeOK'
  <2>1. seeding' \in [Epoch -> Seed]
    BY <1>10, FlightTypes DEF DropSeedRead, Prepared, Wake, CommitReport, TypeOK
  <2>2. QED
    BY <1>10, <2>1 DEF DropSeedRead, Prepared, Wake, CommitReport, TypeOK
<1>11. ASSUME NEW e \in Epoch, Contended(e)
       PROVE  TypeOK'
  <2>1. seeding[e].tries + 1 \in 0..Retries
    BY <1>11 DEF Contended, TypeOK, Seed
  <2>2. \A f \in Seed, n \in 0..Retries : [f EXCEPT !.tries = n, !.asleep = TRUE] \in Seed
    BY DEF Seed
  <2>3. seeding' \in [Epoch -> Seed]
    BY <1>11, <2>1, <2>2 DEF Contended, TypeOK
  <2>4. QED
    BY <1>11, <2>3 DEF Contended, TypeOK
<1>12. ASSUME NEW e \in Epoch, DecideLate(e)
       PROVE  TypeOK'
  BY <1>12 DEF DecideLate, TypeOK
<1>13. CASE UNCHANGED vars
  BY <1>13 DEF vars, TypeOK
<1>14. QED
  BY <1>1, <1>2, <1>3, <1>4, <1>5, <1>6, <1>7, <1>8, <1>9, <1>10, <1>11, <1>12, <1>13 DEF Next

\* The state is always well typed: in particular the epoch served is one the demo has,
\* and no call is retried more often than the wallet allows.
THEOREM EpochTypeCorrect == Spec => []TypeOK
<1>1. Init => TypeOK
  BY DemoEpochAssumption
     DEF Init, TypeOK, Epoch, EndRequest, None, Seed, At, Idle
<1>2. QED
  BY <1>1, EpochTypeStep, PTL DEF Spec
-----------------------------------------------------------------------------
(* What an answered reset was told *)

\* A seed that is started touches one flight, and neither finds nor commits anything.
LEMMA SeedingEffect ==
  ASSUME TypeOK, NEW e \in Epoch, seedValuation(e)
  PROVE  /\ \A x \in Epoch \ {e} : seeding'[x] = seeding[x]
         /\ \/ seeding'[e] = seeding[e]
            \/ /\ seeding'[e] = At("end")
               /\ e \in doubtful' \/ end'.pc # "answered"
         /\ end' = end \/ (end = None /\ end' = Asked)
         /\ seeding'[e] # seeding[e] => end' # None
         /\ doubtful \subseteq doubtful'
         /\ late' = late
<1> USE DEF TypeOK
<1>1. None # Asked /\ Asked.pc # "answered"
  BY DEF None, Asked
<1>2. CASE UNCHANGED <<seeding, end, doubtful, late>>
  BY <1>2
<1>3. CASE /\ seeding' = [seeding EXCEPT ![e] = At("end")]
           /\ end' = AskEnd
           /\ doubtful' = IF end.pc = "answered" THEN doubtful \cup {e} ELSE doubtful
           /\ UNCHANGED late
  BY <1>1, <1>3 DEF AskEnd
<1>4. QED
  BY <1>2, <1>3 DEF seedValuation

\* A flight just started, or asking for nothing yet, has found and committed nothing.
LEMMA FreshFlights ==
  \A pc \in {"idle", "end", "prepare", "execute"} :
    ~At(pc).found /\ At(pc).pc = pc /\ At(pc).pc # "committed"
BY DEF At

\* Seeding keeps what flights and requests say true.
LEMMA SeedingSpeaksTrue ==
  ASSUME TypeOK, SeedsSpeakTrue, NEW e \in Epoch, seedValuation(e), reports' = reports
  PROVE  /\ end'.saw \subseteq Reported'
         /\ \A x \in Epoch :
              seeding'[x].found \/ seeding'[x].pc = "committed" => reports'[x] > 0
<1>1. Reported' = Reported
  BY DEF Reported
<1>2. Asked.saw = {}
  BY DEF Asked
<1>3. end'.saw \subseteq Reported'
  BY <1>1, <1>2, SeedingEffect DEF SeedsSpeakTrue
<1>4. ASSUME NEW x \in Epoch, seeding'[x].found \/ seeding'[x].pc = "committed"
      PROVE  reports'[x] > 0
  <2>1. seeding'[x] = seeding[x] \/ seeding'[x] = At("end")
    BY SeedingEffect
  <2>2. seeding'[x] = seeding[x]
    BY <1>4, <2>1, FreshFlights
  <2>3. QED
    BY <1>4, <2>2 DEF SeedsSpeakTrue
<1>5. QED
  BY <1>3, <1>4

\* Every action keeps what flights, requests and answers say true.
LEMMA SpeakTrueStep == TypeOK /\ SeedsSpeakTrue /\ [Next]_vars => SeedsSpeakTrue'
<1> SUFFICES ASSUME TypeOK, SeedsSpeakTrue, [Next]_vars
             PROVE  SeedsSpeakTrue'
  OBVIOUS
<1> USE DEF ledgerVars, answers, historyVars, serverVars
<1>0. reports' = reports => Reported' = Reported
  BY DEF Reported
<1>1. CASE Reset
  <2>1. demoEpoch + 1 \in Epoch /\ seedValuation(demoEpoch + 1)
    BY <1>1, DemoEpochAssumption DEF Reset, TypeOK, Epoch
  <2>2. PICK e \in Epoch : seedValuation(e)
    BY <2>1
  <2>3. QED
    BY <1>0, <1>1, <2>2, SeedingSpeaksTrue DEF Reset, SeedsSpeakTrue
<1>2. CASE Start
  BY <1>0, <1>2 DEF Start, SeedsSpeakTrue, AskEnd, Asked
<1>3. CASE LandBoot
  <2>1. demoEpoch' \in Epoch
    BY <1>3, DerivedIsHighest DEF LandBoot, TypeOK
  <2>2. PICK e \in Epoch : seedValuation(e)
    BY <1>3, <2>1 DEF LandBoot
  <2>3. QED
    BY <1>0, <1>3, <2>2, SeedingSpeaksTrue DEF LandBoot, SeedsSpeakTrue
<1>4. CASE DropBoot
  <2>1. PICK e \in Epoch : seedValuation(e)
    BY <1>4 DEF DropBoot, TypeOK
  <2>2. QED
    BY <1>0, <1>4, <2>1, SeedingSpeaksTrue DEF DropBoot, SeedsSpeakTrue
<1>5. CASE Stop
  BY <1>0, <1>5, FreshFlights DEF Stop, SeedsSpeakTrue, None, Idle
<1>6. CASE AnswerEnd
  BY <1>0, <1>6 DEF AnswerEnd, SeedsSpeakTrue
<1>7. CASE ResolveEnd
  <2>1. ASSUME NEW x \in Epoch, seeding'[x].found \/ seeding'[x].pc = "committed"
        PROVE  reports'[x] > 0
    <3>1. CASE x \in Waiting
      <4>1. seeding'[x] = [At("acs") EXCEPT !.found = x \in end.saw]
        BY <1>7, <3>1 DEF ResolveEnd
      <4>2. x \in end.saw
        BY <2>1, <4>1 DEF At
      <4>3. QED
        BY <1>7, <4>2 DEF ResolveEnd, SeedsSpeakTrue, Reported
    <3>2. CASE x \notin Waiting
      BY <1>7, <2>1, <3>2 DEF ResolveEnd, SeedsSpeakTrue
    <3>3. QED
      BY <3>1, <3>2
  <2>2. bootSaw' \subseteq Reported' /\ end'.saw \subseteq Reported'
    BY <1>0, <1>7 DEF ResolveEnd, SeedsSpeakTrue, None
  <2>3. QED
    BY <1>0, <1>7, <2>1, <2>2 DEF ResolveEnd, SeedsSpeakTrue
<1>8. CASE RejectEnd
  <2>1. ASSUME NEW x \in Epoch
        PROVE  seeding'[x] \in {seeding[x], At("prepare"), At("end")}
    BY <1>8 DEF RejectEnd
  <2>2. \A x \in Epoch : seeding'[x].found \/ seeding'[x].pc = "committed" => reports'[x] > 0
    BY <1>8, <2>1, FreshFlights DEF RejectEnd, SeedsSpeakTrue
  <2>3. end'.saw = {}
    BY <1>8 DEF RejectEnd, None, Asked
  <2>4. QED
    BY <1>0, <1>8, <2>2, <2>3 DEF RejectEnd, SeedsSpeakTrue
<1>9. ASSUME NEW e \in Epoch, \/ LandSeedRead(e) \/ Refused(e) \/ Executed(e) \/ TimeOutSeed(e)
      PROVE  SeedsSpeakTrue'
  <2>1. UNCHANGED <<end, bootSaw, reports>> /\ Reported' = Reported
    BY <1>0, <1>9 DEF LandSeedRead, Refused, Executed, TimeOutSeed
  <2>2. \A x \in Epoch : seeding'[x] \in {seeding[x], At("prepare"), Idle}
    BY <1>9 DEF LandSeedRead, Refused, Executed, TimeOutSeed, EndSeed, TypeOK
  <2>3. \A x \in Epoch : seeding'[x].found \/ seeding'[x].pc = "committed" => reports'[x] > 0
    BY <2>1, <2>2, FreshFlights DEF Idle, SeedsSpeakTrue
  <2>4. seeded' \subseteq seeded \cup {e} /\ (e \in seeded' \ seeded => reports[e] > 0)
    BY <1>9 DEF LandSeedRead, Refused, Executed, TimeOutSeed, EndSeed, SeedsSpeakTrue
  <2>5. QED
    BY <2>1, <2>3, <2>4 DEF SeedsSpeakTrue, Reported
<1>10. ASSUME NEW e \in Epoch, DropSeedRead(e) \/ Prepared(e)
       PROVE  SeedsSpeakTrue'
  <2>1. \A x \in Epoch : seeding'[x] \in {seeding[x], At("prepare"), At("execute")}
    BY <1>10 DEF DropSeedRead, Prepared, TypeOK
  <2>2. QED
    BY <1>0, <1>10, <2>1, FreshFlights DEF DropSeedRead, Prepared, SeedsSpeakTrue
<1>11. ASSUME NEW e \in Epoch, Wake(e) \/ Contended(e)
       PROVE  SeedsSpeakTrue'
  <2>1. \A x \in Epoch : seeding'[x].found = seeding[x].found /\ seeding'[x].pc = seeding[x].pc
    BY <1>11 DEF Wake, Contended, TypeOK, Seed
  <2>2. QED
    BY <1>0, <1>11, <2>1 DEF Wake, Contended, SeedsSpeakTrue
<1>12. ASSUME NEW e \in Epoch, CommitReport(e)
       PROVE  SeedsSpeakTrue'
  <2>1. reports'[e] > 0 /\ \A x \in Epoch \ {e} : reports'[x] = reports[x]
    BY <1>12 DEF CommitReport, TypeOK
  <2>2. Reported \subseteq Reported'
    BY <2>1 DEF Reported
  <2>3. \A x \in Epoch \ {e} : seeding'[x] = seeding[x]
    BY <1>12 DEF CommitReport, TypeOK
  <2>4. QED
    BY <1>12, <2>1, <2>2, <2>3 DEF CommitReport, SeedsSpeakTrue
<1>13. ASSUME NEW e \in Epoch, DecideLate(e)
       PROVE  SeedsSpeakTrue'
  <2>1. \A x \in Epoch : reports'[x] >= reports[x] /\ reports[x] \in Nat /\ reports'[x] \in Nat
    BY <1>13 DEF DecideLate, TypeOK
  <2>2. Reported \subseteq Reported'
    BY <2>1 DEF Reported
  <2>3. QED
    BY <1>13, <2>1, <2>2 DEF DecideLate, SeedsSpeakTrue
<1>14. CASE UNCHANGED vars
  BY <1>0, <1>14 DEF vars, SeedsSpeakTrue
<1>15. QED
  BY <1>1, <1>2, <1>3, <1>4, <1>5, <1>6, <1>7, <1>8, <1>9, <1>10, <1>11, <1>12, <1>13, <1>14 DEF Next

\* A reset that is answered as seeded has its report on the ledger, whatever failed or
\* stopped around it.
THEOREM AnswersAreSigned == Spec => []AnsweredIsSigned
<1>1. Init => SeedsSpeakTrue
  BY FreshFlights DEF Init, SeedsSpeakTrue, None, Idle
<1>2. SeedsSpeakTrue => AnsweredIsSigned
  BY DEF SeedsSpeakTrue, AnsweredIsSigned
<1>3. QED
  BY <1>1, <1>2, SpeakTrueStep, EpochTypeCorrect, PTL DEF Spec
-----------------------------------------------------------------------------
(* Where a restarted backend resumes *)

\* Every action keeps an overtaken boot apart from a sound one.
LEMMA BootStep ==
  TypeOK /\ SeedsSpeakTrue /\ BootIsSound /\ [Next]_vars => BootIsSound'
<1> SUFFICES ASSUME TypeOK, SeedsSpeakTrue, BootIsSound, [Next]_vars
             PROVE  BootIsSound'
  OBVIOUS
<1> USE DemoEpochAssumption DEF ledgerVars, answers, historyVars, serverVars
<1>0. None # Asked /\ None.pc # "answered" /\ Asked.pc # "answered"
  BY DEF None, Asked
<1>1. CASE Reset
  <2>1. demoEpoch \in Nat /\ demoEpoch + 1 \in Epoch
    BY <1>1 DEF Reset, TypeOK, Epoch
  <2>2. PICK e \in Epoch : seedValuation(e)
    BY <1>1, <2>1 DEF Reset
  <2>3. end # None => end' # None
    BY <1>0, <2>2, SeedingEffect
  <2>4. CASE clean /\ boot = "done"
    <3>1. \A x \in seeded' \cup here' \cup resets' : x \in Nat /\ x <= demoEpoch'
      BY <1>1, <2>1, <2>4 DEF Reset, BootIsSound, TypeOK, Epoch
    <3>2. QED
      BY <1>1, <2>4, <3>1 DEF Reset, BootIsSound
  <2>5. CASE ~(clean /\ boot = "done")
    BY <1>1, <2>5 DEF Reset, BootIsSound
  <2>6. QED
    BY <2>4, <2>5
<1>2. CASE Start
  BY <1>0, <1>2 DEF Start, BootIsSound, AskEnd
<1>3. CASE LandBoot
  <2>1. /\ demoEpoch' = deriveEpoch(bootSaw)
        /\ \A e \in bootSaw : e <= demoEpoch'
    BY <1>3, DerivedIsHighest DEF LandBoot, TypeOK
  <2>2. clean => resets = {} /\ here = {} /\ seeded \subseteq bootSaw
    BY <1>3 DEF LandBoot, BootIsSound
  <2>3. QED
    BY <1>3, <2>1, <2>2 DEF LandBoot, BootIsSound
<1>4. CASE DropBoot
  BY <1>4 DEF DropBoot, BootIsSound
<1>5. CASE Stop
  BY <1>5 DEF Stop, BootIsSound
<1>6. CASE AnswerEnd
  <2>1. end' # None /\ end'.saw = Reported
    BY <1>6 DEF AnswerEnd, None
  <2>2. boot # "off"
    BY <1>0, <1>6 DEF AnswerEnd, BootIsSound
  <2>3. QED
    BY <1>6, <2>1, <2>2 DEF AnswerEnd, BootIsSound, SeedsSpeakTrue
<1>7. CASE ResolveEnd
  <2>1. CASE boot = "end"
    BY <1>7, <2>1 DEF ResolveEnd, BootIsSound
  <2>2. CASE boot # "end"
    BY <1>7, <2>2 DEF ResolveEnd, BootIsSound
  <2>3. QED
    BY <2>1, <2>2
<1>8. CASE RejectEnd
  BY <1>8 DEF RejectEnd, BootIsSound
<1>9. ASSUME NEW e \in Epoch, \/ LandSeedRead(e) \/ Refused(e) \/ Executed(e) \/ TimeOutSeed(e)
      PROVE  BootIsSound'
  <2>1. resets' \subseteq resets /\ here' \subseteq here \cup resets /\ seeded' \subseteq seeded \cup resets
    BY <1>9 DEF LandSeedRead, Refused, Executed, TimeOutSeed, EndSeed
  <2>2. UNCHANGED <<boot, bootSaw, demoEpoch, end, clean>>
    BY <1>9 DEF LandSeedRead, Refused, Executed, TimeOutSeed
  <2>3. QED
    BY <2>1, <2>2 DEF BootIsSound
<1>10. ASSUME NEW e \in Epoch,
              \/ DropSeedRead(e) \/ Prepared(e) \/ Contended(e) \/ Wake(e)
              \/ CommitReport(e) \/ DecideLate(e)
       PROVE  BootIsSound'
  <2>1. UNCHANGED <<boot, bootSaw, demoEpoch, end, resets, here, seeded, clean>>
    BY <1>10 DEF DropSeedRead, Prepared, Contended, Wake, CommitReport, DecideLate
  <2>2. QED
    BY <2>1 DEF BootIsSound
<1>11. CASE UNCHANGED vars
  BY <1>11 DEF vars, BootIsSound
<1>12. QED
  BY <1>1, <1>2, <1>3, <1>4, <1>5, <1>6, <1>7, <1>8, <1>9, <1>10, <1>11 DEF Next

\* A backend whose boot read the ledger undisturbed serves an epoch no lower than any
\* that it answered a reset with itself, seeded or not, or that an earlier process
\* answered with its report signed.
THEOREM BackendsResume == Spec => []ResumesWhereItWas
<1>1. Init => BootIsSound
  BY DEF Init, BootIsSound
<1>2. Init => SeedsSpeakTrue
  BY FreshFlights DEF Init, SeedsSpeakTrue, None, Idle
<1>3. BootIsSound => ResumesWhereItWas
  BY DEF BootIsSound, ResumesWhereItWas, Forgotten
<1>4. QED
  BY <1>1, <1>2, <1>3, SpeakTrueStep, BootStep, EpochTypeCorrect, PTL DEF Spec

-----------------------------------------------------------------------------
(* One report for each epoch *)

\* Starting a seed, of this epoch or another, keeps the search of this one sound.
LEMMA SeedingSearches ==
  ASSUME TypeOK, SeedsSpeakTrue, NEW e \in Epoch, NEW x \in Epoch,
         seedValuation(e), SearchFinds(x), reports' = reports
  PROVE  SearchFinds(x)'
<1>0. None # Asked /\ None.pc # "answered" /\ Asked.pc # "answered"
  BY DEF None, Asked
<1>1. CASE seeding'[x] = seeding[x]
  BY <1>0, <1>1, SeedingEffect DEF SearchFinds
<1>2. CASE seeding'[x] # seeding[x]
  <2>1. x = e /\ seeding'[x] = At("end") /\ end' # None
    BY <1>2, SeedingEffect
  <2>2. x \in doubtful' \/ end'.pc # "answered"
    BY <1>2, <2>1, SeedingEffect
  <2>3. seeding'[x].pc = "end"
    BY <2>1, FreshFlights
  <2>4. QED
    BY <2>1, <2>2, <2>3, SeedingEffect DEF SearchFinds
<1>3. QED
  BY <1>1, <1>2

\* Every action keeps the search of every epoch sound.
LEMMA SearchStep ==
  TypeOK /\ SeedsSpeakTrue /\ BootIsSound /\ SearchesFind /\ [Next]_vars => SearchesFind'
<1> SUFFICES ASSUME TypeOK, SeedsSpeakTrue, BootIsSound, SearchesFind, [Next]_vars,
                    NEW x \in Epoch
             PROVE  SearchFinds(x)'
  BY DEF SearchesFind
<1> USE DemoEpochAssumption DEF ledgerVars, answers, historyVars, serverVars
<1>0. /\ SearchFinds(x)
      /\ None # Asked /\ None.pc # "answered" /\ Asked.pc # "answered"
  BY DEF None, Asked, SearchesFind
<1>1. CASE Reset
  <2>1. demoEpoch + 1 \in Epoch
    BY <1>1 DEF Reset, TypeOK, Epoch
  <2>2. PICK e \in Epoch : seedValuation(e)
    BY <1>1, <2>1 DEF Reset
  <2>3. QED
    BY <1>0, <1>1, <2>2, SeedingSearches DEF Reset
<1>2. CASE Start
  BY <1>0, <1>2 DEF Start, SearchFinds, AskEnd
<1>3. CASE LandBoot
  <2>1. demoEpoch' \in Epoch
    BY <1>3, DerivedIsHighest DEF LandBoot, TypeOK
  <2>2. PICK e \in Epoch : seedValuation(e)
    BY <1>3, <2>1 DEF LandBoot
  <2>3. QED
    BY <1>0, <1>3, <2>2, SeedingSearches DEF LandBoot
<1>4. CASE DropBoot
  <2>1. PICK e \in Epoch : seedValuation(e)
    BY <1>4 DEF DropBoot, TypeOK
  <2>2. QED
    BY <1>0, <1>4, <2>1, SeedingSearches DEF DropBoot
<1>5. CASE Stop
  <2>1. seeding'[x].pc = "idle"
    BY <1>5 DEF Stop, Idle, At
  <2>2. x \notin doubtful' => late'[x] = late[x] /\ x \notin doubtful
    BY <1>5 DEF Stop, TypeOK
  <2>3. QED
    BY <1>0, <1>5, <2>1, <2>2 DEF Stop, SearchFinds
<1>6. CASE AnswerEnd
  <2>1. end' # None /\ end'.saw = Reported
    BY <1>6 DEF AnswerEnd, None
  <2>2. QED
    BY <1>0, <1>6, <2>1 DEF AnswerEnd, SearchFinds, Reported
<1>7. CASE ResolveEnd
  <2>1. CASE x \in Waiting
    <3>1. /\ seeding'[x] = [At("acs") EXCEPT !.found = x \in end.saw]
          /\ seeding[x].pc = "end"
      BY <1>7, <2>1 DEF ResolveEnd, Waiting
    <3>2. seeding'[x].pc = "acs" /\ (x \in end.saw => seeding'[x].found)
      BY <3>1 DEF At
    <3>3. QED
      BY <1>0, <1>7, <3>1, <3>2 DEF ResolveEnd, SearchFinds
  <2>2. CASE x \notin Waiting
    <3>1. seeding'[x] = seeding[x] /\ seeding[x].pc # "end"
      BY <1>7, <2>2 DEF ResolveEnd, Waiting
    <3>2. QED
      BY <1>0, <1>7, <3>1 DEF ResolveEnd, SearchFinds
  <2>3. QED
    BY <2>1, <2>2
<1>8. CASE RejectEnd
  <2>1. CASE x \in Waiting
    BY <1>8, <2>1 DEF RejectEnd, SearchFinds
  <2>2. CASE x \notin Waiting /\ seeding'[x] = seeding[x]
    <3>1. seeding'[x].pc # "end"
      BY <2>2 DEF Waiting
    <3>2. QED
      BY <1>0, <1>8, <2>2, <3>1 DEF RejectEnd, SearchFinds
  <2>3. CASE x \notin Waiting /\ seeding'[x] # seeding[x]
    <3>1. seeding'[x] = At("end") /\ end' = Asked
      BY <1>8, <2>3 DEF RejectEnd
    <3>2. seeding'[x].pc = "end"
      BY <3>1, FreshFlights
    <3>3. QED
      BY <1>0, <1>8, <3>1, <3>2 DEF RejectEnd, SearchFinds
  <2>4. QED
    BY <2>1, <2>2, <2>3
<1>9. ASSUME NEW e \in Epoch, x # e,
             \/ LandSeedRead(e) \/ DropSeedRead(e) \/ Prepared(e) \/ Contended(e) \/ Wake(e)
             \/ Refused(e) \/ CommitReport(e) \/ Executed(e) \/ TimeOutSeed(e) \/ DecideLate(e)
      PROVE  SearchFinds(x)'
  <2>1. seeding'[x] = seeding[x] /\ reports'[x] = reports[x] /\ late'[x] = late[x]
    BY <1>9 DEF LandSeedRead, DropSeedRead, Prepared, Contended, Wake, Refused,
                CommitReport, Executed, TimeOutSeed, DecideLate, EndSeed, TypeOK
  <2>2. end' = end /\ doubtful \subseteq doubtful'
    BY <1>9 DEF LandSeedRead, DropSeedRead, Prepared, Contended, Wake, Refused,
                CommitReport, Executed, TimeOutSeed, DecideLate
  <2>3. QED
    BY <1>0, <2>1, <2>2 DEF SearchFinds
<1>10. CASE LandSeedRead(x)
  <2>1. CASE seeding[x].found
    <3>1. seeding'[x].pc = "idle"
      BY <1>10, <2>1 DEF LandSeedRead, EndSeed, TypeOK, Idle, At
    <3>2. QED
      BY <1>0, <1>10, <3>1 DEF LandSeedRead, SearchFinds
  <2>2. CASE ~seeding[x].found
    <3>1. seeding'[x].pc = "prepare"
      <4>1. seeding'[x] = At("prepare")
        BY <1>10, <2>2 DEF LandSeedRead, TypeOK
      <4>2. QED
        BY <4>1, FreshFlights
    <3>2. QED
      BY <1>0, <1>10, <2>2, <3>1 DEF LandSeedRead, SearchFinds
  <2>3. QED
    BY <2>1, <2>2
<1>11. CASE DropSeedRead(x)
  BY <1>11 DEF DropSeedRead, SearchFinds
<1>12. CASE Prepared(x)
  <2>1. seeding'[x].pc = "execute"
    BY <1>12 DEF Prepared, TypeOK, At
  <2>2. QED
    BY <1>0, <1>12, <2>1 DEF Prepared, SearchFinds
<1>13. CASE Contended(x) \/ Wake(x)
  <2>1. seeding'[x].pc = seeding[x].pc /\ seeding'[x].found = seeding[x].found
    BY <1>13 DEF Contended, Wake, TypeOK, Seed
  <2>2. QED
    BY <1>0, <1>13, <2>1 DEF Contended, Wake, SearchFinds
<1>14. CASE Refused(x) \/ Executed(x) \/ TimeOutSeed(x)
  <2>1. seeding'[x].pc = "idle"
    BY <1>14 DEF Refused, Executed, TimeOutSeed, EndSeed, TypeOK, Idle, At
  <2>2. x \notin doubtful' => late'[x] = late[x] /\ x \notin doubtful
    BY <1>14 DEF Refused, Executed, TimeOutSeed
  <2>3. reports' = reports
    BY <1>14 DEF Refused, Executed, TimeOutSeed
  <2>4. QED
    BY <1>0, <2>1, <2>2, <2>3 DEF SearchFinds
<1>15. CASE CommitReport(x)
  <2>1. seeding'[x].pc = "committed" /\ reports'[x] = reports[x] + 1
    BY <1>15 DEF CommitReport, TypeOK, At
  <2>2. x \notin doubtful => reports[x] = 0
    BY <1>0, <1>15 DEF CommitReport, SearchFinds, TypeOK
  <2>3. QED
    BY <1>0, <1>15, <2>1, <2>2 DEF CommitReport, SearchFinds
<1>16. CASE DecideLate(x)
  BY <1>0, <1>16 DEF DecideLate, SearchFinds
<1>17. CASE UNCHANGED vars
  BY <1>0, <1>17 DEF vars, SearchFinds
<1>18. QED
  BY <1>1, <1>2, <1>3, <1>4, <1>5, <1>6, <1>7, <1>8, <1>9, <1>10, <1>11, <1>12, <1>13,
     <1>14, <1>15, <1>16, <1>17 DEF Next

\* The backend signs the report of an epoch once, unless its search for it was impaired.
THEOREM ReportsAreSignedOnce == Spec => []SignedOnce
<1>1. Init => SearchesFind
  BY DEF Init, SearchesFind, SearchFinds, Idle, At
<1>2. Init => SeedsSpeakTrue /\ BootIsSound
  BY FreshFlights DEF Init, SeedsSpeakTrue, BootIsSound, None, Idle
<1>3. SearchesFind => SignedOnce
  BY DEF SearchesFind, SearchFinds, SignedOnce
<1>4. QED
  BY <1>1, <1>2, <1>3, SpeakTrueStep, BootStep, SearchStep, EpochTypeCorrect, PTL DEF Spec
=============================================================================
