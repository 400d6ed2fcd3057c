------------------------------ MODULE ReadPath ------------------------------
(***************************************************************************)
(* How a browser tab reads its party's contracts while actions commit: the *)
(* ledger client of the tab (ledger-client/src/client.ts), which asks for  *)
(* the ledger's end and shares one such request among parallel reads, and  *)
(* the custody backend (custody/app.ts), which answers with a cached       *)
(* snapshot of the party, joins a request already in flight for it, or     *)
(* starts one, and which clears every snapshot when an action succeeds.    *)
(*                                                                         *)
(* The ledger is a sequence of commits; an offset counts them.  A snapshot *)
(* is the offset it was asked at: one flight is asked with the offset of   *)
(* the read that started it.  The steps between two awaits are one action. *)
(***************************************************************************)
EXTENDS Integers, FiniteSets

CONSTANTS Party, Tab,
          Writers,    \* the tabs whose user acts
          Watched,    \* the party whose reads the history follows
          SeatOf,     \* SeatOf[t]: the party whose session tab t holds
          Read,       \* the reads a tab may have under way, each <<tab, number>>
          MaxTip,     \* bound on the commits of one behaviour
          MaxCommands, \* bound on the commands of one action
          None, Unanswered

ASSUME ReadPathAssumption ==
  /\ SeatOf \in [Tab -> Party]
  /\ \A r \in Read : r[1] \in Tab
  /\ Writers \subseteq Tab /\ Watched \in Party
  /\ MaxTip \in Nat /\ MaxCommands \in Nat
  /\ None \notin Nat /\ Unanswered \notin Nat \cup {None}

VARIABLES
  tip,      \* the ledger's end
  actions,  \* actions[t]: the POST /action of tab t, or None
  acked,    \* history: the latest end an acknowledged action reached
  ends,     \* ends[t]: endInflight of tab t, the answer once the ledger gave one, or None
  reads,    \* reads[r]: where read r is, with the offset it holds
  cache,    \* readCache by key
  flights,  \* readInflight by key
  settled,  \* history: no read of Watched was under way at the last acknowledgement
  last      \* history: what the read of Watched completed last knew and returned

gatewayVars == <<cache, flights>>
historyVars == <<settled, last>>
vars == <<tip, actions, acked, ends, reads, gatewayVars, historyVars>>

Snapshot == [of : Party, at : 0..MaxTip]

\* since and quiet are acked and settled when the read began.
Reading == [pc : {"idle", "end", "post", "wait"}, at : 0..MaxTip,
            since : 0..MaxTip, quiet : BOOLEAN]
Idle == [pc |-> "idle", at |-> 0, since |-> 0, quiet |-> TRUE]

Outcome == [of : Party, at : 0..MaxTip, since : 0..MaxTip, quiet : BOOLEAN]

Action == [left : 0..MaxCommands, upTo : 0..MaxTip]

TypeOK ==
  /\ tip \in 0..MaxTip
  /\ actions \in [Tab -> Action \cup {None}]
  /\ acked \in 0..MaxTip
  /\ ends \in [Tab -> 0..MaxTip \cup {Unanswered, None}]
  /\ reads \in [Read -> Reading]
  /\ cache \in [Party -> Snapshot \cup {None}]
  /\ flights \in [Party -> Snapshot \cup {None}]
  /\ settled \in BOOLEAN
  /\ last \in Outcome \cup {None}

Init ==
  /\ tip = 0
  /\ actions = [t \in Tab |-> None]
  /\ acked = 0
  /\ ends = [t \in Tab |-> None]
  /\ reads = [r \in Read |-> Idle]
  /\ cache = [p \in Party |-> None]
  /\ flights = [p \in Party |-> None]
  /\ settled = TRUE
  /\ last = None

PartyOf(r) == SeatOf[r[1]]

-----------------------------------------------------------------------------
(* Actions: the commands of one POST are committed one by one *)

BeginAction(t, n) ==
  /\ actions[t] = None
  /\ actions' = [actions EXCEPT ![t] = [left |-> n, upTo |-> 0]]
  /\ UNCHANGED <<tip, acked, ends, reads, gatewayVars, historyVars>>

CommitCommand(t) ==
  /\ actions[t] # None /\ actions[t].left > 0
  /\ tip < MaxTip
  /\ tip' = tip + 1
  /\ actions' = [actions EXCEPT ![t] = [left |-> @.left - 1, upTo |-> tip + 1]]
  /\ UNCHANGED <<acked, ends, reads, gatewayVars, historyVars>>

\* A command is refused, or the answer to one that committed is lost (25 s): the
\* action fails, what it committed stays, and nothing is cleared.
FailAction(t) ==
  /\ actions[t] # None
  /\ actions' = [actions EXCEPT ![t] = None]
  /\ UNCHANGED <<tip, acked, ends, reads, gatewayVars, historyVars>>

\* Slips: nothing is cleared; only the actor's snapshot is.
bustReadCache_Nothing(p) == cache
bustReadCache_OwnOnly(p) == [cache EXCEPT ![p] = None]

bustReadCache(p) == [q \in Party |-> None]

AckAction(t) ==
  /\ actions[t] # None /\ actions[t].left = 0
  /\ actions' = [actions EXCEPT ![t] = None]
  /\ acked' = IF acked > actions[t].upTo THEN acked ELSE actions[t].upTo
  /\ cache' = bustReadCache(SeatOf[t])
  /\ settled' = \A r \in Read : PartyOf(r) = Watched => reads[r].pc = "idle"
  /\ UNCHANGED <<tip, ends, reads, flights, last>>

-----------------------------------------------------------------------------
(* Reads: the ledger's end first *)

\* activeContracts calls ledgerEnd, which joins the request under way or sends one.
BeginRead(r) ==
  LET t == r[1] IN
  /\ reads[r].pc = "idle"
  /\ reads' = [reads EXCEPT ![r] = [pc |-> "end", at |-> 0, since |-> acked,
                                    quiet |-> settled]]
  /\ ends' = [ends EXCEPT ![t] = IF @ = None THEN Unanswered ELSE @]
  /\ UNCHANGED <<tip, actions, acked, gatewayVars, historyVars>>

AnswerEnd(t) ==
  /\ ends[t] = Unanswered
  /\ ends' = [ends EXCEPT ![t] = tip]
  /\ UNCHANGED <<tip, actions, acked, reads, gatewayVars, historyVars>>

WaitingEnd(t) == {r \in Read : r[1] = t /\ reads[r].pc = "end"}

\* Slip: an answer that gives no offset is taken for one.
ResolveEnd_Unanswered(t) ==
  /\ ends[t] # None
  /\ ends' = [ends EXCEPT ![t] = None]
  /\ reads' = [r \in Read |-> IF r \in WaitingEnd(t)
                              THEN [reads[r] EXCEPT !.pc = "post", !.at = ends[t]]
                              ELSE reads[r]]
  /\ UNCHANGED <<tip, actions, acked, gatewayVars, historyVars>>

\* The answer arrives: endInflight is cleared and every read that shares it goes on.
ResolveEnd(t) ==
  /\ ends[t] \in 0..MaxTip
  /\ ends' = [ends EXCEPT ![t] = None]
  /\ reads' = [r \in Read |-> IF r \in WaitingEnd(t)
                              THEN [reads[r] EXCEPT !.pc = "post", !.at = ends[t]]
                              ELSE reads[r]]
  /\ UNCHANGED <<tip, actions, acked, gatewayVars, historyVars>>

RejectEnd(t) ==
  /\ ends[t] # None
  /\ ends' = [ends EXCEPT ![t] = None]
  /\ reads' = [r \in Read |-> IF r \in WaitingEnd(t) THEN Idle ELSE reads[r]]
  /\ UNCHANGED <<tip, actions, acked, gatewayVars, historyVars>>

-----------------------------------------------------------------------------
(* ... then the contracts, through the backend *)

\* Slip: one snapshot serves every party.
readCacheKey_Shared(p) == CHOOSE q \in Party : TRUE

\* Under which key a session's snapshot is kept.
readCacheKey(p) == p

\* What the history keeps when read r returns a snapshot.
Completed(r, snapshot) ==
  IF PartyOf(r) # Watched THEN last
  ELSE [of |-> snapshot.of, at |-> snapshot.at, since |-> reads[r].since, quiet |-> reads[r].quiet]

\* Entries are used until READ_TTL_MS have passed since they were stored (see Expire).
ServeFromCache(r) ==
  LET k == readCacheKey(PartyOf(r)) IN
  /\ reads[r].pc = "post"
  /\ cache[k] # None
  /\ last' = Completed(r, cache[k])
  /\ reads' = [reads EXCEPT ![r] = Idle]
  /\ UNCHANGED <<tip, actions, acked, ends, gatewayVars, settled>>

JoinFlight(r) ==
  LET k == readCacheKey(PartyOf(r)) IN
  /\ reads[r].pc = "post"
  /\ cache[k] = None
  /\ flights[k] # None
  /\ reads' = [reads EXCEPT ![r].pc = "wait"]
  /\ UNCHANGED <<tip, actions, acked, ends, gatewayVars, historyVars>>

\* forceParty makes the request about the session's party, at the read's offset.
StartFlight(r) ==
  LET k == readCacheKey(PartyOf(r)) IN
  /\ reads[r].pc = "post"
  /\ cache[k] = None
  /\ flights[k] = None
  /\ flights' = [flights EXCEPT ![k] = [of |-> PartyOf(r), at |-> reads[r].at]]
  /\ reads' = [reads EXCEPT ![r].pc = "wait"]
  /\ UNCHANGED <<tip, actions, acked, ends, cache, historyVars>>

WaitingFor(k) == {r \in Read : readCacheKey(PartyOf(r)) = k /\ reads[r].pc = "wait"}

\* The ledger answers: the snapshot is stored and every read that waits for it ends;
\* the history keeps any one of them.
Land(k) ==
  /\ flights[k] # None
  /\ cache' = [cache EXCEPT ![k] = flights[k]]
  /\ flights' = [flights EXCEPT ![k] = None]
  /\ reads' = [r \in Read |-> IF r \in WaitingFor(k) THEN Idle ELSE reads[r]]
  /\ \E r \in WaitingFor(k) : last' = Completed(r, flights[k])
  /\ UNCHANGED <<tip, actions, acked, ends, settled>>

\* The ledger answers with an error or not at all: no snapshot, and the reads fail.
Drop(k) ==
  /\ flights[k] # None
  /\ flights' = [flights EXCEPT ![k] = None]
  /\ reads' = [r \in Read |-> IF r \in WaitingFor(k) THEN Idle ELSE reads[r]]
  /\ UNCHANGED <<tip, actions, acked, ends, cache, historyVars>>

\* Slip: nothing looks at the time an entry is good until.
Expire_Never(k) ==
  /\ FALSE
  /\ UNCHANGED vars

\* The time to live of an entry has passed.
Expire(k) ==
  /\ cache[k] # None
  /\ cache' = [cache EXCEPT ![k] = None]
  /\ UNCHANGED <<tip, actions, acked, ends, reads, flights, historyVars>>

Next ==
  \/ \E t \in Writers : \/ \E n \in 1..MaxCommands : BeginAction(t, n)
                        \/ CommitCommand(t) \/ FailAction(t) \/ AckAction(t)
  \/ \E t \in Tab : AnswerEnd(t) \/ ResolveEnd(t) \/ RejectEnd(t)
  \/ \E r \in Read : BeginRead(r) \/ ServeFromCache(r) \/ JoinFlight(r) \/ StartFlight(r)
  \/ \E k \in Party : Land(k) \/ Drop(k) \/ Expire(k)

Spec == Init /\ [][Next]_vars

\* Tabs poll on a timer, answers arrive, the ledger is not down for ever and entries
\* expire.  Nobody has to act.
Fairness ==
  /\ \A r \in Read : /\ WF_vars(BeginRead(r))
                     /\ WF_vars(ServeFromCache(r))
                     /\ WF_vars(JoinFlight(r) \/ StartFlight(r))
  /\ \A t \in Tab : SF_vars(AnswerEnd(t)) /\ SF_vars(ResolveEnd(t))
  /\ \A k \in Party : SF_vars(Land(k)) /\ WF_vars(Expire(k))

FairSpec == Spec /\ Fairness

-----------------------------------------------------------------------------
(* Properties *)

\* A party is never answered with another party's contracts, from the cache or from a
\* flight that both wait for (readCacheKey and forceParty).
OwnSnapshotsOnly == last # None => last.of = Watched

\* A read that begins after a write was acknowledged, to any party, returns a snapshot
\* with that write, unless reads of the reader's party were under way at the last
\* acknowledgement: clearing every party's snapshot leaves only overlapping reads to
\* bring an old one back.
FreshWhenSettled == last # None /\ last.quiet => last.at >= last.since

\* Overlapping reads may show a party an old snapshot, but not for ever: what was
\* acknowledged to anybody is seen by a party that polls.
WritesAreSeen ==
  \A n \in 1..MaxTip : acked >= n ~> last # None /\ last.at >= n

\* What app.ts says where it clears the cache: the party that wrote sees its write in
\* its next read.  (A party that writes alone is the case to check.)
NextReadSeesWrite == last # None => last.at >= last.since
=============================================================================
