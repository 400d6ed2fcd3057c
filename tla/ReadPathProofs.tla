--------------------------- MODULE ReadPathProofs ---------------------------
(* Theorems of ReadPath, for any parties, tabs, reads and bounds.            *)
EXTENDS ReadPath, TLAPS

\* A snapshot is kept, and asked for, under the key of the party it is of.
KeyedByParty ==
  \A p \in Party : /\ cache[p] # None => cache[p].of = p
                   /\ flights[p] # None => flights[p].of = p

\* Nothing is under way at the ledger that no read waits for.
RequestsHaveReaders ==
  /\ \A t \in Tab : ends[t] # None => WaitingEnd(t) # {}
  /\ \A p \in Party : flights[p] # None => WaitingFor(p) # {}

\* What was acknowledged is on the ledger.
AcknowledgedIsCommitted ==
  /\ acked <= tip
  /\ \A t \in Tab : actions[t] # None => actions[t].upTo <= tip

\* Whatever a read of the watched party could come to return is of offset n or later.
NothingBefore(n) ==
  /\ cache[Watched] # None => cache[Watched].at >= n
  /\ flights[Watched] # None => flights[Watched].at >= n
  /\ \A t \in Tab : SeatOf[t] = Watched /\ ends[t] \in 0..MaxTip => ends[t] >= n
  /\ \A r \in Read : PartyOf(r) = Watched /\ reads[r].pc = "post" => reads[r].at >= n

\* That is so of what is acknowledged, from a settled acknowledgement on, and of what
\* was acknowledged when a quiet read began, for as long as it lasts.
SettledIsFresh ==
  /\ settled => NothingBefore(acked)
  /\ \A r \in Read : PartyOf(r) = Watched /\ reads[r].pc # "idle" /\ reads[r].quiet =>
       reads[r].since <= acked /\ NothingBefore(reads[r].since)

FreshInv ==
  /\ RequestsHaveReaders
  /\ AcknowledgedIsCommitted
  /\ SettledIsFresh
  /\ FreshWhenSettled

-----------------------------------------------------------------------------
(* Types *)

\* Whose contracts a read asks for.
LEMMA ReadsHaveSeats == \A r \in Read : r[1] \in Tab /\ PartyOf(r) \in Party
BY ReadPathAssumption DEF PartyOf

\* What a completed read leaves in the history is well typed.
LEMMA CompletedType ==
  ASSUME TypeOK, NEW r \in Read, NEW s \in Snapshot
  PROVE  Completed(r, s) \in Outcome \cup {None}
BY DEF TypeOK, Completed, Outcome, Snapshot, Reading

\* Every action keeps the state well typed.
LEMMA ReadTypeStep == TypeOK /\ [Next]_vars => TypeOK'
<1> SUFFICES ASSUME TypeOK, [Next]_vars
             PROVE  TypeOK'
  OBVIOUS
<1> USE ReadPathAssumption, ReadsHaveSeats DEF gatewayVars, historyVars
<1>a. Idle \in Reading
  BY DEF Idle, Reading
<1>1. ASSUME NEW t \in Tab, NEW n \in 1..MaxCommands, BeginAction(t, n)
      PROVE  TypeOK'
  BY <1>1 DEF BeginAction, TypeOK, Action
<1>2. ASSUME NEW t \in Tab, CommitCommand(t)
      PROVE  TypeOK'
  <2>1. tip' \in 0..MaxTip
    BY <1>2 DEF CommitCommand, TypeOK
  <2>2. actions[t] \in Action
    BY <1>2 DEF CommitCommand, TypeOK
  <2>3. [left |-> actions[t].left - 1, upTo |-> tip + 1] \in Action
    BY <1>2, <2>2 DEF CommitCommand, TypeOK, Action
  <2>4. actions' \in [Tab -> Action \cup {None}]
    BY <1>2, <2>3 DEF CommitCommand, TypeOK
  <2>5. QED
    BY <1>2, <2>1, <2>4 DEF CommitCommand, TypeOK
<1>3. ASSUME NEW t \in Tab, FailAction(t)
      PROVE  TypeOK'
  BY <1>3 DEF FailAction, TypeOK
<1>4. ASSUME NEW t \in Tab, AckAction(t)
      PROVE  TypeOK'
  <2>1. actions[t] \in Action
    BY <1>4 DEF AckAction, TypeOK
  <2>2. acked' \in 0..MaxTip
    BY <1>4, <2>1 DEF AckAction, TypeOK, Action
  <2>3. QED
    BY <1>4, <2>2 DEF AckAction, TypeOK, bustReadCache
<1>5. ASSUME NEW t \in Tab, AnswerEnd(t) \/ ResolveEnd(t) \/ RejectEnd(t)
      PROVE  TypeOK'
  <2>1. CASE AnswerEnd(t)
    BY <2>1 DEF AnswerEnd, TypeOK
  <2>2. CASE ResolveEnd(t)
    <3>1. \A r \in Read : [reads[r] EXCEPT !.pc = "post", !.at = ends[t]] \in Reading
      BY <2>2 DEF ResolveEnd, TypeOK, Reading
    <3>2. QED
      BY <2>2, <3>1 DEF ResolveEnd, TypeOK
  <2>3. CASE RejectEnd(t)
    BY <2>3, <1>a DEF RejectEnd, TypeOK
  <2>4. QED
    BY <1>5, <2>1, <2>2, <2>3
<1>6. ASSUME NEW r \in Read, BeginRead(r)
      PROVE  TypeOK'
  <2>1. [pc |-> "end", at |-> 0, since |-> acked, quiet |-> settled] \in Reading
    BY DEF TypeOK, Reading
  <2>2. QED
    BY <1>6, <2>1 DEF BeginRead, TypeOK
<1>7. ASSUME NEW r \in Read, ServeFromCache(r)
      PROVE  TypeOK'
  <2>1. cache[readCacheKey(PartyOf(r))] \in Snapshot
    BY <1>7 DEF ServeFromCache, TypeOK, readCacheKey
  <2>2. last' \in Outcome \cup {None}
    BY <1>7, <2>1, CompletedType DEF ServeFromCache
  <2>3. QED
    BY <1>7, <1>a, <2>2 DEF ServeFromCache, TypeOK
<1>8. ASSUME NEW r \in Read, JoinFlight(r) \/ StartFlight(r)
      PROVE  TypeOK'
  <2>1. [reads[r] EXCEPT !.pc = "wait"] \in Reading
    BY DEF TypeOK, Reading
  <2>2. [of |-> PartyOf(r), at |-> reads[r].at] \in Snapshot
    BY DEF TypeOK, Reading, Snapshot
  <2>3. QED
    BY <1>8, <2>1, <2>2 DEF JoinFlight, StartFlight, TypeOK
<1>9. ASSUME NEW k \in Party, Land(k)
      PROVE  TypeOK'
  <2>1. flights[k] \in Snapshot
    BY <1>9 DEF Land, TypeOK
  <2>2. PICK r \in WaitingFor(k) : last' = Completed(r, flights[k])
    BY <1>9 DEF Land
  <2>3. last' \in Outcome \cup {None}
    BY <2>1, <2>2, CompletedType DEF WaitingFor
  <2>4. QED
    BY <1>9, <1>a, <2>1, <2>3 DEF Land, TypeOK
<1>10. ASSUME NEW k \in Party, Drop(k) \/ Expire(k)
       PROVE  TypeOK'
  BY <1>10, <1>a DEF Drop, Expire, TypeOK
<1>11. CASE UNCHANGED vars
  BY <1>11 DEF vars, TypeOK
<1>12. QED
  BY <1>1, <1>2, <1>3, <1>4, <1>5, <1>6, <1>7, <1>8, <1>9, <1>10, <1>11 DEF Next

\* Reads, requests and snapshots hold what the code would put there (TypeOK).
THEOREM ReadTypeCorrect == Spec => []TypeOK
<1>1. Init => TypeOK
  BY ReadPathAssumption DEF Init, TypeOK, Idle, Reading
<1>2. QED
  BY <1>1, ReadTypeStep, PTL DEF Spec

-----------------------------------------------------------------------------
(* Whose contracts *)

\* No party is answered with another party's contracts (OwnSnapshotsOnly): the key
\* of a snapshot, and the party its request is about, are those of the session.
THEOREM PartiesReadTheirOwn == Spec => []OwnSnapshotsOnly
<1> USE ReadPathAssumption DEF gatewayVars, historyVars
<1>1. Init => KeyedByParty /\ OwnSnapshotsOnly
  BY DEF Init, KeyedByParty, OwnSnapshotsOnly
<1>2. TypeOK /\ KeyedByParty /\ OwnSnapshotsOnly /\ [Next]_vars => (KeyedByParty /\ OwnSnapshotsOnly)'
  <2> SUFFICES ASSUME TypeOK, KeyedByParty, OwnSnapshotsOnly, [Next]_vars
               PROVE  KeyedByParty' /\ OwnSnapshotsOnly'
    OBVIOUS
  <2>1. ASSUME NEW r \in Read, ServeFromCache(r)
        PROVE  KeyedByParty' /\ OwnSnapshotsOnly'
    BY <2>1, ReadsHaveSeats DEF ServeFromCache, Completed, readCacheKey, KeyedByParty, OwnSnapshotsOnly
  <2>2. ASSUME NEW r \in Read, StartFlight(r)
        PROVE  KeyedByParty' /\ OwnSnapshotsOnly'
    BY <2>2, ReadsHaveSeats DEF StartFlight, readCacheKey, KeyedByParty, OwnSnapshotsOnly, TypeOK
  <2>3. ASSUME NEW k \in Party, Land(k)
        PROVE  KeyedByParty' /\ OwnSnapshotsOnly'
    <3>1. PICK r \in WaitingFor(k) : last' = Completed(r, flights[k])
      BY <2>3 DEF Land
    <3>2. PartyOf(r) = k
      BY <3>1 DEF WaitingFor, readCacheKey
    <3>3. OwnSnapshotsOnly'
      BY <2>3, <3>1, <3>2 DEF Land, Completed, KeyedByParty, OwnSnapshotsOnly
    <3>4. KeyedByParty'
      BY <2>3 DEF Land, KeyedByParty, TypeOK
    <3>5. QED
      BY <3>3, <3>4
  <2>4. ASSUME NEW k \in Party, Drop(k) \/ Expire(k)
        PROVE  KeyedByParty' /\ OwnSnapshotsOnly'
    BY <2>4 DEF Drop, Expire, KeyedByParty, OwnSnapshotsOnly, TypeOK
  <2>5. ASSUME NEW t \in Tab, AckAction(t)
        PROVE  KeyedByParty' /\ OwnSnapshotsOnly'
    BY <2>5 DEF AckAction, bustReadCache, KeyedByParty, OwnSnapshotsOnly
  <2>6. CASE UNCHANGED <<gatewayVars, last>>
    BY <2>6 DEF KeyedByParty, OwnSnapshotsOnly
  <2>7. QED
    BY <2>1, <2>2, <2>3, <2>4, <2>5, <2>6
       DEF Next, vars, BeginAction, CommitCommand, FailAction, AnswerEnd, ResolveEnd, RejectEnd,
           BeginRead, JoinFlight
<1>3. QED
  BY <1>1, <1>2, ReadTypeCorrect, PTL DEF Spec

-----------------------------------------------------------------------------
(* How fresh *)

\* No read of a party waits, no request of it is under way.
LEMMA NobodyReads ==
  ASSUME TypeOK, RequestsHaveReaders,
         \A r \in Read : PartyOf(r) = Watched => reads[r].pc = "idle"
  PROVE  /\ flights[Watched] = None
         /\ \A t \in Tab : SeatOf[t] = Watched => ends[t] = None
         /\ \A r \in Read : PartyOf(r) = Watched => reads[r].pc # "post"
BY ReadPathAssumption DEF RequestsHaveReaders, WaitingFor, WaitingEnd, readCacheKey, PartyOf

\* What a step leaves unread was not read before it: no action but an
\* acknowledgement brings back what is older than n.
LEMMA FloorStep ==
  ASSUME TypeOK, AcknowledgedIsCommitted, NEW n \in Nat, n <= acked, NothingBefore(n), [Next]_vars
  PROVE  NothingBefore(n)'
<1> USE ReadPathAssumption, ReadsHaveSeats DEF gatewayVars, historyVars
<1>1. ASSUME NEW t \in Tab, NEW m \in 1..MaxCommands, BeginAction(t, m)
      PROVE  NothingBefore(n)'
  BY <1>1 DEF BeginAction, NothingBefore
<1>2. ASSUME NEW t \in Tab, CommitCommand(t) \/ FailAction(t)
      PROVE  NothingBefore(n)'
  BY <1>2 DEF CommitCommand, FailAction, NothingBefore
<1>3. ASSUME NEW t \in Tab, AckAction(t)
      PROVE  NothingBefore(n)'
  BY <1>3 DEF AckAction, bustReadCache, NothingBefore
<1>4. ASSUME NEW t \in Tab, AnswerEnd(t)
      PROVE  NothingBefore(n)'
  BY <1>4 DEF AnswerEnd, NothingBefore, TypeOK, AcknowledgedIsCommitted
<1>5. ASSUME NEW t \in Tab, ResolveEnd(t)
      PROVE  NothingBefore(n)'
  <2>1. \A r \in Read : PartyOf(r) = Watched /\ reads[r]'.pc = "post" => reads[r]'.at >= n
    <3> SUFFICES ASSUME NEW r \in Read, PartyOf(r) = Watched, reads[r]'.pc = "post"
                 PROVE  reads[r]'.at >= n
      OBVIOUS
    <3>1. CASE r \in WaitingEnd(t)
      <4>1. SeatOf[t] = Watched
        BY <3>1 DEF WaitingEnd, PartyOf
      <4>2. ends[t] >= n
        BY <1>5, <4>1 DEF ResolveEnd, NothingBefore
      <4>3. reads'[r] = [reads[r] EXCEPT !.pc = "post", !.at = ends[t]]
        BY <1>5, <3>1 DEF ResolveEnd
      <4>4. reads[r] \in Reading
        BY DEF TypeOK
      <4>5. reads'[r].at = ends[t]
        BY <4>3, <4>4 DEF Reading
      <4>6. QED
        BY <4>2, <4>5
    <3>2. CASE r \notin WaitingEnd(t)
      BY <1>5, <3>2 DEF ResolveEnd, NothingBefore
    <3>3. QED
      BY <3>1, <3>2
  <2>2. \A u \in Tab : ends'[u] \in 0..MaxTip => ends'[u] = ends[u]
    <3>1. ends'[t] = None /\ \A u \in Tab : u # t => ends'[u] = ends[u]
      BY <1>5 DEF ResolveEnd, TypeOK
    <3>2. None \notin 0..MaxTip
      OBVIOUS
    <3>3. QED
      BY <3>1, <3>2
  <2>3. UNCHANGED gatewayVars
    BY <1>5 DEF ResolveEnd
  <2>4. QED
    BY <2>1, <2>2, <2>3 DEF NothingBefore
<1>6. ASSUME NEW t \in Tab, RejectEnd(t)
      PROVE  NothingBefore(n)'
  BY <1>6 DEF RejectEnd, NothingBefore, TypeOK, Idle
<1>7. ASSUME NEW r \in Read, BeginRead(r)
      PROVE  NothingBefore(n)'
  BY <1>7 DEF BeginRead, NothingBefore, TypeOK
<1>8. ASSUME NEW r \in Read, ServeFromCache(r)
      PROVE  NothingBefore(n)'
  BY <1>8 DEF ServeFromCache, NothingBefore, TypeOK, Idle
<1>9. ASSUME NEW r \in Read, JoinFlight(r)
      PROVE  NothingBefore(n)'
  <2>1. reads[r] \in Reading
    BY DEF TypeOK
  <2>2. reads'[r].pc = "wait"
    BY <1>9, <2>1 DEF JoinFlight, TypeOK, Reading
  <2>3. QED
    BY <1>9, <2>2 DEF JoinFlight, NothingBefore, TypeOK
<1>10. ASSUME NEW r \in Read, StartFlight(r)
       PROVE  NothingBefore(n)'
  <2>1. reads[r] \in Reading
    BY DEF TypeOK
  <2>2. reads'[r].pc = "wait"
    BY <1>10, <2>1 DEF StartFlight, TypeOK, Reading
  <2>3. flights'[Watched] # None => flights'[Watched].at >= n
    BY <1>10 DEF StartFlight, NothingBefore, TypeOK, readCacheKey
  <2>4. QED
    BY <1>10, <2>2, <2>3 DEF StartFlight, NothingBefore, TypeOK
<1>11. ASSUME NEW k \in Party, Land(k)
       PROVE  NothingBefore(n)'
  <2>1. cache'[Watched] # None => cache'[Watched].at >= n
    BY <1>11 DEF Land, NothingBefore, TypeOK
  <2>2. \A r \in Read : reads'[r] = Idle \/ reads'[r] = reads[r]
    BY <1>11 DEF Land
  <2>3. flights'[Watched] # None => flights'[Watched] = flights[Watched]
    BY <1>11 DEF Land, TypeOK
  <2>4. QED
    BY <1>11, <2>1, <2>2, <2>3 DEF Land, NothingBefore, Idle
<1>12. ASSUME NEW k \in Party, Drop(k) \/ Expire(k)
       PROVE  NothingBefore(n)'
  BY <1>12 DEF Drop, Expire, NothingBefore, TypeOK, Idle
<1>13. CASE UNCHANGED vars
  BY <1>13 DEF vars, NothingBefore
<1>14. QED
  BY <1>1, <1>2, <1>3, <1>4, <1>5, <1>6, <1>7, <1>8, <1>9, <1>10, <1>11, <1>12, <1>13 DEF Next

\* A read that begins is quiet if and only if the last acknowledgement was settled,
\* and one under way keeps what it began with.
LEMMA ReadsKeepTheirStart ==
  ASSUME TypeOK, [Next]_vars, NEW r \in Read, reads'[r].pc # "idle"
  PROVE  \/ reads[r].pc # "idle" /\ reads'[r].since = reads[r].since /\ reads'[r].quiet = reads[r].quiet
         \/ reads'[r].since = acked /\ reads'[r].quiet = settled /\ UNCHANGED <<acked, settled>>
<1> USE ReadPathAssumption, ReadsHaveSeats DEF gatewayVars, historyVars
<1>1. reads[r] \in Reading
  BY DEF TypeOK
<1>2. ASSUME NEW t \in Tab, ResolveEnd(t)
      PROVE  reads[r].pc # "idle" /\ reads'[r].since = reads[r].since /\ reads'[r].quiet = reads[r].quiet
  <2>1. CASE r \in WaitingEnd(t)
    <3>1. reads'[r] = [reads[r] EXCEPT !.pc = "post", !.at = ends[t]]
      BY <1>2, <2>1 DEF ResolveEnd
    <3>2. reads'[r].since = reads[r].since /\ reads'[r].quiet = reads[r].quiet
      BY <3>1, <1>1 DEF Reading
    <3>3. QED
      BY <2>1, <3>2 DEF WaitingEnd
  <2>2. CASE r \notin WaitingEnd(t)
    BY <1>2, <2>2 DEF ResolveEnd
  <2>3. QED
    BY <2>1, <2>2
<1>3. ASSUME NEW q \in Read, BeginRead(q)
      PROVE  \/ reads'[r] = reads[r]
             \/ reads'[r].since = acked /\ reads'[r].quiet = settled /\ UNCHANGED <<acked, settled>>
  BY <1>3 DEF BeginRead, TypeOK
<1>4. ASSUME NEW q \in Read, JoinFlight(q) \/ StartFlight(q)
      PROVE  reads[r].pc # "idle" /\ reads'[r].since = reads[r].since /\ reads'[r].quiet = reads[r].quiet
  <2>1. reads'[r] = reads[r] \/ (q = r /\ reads'[r] = [reads[r] EXCEPT !.pc = "wait"])
    BY <1>4 DEF JoinFlight, StartFlight, TypeOK
  <2>2. q = r => reads[r].pc = "post"
    BY <1>4 DEF JoinFlight, StartFlight
  <2>3. QED
    BY <1>1, <2>1, <2>2 DEF Reading
<1>5. ASSUME NEW q \in Read, ServeFromCache(q)
      PROVE  reads'[r] = reads[r]
  BY <1>5 DEF ServeFromCache, TypeOK, Idle
<1>6. ASSUME NEW t \in Tab, RejectEnd(t)
      PROVE  reads'[r] = reads[r]
  BY <1>6 DEF RejectEnd, Idle
<1>7. ASSUME NEW k \in Party, Land(k) \/ Drop(k) \/ Expire(k)
      PROVE  reads'[r] = reads[r]
  BY <1>7 DEF Land, Drop, Expire, Idle
<1>8. CASE UNCHANGED reads
  BY <1>8
<1>9. QED
  BY <1>2, <1>3, <1>4, <1>5, <1>6, <1>7, <1>8
     DEF Next, vars, BeginAction, CommitCommand, FailAction, AckAction, AnswerEnd

\* No request is under way that no read waits for, after any step.
LEMMA RequestsStep == TypeOK /\ RequestsHaveReaders /\ [Next]_vars => RequestsHaveReaders'
<1> SUFFICES ASSUME TypeOK, RequestsHaveReaders, [Next]_vars
             PROVE  RequestsHaveReaders'
  OBVIOUS
<1> USE ReadPathAssumption, ReadsHaveSeats DEF gatewayVars, historyVars
<1>1. ASSUME NEW t \in Tab, AnswerEnd(t)
      PROVE  RequestsHaveReaders'
  BY <1>1 DEF AnswerEnd, RequestsHaveReaders, WaitingEnd, WaitingFor, TypeOK
<1>2. ASSUME NEW t \in Tab, ResolveEnd(t) \/ RejectEnd(t)
      PROVE  RequestsHaveReaders'
  <2>1. \A r \in Read : r \notin WaitingEnd(t) => reads'[r] = reads[r]
    BY <1>2 DEF ResolveEnd, RejectEnd
  <2>2. \A r \in Read : reads[r].pc = "wait" \/ r[1] # t => r \notin WaitingEnd(t)
    BY DEF WaitingEnd
  <2>3. \A u \in Tab : ends'[u] # None => u # t /\ ends[u] # None
    BY <1>2 DEF ResolveEnd, RejectEnd, TypeOK
  <2>4. UNCHANGED flights
    BY <1>2 DEF ResolveEnd, RejectEnd
  <2>5. QED
    BY <2>1, <2>2, <2>3, <2>4 DEF RequestsHaveReaders, WaitingEnd, WaitingFor
<1>3. ASSUME NEW r \in Read, BeginRead(r)
      PROVE  RequestsHaveReaders'
  <2>1. reads'[r].pc = "end" /\ \A q \in Read : q # r => reads'[q] = reads[q]
    BY <1>3 DEF BeginRead, TypeOK
  <2>2. \A u \in Tab : u # r[1] => ends'[u] = ends[u]
    BY <1>3 DEF BeginRead, TypeOK
  <2>3. reads[r].pc = "idle" /\ UNCHANGED flights
    BY <1>3 DEF BeginRead
  <2>4. QED
    BY <2>1, <2>2, <2>3 DEF RequestsHaveReaders, WaitingEnd, WaitingFor
<1>4. ASSUME NEW r \in Read, ServeFromCache(r)
      PROVE  RequestsHaveReaders'
  <2>1. reads[r].pc = "post" /\ \A q \in Read : q # r => reads'[q] = reads[q]
    BY <1>4 DEF ServeFromCache, TypeOK
  <2>2. QED
    BY <1>4, <2>1 DEF ServeFromCache, RequestsHaveReaders, WaitingEnd, WaitingFor
<1>5. ASSUME NEW r \in Read, JoinFlight(r) \/ StartFlight(r)
      PROVE  RequestsHaveReaders'
  <2>1. reads[r].pc = "post" /\ \A q \in Read : q # r => reads'[q] = reads[q]
    BY <1>5 DEF JoinFlight, StartFlight, TypeOK
  <2>2. reads[r] \in Reading
    BY DEF TypeOK
  <2>3. reads'[r].pc = "wait"
    BY <1>5, <2>2 DEF JoinFlight, StartFlight, TypeOK, Reading
  <2>4. \A p \in Party : p # PartyOf(r) => flights'[p] = flights[p]
    BY <1>5 DEF JoinFlight, StartFlight, readCacheKey, TypeOK
  <2>5. UNCHANGED ends
    BY <1>5 DEF JoinFlight, StartFlight
  <2>6. QED
    BY <2>1, <2>3, <2>4, <2>5 DEF RequestsHaveReaders, WaitingEnd, WaitingFor, readCacheKey
<1>6. ASSUME NEW k \in Party, Land(k) \/ Drop(k)
      PROVE  RequestsHaveReaders'
  <2>1. \A r \in Read : r \notin WaitingFor(k) => reads'[r] = reads[r]
    BY <1>6 DEF Land, Drop
  <2>2. \A p \in Party : flights'[p] # None => p # k /\ flights[p] # None
    BY <1>6 DEF Land, Drop, TypeOK
  <2>3. UNCHANGED ends
    BY <1>6 DEF Land, Drop
  <2>4. QED
    BY <2>1, <2>2, <2>3 DEF RequestsHaveReaders, WaitingEnd, WaitingFor, readCacheKey
<1>7. CASE UNCHANGED <<ends, reads, flights>>
  BY <1>7 DEF RequestsHaveReaders, WaitingEnd, WaitingFor
<1>8. QED
  BY <1>1, <1>2, <1>3, <1>4, <1>5, <1>6, <1>7
     DEF Next, vars, BeginAction, CommitCommand, FailAction, AckAction, Expire

\* The fresh reads, of every step.
LEMMA FreshStep == TypeOK /\ FreshInv /\ [Next]_vars => FreshInv'
<1> SUFFICES ASSUME TypeOK, FreshInv, [Next]_vars
             PROVE  FreshInv'
  OBVIOUS
<1> USE ReadPathAssumption, ReadsHaveSeats DEF gatewayVars, historyVars
<1>1. RequestsHaveReaders'
  BY RequestsStep DEF FreshInv
<1>2. AcknowledgedIsCommitted'
  <2>1. ASSUME NEW t \in Tab, NEW n \in 1..MaxCommands, BeginAction(t, n)
        PROVE  AcknowledgedIsCommitted'
    BY <2>1 DEF BeginAction, AcknowledgedIsCommitted, FreshInv, TypeOK
  <2>2. ASSUME NEW t \in Tab, CommitCommand(t)
        PROVE  AcknowledgedIsCommitted'
    <3>1. actions'[t].upTo = tip + 1 /\ tip' = tip + 1
      BY <2>2 DEF CommitCommand, TypeOK
    <3>2. \A u \in Tab : u # t => actions'[u] = actions[u]
      BY <2>2 DEF CommitCommand, TypeOK
    <3>3. acked' = acked
      BY <2>2 DEF CommitCommand
    <3>4. \A u \in Tab : actions[u] # None => actions[u].upTo \in 0..MaxTip
      BY DEF TypeOK, Action
    <3>5. QED
      BY <3>1, <3>2, <3>3, <3>4 DEF AcknowledgedIsCommitted, FreshInv, TypeOK
  <2>3. ASSUME NEW t \in Tab, FailAction(t)
        PROVE  AcknowledgedIsCommitted'
    BY <2>3 DEF FailAction, AcknowledgedIsCommitted, FreshInv, TypeOK
  <2>4. ASSUME NEW t \in Tab, AckAction(t)
        PROVE  AcknowledgedIsCommitted'
    BY <2>4 DEF AckAction, AcknowledgedIsCommitted, FreshInv, TypeOK
  <2>5. CASE UNCHANGED <<tip, actions, acked>>
    BY <2>5 DEF AcknowledgedIsCommitted, FreshInv
  <2>6. QED
    BY <2>1, <2>2, <2>3, <2>4, <2>5
       DEF Next, vars, AnswerEnd, ResolveEnd, RejectEnd, BeginRead, ServeFromCache,
           JoinFlight, StartFlight, Land, Drop, Expire
<1>3. SettledIsFresh'
  <2>1. ASSUME NEW t \in Tab, AckAction(t)
        PROVE  SettledIsFresh'
    <3>1. acked <= acked' /\ UNCHANGED <<reads, ends, flights>>
      BY <2>1 DEF AckAction, TypeOK, Action
    <3>2. settled' => NothingBefore(acked)'
      <4>1. SUFFICES ASSUME settled'
                     PROVE  NothingBefore(acked)'
        OBVIOUS
      <4>2. \A r \in Read : PartyOf(r) = Watched => reads[r].pc = "idle"
        BY <2>1, <4>1 DEF AckAction
      <4>3. /\ flights[Watched] = None
            /\ \A u \in Tab : SeatOf[u] = Watched => ends[u] = None
            /\ \A r \in Read : PartyOf(r) = Watched => reads[r].pc # "post"
        BY <4>2, NobodyReads DEF FreshInv
      <4>4. cache'[Watched] = None
        BY <2>1 DEF AckAction, bustReadCache
      <4>5. None \notin 0..MaxTip
        OBVIOUS
      <4>6. QED
        BY <3>1, <4>3, <4>4, <4>5 DEF NothingBefore
    <3>3. ASSUME NEW r \in Read, PartyOf(r) = Watched, reads'[r].pc # "idle", reads'[r].quiet
          PROVE  (reads[r].since <= acked /\ NothingBefore(reads[r].since))'
      <4>1. reads[r].since <= acked /\ NothingBefore(reads[r].since)
        BY <3>1, <3>3 DEF FreshInv, SettledIsFresh
      <4>2. reads[r].since \in Nat /\ acked \in Nat /\ acked' \in Nat
        BY <2>1 DEF TypeOK, Reading, AckAction, Action
      <4>3. NothingBefore(reads[r].since)'
        BY <3>1, <2>1, <4>1 DEF NothingBefore, AckAction, bustReadCache
      <4>4. QED
        BY <3>1, <4>1, <4>2, <4>3
    <3>4. QED
      BY <3>2, <3>3 DEF SettledIsFresh
  <2>2. CASE UNCHANGED <<acked, settled>>
    <3>1. ASSUME NEW n \in Nat, n <= acked, NothingBefore(n)
          PROVE  NothingBefore(n)'
      BY <3>1, FloorStep DEF FreshInv
    <3>2. settled => NothingBefore(acked)'
      <4>1. PICK n \in Nat : n = acked
        BY DEF TypeOK
      <4>2. settled => NothingBefore(n)
        BY <4>1 DEF FreshInv, SettledIsFresh, NothingBefore
      <4>3. settled => NothingBefore(n)'
        BY <3>1, <4>1, <4>2
      <4>4. QED
        BY <2>2, <4>1, <4>3 DEF NothingBefore
    <3>3. ASSUME NEW r \in Read, PartyOf(r) = Watched, reads'[r].pc # "idle", reads'[r].quiet
          PROVE  (reads[r].since <= acked /\ NothingBefore(reads[r].since))'
      <4>1. CASE reads[r].pc # "idle" /\ reads'[r].since = reads[r].since /\ reads'[r].quiet = reads[r].quiet
        <5>1. PICK n \in Nat : n = reads[r].since
          BY DEF TypeOK, Reading
        <5>2. n <= acked /\ NothingBefore(n)
          BY <3>3, <4>1, <5>1 DEF FreshInv, SettledIsFresh, NothingBefore
        <5>3. NothingBefore(n)'
          BY <3>1, <5>2
        <5>4. QED
          BY <2>2, <4>1, <5>1, <5>2, <5>3 DEF NothingBefore
      <4>2. CASE reads'[r].since = acked /\ reads'[r].quiet = settled
        <5>1. acked <= acked
          BY DEF TypeOK
        <5>2. QED
          BY <2>2, <3>2, <3>3, <4>2, <5>1 DEF NothingBefore
      <4>3. QED
        BY <3>3, <4>1, <4>2, ReadsKeepTheirStart
    <3>4. QED
      BY <2>2, <3>2, <3>3 DEF SettledIsFresh
  <2>3. QED
    BY <2>1, <2>2
       DEF Next, vars, BeginAction, CommitCommand, FailAction, AnswerEnd, ResolveEnd, RejectEnd,
           BeginRead, ServeFromCache, JoinFlight, StartFlight, Land, Drop, Expire
<1>4. FreshWhenSettled'
  <2>1. ASSUME NEW r \in Read, ServeFromCache(r)
        PROVE  FreshWhenSettled'
    <3>1. CASE PartyOf(r) # Watched
      BY <2>1, <3>1 DEF ServeFromCache, Completed, FreshWhenSettled, FreshInv
    <3>2. CASE PartyOf(r) = Watched
      BY <2>1, <3>2 DEF ServeFromCache, Completed, readCacheKey, FreshWhenSettled, FreshInv,
                        SettledIsFresh, NothingBefore
    <3>3. QED
      BY <3>1, <3>2
  <2>2. ASSUME NEW k \in Party, Land(k)
        PROVE  FreshWhenSettled'
    <3>1. PICK r \in WaitingFor(k) : last' = Completed(r, flights[k])
      BY <2>2 DEF Land
    <3>2. r \in Read /\ PartyOf(r) = k /\ reads[r].pc = "wait" /\ flights[k] # None
      BY <2>2, <3>1 DEF Land, WaitingFor, readCacheKey
    <3>3. CASE PartyOf(r) # Watched
      BY <3>1, <3>3 DEF Completed, FreshWhenSettled, FreshInv
    <3>4. CASE PartyOf(r) = Watched
      BY <3>1, <3>2, <3>4 DEF Completed, FreshWhenSettled, FreshInv, SettledIsFresh, NothingBefore
    <3>5. QED
      BY <3>3, <3>4
  <2>3. CASE UNCHANGED last
    BY <2>3 DEF FreshWhenSettled, FreshInv
  <2>4. QED
    BY <2>1, <2>2, <2>3
       DEF Next, vars, BeginAction, CommitCommand, FailAction, AckAction, AnswerEnd, ResolveEnd,
           RejectEnd, BeginRead, JoinFlight, StartFlight, Drop, Expire
<1>5. QED
  BY <1>1, <1>2, <1>3, <1>4 DEF FreshInv

\* A read that begins after an acknowledged write, of anybody, returns it, unless reads
\* of its party were under way at the last acknowledgement (FreshWhenSettled): an
\* acknowledgement clears every snapshot (bustReadCache in app.ts), and with nobody
\* reading there is neither a flight nor a ledger-end request to bring one back.
THEOREM ReadsAreFresh == Spec => []FreshWhenSettled
<1>1. Init => FreshInv
  BY ReadPathAssumption
     DEF Init, FreshInv, RequestsHaveReaders, AcknowledgedIsCommitted, SettledIsFresh, NothingBefore,
         FreshWhenSettled, Idle
<1>2. FreshInv => FreshWhenSettled
  BY DEF FreshInv
<1>3. QED
  BY <1>1, <1>2, FreshStep, ReadTypeCorrect, PTL DEF Spec
=============================================================================
